---------------------------------- MODULE GenKat ----------------------------------
(* The generator of the known answers (genKAT.c): genKAT_main calls one generator    *)
(* after the other; each reads an input file, looking for its markers, and writes a  *)
(* file of answers of its own.  A file is the sequence of its marked values, and may *)
(* end anywhere.  What is hashed is a term.                                          *)
EXTENDS Integers, Sequences, FiniteSetsExt, SequencesExt

CONSTANTS
    HashBitLens,        \* the fixed output lengths, in the order of bitlens
    MDBytes(_),         \* bytes of the hash of each, hashbitlen / 8
    Inputs,             \* what each input file may contain
    SeedBytes, Turns, Lines,    \* 128, 1000 and 100
    DuplexRhoMax(_),    \* rate - 2
    Unaligned(_, _)     \* an input of that length: bits are set behind its last

Generators == {"ShortMsgKAT", "LongMsgKAT", "MonteCarlo", "DuplexKAT"}

(* An input file: its header comes first, and a message that is not empty follows    *)
(* its length, unless the file ends there.                                           *)
MarkerOf(gen) == IF gen = "DuplexKAT" THEN "InLen = " ELSE "Len = "
ValueOf(gen) == IF gen = "DuplexKAT" THEN "In = " ELSE "Msg = "
InputFile(gen, contents) ==
    /\ contents \in Seq([marker : STRING, value : Nat])
    /\ \A p \in DOMAIN contents :
         /\ contents[p].marker = MarkerOf(gen) /\ p < Len(contents) /\ contents[p].value # 0
            => contents[p + 1].marker = ValueOf(gen)
         /\ gen # "DuplexKAT" =>
              /\ contents[p].marker = "# Principal Submitter:" => p = 2
              /\ contents[p].marker = MarkerOf(gen) => p > 2

ASSUME KatAssumption ==
    /\ SeedBytes \in Nat \ {0} /\ Turns \in Nat \ {0} /\ Lines \in Nat \ {0}
    /\ HashBitLens \in Seq(Nat \ {0, 1344})
    /\ \A k, l \in DOMAIN HashBitLens : HashBitLens[k] = HashBitLens[l] => k = l
    /\ \A k \in DOMAIN HashBitLens : MDBytes(HashBitLens[k]) \in 1 .. SeedBytes
    /\ DOMAIN Inputs = Generators
    /\ \A gen \in Generators : \A contents \in Inputs[gen] : InputFile(gen, contents)

VARIABLES
    file,               \* the input files
    call,               \* genKAT_main: which call of the script is being made
    kat_pc, ret_val,
    at,                 \* how far its input is read
    duplexed,           \* the duplex object: the inputs it has taken
    Out,                \* its last output: the inputs it is of, none while the array
                        \* holds what was on the stack
    Msg, turn,          \* Monte Carlo: the message, and the turns of its loops
    written             \* the files of answers

katVars == <<file, call, kat_pc, ret_val, at, duplexed, Out, Msg, turn, written>>

(* genKAT_main: the results of the last three calls are not looked at.               *)
Call(gen, of, checked) == [gen |-> gen, of |-> of, checked |-> checked]
Script ==
    LET n == 3 * (Len(HashBitLens) + 1) IN
    [k \in 1 .. n + 3 |->
       IF k > n
       THEN <<Call("ShortMsgKAT", 1344, FALSE), Call("DuplexKAT", 1026, FALSE),
              Call("DuplexKAT", 1027, FALSE)>>[k - n]
       ELSE Call(<<"ShortMsgKAT", "LongMsgKAT", "MonteCarlo">>[((k - 1) % 3) + 1],
                 IF k <= 3 THEN 0 ELSE HashBitLens[(k - 1) \div 3], TRUE)]
Current == Script[call]
Name(c) == <<c.gen, c.of>>
Input == file[Current.gen]

KatInit ==
    /\ \E contents \in [DOMAIN Inputs -> UNION {Inputs[f] : f \in DOMAIN Inputs}] :
         (\A f \in DOMAIN Inputs : contents[f] \in Inputs[f]) /\ file = contents
    /\ call = 1 /\ kat_pc = "open" /\ ret_val = 0
    /\ at = 1 /\ duplexed = <<>> /\ Out = <<>> /\ Msg = <<>> /\ turn = 0
    /\ written = [n \in {} |-> <<>>]
-----------------------------------------------------------------------------------
(* A generator returns; genKAT_main goes on, or returns.                             *)
Stops_Never(value) == FALSE         \* mutant: no result is looked at
Stops(value) == value # 0 /\ Current.checked

Returns(value) ==
    /\ ret_val' = IF Stops(value) THEN value ELSE 0
    /\ IF Stops(value) \/ call = Len(Script)
       THEN kat_pc' = "returned" /\ UNCHANGED call
       ELSE kat_pc' = "open" /\ call' = call + 1

Written(entry) ==
    [written EXCEPT ![Name(Current)] = Append(@, entry)]

(* The first marker from where the file is read, and what follows it.                *)
FindMarker(from, marker) ==
    LET found == {p \in from .. Len(Input) : Input[p].marker = marker}
    IN  IF found = {} THEN [found |-> FALSE, at |-> Len(Input) + 1, value |-> 0]
        ELSE [found |-> TRUE, at |-> Min(found) + 1, value |-> Input[Min(found)].value]

(* Nothing is read if nothing is expected.                                           *)
ReadHex(from, length, marker) ==
    IF length = 0 THEN [found |-> TRUE, at |-> from, value |-> 0]
    ELSE FindMarker(from, marker)

(* Both files are opened; that for the answers is emptied.                           *)
Open ==
    /\ kat_pc = "open"
    /\ written' = [n \in DOMAIN written \cup {Name(Current)} |->
                     IF n = Name(Current) THEN <<>> ELSE written[n]]
    /\ kat_pc' = IF Current.gen = "DuplexKAT" THEN "records" ELSE "header"
    /\ at' = 1 /\ duplexed' = <<>> /\ Out' = <<>>
    /\ UNCHANGED <<file, call, ret_val, Msg, turn>>

OpenFails ==
    /\ kat_pc = "open" /\ Returns(1)
    /\ UNCHANGED <<file, at, duplexed, Out, Msg, turn, written>>

Header ==
    LET name == FindMarker(at, "# Algorithm Name:")
        submitter == FindMarker(name.at, "# Principal Submitter:")
    IN
    /\ kat_pc = "header"
    /\ IF submitter.found
       THEN /\ kat_pc' = IF Current.gen = "MonteCarlo" THEN "seed" ELSE "records"
            /\ at' = submitter.at /\ UNCHANGED <<ret_val, call>>
       ELSE Returns(2) /\ UNCHANGED at
    /\ UNCHANGED <<file, duplexed, Out, Msg, turn, written>>
-----------------------------------------------------------------------------------
(* A record of messages: the sponge takes the message with its last partial byte     *)
(* shifted; the file shows it as it was read.                                        *)
Shifted(length, value) == [length |-> length, value |-> value, shifted |-> length % 8 # 0]
AsRead(length, value) == [length |-> length, value |-> value, shifted |-> FALSE]

MessageRecord ==
    LET length == FindMarker(at, "Len = ")
        msg == ReadHex(length.at, length.value, "Msg = ")
    IN
    /\ kat_pc = "records"
    /\ IF ~ length.found
       THEN Returns(0) /\ UNCHANGED <<at, written>>
       ELSE IF ~ msg.found
            THEN Returns(3) /\ UNCHANGED <<at, written>>
            ELSE /\ at' = msg.at
                 /\ written' = Written([msg |-> AsRead(length.value, msg.value),
                                        hashed |-> Shifted(length.value, msg.value)])
                 /\ UNCHANGED <<kat_pc, ret_val, call>>
    /\ UNCHANGED <<file, duplexed, Out, Msg, turn>>

(* Duplexing takes an input unless bits are set behind its end, in the last byte.    *)
Refuses(in) == in.length % 8 # 0 /\ Unaligned(in.length, in.value)

Duplexes_Late(in) ==        \* mutant: the input is taken before it is looked at
    /\ duplexed' = Append(duplexed, in)
    /\ Out' = IF Refuses(in) THEN Out ELSE duplexed'
Duplexes(in) ==
    IF Refuses(in) THEN UNCHANGED <<duplexed, Out>>
    ELSE duplexed' = Append(duplexed, in) /\ Out' = duplexed'

(* A record of inputs: one that is too long for the rate is left out.  Whether       *)
(* Duplexing took the input is not looked at: the output array is written as it is.  *)
DuplexRecord ==
    LET length == FindMarker(at, "InLen = ")
        in == ReadHex(length.at, length.value, "In = ")
    IN
    /\ kat_pc = "records"
    /\ IF ~ length.found
       THEN Returns(0) /\ UNCHANGED <<at, duplexed, Out, written>>
       ELSE IF ~ in.found
            THEN Returns(3) /\ UNCHANGED <<at, duplexed, Out, written>>
            ELSE /\ at' = in.at
                 /\ IF length.value <= DuplexRhoMax(Current.of)
                    THEN /\ Duplexes(AsRead(length.value, in.value))
                         /\ written' = Written([in |-> AsRead(length.value, in.value),
                                                hashed |-> Out'])
                    ELSE UNCHANGED <<duplexed, Out, written>>
                 /\ UNCHANGED <<kat_pc, ret_val, call>>
    /\ UNCHANGED <<file, Msg, turn>>
-----------------------------------------------------------------------------------
(* A byte of the seed, or of the hash of a turn.                                     *)
Byte(k, b) == <<k, b>>
Seed == [b \in 1 .. SeedBytes |-> Byte(0, b)]

MonteCarloSeed ==
    LET seed == ReadHex(at, SeedBytes, "Seed = ") IN
    /\ kat_pc = "seed"
    /\ IF seed.found
       THEN /\ Msg' = Seed
            /\ turn' = 0 /\ kat_pc' = "turns" /\ at' = seed.at
            /\ UNCHANGED <<ret_val, call>>
       ELSE Returns(3) /\ UNCHANGED <<at, Msg, turn>>
    /\ UNCHANGED <<file, duplexed, Out, written>>

(* The hash goes in front of the message, which loses as many bytes at its end.      *)
NextMsg_InPlace(n, k) ==        \* mutant: no Temp, the hash is written before it is read
    [b \in 1 .. SeedBytes |-> Byte(k, ((b - 1) % n) + 1)]
NextMsg(n, k) ==
    [b \in 1 .. SeedBytes |-> IF b <= n THEN Byte(k, b) ELSE Msg[b - n]]

(* A turn of the two loops; a line is written after each Turns of them.              *)
MonteCarloTurn(next) ==
    /\ kat_pc = "turns" /\ turn < Turns * Lines
    /\ turn' = turn + 1
    /\ Msg' = next
    /\ written' = IF turn' % Turns = 0
                  THEN Written([md |-> turn', hashed |-> Msg]) ELSE written
    /\ UNCHANGED <<file, call, kat_pc, ret_val, at, duplexed, Out>>

MonteCarloReturns ==
    /\ kat_pc = "turns" /\ turn = Turns * Lines /\ Returns(0)
    /\ UNCHANGED <<file, at, duplexed, Out, Msg, turn, written>>

-----------------------------------------------------------------------------------
(* The generators.  The sponge one has a rate of its own for the lengths 0 and 1344; *)
(* the squeezing one takes the output of the seed, block after block.                *)
genShortMsg ==
    /\ Current.gen = "ShortMsgKAT" /\ Current.of \in ToSet(HashBitLens)
    /\ Open \/ OpenFails \/ Header \/ MessageRecord

genShortMsgSponge ==
    /\ Current.gen = "ShortMsgKAT" /\ Current.of \notin ToSet(HashBitLens)
    /\ Open \/ OpenFails \/ Header \/ MessageRecord

genLongMsg ==
    /\ Current.gen = "LongMsgKAT"
    /\ Open \/ OpenFails \/ Header \/ MessageRecord

genMonteCarlo ==
    /\ Current.gen = "MonteCarlo" /\ Current.of # 0
    /\ \/ Open \/ OpenFails \/ Header \/ MonteCarloSeed
       \/ MonteCarloTurn(NextMsg(MDBytes(Current.of), turn + 1))
       \/ MonteCarloReturns

genMonteCarloSqueezing ==
    /\ Current.gen = "MonteCarlo" /\ Current.of = 0
    /\ \/ Open \/ OpenFails \/ Header \/ MonteCarloSeed
       \/ MonteCarloTurn(Msg)
       \/ MonteCarloReturns

genDuplexKAT ==
    /\ Current.gen = "DuplexKAT"
    /\ Open \/ OpenFails \/ DuplexRecord

KatNext ==
    \/ genShortMsg \/ genShortMsgSponge \/ genLongMsg
    \/ genMonteCarlo \/ genMonteCarloSqueezing \/ genDuplexKAT
KatSpec == KatInit /\ [][KatNext]_katVars
-----------------------------------------------------------------------------------
(* The answers a file should hold: one for each complete record of the input, in its *)
(* order (an empty message needs no line of its own); for the duplex object the      *)
(* output after the last input up to there that it takes; and for the Monte Carlo    *)
(* tests the chain in which each message is the last hashes, the latest first, and   *)
(* what is left of the seed.                                                         *)
Records(contents, c) ==
    {p \in DOMAIN contents :
       /\ contents[p].marker = MarkerOf(c.gen)
       /\ p < Len(contents) \/ contents[p].value = 0
       /\ c.gen = "DuplexKAT" => contents[p].value <= DuplexRhoMax(c.of)}
InOrder(S) ==
    [k \in 1 .. Cardinality(S) |-> CHOOSE p \in S : Cardinality({q \in S : q <= p}) = k]
ReadAt(contents, p) ==
    AsRead(contents[p].value, IF contents[p].value = 0 THEN 0 ELSE contents[p + 1].value)
ReadOf(contents, S) ==
    [k \in 1 .. Cardinality(S) |-> ReadAt(contents, InOrder(S)[k])]
Read(contents, c) == ReadOf(contents, Records(contents, c))
Taken(contents, c) == {p \in Records(contents, c) : ~ Refuses(ReadAt(contents, p))}
TakenUpTo(contents, c, p) == {q \in Taken(contents, c) : q <= p}
Chain(n, k) ==      \* the message of turn k
    [b \in 1 .. SeedBytes |->
       IF (b - 1) \div n < k - 1
       THEN Byte(k - 1 - ((b - 1) \div n), ((b - 1) % n) + 1)
       ELSE Byte(0, b - n * (k - 1))]

AnswersTo(contents, c) ==
    LET read == Read(contents, c) IN
    CASE c.gen \in {"ShortMsgKAT", "LongMsgKAT"} ->
           [k \in 1 .. Len(read) |->
              [msg |-> read[k], hashed |-> Shifted(read[k].length, read[k].value)]]
      [] c.gen = "DuplexKAT" ->
           [k \in 1 .. Len(read) |->
              [in |-> read[k],
               hashed |-> ReadOf(contents,
                            TakenUpTo(contents, c, InOrder(Records(contents, c))[k]))]]
      [] c.gen = "MonteCarlo" ->
           [k \in 1 .. Lines |->
              [md |-> k * Turns,
               hashed |-> IF c.of = 0 THEN Seed ELSE Chain(MDBytes(c.of), k * Turns)]]
Answers(c) == AnswersTo(file[c.gen], c)

(* Every file, also of a run that fails, begins as it should: no answer is of        *)
(* another record, of another algorithm or of what the call before left behind.  For *)
(* an input that Duplexing refuses, which genDuplexKAT does not notice, that is no   *)
(* right answer: its line repeats the output before it in the same file (or what was *)
(* on the stack, if there is none), and the outputs after it are as if it were not   *)
(* in the file.                                                                      *)
AnswersMatch ==
    \A k \in 1 .. call :
        Name(Script[k]) \in DOMAIN written =>
            IsPrefix(written[Name(Script[k])], Answers(Script[k]))

(* A generator that reports success has written all of its answers, and no later     *)
(* call takes them away: so after a success of genKAT_main all the files are         *)
(* complete whose generators' results it looks at.                                   *)
SuccessMeansComplete ==
    \A k \in 1 .. Len(Script) :
        (Script[k].checked /\ (k < call \/ (kat_pc = "returned" /\ ret_val = 0))) =>
            /\ Name(Script[k]) \in DOMAIN written
            /\ written[Name(Script[k])] = Answers(Script[k])
===================================================================================
