-------------------------------- MODULE RefSponge --------------------------------
(* The reference sponge, whose output the hardware test vectors record:            *)
(* KeccakSponge.c, which takes a message bit by bit through a queue of one block,  *)
(* and the calls of KeccakNISTInterface.c on top of it.  A turn of a loop is a     *)
(* step; the permutation is free: a state is the list of the blocks absorbed.      *)
EXTENDS RefBits, Sequences, SequencesExt

CONSTANTS
    HashRates,      \* the rate of each hashbitlen that Init knows
    Chunks,         \* lengths, in bits, that the caller gives and asks for
    MaxInput, MaxOutput     \* bounds on what it gives and takes altogether

ASSUME SpongeAssumption ==
    /\ \A h \in DOMAIN HashRates :
         h \in Nat /\ HashRates[h] \in Nat \ {0} /\ HashRates[h] % ByteBits = 0
    /\ Chunks \subseteq Nat

(* A bit is the number of a message bit, a constant, what the caller's unused bits *)
(* hold, or an output of the permutation.                                          *)
Message(n) == <<"message", n>>
Zero == <<"constant", 0>>
One == <<"constant", 1>>
Unused == <<"unused">>
Output(blockCount, n, b) == <<"output", blockCount, n, b>>

VARIABLES
    rate, blocks, squeezed,     \* spongeState: state, as blocks and permutations after
    queue, bitsInQueue, fixedOutputLength, squeezing, bitsAvailable,
    pc, i, length, data,        \* the call being executed and its loop
    lastByte,                   \* Update's partial byte, still to be absorbed
    result                      \* what the last call returned

(* History variables: message bits accepted since Init, and bits squeezed.         *)
VARIABLES input, output

spongeVars == <<rate, blocks, squeezed, queue, bitsInQueue, fixedOutputLength,
            squeezing, bitsAvailable>>
callVars == <<pc, i, length, data, lastByte, result>>
refVars == <<spongeVars, callVars, input, output>>

Fill(bits, n) == [b \in 0 .. n - 1 |-> bits]
----------------------------------------------------------------------------------
InitSponge(r) ==
    /\ rate' = r
    /\ blocks' = <<>> /\ squeezed' = 0
    /\ queue' = Fill(Zero, r) /\ bitsInQueue' = 0
    /\ squeezing' = FALSE /\ bitsAvailable' = 0

(* KeccakNISTInterface.c's Init, on an object in any state.                        *)
CallInit(h) ==
    /\ pc = "idle"
    /\ InitSponge(HashRates[h])
    /\ fixedOutputLength' = h
    /\ result' = 0
    /\ input' = 0 /\ output' = <<>>
    /\ UNCHANGED <<pc, i, length, data, lastByte>>

RefInit == \E h \in DOMAIN HashRates :
    /\ rate = HashRates[h] /\ fixedOutputLength = h
    /\ blocks = <<>> /\ squeezed = 0
    /\ queue = Fill(Zero, rate) /\ bitsInQueue = 0
    /\ squeezing = FALSE /\ bitsAvailable = 0
    /\ pc = "idle" /\ i = 0 /\ length = 0 /\ data = <<>> /\ lastByte = <<>>
    /\ result = 0 /\ input = 0 /\ output = <<>>
----------------------------------------------------------------------------------
(* Absorb, called with n bits: refused, or its loop entered.                       *)
Refused_OnlyUnaligned == bitsInQueue % ByteBits # 0     \* mutant: the phase not asked
Refused == bitsInQueue % ByteBits # 0 \/ squeezing

Absorb(d, n, rest) ==
    IF Refused
    THEN /\ pc' = "idle" /\ result' = 1
         /\ UNCHANGED <<i, length, data, lastByte, input>>
    ELSE /\ pc' = "absorb" /\ i' = 0 /\ length' = n /\ data' = d /\ lastByte' = rest
         /\ input' = input + n
         /\ UNCHANGED result

(* n message bits in bytes, those of the last byte from the least significant bit  *)
(* up, the caller's convention for Absorb.                                         *)
FromLsb(n) == [b \in 1 .. InBytes(n) |-> IF b <= n THEN Message(input + b - 1) ELSE Unused]

CallAbsorb(n) ==
    /\ pc = "idle" /\ input + n <= MaxInput
    /\ Absorb(FromLsb(n), n, <<>>)
    /\ UNCHANGED <<spongeVars, output>>

(* Update: the last byte is aligned on its most significant bit, and is shifted.   *)
FromMsb(n) ==
    LET whole == n - (n % ByteBits)   unused == InBytes(n) - n IN
    [b \in 1 .. InBytes(n) |->
        CASE b <= whole -> Message(input + b - 1)
          [] b > whole /\ b <= whole + unused -> Unused
          [] OTHER -> Message(input + b - 1 - unused)]
Aligned(d, n) ==
    LET last == SubSeq(d, n - (n % ByteBits) + 1, Len(d))
        shift == ByteBits - (n % ByteBits)
    IN [b \in 1 .. Len(last) |-> IF b + shift <= Len(last) THEN last[b + shift] ELSE Zero]

CallUpdate(n) ==
    LET d == FromMsb(n)   r == n % ByteBits IN
    /\ pc = "idle" /\ input + n <= MaxInput
    /\ Absorb(SubSeq(d, 1, n - r), n - r, IF r = 0 THEN <<>> ELSE SubSeq(Aligned(d, n), 1, r))
    /\ UNCHANGED <<spongeVars, output>>

(* Whole blocks straight from the caller's data, while the queue is empty.         *)
HasBlock_NoQueue == length >= rate /\ i <= length - rate    \* mutant: queue not asked
HasBlock == bitsInQueue = 0 /\ length >= rate /\ i <= length - rate

AbsorbBlocks ==
    LET n == (length - i) \div rate IN
    /\ pc = "absorb" /\ i < length /\ HasBlock
    /\ blocks' = blocks \o [j \in 1 .. n |->
                              [b \in 0 .. rate - 1 |-> data[i + (j - 1) * rate + b + 1]]]
    /\ i' = i + n * rate
    /\ UNCHANGED <<rate, squeezed, queue, bitsInQueue, fixedOutputLength, squeezing,
                   bitsAvailable, pc, length, data, lastByte, result, input, output>>

(* AbsorbQueue: the queue is xored into the state, and the state permuted.         *)
AbsorbQueue(bits) == Append(blocks, bits)

(* Into the queue, which is absorbed when it is full; then the bits of a last      *)
(* partial byte, masked.                                                           *)
AbsorbPart ==
    LET room == rate - bitsInQueue
        part == IF length - i > room THEN room ELSE length - i
        partialByte == part % ByteBits
        whole == part - partialByte
        copied == [b \in 0 .. rate - 1 |->
                     IF b \in bitsInQueue .. bitsInQueue + whole - 1
                     THEN data[i + b - bitsInQueue + 1] ELSE queue[b]]
        full == bitsInQueue + whole = rate
        at == IF full THEN 0 ELSE bitsInQueue + whole
    IN
    /\ pc = "absorb" /\ i < length /\ ~ HasBlock
    /\ blocks' = IF full THEN AbsorbQueue(copied) ELSE blocks
    /\ queue' = IF partialByte = 0 THEN copied
                ELSE [b \in 0 .. rate - 1 |->
                        CASE b \in at .. at + partialByte - 1 -> data[i + whole + b - at + 1]
                          [] b \in at + partialByte .. at + ByteBits - 1 -> Zero
                          [] OTHER -> copied[b]]
    /\ bitsInQueue' = at + partialByte
    /\ i' = i + part
    /\ UNCHANGED <<rate, squeezed, fixedOutputLength, squeezing, bitsAvailable, pc,
                   length, data, lastByte, result, input, output>>

(* The loop's end: Absorb returns, or Update absorbs its last byte.                *)
AbsorbReturns ==
    /\ pc = "absorb" /\ i >= length
    /\ IF lastByte # <<>>
       THEN Absorb(lastByte, Len(lastByte), <<>>)
       ELSE pc' = "idle" /\ result' = 0 /\ UNCHANGED <<i, length, data, lastByte, input>>
    /\ UNCHANGED <<spongeVars, output>>
----------------------------------------------------------------------------------
(* PadAndSwitchToSqueezingPhase.  A bit that 1 is or'ed into is 1.                 *)
PadsTwoBlocks_Never == FALSE            \* mutant: the block is never too short
PadsTwoBlocks == bitsInQueue + 1 = rate

PaddedBlocks ==
    LET started == [queue EXCEPT ![bitsInQueue] = One]
        cleared == [b \in 0 .. rate - 1 |-> IF b >= InBytes(bitsInQueue) THEN Zero ELSE queue[b]]
    IN IF PadsTwoBlocks
       THEN <<started, [Fill(Zero, rate) EXCEPT ![rate - 1] = One]>>
       ELSE <<[cleared EXCEPT ![bitsInQueue] = One, ![rate - 1] = One]>>

Extract(absorbed, n) ==
    [b \in 0 .. rate - 1 |-> Output(Len(absorbed), n, b)]

PadAndSwitchToSqueezingPhase ==
    /\ blocks' = blocks \o PaddedBlocks
    /\ bitsInQueue' = 0
    /\ queue' = Extract(blocks', squeezed)
    /\ bitsAvailable' = rate
    /\ squeezing' = TRUE

(* Squeeze: the phase is switched before the length is looked at.                  *)
Squeeze(n) ==
    /\ IF squeezing
       THEN UNCHANGED <<blocks, queue, bitsInQueue, squeezing, bitsAvailable>>
       ELSE PadAndSwitchToSqueezingPhase
    /\ IF n % ByteBits # 0
       THEN result' = 1 /\ UNCHANGED <<pc, i, length>>
       ELSE pc' = "squeeze" /\ i' = 0 /\ length' = n /\ UNCHANGED result
    /\ UNCHANGED <<rate, squeezed, fixedOutputLength, data, lastByte, input, output>>

CallSqueeze(n) == pc = "idle" /\ Len(output) + n <= MaxOutput /\ Squeeze(n)
CallFinal ==
    /\ pc = "idle" /\ Len(output) + fixedOutputLength <= MaxOutput
    /\ Squeeze(fixedOutputLength)

FirstAvailable_Start(available) == 0        \* mutant: each part from the block's start
FirstAvailable(available) == rate - available

SqueezePart ==
    LET next == bitsAvailable = 0
        n == IF next THEN squeezed + 1 ELSE squeezed
        block == IF next THEN Extract(blocks, n) ELSE queue
        available == IF next THEN rate ELSE bitsAvailable
        part == IF available > length - i THEN length - i ELSE available
    IN
    /\ pc = "squeeze" /\ i < length
    /\ squeezed' = n /\ queue' = block
    /\ output' = output \o [b \in 1 .. part |-> block[FirstAvailable(available) + b - 1]]
    /\ bitsAvailable' = available - part
    /\ i' = i + part
    /\ UNCHANGED <<rate, blocks, bitsInQueue, fixedOutputLength, squeezing, pc, length,
                   data, lastByte, result, input>>

SqueezeReturns ==
    /\ pc = "squeeze" /\ i >= length
    /\ pc' = "idle" /\ result' = 0
    /\ UNCHANGED <<spongeVars, i, length, data, lastByte, input, output>>
----------------------------------------------------------------------------------
RefNext ==
    \/ \E h \in DOMAIN HashRates : CallInit(h)
    \/ \E n \in Chunks : CallAbsorb(n) \/ CallUpdate(n) \/ CallSqueeze(n)
    \/ CallFinal
    \/ AbsorbBlocks \/ AbsorbPart \/ AbsorbReturns
    \/ SqueezePart \/ SqueezeReturns

RefSpec == RefInit /\ [][RefNext]_refVars
----------------------------------------------------------------------------------
(* Between calls, the blocks and the queue hold the message bits that were         *)
(* accepted, each once and in order, and the queue has room for another bit.       *)
AbsorbsInput ==
    pc = "idle" /\ ~ squeezing =>
        /\ bitsInQueue < rate
        /\ input = Len(blocks) * rate + bitsInQueue
        /\ \A k \in 1 .. Len(blocks) : \A b \in 0 .. rate - 1 :
             blocks[k][b] = Message((k - 1) * rate + b)
        /\ \A b \in 0 .. bitsInQueue - 1 : queue[b] = Message(Len(blocks) * rate + b)

(* What is squeezed is of the message with the padding 1 0* 1 up to a whole block, *)
(* however the message was cut and whatever the caller's unused bits hold.         *)
PaddedBit(n, b) ==
    CASE b < n -> Message(b)
      [] b = n -> One
      [] b > n /\ b % rate = rate - 1 -> One
      [] OTHER -> Zero
PadsInput ==
    squeezing =>
        /\ Len(blocks) = (input + 1) \div rate + 1
        /\ \A k \in 1 .. Len(blocks) : \A b \in 0 .. rate - 1 :
             blocks[k][b] = PaddedBit(input, (k - 1) * rate + b)

(* The calls return the stream of the padded message without a gap, a repetition   *)
(* or an end.                                                                      *)
OutputIsStream ==
    \A k \in 1 .. Len(output) :
        output[k] = Output(Len(blocks), (k - 1) \div rate, (k - 1) % rate)

(* Until Init, no call adds to a message that output was taken from, nor takes     *)
(* output back, not even one that is refused.                                      *)
InitCalled == output' = <<>> /\ input' = 0 /\ ~ squeezing'
SqueezingIsFinal ==
    [][squeezing => InitCalled \/ (squeezing' /\ UNCHANGED <<blocks, input>>
                                   /\ IsPrefix(output, output'))]_refVars
==================================================================================
