---------------------------------- MODULE QPrintf ----------------------------------
(* qprintf.c on top of uart.c: a program prints with printf or puts, and then waits  *)
(* for the UART, as the start-up code does once main has returned.  Characters are   *)
(* their codes.  A step of the program is one directive of the format, one digit of  *)
(* a number, or one character given to putchar.                                      *)
EXTENDS ApbUart, Word32, SequencesExt, FiniteSets

CONSTANTS
    Calls,              \* what may be printed: [function, format, args]
    clk_counter         \* the divisor that uart_set_cfg is given

VARIABLES
    pc,                 \* where the program is
    format, va,         \* the format and the arguments not read yet
    conv, width, zero, right,   \* the conversion, its width and its pad flags
    u, s,               \* qprinti: what is left of the number, and its digits
    todo,               \* what qprints has still to print
    count               \* the characters printed: the result of qprint

VARIABLES start         \* (history) how much was sent when the conversion began

pad == <<zero, right>>
printVars == <<pc, format, va, conv, width, pad, u, s, todo, count, start>>
vars == <<uartVars, printVars>>

NULL == <<0>>           \* the null pointer, among strings
Null == <<40, 110, 117, 108, 108, 41>>          \* "(null)"
Text == 0               \* in place of a conversion, for a character of the format
Percent == 37
Letters == [d |-> 100, u |-> 117, x |-> 120, X |-> 88, c |-> 99, s |-> 115]
Numbers == {Letters.d, Letters.u, Letters.x, Letters.X}
Takers == Numbers \union {Letters.c, Letters.s}        \* of an argument
------------------------------------------------------------------------------------
(* Quotient and remainder by 10 without a division.                                  *)
remu10_table == <<0, 1, 2, 2, 3, 3, 4, 5, 5, 6, 7, 7, 8, 8, 9, 0>>
Estimate[n \in Words] ==
    LET q1 == Plus[ShiftRight[1][n]][ShiftRight[2][n]]
        q2 == Plus[q1][ShiftRight[4][q1]]
        q3 == Plus[q2][ShiftRight[8][q2]]
    IN  ShiftRight[3][Plus[q3][ShiftRight[16][q3]]]
divu10_Uncorrected(n) == Estimate[n]    \* mutant: the estimate taken as it is
divu10(n) ==
    LET r == Minus[n][Times[10][Estimate[n]]]
    IN  Plus[Estimate[n]][ShiftRight[4][Plus[r][Word(6)]]]
remu10(n) ==
    LET next(w, byte) == Plus[ShiftLeft[8][w]][Times[byte][n]]
        product == next(next(next(Times[25][n], 153), 153), 153)   \* 0x19999999 * n
        sum == Plus[Plus[product][ShiftRight[1][n]]][ShiftRight[3][n]]
    IN  remu10_table[(sum[1] \div 2 ^ 12) + 1]

(* One digit: in base 16 a mask and a shift, with letbase for the letters.           *)
letbase == IF conv = Letters.X THEN 65 ELSE 97
DigitOf(w) ==
    IF conv \in {Letters.x, Letters.X}
    THEN IF w[2] % 16 >= 10 THEN (w[2] % 16) - 10 + letbase ELSE (w[2] % 16) + 48
    ELSE remu10(w) + 48
Shorter(w) ==
    IF conv \in {Letters.x, Letters.X} THEN ShiftRight[4][w] ELSE divu10(w)

(* What qprints prints of a string, with the width and the flags of the conversion.  *)
qprints(string, w) ==
    LET n == IF w > Len(string) THEN w - Len(string) ELSE 0
        padding == [k \in 1 .. n |-> IF w > 0 /\ zero THEN 48 ELSE 32]
    IN  IF right THEN string \o padding ELSE padding \o string

(* What follows a percent sign: flags and width, and the letter of the conversion     *)
(* (none if the format ends with the percent sign).                                  *)
Leading(f, chars) ==
    Cardinality({k \in DOMAIN f : \A j \in 1 .. k : f[j] \in chars})
Decimal(digits) ==
    LET w[k \in 0 .. Len(digits)] == IF k = 0 THEN 0 ELSE (w[k - 1] * 10) + digits[k] - 48
    IN  w[Len(digits)]
Directive(f) ==
    LET left == IF f # <<>> /\ Head(f) = 45 THEN 1 ELSE 0
        zeros == Leading(SubSeq(f, left + 1, Len(f)), {48})
        digits == SubSeq(f, left + zeros + 1,
                         left + zeros + Leading(SubSeq(f, left + zeros + 1, Len(f)), 48 .. 57))
    IN  [right |-> left = 1, zero |-> zeros > 0, width |-> Decimal(digits),
         at |-> left + zeros + Len(digits) + 1]
Converts(f) == Leading(f, {Percent}) = 1        \* of two, the second is printed
Letter(f) == IF Len(f) = 1 THEN Text ELSE f[Directive(Tail(f)).at + 1]
Rest(f) ==
    IF Converts(f) THEN SubSeq(f, Directive(Tail(f)).at + 2, Len(f))
    ELSE IF Head(f) = Percent THEN Tail(Tail(f)) ELSE Tail(f)

(* What may be printed: remaining tells, for each place of the format at which the   *)
(* loop of qprint comes, the arguments that are left; they fit the conversions, none *)
(* of which is cut off.                                                              *)
Fits(letter, arg) ==
    IF letter = Letters.s THEN arg \in Seq(1 .. 255) \union {NULL} ELSE arg \in Words
Fit(remaining) ==
    /\ <<>> \in DOMAIN remaining => remaining[<<>>] = <<>>
    /\ \A f \in DOMAIN remaining \ {<<>>} :
        /\ Converts(f) /\ Len(f) > 1 => Directive(Tail(f)).at < Len(f)
        /\ Rest(f) \in DOMAIN remaining
        /\ IF Converts(f) /\ Letter(f) \in Takers
           THEN /\ remaining[f] # <<>> /\ Fits(Letter(f), Head(remaining[f]))
                /\ remaining[Rest(f)] = Tail(remaining[f])
           ELSE remaining[Rest(f)] = remaining[f]
ASSUME CallsAssumption ==
    \A print \in Calls :
        /\ print.format \in Seq(1 .. 255)
        /\ print.function = "printf" =>
            \E places \in SUBSET Suffixes(print.format) :
                \E remaining \in [places -> Suffixes(print.args)] :
                    /\ print.format \in places /\ remaining[print.format] = print.args
                    /\ Fit(remaining)
------------------------------------------------------------------------------------
PrintInit ==
    /\ UartInit
    /\ pc = "boot" /\ format = <<>> /\ va = <<>> /\ conv = Text
    /\ width = 0 /\ zero = FALSE /\ right = FALSE /\ u = ZeroWord /\ s = <<>>
    /\ todo = <<>> /\ count = 0 /\ start = 0

(* The program calls printf or puts, with or without a call of uart_set_cfg before   *)
(* (that of crt0 is in a comment).                                                   *)
Boot ==
    /\ pc = "boot"
    /\ uart_set_cfg \/ UNCHANGED uartVars
    /\ \E print \in Calls :
         \/ /\ print.function = "printf" /\ pc' = "qprint"
            /\ format' = print.format /\ va' = print.args
            /\ UNCHANGED todo
         \/ /\ print.function = "puts" /\ pc' = "print"
            /\ todo' = Append(print.format, 10)
            /\ UNCHANGED <<format, va>>
    /\ UNCHANGED <<conv, width, pad, u, s, count, start>>

(* qprint: a character of the format, and the second of two percent signs.           *)
Character ==
    /\ pc = "qprint" /\ format # <<>> /\ uart_pc = "idle"
    /\ ~ Converts(format)
    /\ todo' = <<Head(format)>> /\ format' = Rest(format)
    /\ conv' = Text /\ pc' = "print"
    /\ UNCHANGED <<uartVars, va, width, pad, u, s, count, start>>

(* qprint: a conversion.  One that is not known prints nothing.                      *)
Conversion ==
    /\ pc = "qprint" /\ Converts(format) /\ uart_pc = "idle"
    /\ LET dir == Directive(Tail(format)) IN
        width' = dir.width /\ zero' = dir.zero /\ right' = dir.right
    /\ conv' = Letter(format) /\ format' = Rest(format)
    /\ pc' = IF conv' \in Numbers THEN "qprinti"
             ELSE IF conv' \in Takers THEN "qprints" ELSE "qprint"
    /\ u' = IF conv' \in Numbers THEN Head(va) ELSE u
    /\ s' = <<>> /\ start' = Len(sent)
    /\ UNCHANGED <<uartVars, va, todo, count>>

(* A string; a null pointer prints (null), and %c the string of one character.       *)
String ==
    /\ pc = "qprints"
    /\ LET arg == Head(va)
           string == IF conv = Letters.s THEN IF arg = NULL THEN Null ELSE arg
                     ELSE IF arg[2] % 256 = 0 THEN <<>> ELSE <<arg[2] % 256>>
       IN  todo' = qprints(string, width)
    /\ pc' = "print"
    /\ UNCHANGED <<uartVars, format, va, conv, width, pad, u, s, count, start>>

(* qprinti: u is the absolute value of a negative %d; digits from the last to the    *)
(* first; the sign before the zeros, or else before the digits.                      *)
neg == conv = Letters.d /\ IsNegative(Head(va))
Absolute ==
    /\ pc = "qprinti"
    /\ u' = IF neg THEN Negated[u] ELSE u
    /\ s' = IF u = ZeroWord THEN <<48>> ELSE <<>>
    /\ pc' = "digits"
    /\ UNCHANGED <<uartVars, format, va, conv, width, pad, todo, count, start>>
Digit ==
    /\ pc = "digits" /\ u # ZeroWord
    /\ s' = <<DigitOf(u)>> \o s /\ u' = Shorter(u)
    /\ UNCHANGED <<uartVars, pc, format, va, conv, width, pad, todo, count, start>>
Signed(string) ==
    IF neg /\ width # 0 /\ zero THEN <<45>> \o qprints(string, width - 1)
    ELSE IF neg THEN qprints(<<45>> \o string, width) ELSE qprints(string, width)
Number ==
    /\ pc = "digits" /\ u = ZeroWord
    /\ todo' = Signed(s)
    /\ pc' = "print"
    /\ UNCHANGED <<uartVars, format, va, conv, width, pad, u, s, count, start>>

(* One character, and the end of the conversion.                                     *)
putchar ==
    /\ pc = "print" /\ todo # <<>>
    /\ uart_sendchar(Head(todo))
    /\ todo' = Tail(todo) /\ count' = count + 1
    /\ UNCHANGED <<pc, format, va, conv, width, pad, u, s, start>>
Printed == pc = "print" /\ todo = <<>> /\ uart_pc = "idle"
Converted ==
    /\ Printed /\ pc' = "qprint"
    /\ va' = IF conv = Text THEN va ELSE Tail(va)
    /\ UNCHANGED <<uartVars, format, conv, width, pad, u, s, todo, count, start>>

(* main returns, and crt0 calls uart_wait_tx_done and then exit.                     *)
MainReturns ==
    /\ pc = "qprint" /\ format = <<>>
    /\ uart_wait_tx_done
    /\ pc' = "exit"
    /\ UNCHANGED <<format, va, conv, width, pad, u, s, todo, count, start>>

Program ==
    \/ Boot \/ Character \/ Conversion \/ String \/ Absolute \/ Digit \/ Number
    \/ putchar \/ Converted \/ MainReturns
    \/ UartCall(clk_counter) /\ UNCHANGED printVars
PrintNext == Program \/ (Transmit /\ UNCHANGED printVars)

(* The processor keeps executing, and the transmitter is clocked.                    *)
PrintSpec ==
    /\ PrintInit /\ [][PrintNext]_vars
    /\ WF_vars(Program) /\ WF_vars(Transmit /\ UNCHANGED printVars)
------------------------------------------------------------------------------------
(* Every character written to the UART goes over the line, in order: none is written *)
(* into a full FIFO, whichever UART the chip has and whether it was configured.      *)
NothingLost == line \o shifting \o fifo = sent

(* What a conversion has printed is its argument: a number reads back, with a sign   *)
(* exactly if it is negative, in the letters of its conversion and without leading   *)
(* zeros that the width does not ask for; a string is there as it is; and the width  *)
(* is filled, never exceeded by padding.  ("%-0" is left out: it pads with zeros     *)
(* behind the number.)  When the program exits, no argument is left.                 *)
DigitValue(ch) == IF ch < 58 THEN ch - 48 ELSE (ch - 55) % 32
Value(digits, base) ==
    LET v[k \in 0 .. Len(digits)] ==
          IF k = 0 THEN ZeroWord ELSE Plus[Times[base][v[k - 1]]][Word(DigitValue(digits[k]))]
    IN  v[Len(digits)]
Marks(chars) == {k \in DOMAIN chars : chars[k] # 32}
Trimmed(chars) == SubSeq(chars, Min(Marks(chars)), Max(Marks(chars)))
ReadsBack(chars, arg) ==
    LET text == Trimmed(chars)
        minus == Head(text) = 45
        digits == IF minus THEN Tail(text) ELSE text
        base == IF conv \in {Letters.x, Letters.X} THEN 16 ELSE 10
        letters == CASE conv = Letters.x -> 97 .. 102 [] conv = Letters.X -> 65 .. 70
                     [] OTHER -> {}
    IN  /\ Marks(chars) # {} /\ digits # <<>>
        /\ ToSet(digits) \subseteq (48 .. 57) \union letters
        /\ Value(digits, base) = IF minus THEN Negated[arg] ELSE arg
        /\ minus <=> conv = Letters.d /\ IsNegative(arg)
        /\ Head(digits) = 48 => digits = <<48>> \/ (zero /\ Len(chars) = width)
        /\ Len(chars) > width \/ zero => text = chars
        /\ IF right THEN IsPrefix(text, chars) ELSE IsSuffix(text, chars)
Spelled(chars, string) ==
    /\ IF right THEN IsPrefix(string, chars) ELSE IsSuffix(string, chars)
    /\ Len(chars) = IF width > Len(string) THEN width ELSE Len(string)
Exited == pc = "exit" /\ uart_pc = "idle"
Prints(chars, arg) ==
    /\ Len(chars) >= width
    /\ CASE conv \in Numbers -> ReadsBack(chars, arg)
         [] conv = Letters.c -> Spelled(chars, IF arg[2] % 256 = 0 THEN <<>> ELSE <<arg[2] % 256>>)
         [] conv = Letters.s -> Spelled(chars, IF arg = NULL THEN Null ELSE arg)
PrintsArguments ==
    /\ Printed /\ conv # Text /\ ~ (zero /\ right) =>
        Prints(SubSeq(sent, start + 1, Len(sent)), Head(va))
    /\ Exited => va = <<>>

(* A program that exits has sent everything, and has counted it.                     *)
TxDoneMeansSent ==
    Exited => line = sent /\ shifting = <<>> /\ count = Len(sent)

(* Every program that prints ends: the loop over the digits comes to 0, and no wait  *)
(* for the UART lasts for ever.                                                      *)
ProgramEnds == <>Exited
====================================================================================
