------------------------------- MODULE MCAccelJob -------------------------------
(* The accelerator in its real size: 21 lanes of rate, 8 of output, 24 rounds.   *)
(* The bytes of the input have the shape of hash bytes, of the "state" input, so *)
(* that TLC can compare them, and no two words of the block are equal.           *)
EXTENDS AccelJob

CONSTANTS in, unknown

MCByteLanes == {0}
MCByte(w, b, of) == [word |-> w, byte |-> b, of |-> of]
MCWord(w) == [b \in ByteLanes |-> MCByte(w, b, in)]
MCInLane == {<<MCWord(2 * i), MCWord(2 * i + 1)>> : i \in 0 .. RateLanes - 1}
MCZeroLane == <<MCWord(0), MCWord(1)>>
MCX == [b \in ByteLanes |-> MCByte(0, b, unknown)]
MCInputBlocks == {[w \in 0 .. Depth - 1 |-> MCWord(w)]}
MCLengths == 0 .. 8 * OutLanes - 1
=================================================================================
