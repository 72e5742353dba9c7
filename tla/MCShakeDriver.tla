------------------------------ MODULE MCShakeDriver ------------------------------
(* The driver against an accelerator of 6 input lanes, 4 output lanes, 6 rounds.  *)
EXTENDS ShakeDriver

CONSTANTS in, pad1f, pad80, padzero, unknown

MCByteLanes == 0 .. 3
MCByte(word, byte, of) == [word |-> word, byte |-> byte, of |-> of]
MCInputByte(n) == MCByte(n \div 4, n % 4, in)
MCPad1F == MCByte(0, 0, pad1f)
MCPad80 == MCByte(0, 0, pad80)
MCPadZero == MCByte(0, 0, padzero)
MCX == [b \in ByteLanes |-> MCByte(0, 0, unknown)]
MCInLane ==      \* every lane of a padded block, and that of an unwritten memory
    {BlockIn(PaddedBlockOf(len))[l] : len \in InLens, l \in 0 .. RateLanes - 1}
      \cup {<<MCX, MCX>>}
MCZeroLane == <<MCX, MCX>>
==================================================================================
