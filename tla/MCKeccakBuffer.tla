---------------------------- MODULE MCKeccakBuffer ----------------------------
(* A buffer of four lanes with a three-lane output, over two lane values.      *)
EXTENDS KeccakBuffer
=============================================================================
