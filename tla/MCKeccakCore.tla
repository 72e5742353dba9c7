----------------------------- MODULE MCKeccakCore -----------------------------
(* Blocks and outputs of two lanes, four rounds, messages of up to three       *)
(* blocks over two lane values.                                                *)
EXTENDS KeccakCore

CONSTANTS z, a

MCZeroLane == <<z, z>>
MCInLane == {MCZeroLane, <<z, a>>}
=============================================================================
