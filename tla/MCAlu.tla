------------------------------- MODULE MCAlu -------------------------------
(* Every pair of four-bit operands, both signs of every immediate.          *)
EXTENDS Alu

MCImm == {-8, -1, 0, 3}
MCOffset == {-6, 2, 4}
=============================================================================
