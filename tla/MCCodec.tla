------------------------------ MODULE MCCodec ------------------------------
(* A small instance of Codec for TLC: every halfword, and lines with the     *)
(* immediates on either side of every boundary the assembler tests.          *)
EXTENDS Codec

MCRegister == {0, 5, 10, 31, 32}

Boundaries == {0, 32, 2048, 4096, 1048576}
MCImmediate ==
  {b + d : b \in Boundaries \cup {-b : b \in Boundaries}, d \in {-2, -1, 0}}
    \cup {-1366, 682, 1365, 768, 699050}

MCHalfword == 0..65535
=============================================================================
