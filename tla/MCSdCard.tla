------------------------------ MODULE MCSdCard ------------------------------
(* A small instance of SdCard for TLC. *)
EXTENDS SdCard

\* The commands read and write, and the two bytes with a meaning, one of which is also
\* another command.  As block numbers, modulo 8, they name block 0 (88), the block that
\* the image cuts (81), one past it after wrapping (254) and the top one (255).
MCBytes == {81, 88, 254, 255}
MCImage == {[i \in 0 .. 2 |-> i]}
MCGarbage == {<<0, 0>>, <<255, 1>>}
=============================================================================
