---------------------------- MODULE BlockDevice ----------------------------
(***************************************************************************)
(* What the SD card of Memory.cpp promises: a disk that is read and written *)
(* one whole block at a time.  Bytes beyond the end of the image read as 0  *)
(* and are not stored.                                                      *)
(***************************************************************************)
EXTENDS Integers

CONSTANTS
  B,         \* bytes in a block (512)
  DiskSize,  \* bytes of the disk image
  Wrap,      \* number of byte addresses (2^32)
  HostByte,  \* bytes that the host sends
  Arg        \* block numbers that the host sends

VARIABLES
  disk,   \* Memory::_disk
  answer  \* the block that was read last, until the next command

vars == <<disk, answer>>

Byte  == 0 .. 255
Block == [0 .. B - 1 -> HostByte]

NoAnswer == <<>>

\* A block number is scaled to a byte address in 32 bits: high numbers wrap around.
Start(arg) == (arg * B) % Wrap

ByteAt(d, i) == IF i < DiskSize THEN d[i] ELSE 0

Contents(d, arg) == [i \in 0 .. B - 1 |-> ByteAt(d, Start(arg) + i)]

Stored(d, arg, block) ==
  [j \in 0 .. DiskSize - 1 |-> IF j - Start(arg) \in 0 .. B - 1 THEN block[j - Start(arg)] ELSE d[j]]

Init == disk \in [0 .. DiskSize - 1 -> Byte] /\ answer = NoAnswer

Read(arg) == answer' = Contents(disk, arg) /\ UNCHANGED disk

Write(arg, block) == disk' = Stored(disk, arg, block) /\ UNCHANGED answer

NextCommand == answer' = NoAnswer /\ UNCHANGED disk

Next == \/ \E arg \in Arg : Read(arg) \/ \E block \in Block : Write(arg, block)
        \/ NextCommand

Spec == Init /\ [][Next]_vars
=============================================================================
