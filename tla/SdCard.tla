------------------------------- MODULE SdCard -------------------------------
(***************************************************************************)
(* The SD card behind the SPI data register of Memory.cpp.  The host clocks *)
(* one byte into the card by writing the register, and then reads there the *)
(* byte that the card clocked out.  Any byte may come in any state.         *)
(***************************************************************************)
EXTENDS Integers, Sequences, Binary

CONSTANTS
  B,         \* bytes in a block (512)
  DiskSize,  \* bytes of the disk image
  Wrap,      \* number of byte addresses (2^32)
  HostByte,  \* bytes that the host sends
  ArgBytes,  \* bytes of a command's argument (4)
  ArgRange,  \* number of block numbers (2^32)
  Image,     \* disk images
  Garbage    \* checksums that a read outside the image can compute

VARIABLES
  disk,           \* _disk
  spiState,       \* _spiState
  spiCmd, spiArg, \* _spiCmd, _spiArg
  argBytes,       \* _spiArgBytesReceived
  transferred,    \* _spiDataBytesTransferred
  buffer,         \* _spiReadBuffer
  crc,            \* _spiCurrentCrc, as its two bytes
  clockCount,     \* the static clock_count of handleMMIO
  before,         \* history: the disk without the block that is being written
  got,            \* history: data and checksum that the host got from the current read
  answer          \* history: the block that was read last, until the next command

card == <<spiState, spiCmd, spiArg, argBytes, transferred, buffer, crc, clockCount>>
vars == <<card, disk, before, got, answer>>

Byte == 0 .. 255

\* The states, and the bytes with a meaning.
Idle == 0
ReceiveArg == 1
ReceiveCrc == 2
Reading == 3
Writing == 4
Filler == 255
StartToken == 254
Accepted == 5
ReadCmd == 17
WriteCmd == 24

ASSUME SizesAssumption == /\ B \in Nat /\ B > 0 /\ DiskSize \in Nat /\ ArgBytes \in Nat /\ ArgBytes > 0
                          /\ ArgRange \in Nat /\ ArgRange > 0
                          /\ Wrap \in Nat /\ Wrap > DiskSize /\ Wrap % B = 0
ASSUME BytesAssumption == HostByte \subseteq Byte
ASSUME ImageAssumption == Image # {} /\ Image \subseteq [0 .. DiskSize - 1 -> Byte]
ASSUME GarbageAssumption == Garbage # {} /\ Garbage \subseteq Byte \X Byte

-----------------------------------------------------------------------------
(* getCRC16: a register is the set of its bits that are 1 *)

Xor(a, b) == (a \ b) \cup (b \ a)

ShiftCrc(c) == LET s == {i + 1 : i \in c} IN IF 16 \in s THEN Xor(s, {16, 12, 5, 0}) ELSE s

\* A byte is shifted in, bit by bit.
ShiftByte(c, byte) ==
  LET two(d)  == ShiftCrc(ShiftCrc(d))
      four(d) == two(two(d))
  IN  four(four(Xor(c, {i + 8 : i \in Bits(byte, 8)})))

\* The register after the first n bytes of the block.
CrcAfter(block, n) ==
  LET after[k \in Nat] == IF k = 0 THEN {} ELSE ShiftByte(after[k - 1], block[k - 1])
  IN  after[n]

CrcOf(block) == LET c == CrcAfter(block, B)
                IN  <<Number({i - 8 : i \in c \cap 8 .. 15}, 8), Number(c, 8)>>

-----------------------------------------------------------------------------
(* A byte is written to the data register *)

Arg == 0 .. ArgRange - 1
Device == INSTANCE BlockDevice
Start(arg) == Device!Start(arg)
Contents(arg) == Device!Contents(disk, arg)

\* Mutant: the argument's bytes are counted on from the last command.
Command_stale(byte) ==
  /\ spiState = Idle
  /\ buffer' = Filler
  /\ \/ byte = Filler /\ UNCHANGED <<spiState, spiCmd, spiArg, argBytes, got, answer>>
     \/ /\ byte # Filler
        /\ spiState' = ReceiveArg /\ spiCmd' = byte % 64 /\ spiArg' = 0 /\ UNCHANGED argBytes
        /\ got' = <<>> /\ answer' = <<>>
  /\ UNCHANGED <<transferred, crc, clockCount, disk, before>>

\* The reply 0xFF and the command byte of the next command.
Command(byte) ==
  /\ spiState = Idle
  /\ buffer' = Filler
  /\ \/ byte = Filler /\ UNCHANGED <<spiState, spiCmd, spiArg, argBytes, got, answer>>
     \/ /\ byte # Filler
        /\ spiState' = ReceiveArg /\ spiCmd' = byte % 64 /\ spiArg' = 0 /\ argBytes' = 0
        /\ got' = <<>> /\ answer' = <<>>
  /\ UNCHANGED <<transferred, crc, clockCount, disk, before>>

Argument(byte) ==
  /\ spiState = ReceiveArg
  /\ spiArg' = (spiArg * 256 + byte) % ArgRange
  /\ argBytes' = argBytes + 1
  /\ spiState' = IF argBytes + 1 = ArgBytes THEN ReceiveCrc ELSE ReceiveArg
  /\ UNCHANGED <<spiCmd, transferred, buffer, crc, clockCount, disk, before, got, answer>>

\* The command's checksum byte is not looked at.
Response ==
  /\ spiState = ReceiveCrc
  /\ buffer' = 0
  /\ spiState' = CASE spiCmd = ReadCmd -> Reading [] spiCmd = WriteCmd -> Writing [] OTHER -> Idle
  /\ transferred' = IF spiCmd \in {ReadCmd, WriteCmd} THEN 0 ELSE transferred
  /\ UNCHANGED <<spiCmd, spiArg, argBytes, crc, clockCount, disk, before, got, answer>>

-----------------------------------------------------------------------------
(* Reading: two clocks, the block, its checksum, and a clock that ends the read *)

\* diskOffset + 512 wraps too: then the checksum is computed outside the image.
ReadCrc ==
  LET end == (Start(spiArg) + B) % Wrap
  IN  CASE end > DiskSize -> crc' = <<0, 0>>
        [] end <= DiskSize /\ Start(spiArg) < end -> crc' = CrcOf(Contents(spiArg))
        [] OTHER -> crc' \in Garbage

ReadWait == /\ spiState = Reading /\ transferred = 0
            /\ buffer' = 0
            /\ ReadCrc
            /\ transferred' = 1
            /\ UNCHANGED <<spiState, spiCmd, spiArg, argBytes, clockCount, disk, before, got, answer>>

ReadToken == /\ spiState = Reading /\ transferred = 1
             /\ buffer' = StartToken
             /\ transferred' = 2
             /\ UNCHANGED <<spiState, spiCmd, spiArg, argBytes, crc, clockCount, disk, before, got, answer>>

\* Mutant: every byte comes from one place further.
ReadByte_offbyone ==
  LET byte == Device!ByteAt(disk, Start(spiArg) + transferred - 1)
  IN  /\ spiState = Reading /\ transferred \in 2 .. B + 1
      /\ buffer' = byte /\ got' = Append(got, byte)
      /\ answer' = IF transferred = B + 1 THEN [i \in 0 .. B - 1 |-> got'[i + 1]] ELSE answer
      /\ transferred' = transferred + 1
      /\ UNCHANGED <<spiState, spiCmd, spiArg, argBytes, crc, clockCount, disk, before>>

ReadByte ==
  LET byte == Device!ByteAt(disk, Start(spiArg) + transferred - 2)
  IN  /\ spiState = Reading /\ transferred \in 2 .. B + 1
      /\ buffer' = byte /\ got' = Append(got, byte)
      /\ answer' = IF transferred = B + 1 THEN [i \in 0 .. B - 1 |-> got'[i + 1]] ELSE answer
      /\ transferred' = transferred + 1
      /\ UNCHANGED <<spiState, spiCmd, spiArg, argBytes, crc, clockCount, disk, before>>

\* Mutant: the low byte goes first.
ReadChecksum_swapped ==
  LET byte == crc[IF transferred = B + 2 THEN 2 ELSE 1]
  IN  /\ spiState = Reading /\ transferred \in {B + 2, B + 3}
      /\ buffer' = byte /\ got' = Append(got, byte)
      /\ transferred' = transferred + 1
      /\ UNCHANGED <<spiState, spiCmd, spiArg, argBytes, crc, clockCount, disk, before, answer>>

ReadChecksum ==
  LET byte == crc[IF transferred = B + 2 THEN 1 ELSE 2]
  IN  /\ spiState = Reading /\ transferred \in {B + 2, B + 3}
      /\ buffer' = byte /\ got' = Append(got, byte)
      /\ transferred' = transferred + 1
      /\ UNCHANGED <<spiState, spiCmd, spiArg, argBytes, crc, clockCount, disk, before, answer>>

\* The byte of this clock is not looked at: a command that came at once is lost.
ReadEnd == /\ spiState = Reading /\ transferred > B + 3
           /\ buffer' = Filler
           /\ spiState' = Idle
           /\ UNCHANGED <<spiCmd, spiArg, argBytes, transferred, crc, clockCount, disk, before, got, answer>>

-----------------------------------------------------------------------------
(* Writing: until the start token, the block, its checksum, and a clock that replies *)

\* Mutant: the next write finds the count as this one has left it.
WriteWait_sticky(byte) ==
  /\ spiState = Writing /\ transferred = 0
  /\ buffer' = IF clockCount = 0 THEN 0 ELSE Filler
  /\ clockCount' = 1
  /\ transferred' = IF byte = StartToken THEN 1 ELSE 0
  /\ UNCHANGED <<spiState, spiCmd, spiArg, argBytes, crc, disk, before, got, answer>>

WriteWait(byte) ==
  /\ spiState = Writing /\ transferred = 0
  /\ buffer' = IF clockCount = 0 THEN 0 ELSE Filler
  /\ clockCount' = IF byte = StartToken THEN 0 ELSE 1
  /\ transferred' = IF byte = StartToken THEN 1 ELSE 0
  /\ UNCHANGED <<spiState, spiCmd, spiArg, argBytes, crc, disk, before, got, answer>>

WriteByte(byte) ==
  LET offset == Start(spiArg) + transferred - 1
  IN  /\ spiState = Writing /\ transferred \in 1 .. B
      /\ disk' = [i \in DOMAIN disk |-> IF i = offset THEN byte ELSE disk[i]]
      /\ before' = IF transferred = B THEN disk' ELSE before
      /\ transferred' = transferred + 1
      /\ UNCHANGED <<spiState, spiCmd, spiArg, argBytes, buffer, crc, clockCount, got, answer>>

WriteChecksum ==
  /\ spiState = Writing /\ transferred \in {B + 1, B + 2}
  /\ transferred' = transferred + 1
  /\ UNCHANGED <<spiState, spiCmd, spiArg, argBytes, buffer, crc, clockCount, disk, before, got, answer>>

WriteEnd ==
  /\ spiState = Writing /\ transferred > B + 2
  /\ buffer' = Accepted
  /\ spiState' = Idle
  /\ UNCHANGED <<spiCmd, spiArg, argBytes, transferred, crc, clockCount, disk, before, got, answer>>

-----------------------------------------------------------------------------

Init == /\ disk \in Image
        /\ spiState = Idle /\ spiCmd = 0 /\ spiArg = 0 /\ argBytes = 0
        /\ transferred = 0 /\ buffer = Filler /\ crc = <<0, 0>> /\ clockCount = 0
        /\ before = disk /\ got = <<>> /\ answer = <<>>

Next == \/ \E byte \in HostByte : Command(byte) \/ Argument(byte) \/ WriteWait(byte) \/ WriteByte(byte)
        \/ Response
        \/ ReadWait \/ ReadToken \/ ReadByte \/ ReadChecksum \/ ReadEnd
        \/ WriteChecksum \/ WriteEnd

Spec == Init /\ [][Next]_vars

-----------------------------------------------------------------------------
(* Properties *)

TypeOK == /\ disk \in [0 .. DiskSize - 1 -> Byte]
          /\ spiState \in Idle .. Writing
          /\ spiCmd \in 0 .. 63
          /\ spiArg \in Arg
          /\ argBytes \in 0 .. ArgBytes
          /\ transferred \in 0 .. B + 4
          /\ buffer \in Byte
          /\ crc \in Byte \X Byte
          /\ clockCount \in {0, 1}

\* A block is written in one go, and what is read is what was written last: the host
\* never sees a block of which only some bytes have been transferred.
Atomic == INSTANCE BlockDevice WITH disk <- before
ImplementsBlockDevice == Atomic!Spec

\* The checksum is taken before the data is sent: for a block that lies in the image,
\* or past its end, it is that of the data that the host got.
ChecksumMatchesData ==
  LET whole == Start(spiArg) + B <= DiskSize
      past  == Start(spiArg) >= DiskSize /\ Start(spiArg) + B < Wrap
  IN  Len(got) = B + 2 /\ (whole \/ past) => <<got[B + 1], got[B + 2]>> = CrcOf(answer)

\* clock_count is static and never reset with the card: it is back at 0 before any
\* other write begins, so that every write is answered by the same first byte.
WaitIsRearmed == spiState # Writing => clockCount = 0
=============================================================================
