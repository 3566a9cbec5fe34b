---------------------------- MODULE SdCardProofs ----------------------------
(***************************************************************************)
(* Theorems about SdCard, for every size of block, disk, argument and       *)
(* address.                                                                 *)
(***************************************************************************)
EXTENDS SdCard, BinaryProofs, TLAPS, SequenceTheorems

Block == [0 .. B - 1 -> HostByte]
Disk == [0 .. DiskSize - 1 -> Byte]

LEMMA Sizes == B \in Nat /\ B > 0 /\ DiskSize \in Nat /\ ArgBytes \in Nat /\ ArgRange \in Nat /\ ArgRange > 0
BY SizesAssumption

LEMMA StartOK ==
  ASSUME NEW arg \in Arg
  PROVE  Start(arg) \in Nat
<1>1. arg * B \in Nat
  BY Sizes DEF Arg
<1> QED
  BY <1>1, SizesAssumption DEF Start, Device!Start

-----------------------------------------------------------------------------
(* Where the card is in a command *)

\* The types, without the checksum and the byte that the host reads; a command's
\* argument is not complete while the card waits for the rest of it.
CardOK ==
  /\ disk \in Disk /\ before \in Disk
  /\ spiState \in {Idle, ReceiveArg, ReceiveCrc, Reading, Writing}
  /\ spiArg \in Arg
  /\ argBytes \in Nat /\ transferred \in Nat

\* The wait for the start token leaves clock_count at 0.
WaitOK ==
  /\ clockCount \in {0, 1}
  /\ ~(spiState = Writing /\ transferred = 0) => clockCount = 0

LEMMA CardInductive == CardOK /\ [Next]_vars => CardOK'
<1> SUFFICES ASSUME CardOK, [Next]_vars PROVE CardOK'
  OBVIOUS
<1> USE DEF CardOK, Idle, ReceiveArg, ReceiveCrc, Reading, Writing
<1>1. ASSUME NEW byte \in HostByte, Command(byte) PROVE CardOK'
  BY <1>1, Sizes DEF Command, Arg
<1>2. ASSUME NEW byte \in HostByte, Argument(byte) PROVE CardOK'
  <2>1. spiArg * 256 + byte \in Nat
    BY BytesAssumption, Sizes DEF Arg, Byte
  <2>2. spiArg' \in Arg
    BY <1>2, <2>1, Sizes DEF Argument, Arg
  <2> QED
    BY <1>2, <2>2 DEF Argument
<1>3. ASSUME NEW byte \in HostByte, WriteWait(byte) PROVE CardOK'
  BY <1>3 DEF WriteWait
<1>4. ASSUME NEW byte \in HostByte, WriteByte(byte) PROVE CardOK'
  <2>1. disk' \in Disk
    BY <1>4, BytesAssumption DEF WriteByte, Disk
  <2> QED
    BY <1>4, <2>1 DEF WriteByte
<1>5. CASE Response
  BY <1>5 DEF Response
<1>6. CASE ReadWait
  BY <1>6 DEF ReadWait
<1>7. CASE ReadToken
  BY <1>7 DEF ReadToken
<1>8. CASE ReadByte
  BY <1>8 DEF ReadByte
<1>9. CASE ReadChecksum
  BY <1>9 DEF ReadChecksum
<1>10. CASE ReadEnd
  BY <1>10 DEF ReadEnd
<1>11. CASE WriteChecksum
  BY <1>11 DEF WriteChecksum
<1>12. CASE WriteEnd
  BY <1>12 DEF WriteEnd
<1>13. CASE UNCHANGED vars
  BY <1>13 DEF vars, card
<1> QED
  BY <1>1, <1>2, <1>3, <1>4, <1>5, <1>6, <1>7, <1>8, <1>9, <1>10, <1>11, <1>12, <1>13 DEF Next

LEMMA CardInit == Init => CardOK
BY Sizes, ImageAssumption DEF Init, CardOK, Disk, Arg

LEMMA WaitInductive == CardOK /\ WaitOK /\ [Next]_vars => WaitOK'
<1> SUFFICES ASSUME CardOK, WaitOK, [Next]_vars PROVE WaitOK'
  OBVIOUS
<1> USE DEF CardOK, WaitOK, Idle, ReceiveArg, ReceiveCrc, Reading, Writing
<1>1. ASSUME NEW byte \in HostByte, Command(byte) \/ Argument(byte) PROVE WaitOK'
  BY <1>1 DEF Command, Argument
<1>2. ASSUME NEW byte \in HostByte, WriteWait(byte) PROVE WaitOK'
  BY <1>2 DEF WriteWait
<1>3. ASSUME NEW byte \in HostByte, WriteByte(byte) PROVE WaitOK'
  BY <1>3, Sizes DEF WriteByte
<1>4. CASE Response
  BY <1>4 DEF Response
<1>5. CASE ReadWait \/ ReadToken \/ ReadByte \/ ReadChecksum \/ ReadEnd
  BY <1>5 DEF ReadWait, ReadToken, ReadByte, ReadChecksum, ReadEnd
<1>6. CASE WriteChecksum \/ WriteEnd
  BY <1>6, Sizes DEF WriteChecksum, WriteEnd
<1>7. CASE UNCHANGED vars
  BY <1>7 DEF vars, card
<1> QED
  BY <1>1, <1>2, <1>3, <1>4, <1>5, <1>6, <1>7 DEF Next

\* Every write is answered by the same first byte, whatever came before it.
THEOREM WaitsAreRearmed == Spec => []WaitIsRearmed
<1>1. Init => CardOK /\ WaitOK
  BY CardInit DEF Init, WaitOK
<1>2. WaitOK => WaitIsRearmed
  BY DEF WaitOK, WaitIsRearmed
<1> QED
  BY <1>1, <1>2, CardInductive, WaitInductive, PTL DEF Spec

-----------------------------------------------------------------------------
(* The card implements BlockDevice *)

\* The disk d after the first n bytes of the block b have been written from the address s.
Partial(d, s, b, n) == [j \in 0 .. DiskSize - 1 |-> IF j - s \in 0 .. n - 1 THEN b[j - s] ELSE d[j]]

\* A read that has begun has sent the block's bytes so far, and none that another
\* command left.
ReadOK ==
  /\ spiState \in {ReceiveArg, ReceiveCrc} \/ (spiState = Reading /\ transferred < 2) => got = <<>>
  /\ spiState = Reading /\ transferred \in 2 .. B + 1 =>
       /\ got \in Seq(Byte) /\ Len(got) = transferred - 2
       /\ \A i \in 1 .. Len(got) : got[i] = Device!ByteAt(disk, Start(spiArg) + i - 1)

\* The disk differs from the one before the write only by the bytes written so far.
WriteOK ==
  IF spiState = Writing /\ transferred \in 1 .. B
  THEN \E block \in Block : disk = Partial(before, Start(spiArg), block, transferred - 1)
  ELSE disk = before

RefinementInv == CardOK /\ ReadOK /\ WriteOK

\* Before its first byte, any block is written as far as nothing.
LEMMA NothingWritten ==
  ASSUME NEW d \in Disk, NEW s \in Nat, NEW b
  PROVE  Partial(d, s, b, 0) = d
BY Sizes DEF Partial, Disk

\* One more byte of a block.
LEMMA OneMoreByte ==
  ASSUME NEW d \in Disk, NEW s \in Nat, NEW b \in Block, NEW n \in 0 .. B - 1, NEW byte \in HostByte
  PROVE  LET c == [b EXCEPT ![n] = byte]
             p == Partial(d, s, b, n)
         IN  /\ c \in Block
             /\ [i \in DOMAIN p |-> IF i = s + n THEN byte ELSE p[i]] = Partial(d, s, c, n + 1)
<1> DEFINE c == [b EXCEPT ![n] = byte]
           p == Partial(d, s, b, n)
           q == [i \in DOMAIN p |-> IF i = s + n THEN byte ELSE p[i]]
<1>1. c \in Block
  BY Sizes DEF Block
<1>2. DOMAIN p = 0 .. DiskSize - 1
  BY DEF Partial
<1>3. ASSUME NEW j \in 0 .. DiskSize - 1
      PROVE  q[j] = IF j - s \in 0 .. n THEN c[j - s] ELSE d[j]
  <2>1. j \in Int /\ n \in Nat /\ j - s \in Int
    BY Sizes
  <2>2. p[j] = IF j - s \in 0 .. n - 1 THEN b[j - s] ELSE d[j]
    BY DEF Partial
  <2>3. CASE j - s = n
    <3>1. q[j] = byte
      BY <1>2, <2>1, <2>3
    <3>2. c[n] = byte
      BY Sizes DEF Block
    <3> QED
      BY <2>1, <2>3, <3>1, <3>2
  <2>4. CASE j - s # n
    <3>1. q[j] = p[j]
      BY <1>2, <2>1, <2>4
    <3>2. j - s \in 0 .. n => j - s \in 0 .. n - 1 /\ j - s \in 0 .. B - 1 /\ c[j - s] = b[j - s]
      BY <2>1, <2>4, Sizes DEF Block
    <3> QED
      BY <2>1, <2>2, <2>4, <3>1, <3>2
  <2> QED
    BY <2>3, <2>4
<1>4. n + 1 - 1 = n
  OBVIOUS
<1>5. q = [j \in 0 .. DiskSize - 1 |-> IF j - s \in 0 .. n THEN c[j - s] ELSE d[j]]
  BY <1>2, <1>3
<1> QED
  BY <1>1, <1>4, <1>5 DEF Partial

LEMMA ByteAtType ==
  ASSUME CardOK, NEW k \in Nat
  PROVE  Device!ByteAt(disk, k) \in Byte
<1>1. disk \in [0 .. DiskSize - 1 -> Byte] /\ 0 \in Byte
  BY DEF CardOK, Disk, Byte
<1>2. k < DiskSize => disk[k] \in Byte
  BY <1>1, Sizes
<1> QED
  BY <1>1, <1>2 DEF Device!ByteAt

LEMMA ReadInductive == CardOK /\ ReadOK /\ WriteOK /\ [Next]_vars => ReadOK'
<1> SUFFICES ASSUME CardOK, ReadOK, WriteOK, [Next]_vars PROVE ReadOK'
  OBVIOUS
<1> USE DEF ReadOK, Idle, ReceiveArg, ReceiveCrc, Reading, Writing
<1>1. ASSUME NEW byte \in HostByte, Command(byte) PROVE ReadOK'
  BY <1>1 DEF Command
<1>2. ASSUME NEW byte \in HostByte, Argument(byte) PROVE ReadOK'
  BY <1>2 DEF Argument
<1>3. ASSUME NEW byte \in HostByte, WriteWait(byte) PROVE ReadOK'
  BY <1>3 DEF WriteWait
<1>4. ASSUME NEW byte \in HostByte, WriteByte(byte) PROVE ReadOK'
  BY <1>4 DEF WriteByte
<1>5. CASE Response
  BY <1>5, Sizes DEF Response
<1>6. CASE ReadWait
  BY <1>6, Sizes DEF ReadWait
<1>7. CASE ReadToken
  <2>1. got' = <<>> /\ spiState' = Reading /\ transferred' = 2
    BY <1>7 DEF ReadToken
  <2>2. <<>> \in Seq(Byte) /\ Len(<<>>) = 0
    BY EmptySeq
  <2> QED
    BY <2>1, <2>2
<1>8. CASE ReadByte
  <2> DEFINE byte == Device!ByteAt(disk, Start(spiArg) + transferred - 2)
  <2>1. /\ got' = Append(got, byte) /\ transferred' = transferred + 1 /\ spiState' = Reading
        /\ spiState = Reading /\ transferred \in 2 .. B + 1 /\ UNCHANGED <<disk, spiArg>>
    BY <1>8 DEF ReadByte
  <2>2. Start(spiArg) \in Nat
    BY StartOK DEF CardOK
  <2>3. byte \in Byte
    <3>1. PICK k \in Nat : k = Start(spiArg) + transferred - 2
      BY <2>1, <2>2, Sizes
    <3> QED
      BY <3>1, ByteAtType
  <2>4. /\ got \in Seq(Byte) /\ Len(got) = transferred - 2
        /\ \A i \in 1 .. Len(got) : got[i] = Device!ByteAt(disk, Start(spiArg) + i - 1)
    BY <2>1
  <2> HIDE DEF byte
  <2>5. /\ got' \in Seq(Byte) /\ Len(got') = Len(got) + 1
        /\ \A i \in 1 .. Len(got) : got'[i] = got[i]
        /\ got'[Len(got) + 1] = byte
    BY <2>1, <2>3, <2>4, AppendProperties
  <2>6. Start(spiArg)' = Start(spiArg)
    BY <2>1
  <2>7. ASSUME NEW i \in 1 .. Len(got')
        PROVE  got'[i] = Device!ByteAt(disk, Start(spiArg) + i - 1)
    <3>1. CASE i \in 1 .. Len(got)
      BY <2>4, <2>5, <3>1
    <3>2. CASE i = Len(got) + 1
      <4>1. Start(spiArg) + i - 1 = Start(spiArg) + transferred - 2
        BY <2>1, <2>2, <2>4, <3>2, Sizes
      <4> QED
        BY <2>5, <3>2, <4>1 DEF byte
    <3>3. Len(got) \in Nat
      BY <2>4, LenProperties
    <3> QED
      BY <2>5, <3>1, <3>2, <3>3
  <2> QED
    BY <2>1, <2>4, <2>5, <2>7, Sizes
<1>9. CASE ReadChecksum
  BY <1>9, Sizes DEF ReadChecksum
<1>10. CASE ReadEnd
  BY <1>10 DEF ReadEnd
<1>11. CASE WriteChecksum \/ WriteEnd
  BY <1>11 DEF WriteChecksum, WriteEnd
<1>12. CASE UNCHANGED vars
  BY <1>12 DEF vars, card
<1> QED
  BY <1>1, <1>2, <1>3, <1>4, <1>5, <1>6, <1>7, <1>8, <1>9, <1>10, <1>11, <1>12 DEF Next

\* The last byte of a block's data completes the block.
LEMMA BlockIsRead ==
  ASSUME CardOK, ReadOK, ReadByte, transferred = B + 1
  PROVE  answer' = Contents(spiArg) /\ got' \in Seq(Byte) /\ Len(got') = B
<1> DEFINE byte == Device!ByteAt(disk, Start(spiArg) + transferred - 2)
<1>1. /\ got \in Seq(Byte) /\ Len(got) = B - 1
      /\ \A i \in 1 .. B - 1 : got[i] = Device!ByteAt(disk, Start(spiArg) + i - 1)
  BY Sizes DEF ReadOK, ReadByte, Reading
<1>2. PICK s \in Nat : s = Start(spiArg)
  BY StartOK DEF CardOK
<1>3. PICK b \in Byte : b = Device!ByteAt(disk, s + B - 1) /\ got' = Append(got, b)
  <2>1. s + B - 1 \in Nat /\ s + B - 1 = s + transferred - 2
    BY <1>2, Sizes
  <2> QED
    BY <1>2, <2>1, ByteAtType DEF ReadByte
<1>4. /\ got' \in Seq(Byte) /\ Len(got') = B
      /\ \A i \in 1 .. B - 1 : got'[i] = got[i]
      /\ got'[B] = b
  BY <1>1, <1>3, AppendProperties, Sizes
<1>5. ASSUME NEW i \in 0 .. B - 1 PROVE got'[i + 1] = Device!ByteAt(disk, s + i)
  <2>1. CASE i = B - 1
    <3>1. i + 1 = B /\ s + i = s + B - 1
      BY <2>1, Sizes
    <3> QED
      BY <1>3, <1>4, <3>1
  <2>2. CASE i # B - 1
    <3>1. i + 1 \in 1 .. B - 1 /\ s + (i + 1) - 1 = s + i
      BY <2>2, Sizes
    <3> QED
      BY <1>1, <1>2, <1>4, <3>1
  <2> QED
    BY <2>1, <2>2
<1>6. answer' = [i \in 0 .. B - 1 |-> got'[i + 1]]
  BY DEF ReadByte
<1>7. answer' = [i \in 0 .. B - 1 |-> Device!ByteAt(disk, s + i)]
  BY <1>5, <1>6
<1> QED
  BY <1>2, <1>4, <1>7 DEF Contents, Device!Contents, Start

\* A byte of a block is written: the disk is one byte further from what it was before.
LEMMA WriteByteEffect ==
  ASSUME CardOK, WriteOK, NEW byte \in HostByte, WriteByte(byte)
  PROVE  \E block \in Block : disk' = Partial(before, Start(spiArg), block, transferred)
<1>1. PICK s \in Nat : s = Start(spiArg)
  BY StartOK DEF CardOK
<1>2. PICK b \in Block : disk = Partial(before, s, b, transferred - 1)
  BY <1>1 DEF WriteByte, WriteOK
<1>3. PICK n \in 0 .. B - 1 : n = transferred - 1
  BY Sizes DEF WriteByte
<1>4. disk' = [i \in DOMAIN disk |-> IF i = s + n THEN byte ELSE disk[i]]
  <2>1. Start(spiArg) + transferred - 1 = s + n
    BY <1>1, <1>3 DEF CardOK
  <2> QED
    BY <2>1 DEF WriteByte
<1>5. disk' = Partial(before, s, [b EXCEPT ![n] = byte], n + 1) /\ [b EXCEPT ![n] = byte] \in Block
  BY <1>2, <1>3, <1>4, OneMoreByte DEF CardOK
<1> QED
  BY <1>1, <1>3, <1>5 DEF CardOK

LEMMA WriteInductive == CardOK /\ WriteOK /\ [Next]_vars => WriteOK'
<1> SUFFICES ASSUME CardOK, WriteOK, [Next]_vars PROVE WriteOK'
  OBVIOUS
<1> USE DEF Idle, ReceiveArg, ReceiveCrc, Reading, Writing
<1>1. ASSUME disk = before, UNCHANGED <<disk, before>>, ~(spiState' = Writing /\ transferred' \in 1 .. B)
      PROVE  WriteOK'
  BY <1>1 DEF WriteOK
<1>2. ASSUME NEW byte \in HostByte, Command(byte) PROVE WriteOK'
  BY <1>1, <1>2 DEF Command, WriteOK
<1>3. ASSUME NEW byte \in HostByte, Argument(byte) PROVE WriteOK'
  BY <1>1, <1>3 DEF Argument, WriteOK
<1>4. ASSUME NEW byte \in HostByte, WriteWait(byte) PROVE WriteOK'
  <2>1. disk = before /\ UNCHANGED <<disk, before>>
    BY <1>4 DEF WriteWait, WriteOK
  <2>2. CASE byte # StartToken
    BY <1>1, <1>4, <2>1, <2>2 DEF WriteWait
  <2>3. CASE byte = StartToken
    <3>1. transferred' = 1 /\ spiState' = Writing /\ spiArg' = spiArg
      BY <1>4, <2>3 DEF WriteWait
    <3>2. [i \in 0 .. B - 1 |-> byte] \in Block
      BY DEF Block
    <3>3. Start(spiArg) \in Nat
      BY StartOK DEF CardOK
    <3>4. disk' = Partial(before', Start(spiArg'), [i \in 0 .. B - 1 |-> byte], transferred' - 1)
      BY <2>1, <3>1, <3>3, NothingWritten DEF CardOK
    <3>5. 1 \in 1 .. B
      BY Sizes
    <3> QED
      BY <3>1, <3>2, <3>4, <3>5 DEF WriteOK
  <2> QED
    BY <2>2, <2>3
<1>5. ASSUME NEW byte \in HostByte, WriteByte(byte) PROVE WriteOK'
  <2>1. PICK block \in Block : disk' = Partial(before, Start(spiArg), block, transferred)
    BY <1>5, WriteByteEffect
  <2>2. /\ transferred \in 1 .. B /\ transferred' = transferred + 1 /\ spiArg' = spiArg
        /\ before' = (IF transferred = B THEN disk' ELSE before)
    BY <1>5 DEF WriteByte
  <2>3. CASE transferred = B
    <3>1. before' = disk' /\ transferred' \notin 1 .. B
      BY <2>2, <2>3, Sizes
    <3> QED
      BY <3>1 DEF WriteOK
  <2>4. CASE transferred # B
    <3>1. before' = before /\ transferred' - 1 = transferred /\ Start(spiArg') = Start(spiArg)
      BY <2>2, <2>4
    <3>2. spiState' = Writing /\ transferred' \in 1 .. B
      BY <1>5, <2>2, <2>4, Sizes DEF WriteByte
    <3> QED
      BY <2>1, <3>1, <3>2 DEF WriteOK
  <2> QED
    BY <2>3, <2>4
<1>6. CASE Response
  BY <1>1, <1>6 DEF Response, WriteOK
<1>7. CASE ReadWait \/ ReadToken \/ ReadByte \/ ReadChecksum \/ ReadEnd
  BY <1>1, <1>7 DEF ReadWait, ReadToken, ReadByte, ReadChecksum, ReadEnd, WriteOK
<1>8. CASE WriteChecksum \/ WriteEnd
  BY <1>1, <1>8, Sizes DEF WriteChecksum, WriteEnd, WriteOK, CardOK
<1>9. CASE UNCHANGED vars
  BY <1>9 DEF vars, card, WriteOK
<1> QED
  BY <1>2, <1>3, <1>4, <1>5, <1>6, <1>7, <1>8, <1>9 DEF Next

LEMMA RefinementInvariant == Spec => []RefinementInv
<1>1. Init => RefinementInv
  BY CardInit, Sizes DEF Init, RefinementInv, ReadOK, WriteOK, Idle, ReceiveArg, ReceiveCrc, Reading, Writing
<1>2. RefinementInv /\ [Next]_vars => RefinementInv'
  BY CardInductive, ReadInductive, WriteInductive DEF RefinementInv
<1> QED
  BY <1>1, <1>2, PTL DEF Spec

\* The last byte of a block that is read is a read of the whole block.
LEMMA ReadRefines ==
  ASSUME RefinementInv, ReadByte
  PROVE  Atomic!Read(spiArg) \/ UNCHANGED answer
<1>1. CASE transferred # B + 1
  BY <1>1 DEF ReadByte
<1>2. CASE transferred = B + 1
  <2>1. answer' = Contents(spiArg) /\ UNCHANGED <<disk, before>> /\ disk = before
    BY <1>2, BlockIsRead DEF ReadByte, RefinementInv, WriteOK, Reading, Writing
  <2>2. Contents(spiArg) = Atomic!Contents(before, spiArg)
    BY <2>1 DEF Contents, Device!Contents, Device!ByteAt, Start, Device!Start,
                Atomic!Contents, Atomic!ByteAt, Atomic!Start
  <2> QED
    BY <2>1, <2>2 DEF Atomic!Read
<1> QED
  BY <1>1, <1>2

\* The last byte of a block that is written is a write of the whole block.
LEMMA WriteRefines ==
  ASSUME RefinementInv, NEW byte \in HostByte, WriteByte(byte)
  PROVE  (\E block \in Block : Atomic!Write(spiArg, block)) \/ UNCHANGED before
<1>1. CASE transferred # B
  BY <1>1 DEF WriteByte
<1>2. CASE transferred = B
  <2>1. PICK block \in Block : disk' = Partial(before, Start(spiArg), block, B)
    BY <1>2, WriteByteEffect DEF RefinementInv
  <2>2. before' = disk' /\ answer' = answer
    BY <1>2 DEF WriteByte
  <2>3. before' = Atomic!Stored(before, spiArg, block)
    BY <2>1, <2>2 DEF Partial, Atomic!Stored, Start, Device!Start, Atomic!Start
  <2> QED
    BY <2>2, <2>3 DEF Atomic!Write
<1> QED
  BY <1>1, <1>2

\* Whatever bytes the host sends, the disk is written, and read, a whole block at a time.
THEOREM CardImplementsBlockDevice == Spec => ImplementsBlockDevice
<1>1. Init => Atomic!Init
  BY ImageAssumption DEF Init, Atomic!Init, Atomic!NoAnswer, Atomic!Byte, Byte
<1>2. RefinementInv /\ [Next]_vars => [Atomic!Next]_(Atomic!vars)
  <2> SUFFICES ASSUME RefinementInv, [Next]_vars PROVE [Atomic!Next]_(Atomic!vars)
    OBVIOUS
  <2>0. spiArg \in Arg
    BY DEF RefinementInv, CardOK
  <2>1. ASSUME NEW byte \in HostByte, Command(byte) PROVE Atomic!NextCommand \/ UNCHANGED Atomic!vars
    BY <2>1 DEF Command, Atomic!NextCommand, Atomic!NoAnswer, Atomic!vars
  <2>2. ASSUME NEW byte \in HostByte, WriteByte(byte) PROVE [Atomic!Next]_(Atomic!vars)
    <3>1. answer' = answer
      BY <2>2 DEF WriteByte
    <3> QED
      BY <2>0, <2>2, <3>1, WriteRefines DEF Atomic!Next, Atomic!vars, Atomic!Block, Block
  <2>3. CASE ReadByte
    <3>1. before' = before
      BY <2>3 DEF ReadByte
    <3> QED
      BY <2>0, <2>3, <3>1, ReadRefines DEF Atomic!Next, Atomic!vars
  <2>4. ASSUME NEW byte \in HostByte, Argument(byte) \/ WriteWait(byte) PROVE UNCHANGED Atomic!vars
    BY <2>4 DEF Argument, WriteWait, Atomic!vars
  <2>5. CASE Response \/ ReadWait \/ ReadToken \/ ReadChecksum \/ ReadEnd \/ WriteChecksum \/ WriteEnd
    BY <2>5 DEF Response, ReadWait, ReadToken, ReadChecksum, ReadEnd, WriteChecksum, WriteEnd, Atomic!vars
  <2>6. CASE UNCHANGED vars
    BY <2>6 DEF vars, Atomic!vars
  <2> QED
    BY <2>1, <2>2, <2>3, <2>4, <2>5, <2>6 DEF Next, Atomic!Next
<1> QED
  BY <1>1, <1>2, RefinementInvariant, PTL DEF Spec, ImplementsBlockDevice, Atomic!Spec

-----------------------------------------------------------------------------
(* getCRC16 *)

Register == SUBSET (0 .. 15)

LEMMA ShiftCrcType == \A c \in Register : ShiftCrc(c) \in Register
<1> SUFFICES ASSUME NEW c \in Register PROVE ShiftCrc(c) \in Register
  OBVIOUS
<1> DEFINE s == {i + 1 : i \in c}
<1>1. s \subseteq 1 .. 16
  BY DEF Register
<1>2. ShiftCrc(c) = IF 16 \in s THEN Xor(s, {16, 12, 5, 0}) ELSE s
  BY DEF ShiftCrc
<1> HIDE DEF s
<1>3. CASE 16 \in s
  <2>1. 16 \notin Xor(s, {16, 12, 5, 0}) /\ Xor(s, {16, 12, 5, 0}) \subseteq 0 .. 16
    BY <1>1, <1>3 DEF Xor
  <2> QED
    BY <1>2, <1>3, <2>1 DEF Register
<1>4. CASE 16 \notin s
  BY <1>1, <1>2, <1>4 DEF Register
<1> QED
  BY <1>3, <1>4

LEMMA ShiftByteType == \A c \in Register : \A byte : ShiftByte(c, byte) \in Register
<1> SUFFICES ASSUME NEW c \in Register, NEW byte PROVE ShiftByte(c, byte) \in Register
  OBVIOUS
<1>1. PICK d \in Register : d = Xor(c, {i + 8 : i \in Bits(byte, 8)})
  <2>1. Bits(byte, 8) \subseteq 0 .. 7
    BY DEF Bits
  <2>2. {i + 8 : i \in Bits(byte, 8)} \subseteq 0 .. 15
    BY <2>1
  <2> QED
    BY <2>2 DEF Xor, Register
<1>2. ShiftByte(c, byte) =
        ShiftCrc(ShiftCrc(ShiftCrc(ShiftCrc(ShiftCrc(ShiftCrc(ShiftCrc(ShiftCrc(d))))))))
  BY <1>1 DEF ShiftByte
<1> QED
  BY <1>2, ShiftCrcType

\* Zero bytes leave a register of zeros.
LEMMA ZeroByte == ShiftByte({}, 0) = {}
<1>1. Bits(0, 8) = {}
  <2>1. \A i \in Nat : 0 \div Pow2[i] = 0
    BY Pow2Type
  <2> QED
    BY <2>1 DEF Bits
<1>2. Xor({}, {i + 8 : i \in Bits(0, 8)}) = {}
  BY <1>1 DEF Xor
<1>3. ShiftCrc({}) = {}
  BY DEF ShiftCrc
<1> QED
  BY <1>2, <1>3 DEF ShiftByte

LEMMA CrcAfterSteps ==
  ASSUME NEW block
  PROVE  /\ CrcAfter(block, 0) = {}
         /\ \A n \in Nat : /\ CrcAfter(block, n) \in Register
                           /\ CrcAfter(block, n + 1) = ShiftByte(CrcAfter(block, n), block[n])
<1> DEFINE step == [p \in Register \X Nat |-> ShiftByte(p[1], block[p[2]])]
           Recurs(f) == f = [k \in Nat |-> IF k = 0 THEN {} ELSE ShiftByte(f[k - 1], block[k - 1])]
           after == CHOOSE f : Recurs(f)
<1>1. \A n : CrcAfter(block, n) = after[n]
  BY DEF CrcAfter
<1>2. {} \in Register
  BY DEF Register
<1>3. IsStep(step, Register) /\ \A c \in Register, n \in Nat : step[<<c, n>>] = ShiftByte(c, block[n])
  BY ShiftByteType DEF IsStep
<1> HIDE DEF step
<1>4. PICK f : Solves(f, Register, {}, step)
  BY <1>2, <1>3, RecursionIsDefined
<1>5. \A n \in Nat : n # 0 => n - 1 \in Nat /\ n = (n - 1) + 1
  OBVIOUS
<1>6. \A n \in Nat : f[n] = IF n = 0 THEN {} ELSE ShiftByte(f[n - 1], block[n - 1])
  BY <1>3, <1>4, <1>5 DEF Solves
<1>7. Recurs(f)
  <2>1. f \in [Nat -> Register]
    BY <1>4 DEF Solves
  <2> QED
    BY <1>6, <2>1
<1> HIDE DEF Recurs
<1>8. Recurs(after)
  BY <1>7
<1> HIDE DEF after
<1>9. after[0] = {} /\ \A n \in Nat : after[n + 1] = ShiftByte(after[n], block[n])
  <2>1. \A n \in Nat : n + 1 \in Nat /\ n + 1 # 0 /\ (n + 1) - 1 = n
    OBVIOUS
  <2> QED
    BY <1>8, <2>1 DEF Recurs
<1> DEFINE T == {n \in Nat : after[n] \in Register}
<1>10. 0 \in T /\ \A n \in Nat : n \in T => n + 1 \in T
  BY <1>2, <1>9, ShiftByteType
<1> HIDE DEF T
<1>11. Nat \subseteq T
  BY <1>10, Induction
<1> QED
  BY <1>1, <1>9, <1>11 DEF T

LEMMA ByteOfBits == \A b : Number(b, 8) \in Byte
<1>1. Pow2[8] = 256
  <2>1. Pow2[1] = 2 /\ Pow2[2] = 4 /\ Pow2[3] = 8 /\ Pow2[4] = 16
    BY Pow2Next
  <2>2. Pow2[5] = 32 /\ Pow2[6] = 64 /\ Pow2[7] = 128 /\ Pow2[8] = 256
    BY <2>1, Pow2Next
  <2> QED
    BY <2>2
<1> QED
  BY <1>1, NumberType DEF Byte

LEMMA CrcType == \A block : CrcOf(block) \in Byte \X Byte
BY ByteOfBits DEF CrcOf

LEMMA CrcOfZeros ==
  ASSUME NEW block, \A i \in 0 .. B - 1 : block[i] = 0
  PROVE  CrcOf(block) = <<0, 0>>
<1> DEFINE T == {n \in Nat : n <= B => CrcAfter(block, n) = {}}
<1>1. 0 \in T
  BY CrcAfterSteps
<1>2. ASSUME NEW n \in Nat, n \in T PROVE n + 1 \in T
  <2>1. SUFFICES ASSUME n + 1 <= B PROVE CrcAfter(block, n + 1) = {}
    OBVIOUS
  <2>2. n \in 0 .. B - 1 /\ n <= B
    BY <2>1, Sizes
  <2>3. CrcAfter(block, n + 1) = ShiftByte(CrcAfter(block, n), block[n])
    BY CrcAfterSteps
  <2> QED
    BY <1>2, <2>2, <2>3, ZeroByte
<1> HIDE DEF T
<1>3. B \in T
  BY <1>1, <1>2, Induction, Sizes
<1>4. CrcAfter(block, B) = {}
  BY <1>3, Sizes DEF T
<1>5. Number({}, 8) = 0
  <2> DEFINE Z == {n \in Nat : Number({}, n) = 0}
  <2>1. 0 \in Z /\ \A n \in Nat : n \in Z => n + 1 \in Z
    BY NumberSteps
  <2> HIDE DEF Z
  <2>2. 8 \in Z
    BY <2>1, Induction
  <2> QED
    BY <2>2 DEF Z
<1>6. {i - 8 : i \in {} \cap 8 .. 15} = {}
  OBVIOUS
<1> QED
  BY <1>4, <1>5, <1>6 DEF CrcOf

-----------------------------------------------------------------------------
(* Types *)

\* What CardOK leaves out, and where the counters stop.
CountersOK ==
  /\ spiCmd \in 0 .. 63 /\ buffer \in Byte /\ crc \in Byte \X Byte
  /\ argBytes \in 0 .. ArgBytes /\ transferred \in 0 .. B + 4
  /\ spiState = ReceiveArg => argBytes < ArgBytes
  /\ spiState = Writing => transferred <= B + 3

LEMMA CountersInductive == CardOK /\ CountersOK /\ [Next]_vars => CountersOK'
<1> SUFFICES ASSUME CardOK, CountersOK, [Next]_vars PROVE CountersOK'
  OBVIOUS
<1> USE DEF CountersOK, Idle, ReceiveArg, ReceiveCrc, Reading, Writing
<1>0. Filler \in Byte /\ 0 \in Byte /\ StartToken \in Byte /\ Accepted \in Byte
  BY DEF Byte, Filler, StartToken, Accepted
<1>1. ASSUME NEW byte \in HostByte, Command(byte) PROVE CountersOK'
  <2>1. byte % 64 \in 0 .. 63
    BY BytesAssumption DEF Byte
  <2>2. UNCHANGED <<transferred, crc>> /\ buffer' = Filler /\ ArgBytes > 0 /\ 0 \in 0 .. ArgBytes
    BY <1>1, Sizes, SizesAssumption DEF Command
  <2>3. CASE byte = Filler
    <3>1. UNCHANGED <<spiState, spiCmd, argBytes>>
      BY <1>1, <2>3 DEF Command
    <3> QED
      BY <1>0, <2>2, <3>1
  <2>4. CASE byte # Filler
    <3>1. spiState' = ReceiveArg /\ spiCmd' = byte % 64 /\ argBytes' = 0
      BY <1>1, <2>4 DEF Command
    <3> QED
      BY <1>0, <2>1, <2>2, <3>1
  <2> QED
    BY <2>3, <2>4
<1>2. ASSUME NEW byte \in HostByte, Argument(byte) PROVE CountersOK'
  BY <1>2, Sizes DEF Argument
<1>3. ASSUME NEW byte \in HostByte, WriteWait(byte) PROVE CountersOK'
  BY <1>0, <1>3, Sizes DEF WriteWait
<1>4. ASSUME NEW byte \in HostByte, WriteByte(byte) PROVE CountersOK'
  BY <1>4, Sizes DEF WriteByte
<1>5. CASE Response
  BY <1>0, <1>5, Sizes DEF Response
<1>6. CASE ReadWait
  <2>1. crc' \in Byte \X Byte
    BY <1>0, <1>6, CrcType, GarbageAssumption DEF ReadWait, ReadCrc
  <2> QED
    BY <1>0, <1>6, <2>1, Sizes DEF ReadWait
<1>7. CASE ReadToken
  BY <1>0, <1>7, Sizes DEF ReadToken
<1>8. CASE ReadByte
  <2>1. PICK k \in Nat : k = Start(spiArg) + transferred - 2
    BY <1>8, StartOK, Sizes DEF ReadByte, CardOK
  <2>2. buffer' = Device!ByteAt(disk, k)
    BY <1>8, <2>1 DEF ReadByte
  <2>3. buffer' \in Byte
    BY <2>2, ByteAtType
  <2> QED
    BY <1>8, <2>3, Sizes DEF ReadByte
<1>9. CASE ReadChecksum
  BY <1>9, Sizes DEF ReadChecksum
<1>10. CASE ReadEnd
  BY <1>0, <1>10 DEF ReadEnd
<1>11. CASE WriteChecksum
  BY <1>11, Sizes DEF WriteChecksum
<1>12. CASE WriteEnd
  BY <1>0, <1>12 DEF WriteEnd
<1>13. CASE UNCHANGED vars
  BY <1>13 DEF vars, card
<1> QED
  BY <1>1, <1>2, <1>3, <1>4, <1>5, <1>6, <1>7, <1>8, <1>9, <1>10, <1>11, <1>12, <1>13 DEF Next

\* Types, and the bounds of the two counters: neither is tested from below.
THEOREM SdCardTypeCorrect == Spec => []TypeOK
<1>1. Init => CardOK /\ WaitOK /\ CountersOK
  <2>1. 0 \in Byte /\ Filler \in Byte
    BY DEF Byte, Filler
  <2> QED
    BY <2>1, CardInit, Sizes, SizesAssumption
       DEF Init, WaitOK, CountersOK, Idle, ReceiveArg, ReceiveCrc, Reading, Writing
<1>2. CardOK /\ WaitOK /\ CountersOK => TypeOK
  BY DEF CardOK, WaitOK, CountersOK, TypeOK, Disk, Idle, ReceiveArg, ReceiveCrc, Reading, Writing
<1> QED
  BY <1>1, <1>2, CardInductive, WaitInductive, CountersInductive, PTL DEF Spec

-----------------------------------------------------------------------------
(* The checksum *)

\* Block numbers whose block lies in the image, or past its end.
Checked(arg) ==
  \/ Start(arg) + B <= DiskSize
  \/ Start(arg) >= DiskSize /\ Start(arg) + B < Wrap

\* From the first clock of a read on, the register is the block's; the data and then the
\* checksum's bytes have been sent; and nothing is left of that when the next command begins.
ChecksumOK ==
  /\ spiState \in {ReceiveArg, ReceiveCrc, Writing} \/ (spiState = Reading /\ transferred < 2) => got = <<>>
  /\ spiState = Reading /\ transferred >= 1 /\ Checked(spiArg) => crc = CrcOf(Contents(spiArg))
  /\ spiState = Reading /\ transferred >= B + 2 =>
       /\ got \in Seq(Byte) /\ Len(got) = transferred - 2
       /\ answer = Contents(spiArg)
       /\ transferred >= B + 3 => got[B + 1] = crc[1]
       /\ transferred >= B + 4 => got[B + 2] = crc[2]
  /\ spiState = Idle => ChecksumMatchesData

ChecksumInv == CardOK /\ CountersOK /\ ReadOK /\ WriteOK /\ ChecksumOK

\* The first clock of a read puts the checksum of the block into the register.
LEMMA ChecksumIsTaken ==
  ASSUME CardOK, ReadCrc, Checked(spiArg)
  PROVE  crc' = CrcOf(Contents(spiArg))
<1>1. PICK s \in Nat : s = Start(spiArg)
  BY StartOK DEF CardOK
<1>2. CASE s + B <= DiskSize
  <2>1. (s + B) % Wrap = s + B
    BY <1>2, SizesAssumption
  <2> QED
    BY <1>1, <1>2, <2>1, Sizes DEF ReadCrc
<1>3. CASE s >= DiskSize /\ s + B < Wrap
  <2>1. (s + B) % Wrap = s + B
    BY <1>3, SizesAssumption
  <2>2. crc' = <<0, 0>>
    BY <1>1, <1>3, <2>1, Sizes DEF ReadCrc
  <2>3. \A i \in 0 .. B - 1 : Contents(spiArg)[i] = 0
    BY <1>1, <1>3, Sizes DEF Contents, Device!Contents, Device!ByteAt, Start
  <2> QED
    BY <2>2, <2>3, CrcOfZeros
<1> QED
  BY <1>1, <1>2, <1>3 DEF Checked

LEMMA ContentsUnchanged ==
  ASSUME UNCHANGED <<disk, spiArg>>
  PROVE  Contents(spiArg)' = Contents(spiArg) /\ Checked(spiArg)' = Checked(spiArg)
BY DEF Contents, Device!Contents, Device!ByteAt, Checked, Start

LEMMA ChecksumInductive == ChecksumInv /\ [Next]_vars => ChecksumOK'
<1> SUFFICES ASSUME CardOK, CountersOK, ReadOK, WriteOK, ChecksumOK, [Next]_vars PROVE ChecksumOK'
  BY DEF ChecksumInv
<1> USE DEF Idle, ReceiveArg, ReceiveCrc, Reading, Writing
<1>0. Len(<<>>) = 0 /\ Len(<<>>) # B + 2
  BY EmptySeq, Sizes
<1>1. ASSUME got' = <<>>, spiState' # Reading PROVE ChecksumOK'
  BY <1>0, <1>1 DEF ChecksumOK, ChecksumMatchesData
<1>2. ASSUME NEW byte \in HostByte, Command(byte) PROVE ChecksumOK'
  <2>1. CASE byte = Filler
    <3>1. UNCHANGED <<spiState, spiArg, got, answer, disk>> /\ spiState = Idle
      BY <1>2, <2>1 DEF Command
    <3> QED
      BY <3>1 DEF ChecksumOK, ChecksumMatchesData
  <2>2. CASE byte # Filler
    BY <1>1, <1>2, <2>2 DEF Command
  <2> QED
    BY <2>1, <2>2
<1>3. ASSUME NEW byte \in HostByte, Argument(byte) PROVE ChecksumOK'
  BY <1>1, <1>3 DEF Argument, ChecksumOK
<1>4. CASE Response
  <2>1. got' = <<>> /\ spiState' \in {Idle, Reading, Writing} /\ (spiState' = Reading => transferred' = 0)
    BY <1>4 DEF Response, ChecksumOK
  <2> QED
    BY <1>0, <1>1, <2>1, Sizes DEF ChecksumOK
<1>5. CASE ReadWait
  <2>1. got' = <<>> /\ spiState' = Reading /\ transferred' = 1 /\ UNCHANGED <<disk, spiArg>> /\ ReadCrc
    BY <1>5 DEF ReadWait, ChecksumOK
  <2>2. Checked(spiArg) => crc' = CrcOf(Contents(spiArg))
    BY <2>1, ChecksumIsTaken
  <2> QED
    BY <2>1, <2>2, ContentsUnchanged, Sizes DEF ChecksumOK
<1>6. CASE ReadToken
  <2>1. /\ spiState = Reading /\ transferred = 1 /\ spiState' = Reading /\ transferred' = 2
        /\ UNCHANGED <<disk, spiArg, crc>>
    BY <1>6 DEF ReadToken
  <2> QED
    BY <2>1, ContentsUnchanged, Sizes DEF ChecksumOK
<1>7. CASE ReadByte
  <2>1. /\ spiState = Reading /\ transferred \in 2 .. B + 1 /\ spiState' = Reading
        /\ transferred' = transferred + 1 /\ UNCHANGED <<disk, spiArg, crc>>
    BY <1>7 DEF ReadByte
  <2>2. CASE transferred = B + 1
    <3>1. answer' = Contents(spiArg)' /\ got' \in Seq(Byte) /\ Len(got') = B
      BY <1>7, <2>1, <2>2, BlockIsRead, ContentsUnchanged
    <3> QED
      BY <2>1, <2>2, <3>1, ContentsUnchanged, Sizes DEF ChecksumOK
  <2>3. CASE transferred # B + 1
    BY <2>1, <2>3, ContentsUnchanged, Sizes DEF ChecksumOK
  <2> QED
    BY <2>2, <2>3
<1>8. CASE ReadChecksum
  <2>1. /\ spiState = Reading /\ transferred \in {B + 2, B + 3} /\ spiState' = Reading
        /\ transferred' = transferred + 1 /\ UNCHANGED <<disk, spiArg, crc, answer>>
    BY <1>8 DEF ReadChecksum
  <2>2. PICK b \in Byte : b = (IF transferred = B + 2 THEN crc[1] ELSE crc[2]) /\ got' = Append(got, b)
    BY <1>8 DEF ReadChecksum, CountersOK
  <2>3. got \in Seq(Byte) /\ Len(got) = transferred - 2 /\ answer = Contents(spiArg)
    BY <2>1, Sizes DEF ChecksumOK
  <2>4. /\ got' \in Seq(Byte) /\ Len(got') = transferred' - 2
        /\ \A k \in 1 .. transferred - 2 : got'[k] = got[k]
        /\ got'[transferred - 1] = b
    <3>1. (transferred - 2) + 1 = transferred - 1 /\ transferred' - 2 = transferred - 1
      BY <2>1, Sizes
    <3> QED
      BY <2>2, <2>3, <3>1, AppendProperties
  <2>5. CASE transferred = B + 2
    <3>1. got'[B + 1] = crc[1] /\ transferred' = B + 3
      BY <2>1, <2>2, <2>4, <2>5, Sizes
    <3> QED
      BY <2>1, <2>3, <2>4, <3>1, ContentsUnchanged, Sizes DEF ChecksumOK
  <2>6. CASE transferred = B + 3
    <3>1. got'[B + 2] = crc[2] /\ got'[B + 1] = got[B + 1] /\ got[B + 1] = crc[1] /\ transferred' = B + 4
      BY <2>1, <2>2, <2>4, <2>6, Sizes DEF ChecksumOK
    <3> QED
      BY <2>1, <2>3, <2>4, <3>1, ContentsUnchanged, Sizes DEF ChecksumOK
  <2> QED
    BY <2>1, <2>5, <2>6
<1>9. CASE ReadEnd
  <2>1. /\ spiState = Reading /\ transferred = B + 4 /\ spiState' = Idle
        /\ UNCHANGED <<disk, spiArg, got, answer>>
    BY <1>9, Sizes DEF ReadEnd, CountersOK
  <2>2. answer = Contents(spiArg) /\ got[B + 1] = crc[1] /\ got[B + 2] = crc[2]
    BY <2>1, Sizes DEF ChecksumOK
  <2>3. Checked(spiArg) => crc = CrcOf(answer)
    BY <2>1, <2>2, Sizes DEF ChecksumOK
  <2>4. crc = <<crc[1], crc[2]>>
    BY DEF CountersOK
  <2>5. ChecksumMatchesData'
    BY <2>1, <2>2, <2>3, <2>4 DEF ChecksumMatchesData, Checked
  <2> QED
    BY <2>1, <2>5 DEF ChecksumOK
<1>10. ASSUME NEW byte \in HostByte, WriteWait(byte) \/ WriteByte(byte) PROVE ChecksumOK'
  BY <1>1, <1>10 DEF WriteWait, WriteByte, ChecksumOK
<1>11. CASE WriteChecksum \/ WriteEnd
  BY <1>1, <1>11 DEF WriteChecksum, WriteEnd, ChecksumOK
<1>12. CASE UNCHANGED vars
  <2>1. UNCHANGED <<disk, spiArg, spiState, transferred, crc, got, answer>>
    BY <1>12 DEF vars, card
  <2> QED
    BY <2>1, ContentsUnchanged DEF ChecksumOK, ChecksumMatchesData
<1> QED
  BY <1>2, <1>3, <1>4, <1>5, <1>6, <1>7, <1>8, <1>9, <1>10, <1>11, <1>12 DEF Next

\* The data that the host gets and the checksum that follows it belong together, for
\* every block that lies in the image or past its end, whatever bytes the host sends.
THEOREM ChecksumsMatch == Spec => []ChecksumMatchesData
<1>1. Init => ChecksumInv
  <2>1. Init => CountersOK
    <3>1. 0 \in Byte /\ Filler \in Byte
      BY DEF Byte, Filler
    <3> QED
      BY <3>1, Sizes, SizesAssumption DEF Init, CountersOK, Idle, ReceiveArg, ReceiveCrc, Reading, Writing
  <2>2. Init => ReadOK /\ WriteOK
    BY Sizes DEF Init, ReadOK, WriteOK, Idle, ReceiveArg, ReceiveCrc, Reading, Writing
  <2>3. Init => ChecksumOK
    BY EmptySeq, Sizes DEF Init, ChecksumOK, ChecksumMatchesData, Idle, ReceiveArg, ReceiveCrc, Reading, Writing
  <2> QED
    BY <2>1, <2>2, <2>3, CardInit DEF ChecksumInv
<1>2. ChecksumInv /\ [Next]_vars => ChecksumInv'
  BY CardInductive, CountersInductive, ReadInductive, WriteInductive, ChecksumInductive DEF ChecksumInv
<1>3. ChecksumInv => ChecksumMatchesData
  <2> SUFFICES ASSUME ChecksumInv, Len(got) = B + 2, Checked(spiArg)
               PROVE  <<got[B + 1], got[B + 2]>> = CrcOf(answer)
    BY DEF ChecksumMatchesData, Checked
  <2> USE DEF Idle, ReceiveArg, ReceiveCrc, Reading, Writing
  <2>1. Len(<<>>) # B + 2
    BY EmptySeq, Sizes
  <2>2. spiState \in {Idle, Reading}
    BY <2>1 DEF ChecksumInv, CardOK, ChecksumOK
  <2>3. CASE spiState = Idle
    BY <2>3 DEF ChecksumInv, ChecksumOK, ChecksumMatchesData, Checked
  <2>4. CASE spiState = Reading
    <3>1. transferred = B + 4
      BY <2>1, <2>4, Sizes DEF ChecksumInv, CardOK, CountersOK, ReadOK, ChecksumOK
    <3>2. answer = Contents(spiArg) /\ got[B + 1] = crc[1] /\ got[B + 2] = crc[2] /\ crc = CrcOf(answer)
      BY <2>4, <3>1, Sizes DEF ChecksumInv, ChecksumOK
    <3>3. crc = <<crc[1], crc[2]>>
      BY DEF ChecksumInv, CountersOK
    <3> QED
      BY <3>2, <3>3
  <2> QED
    BY <2>2, <2>3, <2>4
<1> QED
  BY <1>1, <1>2, <1>3, PTL DEF Spec
=============================================================================
