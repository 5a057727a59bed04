--------------------------- MODULE DataSaverProofs ---------------------------
(***************************************************************************)
(* Theorems about the flash store, for every ring size, batch length and   *)
(* set of readings.                                                        *)
(***************************************************************************)
EXTENDS DataSaver, Integers, SequenceTheorems, TLAPS

-----------------------------------------------------------------------------
(***************************************************************************)
(* The ring's arithmetic.  Indexes are below 2 * Size before they are      *)
(* reduced, so that % subtracts Size at most once.                         *)
(***************************************************************************)

LEMMA ModAtMostOnce ==
    ASSUME NEW n \in Nat \ {0}, NEW a \in Nat, a < 2 * n
    PROVE  a % n = IF a < n THEN a ELSE a - n
<1>1. a = n * (a \div n) + (a % n) /\ a % n \in 0 .. n - 1 /\ a \div n \in Int
  BY SMT
<1>2. CASE a < n
  BY <1>2, SMT
<1>3. CASE a >= n
  <2>1. a = n * 1 + (a - n) /\ a - n \in 0 .. n - 1
    BY <1>3
  <2>2. QED
    BY <1>3, <2>1, SMT
<1>4. QED
  BY <1>2, <1>3

\* The next slot, without the remainder.
LEMMA AfterIs ==
    ASSUME NEW slot \in Slots
    PROVE  After(slot) = IF slot + 1 = Size THEN 0 ELSE slot + 1
BY SizeAssumption, ModAtMostOnce DEF After, Slots

\* The slot c places after another, up to once around the ring.
LEMMA SlotPlus ==
    ASSUME NEW slot \in Slots, NEW c \in 0 .. Size
    PROVE  (slot + c) % Size = IF slot + c < Size THEN slot + c ELSE slot + c - Size
<1> DEFINE a == slot + c
<1>1. a \in Nat /\ a < 2 * Size
  BY SizeAssumption DEF Slots
<1> HIDE DEF a
<1>2. a % Size = IF a < Size THEN a ELSE a - Size
  BY <1>1, SizeAssumption, ModAtMostOnce
<1>3. QED
  BY <1>2, SizeAssumption DEF a, Slots

\* The ring relation of RingConsistent, on one buffer state.
Consistent(b) == b.Head = (b.Tail + b.Count) % Size

\* Pushing keeps the indexes in range and Head Count slots after Tail, whether
\* the ring is full or not.
LEMMA PushIsConsistent ==
    ASSUME NEW b \in BufferState, Consistent(b)
    PROVE  Push(b) \in BufferState /\ Consistent(Push(b))
<1> USE SizeAssumption
<1> DEFINE h == After(b.Head)
           t == IF b.Count < Size THEN b.Tail ELSE After(b.Tail)
           c == IF b.Count < Size THEN b.Count + 1 ELSE b.Count
<1>1. /\ b.Head \in Slots /\ b.Tail \in Slots /\ b.Count \in 0 .. Size
      /\ After(b.Head) = IF b.Head + 1 = Size THEN 0 ELSE b.Head + 1
      /\ After(b.Tail) = IF b.Tail + 1 = Size THEN 0 ELSE b.Tail + 1
  BY AfterIs DEF BufferState
<1>2. h \in Slots /\ t \in Slots /\ c \in 0 .. Size
  BY <1>1 DEF Slots
<1>3. b.Head = IF b.Tail + b.Count < Size
               THEN b.Tail + b.Count
               ELSE b.Tail + b.Count - Size
  BY <1>1, SlotPlus DEF Consistent
<1>4. (t + c) % Size = IF t + c < Size THEN t + c ELSE t + c - Size
  BY <1>2, SlotPlus
<1>5. h = (t + c) % Size
  <2>1. CASE b.Count < Size
    BY <1>1, <1>3, <1>4, <2>1 DEF Slots
  <2>2. CASE b.Count = Size
    BY <1>1, <1>3, <1>4, <2>2 DEF Slots
  <2>3. QED
    BY <1>1, <2>1, <2>2
<1>6. Push(b) = [Head |-> h, Tail |-> t, Count |-> c]
  BY DEF Push
<1> HIDE DEF h, t, c
<1>7. QED
  BY <1>2, <1>5, <1>6 DEF BufferState, Consistent

\* So does popping a ring that is not empty.
LEMMA PopIsConsistent ==
    ASSUME NEW b \in BufferState, Consistent(b), b.Count > 0
    PROVE  Pop(b) \in BufferState /\ Consistent(Pop(b))
<1> USE SizeAssumption
<1> DEFINE t == After(b.Tail)
           c == b.Count - 1
<1>1. /\ b.Head \in Slots /\ b.Tail \in Slots /\ b.Count \in 1 .. Size
      /\ t = IF b.Tail + 1 = Size THEN 0 ELSE b.Tail + 1
  BY AfterIs DEF BufferState
<1>2. t \in Slots /\ c \in 0 .. Size
  BY <1>1 DEF Slots
<1>3. b.Head = IF b.Tail + b.Count < Size
               THEN b.Tail + b.Count
               ELSE b.Tail + b.Count - Size
  BY <1>1, SlotPlus DEF Consistent
<1>4. (t + c) % Size = IF t + c < Size THEN t + c ELSE t + c - Size
  BY <1>2, SlotPlus
<1>5. b.Head = (t + c) % Size
  BY <1>1, <1>3, <1>4 DEF Slots
<1>6. Pop(b) = [Head |-> b.Head, Tail |-> t, Count |-> c]
  BY DEF Pop
<1> HIDE DEF t, c
<1>7. QED
  BY <1>1, <1>2, <1>5, <1>6 DEF BufferState, Consistent

-----------------------------------------------------------------------------
(***************************************************************************)
(* The ring, with any failure of a flush or close and any power loss.      *)
(***************************************************************************)

RingInv == SaverTypeOK /\ RingConsistent

LEMMA RingInvInit == SaverInit => RingInv
<1> SUFFICES ASSUME SaverInit PROVE RingInv
  OBVIOUS
<1> USE SizeAssumption
<1>1. EmptyBuffer \in BufferState /\ Consistent(EmptyBuffer)
  <2>1. 0 \in Slots /\ 0 \in 0 .. Size
    BY DEF Slots
  <2>2. (0 + 0) % Size = 0
    BY <2>1, SlotPlus
  <2>3. QED
    BY <2>1, <2>2 DEF EmptyBuffer, BufferState, Consistent
<1>2. NoReadings \in [Slots -> Records] /\ Zeroed \in Records /\ 0 \in Slots
  BY DEF NoReadings, Records, Slots
<1>3. SaverTypeOK
  BY <1>1, <1>2 DEF SaverInit, SaverTypeOK, NoBatch, NoSnapshot, Snapshot, NoSave, NoOutput
<1>4. RingConsistent
  BY <1>1 DEF SaverInit, RingConsistent, NoSnapshot, Consistent
<1>5. QED
  BY <1>3, <1>4 DEF RingInv

\* The empty snapshot is a good one, in every state.
LEMMA NoSnapshotIsGood ==
    NoSnapshot \in Snapshot /\ Consistent(NoSnapshot.buffer)
<1>1. 0 \in Slots /\ 0 \in 0 .. Size
  BY SizeAssumption DEF Slots
<1>2. (0 + 0) % Size = 0
  BY <1>1, SlotPlus, SizeAssumption
<1>3. EmptyBuffer \in BufferState /\ Consistent(EmptyBuffer)
  BY <1>1, <1>2 DEF EmptyBuffer, BufferState, Consistent
<1>4. NoReadings \in [Slots -> Records]
  BY DEF NoReadings, Records
<1>5. QED
  BY <1>3, <1>4 DEF NoSnapshot, Snapshot

LEMMA RingInvNext == RingInv /\ [SaverNext]_dvars => RingInv'
<1> SUFFICES ASSUME RingInv, [SaverNext]_dvars PROVE RingInv'
  OBVIOUS
<1> USE DEF RingInv, SaverTypeOK, RingConsistent
<1>1. ASSUME UNCHANGED dvars PROVE RingInv'
  BY <1>1 DEF dvars
<1>2. ASSUME Begin PROVE RingInv'
  BY <1>2 DEF Begin
<1>13. ASSUME BeginFormats PROVE RingInv'
  <2>1. EmptyBuffer \in BufferState /\ Consistent(EmptyBuffer) /\ NoReadings \in [Slots -> Records]
    BY NoSnapshotIsGood DEF NoSnapshot, Snapshot
  <2>2. QED
    BY <1>13, <2>1 DEF BeginFormats, Consistent
<1>3. ASSUME SaverPowerLoss PROVE RingInv'
  <2>1. bufferFile' = bufferFile /\ readingsFile' = readingsFile
    BY <1>3 DEF SaverPowerLoss, files
  <2>2. snapshot' \in Snapshot /\ Consistent(snapshot'.buffer)
    BY <1>3, NoSnapshotIsGood DEF SaverPowerLoss
  <2>3. NoSave \in [slot : Slots, data : Records]
    BY SizeAssumption DEF NoSave, Slots, Records
  <2>4. QED
    BY <1>3, <2>1, <2>2, <2>3 DEF SaverPowerLoss, NoBatch, NoOutput, Records, Consistent, Missed
<1>4. ASSUME ReadEndsBatch PROVE RingInv'
  BY <1>4, NoSnapshotIsGood DEF ReadEndsBatch, NoBatch, NoOutput, Records, Consistent
<1>5. ASSUME ReadCannotOpen PROVE RingInv'
  BY <1>5 DEF ReadCannotOpen, NoOutput, Records
<1>6. ASSUME ReadFindsEmpty PROVE RingInv'
  BY <1>6, NoSnapshotIsGood DEF ReadFindsEmpty, NoOutput, Records, Consistent
<1>7. ASSUME ReadPops \/ ReadPopsUnsaved PROVE RingInv'
  <2>1. Takes /\ bufferFile' \in {bufferFile, Pop(Seen.buffer)}
    BY <1>7 DEF ReadPops, ReadPopsUnsaved
  <2>2. Seen \in Snapshot /\ Consistent(Seen.buffer)
    BY DEF Seen, Committed, Snapshot, Consistent
  <2>3. Pop(Seen.buffer) \in BufferState /\ Consistent(Pop(Seen.buffer))
    BY <2>1, <2>2, PopIsConsistent DEF Takes, Snapshot
  <2>4. snapshot' \in Snapshot /\ Consistent(snapshot'.buffer)
    BY <2>1, <2>2, <2>3 DEF Takes, Snapshot
  <2>5. Readable \subseteq Records
    BY <2>2 DEF Readable, ReadSlot, Snapshot, BufferState, Records
  <2>6. bufferFile' \in BufferState /\ Consistent(bufferFile')
    BY <2>1, <2>3 DEF Consistent
  <2>7. batch' \in [open : BOOLEAN, count : Nat] /\ out' \in [ok : BOOLEAN, data : Records]
    BY <2>1, <2>5 DEF Takes
  <2>8. QED
    BY <2>1, <2>4, <2>6, <2>7 DEF Takes, Consistent
<1>8. ASSUME DropOutput PROVE RingInv'
  BY <1>8 DEF DropOutput, NoOutput, Records
<1>9. ASSUME NEW r \in Readings, WriteClosesBuffer(r) \/ WriteLosesBuffer(r) PROVE RingInv'
  <2>1. PICK b \in {bufferFile, Push(bufferFile)} : Pushes(r, b)
    BY <1>9 DEF WriteClosesBuffer, WriteLosesBuffer
  <2>2. b \in BufferState /\ Consistent(b)
    BY PushIsConsistent DEF Consistent
  <2>3. saving' \in [slot : Slots, data : Records]
    BY <2>1 DEF Pushes, WriteSlot, BufferState, Records
  <2>4. QED
    BY <2>1, <2>2, <2>3 DEF Pushes, Consistent
<1>10. ASSUME WriteClosesReadings \/ WriteLosesReadings PROVE RingInv'
  <2>1. NoSave \in [slot : Slots, data : Records]
    BY SizeAssumption DEF NoSave, Slots, Records
  <2>2. readingsFile' \in [Slots -> Records] /\ cut' \subseteq Slots
    BY <1>10 DEF WriteClosesReadings, WriteLosesReadings, Missed
  <2>3. QED
    BY <1>10, <2>1, <2>2 DEF WriteClosesReadings, WriteLosesReadings
<1>11. ASSUME WriteCannotOpen PROVE RingInv'
  BY <1>11, <1>1 DEF WriteCannotOpen
<1>12. QED
  BY <1>1, <1>2, <1>3, <1>4, <1>5, <1>6, <1>7, <1>8, <1>9, <1>10, <1>11, <1>13 DEF SaverNext

\* Whatever fails and whenever power goes, the files and the batch state hold
\* values of their types: an index of the ring never leaves it.
THEOREM TypeCorrect == SaverSpec => []SaverTypeOK
<1>1. RingInv => SaverTypeOK
  BY DEF RingInv
<1>2. QED
  BY <1>1, RingInvInit, RingInvNext, PTL DEF SaverSpec

\* Nor do Head, Tail and Count ever contradict each other: what is lost when
\* handles are old or a Write is cut in two is readings, not the ring.
THEOREM RingAlwaysConsistent == SaverSpec => []RingConsistent
<1>1. RingInv => RingConsistent
  BY DEF RingInv
<1>2. QED
  BY <1>1, RingInvInit, RingInvNext, PTL DEF SaverSpec

-----------------------------------------------------------------------------
(***************************************************************************)
(* Rings as sequences.                                                     *)
(***************************************************************************)

\* The slots of a ring, without the remainder.
LEMMA RingSlot ==
    ASSUME NEW b \in BufferState, NEW i \in 1 .. Size
    PROVE  /\ SlotAt(b, i) \in Slots
           /\ SlotAt(b, i) = IF b.Tail + i <= Size THEN b.Tail + i - 1
                                                   ELSE b.Tail + i - 1 - Size
<1> DEFINE c == i - 1
           t == b.Tail
<1>1. c \in 0 .. Size /\ t \in Slots
  BY SizeAssumption DEF BufferState
<1> HIDE DEF t
<1>2. (t + c) % Size = IF t + c < Size THEN t + c ELSE t + c - Size
  BY <1>1, SlotPlus
<1>3. SlotAt(b, i) = (t + c) % Size
  BY DEF SlotAt, t
<1>4. t + c = t + i - 1 /\ (t + c < Size <=> t + i <= Size)
  BY <1>1, SizeAssumption DEF Slots
<1>5. SlotAt(b, i) = IF t + i <= Size THEN t + i - 1 ELSE t + i - 1 - Size
  BY <1>1, <1>2, <1>3, <1>4, SizeAssumption DEF Slots
<1>6. SlotAt(b, i) \in Slots
  BY <1>1, <1>5, SizeAssumption DEF Slots
<1>7. QED
  BY <1>5, <1>6 DEF t

\* They are distinct.
LEMMA RingSlotsDistinct ==
    ASSUME NEW b \in BufferState, NEW i \in 1 .. Size, NEW j \in 1 .. Size,
           SlotAt(b, i) = SlotAt(b, j)
    PROVE  i = j
<1> DEFINE At(k) == IF b.Tail + k <= Size THEN b.Tail + k - 1 ELSE b.Tail + k - 1 - Size
<1>1. SlotAt(b, i) = At(i) /\ SlotAt(b, j) = At(j)
  BY RingSlot
<1>2. At(i) = At(j)
  BY <1>1
<1>3. b.Tail \in Slots
  BY DEF BufferState
<1>4. QED
  BY <1>2, <1>3, SizeAssumption DEF Slots

\* What a ring holds, as a sequence.
LEMMA InRingIsSeq ==
    ASSUME NEW b \in BufferState, NEW rd \in [Slots -> Records]
    PROVE  /\ InRing(b, rd) \in Seq(Records)
           /\ Len(InRing(b, rd)) = b.Count
           /\ DOMAIN InRing(b, rd) = 1 .. b.Count
           /\ b.Count \in 0 .. Size
           /\ \A i \in 1 .. b.Count : /\ i \in 1 .. Size
                                      /\ SlotAt(b, i) \in Slots
                                      /\ InRing(b, rd)[i] = rd[SlotAt(b, i)]
<1>1. b.Count \in 0 .. Size
  BY DEF BufferState
<1>2. \A i \in 1 .. b.Count : i \in 1 .. Size
  BY <1>1, SizeAssumption
<1>3. \A i \in 1 .. b.Count : SlotAt(b, i) \in Slots
  BY <1>2, RingSlot
<1>4. InRing(b, rd) \in [1 .. b.Count -> Records]
  BY <1>3 DEF InRing
<1>5. b.Count \in Nat
  BY <1>1, SizeAssumption
<1>6. InRing(b, rd) \in Seq(Records) /\ Len(InRing(b, rd)) = b.Count
  BY <1>4, <1>5
<1>7. QED
  BY <1>1, <1>2, <1>3, <1>4, <1>6 DEF InRing

\* The slot after the newest is one of the ring's only if it is full: the oldest.
LEMMA HeadOutside ==
    ASSUME NEW b \in BufferState, Consistent(b), NEW i \in 1 .. b.Count,
           SlotAt(b, i) = b.Head
    PROVE  i = 1 /\ b.Count = Size
<1> USE SizeAssumption
<1>1. /\ b.Tail \in Slots /\ b.Count \in 0 .. Size /\ i \in 1 .. Size
  BY DEF BufferState
<1>2. b.Head = IF b.Tail + b.Count < Size THEN b.Tail + b.Count
                                          ELSE b.Tail + b.Count - Size
  BY <1>1, SlotPlus DEF Consistent
<1>3. SlotAt(b, i) = IF b.Tail + i <= Size THEN b.Tail + i - 1 ELSE b.Tail + i - 1 - Size
  BY <1>1, RingSlot
<1>4. b.Tail \in 0 .. Size - 1 /\ b.Count \in Nat /\ i \in Nat /\ i > 0 /\ i <= b.Count
      /\ b.Count <= Size
  BY <1>1 DEF Slots
<1> DEFINE t == b.Tail
           c == b.Count
<1> HIDE DEF t, c
<1>5. (IF t + i <= Size THEN t + i - 1 ELSE t + i - 1 - Size)
        = (IF t + c < Size THEN t + c ELSE t + c - Size)
  BY <1>2, <1>3 DEF t, c
<1>6. t \in 0 .. Size - 1 /\ c \in Nat /\ i \in Nat /\ i > 0 /\ i <= c /\ c <= Size
  BY <1>4 DEF t, c
<1>7. i = 1 /\ c = Size
  BY ONLY <1>5, <1>6, SizeAssumption
<1>8. QED
  BY <1>7 DEF c

\* A slot that is written is one entry of the ring, or none.
OneEntry(b, slot, q, q2, e) ==
    \/ (\A i \in 1 .. b.Count : SlotAt(b, i) # slot) /\ q2 = q
    \/ \E i \in 1 .. b.Count : SlotAt(b, i) = slot /\ q2 = [q EXCEPT ![i] = e]

LEMMA WriteOne ==
    ASSUME NEW b \in BufferState, NEW rd \in [Slots -> Records],
           NEW slot \in Slots, NEW e \in Records
    PROVE  OneEntry(b, slot, InRing(b, rd), InRing(b, [rd EXCEPT ![slot] = e]), e)
<1> DEFINE q == InRing(b, rd)
           rd2 == [rd EXCEPT ![slot] = e]
           q2 == InRing(b, rd2)
<1>1. rd2 \in [Slots -> Records]
  OBVIOUS
<1>2. /\ DOMAIN q = 1 .. b.Count
      /\ \A i \in 1 .. b.Count : i \in 1 .. Size /\ SlotAt(b, i) \in Slots
                                 /\ q[i] = rd[SlotAt(b, i)]
  BY InRingIsSeq
<1>3. \A i \in 1 .. b.Count : q2[i] = IF SlotAt(b, i) = slot THEN e ELSE q[i]
  BY <1>2 DEF InRing
<1>4. q2 = [i \in 1 .. b.Count |-> q2[i]] /\ q = [i \in 1 .. b.Count |-> q[i]]
  BY DEF InRing
<1> HIDE DEF q, q2
<1>5. ASSUME \A i \in 1 .. b.Count : SlotAt(b, i) # slot
      PROVE  q2 = q
  BY <1>3, <1>4, <1>5
<1>6. ASSUME NEW i \in 1 .. b.Count, SlotAt(b, i) = slot
      PROVE  q2 = [q EXCEPT ![i] = e]
  <2>1. ASSUME NEW j \in 1 .. b.Count PROVE q2[j] = IF j = i THEN e ELSE q[j]
    BY <1>2, <1>3, <1>6, <2>1, RingSlotsDistinct
  <2>2. QED
    BY <1>2, <1>4, <2>1
<1>7. OneEntry(b, slot, q, q2, e)
  BY <1>5, <1>6 DEF OneEntry
<1>8. QED
  BY <1>7 DEF q, q2

\* Taking the reading at Tail takes the head of the sequence.
LEMMA PopIsTail ==
    ASSUME NEW b \in BufferState, NEW rd \in [Slots -> Records], b.Count > 0,
           Pop(b) \in BufferState
    PROVE  /\ InRing(b, rd) # <<>>
           /\ Head(InRing(b, rd)) = rd[b.Tail]
           /\ InRing(Pop(b), rd) = Tail(InRing(b, rd))
           /\ \A i \in 1 .. b.Count - 1 : i + 1 \in 1 .. b.Count
                                          /\ SlotAt(Pop(b), i) = SlotAt(b, i + 1)
<1> USE SizeAssumption
<1> DEFINE n == b.Count
           q == InRing(b, rd)
           p == InRing(Pop(b), rd)
           t == b.Tail
           t2 == Pop(b).Tail
<1>1. n \in 1 .. Size /\ t \in Slots
  BY DEF BufferState
<1>2. /\ q \in Seq(Records) /\ Len(q) = n
      /\ \A i \in 1 .. n : SlotAt(b, i) \in Slots /\ q[i] = rd[SlotAt(b, i)]
  BY InRingIsSeq
<1>3. Pop(b).Count = n - 1 /\ t2 = (IF t + 1 = Size THEN 0 ELSE t + 1)
  BY <1>1, AfterIs DEF Pop
<1>4. /\ p \in Seq(Records) /\ Len(p) = n - 1
      /\ \A i \in 1 .. n - 1 : p[i] = rd[SlotAt(Pop(b), i)]
  BY <1>3, InRingIsSeq
<1>5. ASSUME NEW i \in 1 .. n - 1
      PROVE  i + 1 \in 1 .. n /\ SlotAt(Pop(b), i) = SlotAt(b, i + 1)
  <2>1. i \in 1 .. Size /\ i + 1 \in 1 .. Size /\ i + 1 \in 1 .. n
    BY <1>1
  <2>2. SlotAt(Pop(b), i) = IF t2 + i <= Size THEN t2 + i - 1 ELSE t2 + i - 1 - Size
    BY <2>1, RingSlot
  <2>3. SlotAt(b, i + 1) = IF t + (i + 1) <= Size THEN t + (i + 1) - 1
                                                   ELSE t + (i + 1) - 1 - Size
    BY <2>1, RingSlot
  <2>4. t \in 0 .. Size - 1
    BY <1>1 DEF Slots
  <2> HIDE DEF t, t2, n
  <2>5. QED
    BY <1>3, <2>1, <2>2, <2>3, <2>4
<1>6. SlotAt(b, 1) = t
  <2>1. 1 \in 1 .. Size /\ t \in 0 .. Size - 1
    BY <1>1 DEF Slots
  <2>2. QED
    BY <2>1, RingSlot
<1> HIDE DEF q, p, n, t, t2
<1>7. q # <<>> /\ Head(q) = q[1] /\ 1 \in 1 .. n
  BY <1>1, <1>2
<1>8. /\ Tail(q) \in Seq(Records) /\ Len(Tail(q)) = n - 1
      /\ \A i \in 1 .. n - 1 : Tail(q)[i] = q[i + 1]
  BY <1>1, <1>2, <1>7
<1>9. \A i \in 1 .. n - 1 : p[i] = Tail(q)[i]
  BY <1>2, <1>4, <1>5, <1>8
<1>10. p = Tail(q)
  BY <1>4, <1>8, <1>9, SeqEqual
<1>11. QED
  BY <1>2, <1>5, <1>6, <1>7, <1>10 DEF q, p, n, t

\* The slots of a ring after a push: those it had but for the oldest of a full
\* ring, and the one that was written.
LEMMA PushSlots ==
    ASSUME NEW b \in BufferState, Consistent(b), Push(b) \in BufferState
    PROVE  LET k == IF b.Count = Size THEN b.Count - 1 ELSE b.Count
           IN  /\ k \in Nat /\ k < Size /\ Push(b).Count = k + 1
               /\ SlotAt(Push(b), k + 1) = b.Head
               /\ \A i \in 1 .. k :
                    SlotAt(Push(b), i) = SlotAt(b, IF b.Count = Size THEN i + 1 ELSE i)
<1> USE SizeAssumption
<1> DEFINE t == b.Tail
           n == b.Count
           full == n = Size
           k == IF full THEN n - 1 ELSE n
           t2 == Push(b).Tail
<1>1. /\ t \in Slots /\ n \in 0 .. Size /\ b.Head \in Slots
      /\ b.Head = IF t + n < Size THEN t + n ELSE t + n - Size
  BY SlotPlus DEF BufferState, Consistent
<1>2. k \in Nat /\ k < Size /\ k + 1 \in 1 .. Size /\ k = IF full THEN Size - 1 ELSE n
  BY <1>1
<1>3. Push(b).Count = k + 1
  BY <1>1 DEF Push
<1>4. t2 = IF ~full THEN t ELSE IF t + 1 = Size THEN 0 ELSE t + 1
  <2>1. t2 = IF n < Size THEN t ELSE After(t)
    BY DEF Push
  <2>2. After(t) = IF t + 1 = Size THEN 0 ELSE t + 1
    BY <1>1, AfterIs
  <2>3. QED
    BY <1>1, <2>1, <2>2
<1>5. t \in 0 .. Size - 1
  BY <1>1 DEF Slots
<1> HIDE DEF k, t2, full
<1>6. SlotAt(Push(b), k + 1) = b.Head
  <2>1. SlotAt(Push(b), k + 1) = IF t2 + (k + 1) <= Size THEN t2 + (k + 1) - 1
                                                         ELSE t2 + (k + 1) - 1 - Size
    BY <1>2, RingSlot DEF t2
  <2> HIDE DEF t, n
  <2>2. CASE full
    <3>1. n = Size
      BY <2>2 DEF full
    <3>2. k = Size - 1 /\ t2 = IF t + 1 = Size THEN 0 ELSE t + 1
      BY <1>2, <1>4, <2>2
    <3>3. QED
      BY <1>1, <1>5, <2>1, <3>1, <3>2
  <2>3. CASE ~full
    BY <1>1, <1>2, <1>4, <1>5, <2>1, <2>3
  <2>4. QED
    BY <2>2, <2>3
<1>7. ASSUME NEW i \in 1 .. k
      PROVE  SlotAt(Push(b), i) = SlotAt(b, IF full THEN i + 1 ELSE i)
  <2>1. i \in 1 .. Size /\ i + 1 \in 1 .. Size
    BY <1>2
  <2>2. SlotAt(Push(b), i) = IF t2 + i <= Size THEN t2 + i - 1 ELSE t2 + i - 1 - Size
    BY <2>1, RingSlot DEF t2
  <2>3. SlotAt(b, i + 1) = IF t + (i + 1) <= Size THEN t + (i + 1) - 1
                                                   ELSE t + (i + 1) - 1 - Size
    BY <2>1, RingSlot
  <2>4. SlotAt(b, i) = IF t + i <= Size THEN t + i - 1 ELSE t + i - 1 - Size
    BY <2>1, RingSlot
  <2> HIDE DEF t, n
  <2>5. CASE full
    <3>1. t2 = IF t + 1 = Size THEN 0 ELSE t + 1
      BY <1>4, <2>5
    <3>2. SlotAt(Push(b), i) = SlotAt(b, i + 1)
      BY <1>5, <2>1, <2>2, <2>3, <3>1
    <3>3. QED
      BY <2>5, <3>2
  <2>6. CASE ~full
    BY <1>4, <2>2, <2>4, <2>6
  <2>7. QED
    BY <2>5, <2>6
<1>8. QED
  BY <1>2, <1>3, <1>6, <1>7 DEF k, full

\* A push with its reading appends to the sequence; a full one loses its oldest.
LEMMA PushAppends ==
    ASSUME NEW b \in BufferState, Consistent(b), Push(b) \in BufferState,
           NEW rd \in [Slots -> Records], NEW r \in Records
    PROVE  LET q == InRing(b, rd)
           IN  InRing(Push(b), [rd EXCEPT ![b.Head] = r])
                  = Append(IF Len(q) = Size THEN Tail(q) ELSE q, r)
<1> USE SizeAssumption
<1> DEFINE q == InRing(b, rd)
           n == b.Count
           full == n = Size
           k == IF full THEN n - 1 ELSE n
           kept == IF full THEN Tail(q) ELSE q
           rd2 == [rd EXCEPT ![b.Head] = r]
           p == InRing(Push(b), rd2)
           From(i) == IF full THEN i + 1 ELSE i
<1>1. /\ k \in Nat /\ k < Size /\ Push(b).Count = k + 1
      /\ SlotAt(Push(b), k + 1) = b.Head
      /\ \A i \in 1 .. k : SlotAt(Push(b), i) = SlotAt(b, From(i))
  BY PushSlots
<1>2. n \in 0 .. Size /\ b.Head \in Slots /\ rd2 \in [Slots -> Records]
  BY DEF BufferState
<1>3. /\ q \in Seq(Records) /\ Len(q) = n
      /\ \A i \in 1 .. n : SlotAt(b, i) \in Slots /\ q[i] = rd[SlotAt(b, i)]
  BY InRingIsSeq
<1>4. /\ p \in Seq(Records) /\ Len(p) = k + 1
      /\ \A i \in 1 .. k + 1 : i \in 1 .. Size /\ SlotAt(Push(b), i) \in Slots
                               /\ p[i] = rd2[SlotAt(Push(b), i)]
  BY <1>1, <1>2, InRingIsSeq
<1> HIDE DEF q, p, rd2
<1>5. /\ kept \in Seq(Records) /\ Len(kept) = k
      /\ \A i \in 1 .. k : From(i) \in 1 .. n /\ kept[i] = q[From(i)]
  BY <1>2, <1>3
<1> HIDE DEF kept, k, From
<1>6. ASSUME NEW i \in 1 .. k PROVE p[i] = kept[i]
  <2>1. i \in 1 .. k + 1 /\ k + 1 \in 1 .. k + 1 /\ i # k + 1
    BY <1>1
  <2>2. SlotAt(Push(b), i) # b.Head
    BY <1>1, <1>4, <2>1, RingSlotsDistinct
  <2>3. p[i] = rd[SlotAt(Push(b), i)]
    BY <1>4, <2>1, <2>2 DEF rd2
  <2>4. QED
    BY <1>1, <1>3, <1>5, <2>3
<1>7. p[k + 1] = r
  BY <1>1, <1>2, <1>4 DEF rd2
<1>8. /\ Append(kept, r) \in Seq(Records)
      /\ Len(Append(kept, r)) = k + 1
      /\ \A i \in 1 .. k + 1 : Append(kept, r)[i] = IF i = k + 1 THEN r ELSE kept[i]
  BY <1>5, AppendProperties
<1>9. \A i \in 1 .. k + 1 : p[i] = Append(kept, r)[i]
  BY <1>1, <1>6, <1>7, <1>8
<1>10. p = Append(kept, r)
  BY <1>4, <1>8, <1>9, SeqEqual
<1>11. QED
  BY <1>3, <1>10 DEF p, kept, rd2, q, full
-----------------------------------------------------------------------------
(***************************************************************************)
(* The store is a queue that drops its oldest reading.                     *)
(***************************************************************************)

\* The push in progress is the newest of the ring, or, when the buffer state
\* was lost, takes the place of a full ring's oldest.
SavingInPlace ==
    saving # NoSave =>
        /\ saving.data \in Readings
        /\ \A i \in 1 .. bufferFile.Count :
              SlotAt(bufferFile, i) = saving.slot => i \in {1, bufferFile.Count}

\* The slots that may be counted: written, being written, or cut short.
MayCount(slot) ==
    \/ readingsFile[slot] \in Readings
    \/ slot \in cut
    \/ saving # NoSave /\ slot = saving.slot

AllMayCount(b) == \A i \in 1 .. b.Count : MayCount(SlotAt(b, i))

\* The part of ContentsWritten that is inductive: what the batch handles count
\* may become the committed state.
WrittenInv == AllMayCount(bufferFile) /\ AllMayCount(snapshot.buffer)

ClosedInv ==
    /\ batch.open \/ snapshot = NoSnapshot
    /\ mounted \/ (saving = NoSave /\ ~batch.open)

QueueInv == RingInv /\ SavingInPlace /\ WrittenInv /\ ClosedInv

\* What the pieces of the state are in terms of rings and sequences.
LEMMA QueueFacts ==
    ASSUME QueueInv
    PROVE  /\ bufferFile \in BufferState /\ Consistent(bufferFile)
           /\ snapshot.buffer \in BufferState /\ Consistent(snapshot.buffer)
           /\ readingsFile \in [Slots -> Records]
           /\ snapshot.readings \in [Slots -> Records]
           /\ Saved \in [Slots -> Records]
           /\ saving.slot \in Slots
           /\ out.data \in Records
           /\ Contents \in Seq(Records) /\ Len(Contents) = bufferFile.Count
           /\ InView \in Seq(Records) /\ Len(InView) = snapshot.buffer.Count
<1> USE DEF QueueInv, RingInv, SaverTypeOK
<1>1. bufferFile \in BufferState /\ Consistent(bufferFile)
  BY DEF RingConsistent, Consistent
<1>2. snapshot.buffer \in BufferState /\ Consistent(snapshot.buffer)
      /\ snapshot.readings \in [Slots -> Records]
  BY DEF RingConsistent, Consistent, Snapshot
<1>3. Saved \in [Slots -> Records] /\ saving.slot \in Slots /\ out.data \in Records
  BY DEF Saved
<1>4. QED
  BY <1>1, <1>2, <1>3, InRingIsSeq DEF Contents, InView

LEMMA QueueInvInit == SaverInit => QueueInv
BY RingInvInit
DEF SaverInit, QueueInv, SavingInPlace, WrittenInv, AllMayCount, ClosedInv, EmptyBuffer,
    NoSnapshot, NoBatch

LEMMA InvGivesWritten == QueueInv => ContentsWritten
<1> SUFFICES ASSUME QueueInv, NEW i \in 1 .. bufferFile.Count,
                    SlotAt(bufferFile, i) \notin cut
             PROVE  Contents[i] \in Readings
  BY DEF ContentsWritten
<1>1. /\ SlotAt(bufferFile, i) \in Slots
      /\ Contents[i] = Saved[SlotAt(bufferFile, i)]
  BY QueueFacts, InRingIsSeq DEF Contents
<1>2. MayCount(SlotAt(bufferFile, i))
  BY DEF QueueInv, WrittenInv, AllMayCount
<1>3. readingsFile \in [Slots -> Records]
  BY QueueFacts
<1>4. QED
  BY <1>1, <1>2, <1>3 DEF MayCount, Saved, QueueInv, SavingInPlace

-----------------------------------------------------------------------------
(***************************************************************************)
(* The steps.                                                              *)
(***************************************************************************)

QStep == [Queue!QNext]_(Queue!qvars)

Reader == IF ~batch.open THEN "closed"
          ELSE IF snapshot = Committed THEN "open" ELSE "behind"

\* Steps that only close the batch, drop the output, or neither.
LEMMA QuietStep ==
    ASSUME QueueInv, RingInv', UNCHANGED <<bufferFile, readingsFile, saving, mounted, cut>>,
           out' \in {out, NoOutput},
           \/ batch'.open = batch.open /\ snapshot' = snapshot
           \/ ~batch'.open /\ snapshot' = NoSnapshot /\ out' = NoOutput
    PROVE  QueueInv' /\ QStep
<1>1. Contents' = Contents /\ SavingInPlace' /\ AllMayCount(bufferFile)'
  BY DEF QueueInv, Contents, InRing, SlotAt, Saved, SavingInPlace, WrittenInv, AllMayCount, MayCount
<1>2. AllMayCount(snapshot.buffer)' /\ ClosedInv'
  <2>1. NoSnapshot.buffer.Count = 0
    BY DEF NoSnapshot, EmptyBuffer
  <2>2. CASE snapshot' = snapshot /\ batch'.open = batch.open
    BY <2>2 DEF QueueInv, WrittenInv, AllMayCount, MayCount, SlotAt, ClosedInv
  <2>3. CASE snapshot' = NoSnapshot /\ ~batch'.open
    BY <2>1, <2>3 DEF AllMayCount, ClosedInv, QueueInv
  <2>4. QED
    BY <2>2, <2>3
<1>3. QueueInv'
  BY <1>1, <1>2 DEF QueueInv, WrittenInv
<1>4. CASE batch'.open = batch.open /\ snapshot' = snapshot
  <2>1. InView' = InView /\ Reader' = Reader
    BY <1>4 DEF InView, InRing, SlotAt, Reader, Committed
  <2>2. CASE out' = out
    BY <1>1, <1>3, <2>1, <2>2 DEF QStep, Queue!qvars, Reader
  <2>3. CASE out' = NoOutput
    BY <1>1, <1>3, <2>1, <2>3 DEF QStep, Queue!QNext, Queue!Forget, Reader, NoOutput
  <2>4. QED
    BY <2>2, <2>3
<1>5. CASE ~batch'.open /\ snapshot' = NoSnapshot /\ out' = NoOutput
  <2>1. InView' = <<>> /\ Reader' = "closed"
    BY <1>5 DEF InView, InRing, NoSnapshot, EmptyBuffer, Reader
  <2>2. QED
    BY <1>1, <1>3, <1>5, <2>1 DEF QStep, Queue!QNext, Queue!Forget, Reader, NoOutput
<1>6. QED
  BY <1>3, <1>4, <1>5

\* Begin, with a format or without one.
LEMMA MountStep ==
    ASSUME QueueInv, RingInv', Begin \/ BeginFormats
    PROVE  QueueInv' /\ QStep
<1>1. /\ UNCHANGED <<batch, snapshot, saving, out>> /\ ~mounted /\ mounted'
      /\ \/ UNCHANGED <<bufferFile, readingsFile, cut>>
         \/ bufferFile' = EmptyBuffer /\ readingsFile' = NoReadings
  BY DEF Begin, BeginFormats
<1>2. saving = NoSave /\ ~batch.open /\ snapshot = NoSnapshot /\ NoSnapshot.buffer.Count = 0
  BY DEF Begin, BeginFormats, QueueInv, ClosedInv, NoSnapshot, EmptyBuffer
<1>3. InView' = InView /\ Reader' = Reader
  BY <1>1, <1>2 DEF InView, InRing, SlotAt, Reader
<1>4. AllMayCount(snapshot.buffer)' /\ ClosedInv' /\ SavingInPlace'
  BY <1>1, <1>2 DEF AllMayCount, ClosedInv, SavingInPlace
<1>5. Contents' \in {Contents, <<>>} /\ AllMayCount(bufferFile)'
  <2>1. CASE UNCHANGED <<bufferFile, readingsFile, cut>>
    BY <1>1, <1>2, <2>1 DEF Contents, InRing, SlotAt, Saved, QueueInv, WrittenInv, AllMayCount, MayCount
  <2>2. CASE bufferFile' = EmptyBuffer
    BY <2>2 DEF Contents, InRing, EmptyBuffer, AllMayCount
  <2>3. QED
    BY <1>1, <2>1, <2>2
<1>6. QED
  BY <1>1, <1>3, <1>4, <1>5 DEF QueueInv, WrittenInv, QStep, Queue!QNext, Queue!Mount, Reader

\* A Write that does not reach its second close: what the slot held is there.
LEMMA UnsavedEntry ==
    ASSUME QueueInv, saving # NoSave
    PROVE  LET c == InRing(bufferFile, readingsFile)
           IN  c = Contents \/ \E i \in {1, Len(Contents)} \cap DOMAIN Contents, e \in Records :
                                  c = [Contents EXCEPT ![i] = e]
<1> DEFINE slot == saving.slot
           e == readingsFile[slot]
           c == InRing(bufferFile, readingsFile)
<1>1. /\ Saved \in [Slots -> Records] /\ slot \in Slots /\ e \in Records
      /\ bufferFile \in BufferState /\ Consistent(bufferFile)
      /\ DOMAIN Contents = 1 .. bufferFile.Count /\ Len(Contents) = bufferFile.Count
  BY QueueFacts, InRingIsSeq DEF Contents
<1>2. readingsFile = [Saved EXCEPT ![slot] = e]
  BY QueueFacts DEF Saved
<1> HIDE DEF e, slot
<1>3. \/ c = Contents
      \/ \E i \in 1 .. bufferFile.Count :
            SlotAt(bufferFile, i) = slot /\ c = [Contents EXCEPT ![i] = e]
  <2> DEFINE rd2 == [Saved EXCEPT ![slot] = e]
  <2>1. OneEntry(bufferFile, slot, InRing(bufferFile, Saved), InRing(bufferFile, rd2), e)
    BY <1>1, WriteOne
  <2>2. rd2 = readingsFile
    BY <1>2
  <2> HIDE DEF rd2
  <2>3. QED
    BY <2>1, <2>2 DEF OneEntry, Contents
<1>4. QED
  BY <1>1, <1>3 DEF QueueInv, SavingInPlace, slot

\* The power goes.
LEMMA PowerLossStep ==
    ASSUME QueueInv, RingInv', SaverPowerLoss
    PROVE  QueueInv' /\ QStep
<1>1. /\ bufferFile' = bufferFile /\ readingsFile' = readingsFile
      /\ saving' = NoSave /\ batch' = NoBatch /\ snapshot' = NoSnapshot
      /\ out' = NoOutput /\ ~mounted'
      /\ cut' = cut \cup Missed
  BY DEF SaverPowerLoss, files
<1>2. Contents' = InRing(bufferFile, readingsFile)
  BY <1>1 DEF Contents, Saved, InRing, SlotAt
<1>3. Contents' = Contents \/ (saving # NoSave /\ Queue!Spoils)
  <2>1. CASE saving = NoSave
    BY <1>2, <2>1 DEF Contents, Saved
  <2>2. CASE saving # NoSave
    BY <1>2, <2>2, UnsavedEntry DEF Queue!Spoils, Queue!Entries, Records
  <2>3. QED
    BY <2>1, <2>2
<1>4. InView' = <<>> /\ Reader' = "closed"
  BY <1>1 DEF InView, InRing, NoSnapshot, EmptyBuffer, Reader, NoBatch
<1>5. QStep
  BY <1>1, <1>3, <1>4 DEF QStep, Queue!QNext, Queue!LosePower, Reader, NoOutput
<1>6. AllMayCount(bufferFile)'
  <2>1. \A i \in 1 .. bufferFile.Count : MayCount(SlotAt(bufferFile, i))
    BY DEF QueueInv, WrittenInv, AllMayCount
  <2>2. \A s \in Slots : MayCount(s) => MayCount(s)'
    BY <1>1, QueueFacts DEF MayCount, Missed, QueueInv, Records
  <2>3. QED
    BY <1>1, <2>1, <2>2, RingSlot, QueueFacts DEF AllMayCount, MayCount, SlotAt
<1>7. AllMayCount(snapshot.buffer)' /\ ClosedInv' /\ SavingInPlace'
  BY <1>1 DEF AllMayCount, NoSnapshot, EmptyBuffer, ClosedInv, NoBatch, SavingInPlace
<1>8. QED
  BY <1>5, <1>6, <1>7 DEF QueueInv, WrittenInv

\* The two ways Write ends.
LEMMA SaveEndsStep ==
    ASSUME QueueInv, RingInv', WriteClosesReadings \/ WriteLosesReadings
    PROVE  QueueInv' /\ QStep
<1>1. /\ saving # NoSave /\ saving' = NoSave
      /\ UNCHANGED <<bufferFile, batch, snapshot, out, mounted>>
      /\ \/ /\ readingsFile' = [readingsFile EXCEPT ![saving.slot] = saving.data]
            /\ cut' = cut \ {saving.slot}
         \/ /\ readingsFile' = readingsFile
            /\ cut' = cut \cup Missed
  BY DEF WriteClosesReadings, WriteLosesReadings
<1>2. Contents' = InRing(bufferFile, readingsFile')
  BY <1>1 DEF Contents, Saved, InRing, SlotAt
<1>3. Contents' = Contents \/ Queue!Spoils
  <2>1. CASE readingsFile' = [readingsFile EXCEPT ![saving.slot] = saving.data]
    BY <1>1, <1>2, <2>1 DEF Contents, Saved
  <2>2. CASE readingsFile' = readingsFile
    BY <1>1, <1>2, <2>2, UnsavedEntry DEF Queue!Spoils, Queue!Entries, Records
  <2>3. QED
    BY <1>1, <2>1, <2>2
<1>4. InView' = InView /\ (Reader' = "closed" <=> Reader = "closed")
      /\ Reader' \in {"closed", "open", "behind"}
  BY <1>1 DEF InView, InRing, SlotAt, Reader
<1>5. QStep
  BY <1>1, <1>3, <1>4 DEF QStep, Queue!QNext, Queue!PutEnds, Queue!Overtakes, Reader
<1>6. \A slot \in Slots : MayCount(slot) => MayCount(slot)'
  BY <1>1, QueueFacts DEF MayCount, Missed, QueueInv, SavingInPlace, Records
<1>7. AllMayCount(bufferFile)' /\ AllMayCount(snapshot.buffer)'
  <2>1. \A i \in 1 .. bufferFile.Count : SlotAt(bufferFile, i) \in Slots
    BY QueueFacts, InRingIsSeq
  <2>2. \A i \in 1 .. snapshot.buffer.Count : SlotAt(snapshot.buffer, i) \in Slots
    BY QueueFacts, InRingIsSeq
  <2>3. \A i : SlotAt(bufferFile, i)' = SlotAt(bufferFile, i)
               /\ SlotAt(snapshot.buffer, i)' = SlotAt(snapshot.buffer, i)
    BY <1>1 DEF SlotAt
  <2>4. /\ bufferFile' = bufferFile /\ snapshot' = snapshot
        /\ \A i \in 1 .. bufferFile.Count : MayCount(SlotAt(bufferFile, i))
        /\ \A i \in 1 .. snapshot.buffer.Count : MayCount(SlotAt(snapshot.buffer, i))
    BY <1>1 DEF QueueInv, WrittenInv, AllMayCount
  <2> HIDE DEF SlotAt, MayCount
  <2>5. \A i \in 1 .. bufferFile.Count : MayCount(SlotAt(bufferFile, i))'
    BY <1>1, <1>6, <2>1, <2>4 DEF MayCount, SlotAt
  <2>6. \A i \in 1 .. snapshot.buffer.Count : MayCount(SlotAt(snapshot.buffer, i))'
    BY <1>1, <1>6, <2>2, <2>4 DEF MayCount, SlotAt
  <2>7. QED
    BY <2>4, <2>5, <2>6 DEF AllMayCount
<1>8. QED
  BY <1>1, <1>5, <1>7 DEF QueueInv, WrittenInv, ClosedInv, SavingInPlace

\* Write's first close, successful or not.
LEMMA PutStep ==
    ASSUME QueueInv, RingInv', NEW r \in Readings,
           WriteClosesBuffer(r) \/ WriteLosesBuffer(r)
    PROVE  QueueInv' /\ QStep
<1> USE DEF QueueInv
<1>1. PICK b \in {bufferFile, Push(bufferFile)} : Pushes(r, b)
  BY DEF WriteClosesBuffer, WriteLosesBuffer
<1>2. /\ mounted /\ saving = NoSave
      /\ saving' = [slot |-> bufferFile.Head, data |-> r]
      /\ bufferFile' = b
      /\ UNCHANGED <<readingsFile, batch, snapshot, out, mounted, cut>>
  BY <1>1 DEF Pushes, WriteSlot, Ready
<1>3. saving' # NoSave /\ saving'.data = r /\ saving'.slot = bufferFile.Head
  BY <1>2, ZeroedAssumption DEF NoSave
<1>4. /\ bufferFile \in BufferState /\ Consistent(bufferFile)
      /\ readingsFile \in [Slots -> Records] /\ r \in Records /\ bufferFile.Head \in Slots
      /\ Push(bufferFile) \in BufferState
  BY QueueFacts, PushIsConsistent DEF Records, BufferState
<1> DEFINE rd2 == [readingsFile EXCEPT ![bufferFile.Head] = r]
           q == Contents
           n == bufferFile.Count
<1>5. /\ q = InRing(bufferFile, readingsFile) /\ Contents' = InRing(b, rd2)
      /\ Len(q) = n /\ q \in Seq(Records)
  <2>1. Saved' = rd2
    BY <1>2, <1>3 DEF Saved
  <2>2. Contents' = InRing(b, rd2)
    BY <1>2, <2>1 DEF Contents, InRing, SlotAt
  <2>3. q = InRing(bufferFile, readingsFile)
    BY <1>2 DEF Contents, Saved
  <2>4. QED
    BY <2>2, <2>3, QueueFacts
<1>6. InView' = InView /\ (Reader' = "closed" <=> Reader = "closed")
      /\ Reader' \in {"closed", "open", "behind"}
  BY <1>2 DEF InView, InRing, SlotAt, Reader
<1>7. /\ \/ Contents' = Append(IF Len(q) = Size THEN Tail(q) ELSE q, r)
         \/ Contents' = IF Len(q) = Size THEN [q EXCEPT ![1] = r] ELSE q
      /\ \A i \in 1 .. b.Count : SlotAt(b, i) = bufferFile.Head => i \in {1, b.Count}
      /\ \A i \in 1 .. b.Count :
            \/ SlotAt(b, i) = bufferFile.Head
            \/ \E j \in 1 .. n : SlotAt(b, i) = SlotAt(bufferFile, j)
  <2>1. CASE b = bufferFile
    <3>1. ASSUME NEW i \in 1 .. n, SlotAt(bufferFile, i) = bufferFile.Head
          PROVE  i = 1 /\ n = Size
      BY <1>4, <3>1, HeadOutside
    <3>2. \/ (\A i \in 1 .. n : SlotAt(bufferFile, i) # bufferFile.Head)
             /\ InRing(bufferFile, rd2) = q
          \/ \E i \in 1 .. n : SlotAt(bufferFile, i) = bufferFile.Head
                               /\ InRing(bufferFile, rd2) = [q EXCEPT ![i] = r]
      <4>1. OneEntry(bufferFile, bufferFile.Head, InRing(bufferFile, readingsFile),
                     InRing(bufferFile, rd2), r)
        BY <1>4, WriteOne
      <4> HIDE DEF rd2, q
      <4>2. QED
        BY <1>5, <4>1 DEF OneEntry
    <3>3. n = Size => SlotAt(bufferFile, 1) = bufferFile.Head /\ 1 \in 1 .. n
      <4>1. bufferFile.Tail \in Slots /\ 1 \in 1 .. Size
        BY <1>4, SizeAssumption DEF BufferState
      <4>2. SlotAt(bufferFile, 1) = bufferFile.Tail
        BY <1>4, <4>1, RingSlot, SizeAssumption DEF Slots
      <4>3. n = Size => bufferFile.Head = bufferFile.Tail
        <5> SUFFICES ASSUME n = Size PROVE bufferFile.Head = bufferFile.Tail
          OBVIOUS
        <5>1. Size \in 0 .. Size
          BY SizeAssumption
        <5>2. (bufferFile.Tail + Size) % Size = bufferFile.Tail
          BY <4>1, <5>1, SlotPlus, SizeAssumption DEF Slots
        <5>3. QED
          BY <1>4, <5>2 DEF Consistent
      <4>4. QED
        BY <4>1, <4>2, <4>3
    <3>4. Contents' = IF n = Size THEN [q EXCEPT ![1] = r] ELSE q
      BY <1>5, <2>1, <3>1, <3>2, <3>3
    <3>5. QED
      BY <1>5, <2>1, <3>1, <3>4
  <2>2. CASE b = Push(bufferFile)
    <3>1. Contents' = Append(IF Len(q) = Size THEN Tail(q) ELSE q, r)
      BY <1>4, <1>5, <2>2, PushAppends
    <3> DEFINE k == IF n = Size THEN n - 1 ELSE n
    <3>2. /\ k \in Nat /\ k < Size /\ b.Count = k + 1
          /\ SlotAt(b, k + 1) = bufferFile.Head
          /\ \A i \in 1 .. k : SlotAt(b, i) = SlotAt(bufferFile, IF n = Size THEN i + 1 ELSE i)
      BY <1>4, <2>2, PushSlots
    <3>3. n \in 0 .. Size
      BY <1>4 DEF BufferState
    <3>4. ASSUME NEW i \in 1 .. k PROVE \E j \in 1 .. n : SlotAt(b, i) = SlotAt(bufferFile, j)
      <4>1. (IF n = Size THEN i + 1 ELSE i) \in 1 .. n
        BY <3>3
      <4>2. QED
        BY <3>2, <4>1
    <3>5. ASSUME NEW i \in 1 .. k + 1, SlotAt(b, i) = bufferFile.Head PROVE i = k + 1
      <4>1. i \in 1 .. Size /\ k + 1 \in 1 .. Size
        BY <3>2, SizeAssumption
      <4>2. QED
        BY <1>4, <2>2, <3>2, <3>5, <4>1, RingSlotsDistinct
    <3> HIDE DEF k
    <3>6. \A i \in 1 .. k + 1 : i \in 1 .. k \/ i = k + 1
      BY <3>2
    <3>7. QED
      BY <3>1, <3>2, <3>4, <3>5, <3>6
  <2>3. QED
    BY <2>1, <2>2
<1>8. QStep
  <2>1. Queue!Overtakes
    BY <1>2, <1>6 DEF Queue!Overtakes, Reader
  <2>2. Queue!Put(r)
    BY <1>2, <1>3, <1>7, <2>1 DEF Queue!Put
  <2>3. QED
    BY <2>2 DEF QStep, Queue!QNext
<1>9. SavingInPlace' /\ ClosedInv'
  BY <1>2, <1>3, <1>7 DEF SavingInPlace, ClosedInv, SlotAt
<1>10. AllMayCount(bufferFile)' /\ AllMayCount(snapshot.buffer)'
  <2>1. \A slot : MayCount(slot) \/ slot = bufferFile.Head => MayCount(slot)'
    BY <1>2, <1>3 DEF MayCount
  <2>2. /\ \A i \in 1 .. n : MayCount(SlotAt(bufferFile, i))
        /\ \A i \in 1 .. snapshot.buffer.Count : MayCount(SlotAt(snapshot.buffer, i))
    BY DEF WrittenInv, AllMayCount
  <2>3. \A i \in 1 .. b.Count : MayCount(SlotAt(b, i)) \/ SlotAt(b, i) = bufferFile.Head
    BY <1>7, <2>2
  <2>4. \A i \in 1 .. b.Count : MayCount(SlotAt(b, i))'
    BY <1>2, <1>3, <2>3 DEF MayCount, SlotAt
  <2>5. \A i \in 1 .. snapshot.buffer.Count : MayCount(SlotAt(snapshot.buffer, i))'
    BY <1>2, <1>3, <2>2 DEF MayCount, SlotAt
  <2>6. QED
    BY <1>2, <2>4, <2>5 DEF AllMayCount, MayCount, SlotAt
<1>11. QED
  BY <1>8, <1>9, <1>10 DEF WrittenInv

\* A reading is taken, and the flush succeeds or fails.
LEMMA TakeStep ==
    ASSUME QueueInv, RingInv', ReadPops \/ ReadPopsUnsaved
    PROVE  QueueInv' /\ QStep
<1> USE DEF QueueInv
<1> DEFINE sb == Seen.buffer
           sr == Seen.readings
           v == InRing(sb, sr)
<1>1. /\ Takes /\ mounted /\ saving = NoSave /\ sb.Count > 0
      /\ UNCHANGED <<readingsFile, saving, mounted, cut>>
      /\ snapshot' = [Seen EXCEPT !.buffer = Pop(sb)]
      /\ batch'.open
      /\ out'.data \in Readable
      /\ bufferFile' \in {bufferFile, Pop(sb)}
  BY DEF ReadPops, ReadPopsUnsaved, Takes, Ready
<1>2. /\ sb \in BufferState /\ sr \in [Slots -> Records] /\ Consistent(sb)
      /\ Seen = [buffer |-> sb, readings |-> sr]
      /\ AllMayCount(sb)
  BY QueueFacts DEF Seen, Committed, Snapshot, RingInv, SaverTypeOK, WrittenInv
<1>3. Pop(sb) \in BufferState
  BY <1>1, <1>2, PopIsConsistent
<1>4. /\ v # <<>> /\ Head(v) = sr[sb.Tail] /\ InRing(Pop(sb), sr) = Tail(v)
      /\ \A i \in 1 .. sb.Count - 1 : i + 1 \in 1 .. sb.Count
                                      /\ SlotAt(Pop(sb), i) = SlotAt(sb, i + 1)
  BY <1>1, <1>2, <1>3, PopIsTail
<1>5. /\ snapshot' = [buffer |-> Pop(sb), readings |-> sr]
      /\ InView' = Tail(v)
  BY <1>1, <1>2, <1>4 DEF InView, InRing, SlotAt
<1>6. v = IF Reader = "closed" THEN Contents ELSE InView
  BY <1>1 DEF Seen, Committed, Reader, InView, Contents, Saved
<1>7. Reader # "behind" => sb = bufferFile /\ sr = readingsFile
  BY DEF Seen, Committed, Reader
<1>8. Queue!Gives(Head(v))
  <2>1. out'.data = ReadSlot(sr, sb.Tail, out.data)
        \/ (out'.data = Zeroed /\ Reader = "behind")
    BY <1>1, <1>7 DEF Readable
  <2>2. sb.Tail \in sb.Tail .. Size - 1
    BY <1>2, SizeAssumption DEF BufferState, Slots
  <2>3. ReadSlot(sr, sb.Tail, out.data) = sr[sb.Tail]
        \/ (sr[sb.Tail] = Zeroed /\ ReadSlot(sr, sb.Tail, out.data) = out.data)
    BY <2>2 DEF ReadSlot
  <2>4. QED
    BY <1>4, <2>1, <2>3 DEF Queue!Gives, Reader
<1>9. Pop(sb).Count = sb.Count - 1 /\ sb.Count \in Nat
  BY <1>2, SizeAssumption DEF Pop, BufferState
<1>10. Len(v) = sb.Count
  BY <1>2, InRingIsSeq
<1>11. \/ /\ Reader # "behind" /\ Contents' = Tail(v) /\ Reader' = "open"
       \/ /\ Reader = "behind" /\ Len(Contents') = Len(v) - 1 /\ Reader' \in {"open", "behind"}
       \/ /\ Contents' = Contents /\ Reader' = "behind"
  <2>1. CASE bufferFile' = Pop(sb)
    <3>1. Contents' = InRing(Pop(sb), readingsFile)
      BY <1>1, <2>1 DEF Contents, Saved, InRing, SlotAt
    <3>2. Len(Contents') = Len(v) - 1
      BY <1>3, <1>9, <1>10, <3>1, InRingIsSeq, QueueFacts
    <3>3. Reader' = IF sr = readingsFile THEN "open" ELSE "behind"
      <4>1. Committed' = [buffer |-> Pop(sb), readings |-> readingsFile]
        BY <1>1, <2>1 DEF Committed
      <4>2. snapshot' = Committed' <=> sr = readingsFile
        BY <1>5, <4>1
      <4>3. QED
        BY <1>1, <4>2 DEF Reader
    <3>4. QED
      BY <1>4, <1>7, <3>1, <3>2, <3>3
  <2>2. CASE bufferFile' = bufferFile
    <3>1. Contents' = Contents
      BY <1>1, <2>2 DEF Contents, Saved, InRing, SlotAt
    <3>2. CASE bufferFile = Pop(sb)
      BY <1>1, <2>1, <2>2, <3>2
    <3>3. CASE bufferFile # Pop(sb)
      BY <1>1, <1>5, <2>2, <3>1, <3>3 DEF Reader, Committed
    <3>4. QED
      BY <3>2, <3>3
  <2>3. QED
    BY <1>1, <2>1, <2>2
<1>12. QStep
  <2>1. Queue!Take
    BY <1>1, <1>4, <1>5, <1>6, <1>8, <1>11 DEF Queue!Take, Reader
  <2>2. QED
    BY <2>1 DEF QStep, Queue!QNext
<1>13. PICK pb : pb = Pop(sb)
  OBVIOUS
<1>14. AllMayCount(bufferFile)' /\ AllMayCount(snapshot.buffer)'
  <2>1. \A i \in 1 .. Pop(sb).Count : MayCount(SlotAt(sb, i + 1))
    BY <1>2, <1>4, <1>9 DEF AllMayCount
  <2>2. \A i \in 1 .. pb.Count : MayCount(SlotAt(pb, i))
    BY <1>4, <1>9, <1>13, <2>1
  <2>3. \A slot : MayCount(slot)' <=> MayCount(slot)
    BY <1>1 DEF MayCount
  <2>4. snapshot'.buffer = pb /\ bufferFile' \in {bufferFile, pb}
    BY <1>1, <1>5, <1>13
  <2>5. \A i \in 1 .. bufferFile.Count : MayCount(SlotAt(bufferFile, i))
    BY DEF WrittenInv, AllMayCount
  <2>6. QED
    BY <1>1, <2>2, <2>4, <2>5 DEF AllMayCount, MayCount, SlotAt
<1>15. SavingInPlace' /\ ClosedInv'
  BY <1>1 DEF SavingInPlace, ClosedInv
<1>16. QED
  BY <1>12, <1>14, <1>15 DEF WrittenInv

\* Every step keeps the invariant, and is a step of the queue or leaves it.
LEMMA QueueStep ==
    ASSUME QueueInv, [SaverNext]_dvars
    PROVE  QueueInv' /\ QStep
<1>1. RingInv'
  BY RingInvNext DEF QueueInv
<1>2. NoSnapshot = NoSnapshot' /\ NoBatch.open = FALSE
  BY DEF NoSnapshot, NoBatch, EmptyBuffer, NoReadings
<1>3. CASE UNCHANGED dvars
  BY <1>1, <1>3, QuietStep DEF dvars
<1>4. CASE Begin \/ BeginFormats
  BY <1>1, <1>4, MountStep
<1>5. CASE SaverPowerLoss
  BY <1>1, <1>5, PowerLossStep
<1>6. CASE ReadEndsBatch
  BY <1>1, <1>2, <1>6, QuietStep DEF ReadEndsBatch
<1>7. CASE ReadCannotOpen
  BY <1>1, <1>7, QuietStep DEF ReadCannotOpen
<1>8. CASE ReadFindsEmpty
  <2>1. ~batch'.open
    BY <1>8 DEF ReadFindsEmpty, QueueInv, RingInv, SaverTypeOK
  <2>2. QED
    BY <1>1, <1>8, <2>1, QuietStep DEF ReadFindsEmpty
<1>9. CASE ReadPops \/ ReadPopsUnsaved
  BY <1>1, <1>9, TakeStep
<1>10. CASE DropOutput
  BY <1>1, <1>10, QuietStep DEF DropOutput
<1>11. ASSUME NEW r \in Readings, WriteClosesBuffer(r) \/ WriteLosesBuffer(r)
       PROVE  QueueInv' /\ QStep
  BY <1>1, <1>11, PutStep
<1>12. CASE WriteClosesReadings \/ WriteLosesReadings
  BY <1>1, <1>12, SaveEndsStep
<1>13. CASE WriteCannotOpen
  BY <1>3, <1>13 DEF WriteCannotOpen
<1>14. QED
  BY <1>3, <1>4, <1>5, <1>6, <1>7, <1>8, <1>9, <1>10, <1>11, <1>12, <1>13 DEF SaverNext

\* No slot that the ring counts is unwritten, but for those whose own close()
\* did not commit their reading: not through the failure of any other flush,
\* nor through the old buffer state that handles left open may commit.
THEOREM ContentsAlwaysWritten == SaverSpec => []ContentsWritten
<1>1. QueueInv /\ [SaverNext]_dvars => QueueInv'
  BY QueueStep
<1>2. QED
  BY <1>1, InvGivesWritten, QueueInvInit, PTL DEF SaverSpec

\* The store is a queue that drops its oldest reading when it is full, with the
\* exceptions that DropOldestQueue names: power losses, failing flushes and
\* handles that are left open cost no more than it says.
THEOREM ImplementsDropOldestQueue == SaverSpec => IsDropOldestQueue
<1>1. SaverInit => Queue!QInit
  BY DEF SaverInit, Queue!QInit, EmptyBuffer, NoOutput, Contents, InView, InRing, NoBatch, NoSnapshot
<1>2. QueueInv /\ [SaverNext]_dvars => QueueInv' /\ [Queue!QNext]_(Queue!qvars)
  BY QueueStep DEF QStep
<1>3. QED
  BY <1>1, <1>2, QueueInvInit, PTL DEF SaverSpec, IsDropOldestQueue, Queue!QSpec
=============================================================================
