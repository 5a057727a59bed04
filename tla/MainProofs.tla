----------------------------- MODULE MainProofs -----------------------------
(***************************************************************************)
(* Proofs about the averages (RunningAverage), for every size of two or    *)
(* more and any readings: GetAvg never divides by zero and is off by one   *)
(* reading at most; what goes out of a full ring is its oldest reading;    *)
(* m_Sum is the exact sum of the last readings after every push.           *)
(*                                                                         *)
(* These and what is proved of setup() (SensorConfigProofs) hold of the    *)
(* whole of main.cpp, with the sensor task and loop() starting after       *)
(* setup() and power losses at any time.                                   *)
(***************************************************************************)
EXTENDS Main, SensorConfigProofs, SequenceLemmas, Integers

\* What Push has still to add to m_Count, or to the readings in m_Sum.
Due(out, in) == (IF in \in push.todo THEN 1 ELSE 0) - (IF out \in push.todo THEN 1 ELSE 0)

\* How many readings the average has once Push is over.
Final == count + Due("countOut", "countIn")

\* A reading goes out before one comes in, and only when Size are in.
PushInv ==
    /\ count \in 0 .. Size
    /\ terms \in 0 .. Size
    /\ "countOut" \in push.todo => "countIn" \in push.todo /\ count = Size
    /\ "countIn" \in push.todo /\ "countOut" \notin push.todo => count < Size
    /\ "sumOut" \in push.todo => "sumIn" \in push.todo /\ terms = Size
    /\ "sumIn" \in push.todo /\ "sumOut" \notin push.todo => terms < Size
    /\ terms + Due("sumOut", "sumIn") = Final

\* What GetAvg has loaded: with no Push near, what is there; with one, what
\* there is once it is over, or one reading less.
ReaderInv ==
    /\ reader.at = "idle" => reader.loaded = {} /\ ~reader.overlaps
    /\ reader.at = "divide" => reader.loaded = {"sum", "count"} /\ reader.got.count # 0
    /\ reader.at # "idle" /\ push.todo # {} => reader.overlaps
    /\ "count" \in reader.loaded =>
           /\ reader.got.count # 0 => count # 0
           /\ reader.got.count \in {Final, Final - 1}
           /\ ~reader.overlaps => reader.got.count = Final
    /\ "sum" \in reader.loaded =>
           /\ reader.got.terms \in {Final, Final - 1}
           /\ ~reader.overlaps => reader.got.terms = Final

\* The types the step of an action needs.
Typed ==
    /\ push \in [todo : SUBSET Stores, in : Nat, out : Nat]
    /\ ring \in [buffer : [Slots -> Nat], head : Slots, tail : Slots, count : 0 .. Size]
    /\ sum \in Int
    /\ reader \in [at : {"idle", "test", "divide"}, loaded : SUBSET {"sum", "count"},
                   got : [sum : Int, count : 0 .. Size, terms : 0 .. Size],
                   overlaps : BOOLEAN]

AvgInv == Typed /\ PushInv /\ ReaderInv

-----------------------------------------------------------------------------

LEMMA AvgInitInv == AvgInit => AvgInv
<1> SUFFICES ASSUME AvgInit PROVE AvgInv
  OBVIOUS
<1> USE SizeAssumption
<1>1. Typed
  BY DEF AvgInit, Typed, Idle, NotLoaded, Slots, Stores
<1>2. PushInv
  BY DEF AvgInit, PushInv, Due, Final
<1>3. ReaderInv
  BY DEF AvgInit, ReaderInv, Idle
<1>4. QED
  BY <1>1, <1>2, <1>3 DEF AvgInv

\* A reader's step: nothing of Push moves.
LEMMA ReaderStep ==
    ASSUME AvgInv, ReaderMoves PROVE PushInv' /\ Final' = Final
BY DEF AvgInv, PushInv, ReaderMoves, Due, Final

\* One step per action.
LEMMA AvgNextInv == AvgInv /\ [AvgNext]_avgVars => AvgInv'
<1> SUFFICES ASSUME AvgInv, [AvgNext]_avgVars PROVE AvgInv'
  OBVIOUS
<1> USE SizeAssumption, AvgValuesAssumption
<1>1. ASSUME NEW value \in AvgValues, PushBegins(value) PROVE AvgInv'
  <2> USE <1>1
  <2>1. Oldest \in Nat /\ value \in Nat /\ count \in 0 .. Size
    BY DEF AvgInv, Typed, PushInv, Oldest
  <2>2. Typed'
    BY <2>1 DEF AvgInv, Typed, PushBegins, StoresOfPush, Stores
  <2>3. push.todo = {} /\ push'.todo = StoresOfPush
        /\ count' = count /\ terms' = terms /\ terms = count
    BY DEF AvgInv, PushInv, PushBegins, Due, Final
  <2>4. PushInv'
    BY <2>1, <2>3 DEF PushInv, StoresOfPush, Stores, Due, Final
  <2>5. Final = count /\ Final' \in {count, count + 1}
    BY <2>1, <2>3 DEF StoresOfPush, Stores, Due, Final
  <2>6. ReaderInv'
    BY <2>1, <2>2, <2>3, <2>5 DEF AvgInv, Typed, ReaderInv, PushBegins
  <2>7. QED
    BY <2>2, <2>4, <2>6 DEF AvgInv
<1>2. CASE StoreSumOut
  <2>1. Typed'
    BY <1>2 DEF AvgInv, Typed, StoreSumOut, NextStore
  <2>2. PushInv' /\ Final' = Final
    BY <1>2 DEF AvgInv, Typed, PushInv, StoreSumOut, NextStore, Due, Final
  <2>3. ReaderInv'
    BY <1>2, <2>2 DEF AvgInv, Typed, ReaderInv, StoreSumOut, NextStore
  <2>4. QED
    BY <2>1, <2>2, <2>3 DEF AvgInv
<1>3. CASE StoreSumIn
  <2>1. Typed'
    BY <1>3 DEF AvgInv, Typed, StoreSumIn, NextStore
  <2>2. PushInv' /\ Final' = Final
    BY <1>3 DEF AvgInv, Typed, PushInv, StoreSumIn, NextStore, Due, Final
  <2>3. ReaderInv'
    BY <1>3, <2>2 DEF AvgInv, Typed, ReaderInv, StoreSumIn, NextStore
  <2>4. QED
    BY <2>1, <2>2, <2>3 DEF AvgInv
<1>4. CASE StoreCountOut
  <2>1. Typed'
    BY <1>4 DEF AvgInv, Typed, StoreCountOut, NextStore
  <2>2. PushInv' /\ Final' = Final
    BY <1>4 DEF AvgInv, Typed, PushInv, StoreCountOut, NextStore, Due, Final
  <2>3. count' # 0     \* one goes out of two or more
    BY <1>4 DEF AvgInv, PushInv, StoreCountOut, NextStore
  <2>4. ReaderInv'
    BY <1>4, <2>2, <2>3 DEF AvgInv, Typed, ReaderInv, StoreCountOut, NextStore
  <2>5. QED
    BY <2>1, <2>2, <2>4 DEF AvgInv
<1>5. CASE StoreCountIn
  <2>1. Typed'
    BY <1>5 DEF AvgInv, Typed, StoreCountIn, NextStore
  <2>2. PushInv' /\ Final' = Final
    BY <1>5 DEF AvgInv, Typed, PushInv, StoreCountIn, NextStore, Due, Final
  <2>3. count' # 0
    BY <1>5 DEF AvgInv, PushInv, StoreCountIn
  <2>4. ReaderInv'
    BY <1>5, <2>2, <2>3 DEF AvgInv, Typed, ReaderInv, StoreCountIn, NextStore
  <2>5. QED
    BY <2>1, <2>2, <2>4 DEF AvgInv
<1>6. CASE StoreRing
  <2>1. ring' \in [buffer : [Slots -> Nat], head : Slots, tail : Slots, count : 0 .. Size]
    <3>1. \A s \in Slots : (s + 1) % Size \in Slots
      BY DEF Slots
    <3>2. QED
      BY <1>6, <3>1 DEF AvgInv, Typed, StoreRing, NextStore, CircularPush
  <2>2. Typed'
    BY <1>6, <2>1 DEF AvgInv, Typed, StoreRing, NextStore
  <2>3. PushInv' /\ Final' = Final
    BY <1>6 DEF AvgInv, Typed, PushInv, StoreRing, NextStore, Due, Final
  <2>4. ReaderInv'
    BY <1>6, <2>3 DEF AvgInv, Typed, ReaderInv, StoreRing, NextStore
  <2>5. QED
    BY <2>2, <2>3, <2>4 DEF AvgInv
<1>7. CASE GetAvg
  <2>1. ReaderMoves
    BY <1>7 DEF GetAvg
  <2>2. reader' = [at |-> "test", loaded |-> {}, got |-> NotLoaded,
                   overlaps |-> push.todo # {}]
    BY <1>7 DEF GetAvg, Idle
  <2>3. (push.todo # {}) \in BOOLEAN
    OBVIOUS
  <2>4. Typed'
    BY <2>1, <2>2, <2>3 DEF AvgInv, Typed, NotLoaded, ReaderMoves
  <2>5. ReaderInv'
    BY <2>1, <2>2 DEF ReaderInv, ReaderMoves
  <2>6. QED
    BY <2>1, <2>4, <2>5, ReaderStep DEF AvgInv
<1>8. CASE LoadSum
  <2>1. ReaderMoves
    BY <1>8 DEF LoadSum
  <2>2. Typed'
    BY <1>8, <2>1 DEF AvgInv, Typed, PushInv, LoadSum, ReaderMoves
  <2>3. terms \in {Final, Final - 1} /\ (push.todo = {} => terms = Final)
    BY DEF AvgInv, Typed, PushInv, Due, Final
  <2>4. ReaderInv'
    BY <1>8, <2>1, <2>3, ReaderStep DEF AvgInv, Typed, ReaderInv, LoadSum, ReaderMoves
  <2>5. QED
    BY <2>1, <2>2, <2>4, ReaderStep DEF AvgInv
<1>9. CASE LoadCount
  <2>1. ReaderMoves
    BY <1>9 DEF LoadCount
  <2>2. Typed'
    BY <1>9, <2>1 DEF AvgInv, Typed, PushInv, LoadCount, ReaderMoves
  <2>3. count \in {Final, Final - 1} /\ (push.todo = {} => count = Final)
    BY DEF AvgInv, Typed, PushInv, Due, Final
  <2>4. ReaderInv'
    BY <1>9, <2>1, <2>3, ReaderStep DEF AvgInv, Typed, ReaderInv, LoadCount, ReaderMoves
  <2>5. QED
    BY <2>1, <2>2, <2>4, ReaderStep DEF AvgInv
<1>10. CASE GetAvgIsZero \/ Divide
  <2>1. ReaderMoves /\ reader' = Idle
    BY <1>10 DEF GetAvgIsZero, Divide
  <2>2. Typed' /\ ReaderInv'
    BY <2>1 DEF AvgInv, Typed, ReaderInv, Idle, NotLoaded, ReaderMoves
  <2>3. QED
    BY <2>1, <2>2, ReaderStep DEF AvgInv
<1>11. CASE TestPasses
  <2>1. ReaderMoves
    BY <1>11 DEF TestPasses
  <2>2. Typed'
    BY <1>11, <2>1 DEF AvgInv, Typed, TestPasses, ReaderMoves
  <2>3. ReaderInv'
    BY <1>11, <2>1, ReaderStep DEF AvgInv, Typed, ReaderInv, TestPasses, IsZero, ReaderMoves
  <2>4. QED
    BY <2>1, <2>2, <2>3, ReaderStep DEF AvgInv
<1>12. CASE UNCHANGED avgVars
  BY <1>12 DEF avgVars, AvgInv, Typed, PushInv, ReaderInv, Due, Final
<1>13. QED
  BY <1>1, <1>2, <1>3, <1>4, <1>5, <1>6, <1>7, <1>8, <1>9, <1>10, <1>11, <1>12 DEF AvgNext

LEMMA AvgInvImplies == AvgInv => NeverDividesByZero /\ OffByOne
<1> SUFFICES ASSUME AvgInv PROVE NeverDividesByZero /\ OffByOne
  OBVIOUS
<1>1. NeverDividesByZero
  BY DEF AvgInv, ReaderInv, NeverDividesByZero
<1>2. OffByOne
  BY SizeAssumption DEF AvgInv, Typed, PushInv, ReaderInv, OffByOne, Due, Final
<1>3. QED
  BY <1>1, <1>2

LEMMA AvgInvariant == AvgSpec => []AvgInv
BY AvgInitInv, AvgNextInv, PTL DEF AvgSpec

\* GetAvg loads m_Count again after its test: it is never zero by then, since
\* Push takes one off an average of at least two only.
THEOREM DivisorIsNeverZero == AvgSpec => []NeverDividesByZero
BY AvgInvImplies, AvgInvariant, PTL

\* Whatever order the compiler gives to Push's stores, the sum that GetAvg
\* divides is of one reading more or less than its divisor at most.
THEOREM AverageOffByOne == AvgSpec => []OffByOne
BY AvgInvImplies, AvgInvariant, PTL

-----------------------------------------------------------------------------
(***************************************************************************)
(* The ring holds the window.                                              *)
(***************************************************************************)

RingState == [buffer : [Slots -> Nat], head : Slots, tail : Slots, count : 0 .. Size]

\* i slots after another one, without the remainder.
Slot(from, i) == IF from + i < Size THEN from + i ELSE from + i - Size

LEMMA NextSlot ==
    ASSUME NEW slot \in Slots PROVE (slot + 1) % Size = Slot(slot, 1) /\ Slot(slot, 1) \in Slots
<1> USE SizeAssumption
<1>1. CASE slot + 1 < Size
  BY <1>1 DEF Slots, Slot
<1>2. CASE slot + 1 = Size
  <2>1. Size % Size = 0
    BY SMT
  <2>2. QED
    BY <1>2, <2>1 DEF Slots, Slot
<1>3. QED
  BY <1>1, <1>2 DEF Slots

\* The slots of a ring that is not full are others than the next to be written.
LEMMA SlotsBelow ==
    ASSUME NEW tail \in Slots, NEW n \in 0 .. Size - 1, NEW i \in 0 .. n - 1
    PROVE  Slot(tail, i) \in Slots /\ Slot(tail, i) # Slot(tail, n)
BY SizeAssumption DEF Slots, Slot

\* One slot on from the n-th.
LEMMA SlotAfter ==
    ASSUME NEW tail \in Slots, NEW n \in 0 .. Size - 1
    PROVE  Slot(Slot(tail, n), 1) = Slot(tail, n + 1)
BY SizeAssumption DEF Slots, Slot

\* The n-th slot from the next one.
LEMMA SlotFromNext ==
    ASSUME NEW tail \in Slots, NEW n \in 0 .. Size - 1
    PROVE  Slot(Slot(tail, 1), n) = IF n = Size - 1 THEN tail ELSE Slot(tail, n + 1)
BY SizeAssumption DEF Slots, Slot

\* In a full ring the slots but the first are others than the first.
LEMMA SlotsAfterFirst ==
    ASSUME NEW tail \in Slots, NEW i \in 1 .. Size - 1
    PROVE  Slot(tail, i) \in Slots /\ Slot(tail, i) # tail
BY SizeAssumption DEF Slots, Slot

LEMMA SlotEnds ==
    ASSUME NEW tail \in Slots
    PROVE  Slot(tail, 0) = tail /\ Slot(tail, Size) = tail
BY SizeAssumption DEF Slots, Slot

\* The n slots from tail on have the sequence s.
HasFrom(buffer, tail, n, s) == \A i \in 1 .. n : s[i] = buffer[Slot(tail, i - 1)]

\* The ring r has the sequence s, oldest first.
Holds(r, s) ==
    /\ r.head = Slot(r.tail, r.count)
    /\ Len(s) = r.count
    /\ HasFrom(r.buffer, r.tail, r.count, s)

\* The sequence after another value has come to a window.
Moved(s, value) == Append(IF Len(s) = Size THEN Tail(s) ELSE s, value)

\* A ring that is not full grows.
LEMMA PushGrows ==
    ASSUME NEW buffer \in [Slots -> Nat], NEW tail \in Slots, NEW n \in 0 .. Size - 1,
           NEW head, head = Slot(tail, n),
           NEW s \in Seq(Nat), Len(s) = n, NEW value \in Nat,
           HasFrom(buffer, tail, n, s)
    PROVE  HasFrom([buffer EXCEPT ![head] = value], tail, n + 1, Append(s, value))
<1> USE SizeAssumption DEF HasFrom
<1> DEFINE b == [buffer EXCEPT ![head] = value]
<1>1. Slot(tail, n) \in Slots
  BY DEF Slot, Slots
<1>2. b[Slot(tail, n)] = value /\ \A j \in Slots : j # Slot(tail, n) => b[j] = buffer[j]
  BY <1>1
<1>3. Append(s, value)[n + 1] = value /\ \A i \in 1 .. n : Append(s, value)[i] = s[i]
  OBVIOUS
<1> SUFFICES ASSUME NEW i \in 1 .. n + 1 PROVE Append(s, value)[i] = b[Slot(tail, i - 1)]
  OBVIOUS
<1> HIDE DEF b
<1>4. CASE i = n + 1
  <2>1. (n + 1) - 1 = n
    OBVIOUS
  <2>2. QED
    BY <1>2, <1>3, <1>4, <2>1
<1>5. CASE i \in 1 .. n
  <2>1. i - 1 \in 0 .. n - 1
    BY <1>5
  <2>2. Slot(tail, i - 1) \in Slots /\ Slot(tail, i - 1) # Slot(tail, n)
    BY <2>1, SlotsBelow
  <2>3. s[i] = buffer[Slot(tail, i - 1)]
    BY <1>5
  <2>4. QED
    BY <1>2, <1>3, <1>5, <2>2, <2>3
<1>6. QED
  BY <1>4, <1>5

\* In a full ring the value takes the slot of the oldest.
LEMMA PushTurns ==
    ASSUME NEW buffer \in [Slots -> Nat], NEW tail \in Slots,
           NEW s \in Seq(Nat), Len(s) = Size, NEW value \in Nat,
           HasFrom(buffer, tail, Size, s)
    PROVE  HasFrom([buffer EXCEPT ![tail] = value], Slot(tail, 1), Size, Append(Tail(s), value))
<1> USE SizeAssumption DEF HasFrom
<1> DEFINE b == [buffer EXCEPT ![tail] = value]
           w == Append(Tail(s), value)
<1>1. b[tail] = value /\ \A j \in Slots : j # tail => b[j] = buffer[j]
  OBVIOUS
<1>2. w[Size] = value /\ \A i \in 1 .. Size - 1 : w[i] = s[i + 1]
  <2>1. Tail(s) \in Seq(Nat) /\ Len(Tail(s)) = Size - 1
        /\ \A i \in 1 .. Size - 1 : Tail(s)[i] = s[i + 1]
    OBVIOUS
  <2>2. QED
    BY <2>1
<1> SUFFICES ASSUME NEW i \in 1 .. Size PROVE w[i] = b[Slot(Slot(tail, 1), i - 1)]
  OBVIOUS
<1> HIDE DEF b, w
<1>3. i - 1 \in 0 .. Size - 1
  OBVIOUS
<1>4. CASE i = Size
  <2>1. Slot(Slot(tail, 1), i - 1) = tail
    BY <1>3, <1>4, SlotFromNext
  <2>2. QED
    BY <1>1, <1>2, <1>4, <2>1
<1>5. CASE i \in 1 .. Size - 1
  <2>1. (i - 1) + 1 = i /\ i - 1 # Size - 1 /\ i + 1 \in 1 .. Size /\ (i + 1) - 1 = i
    BY <1>5
  <2>2. Slot(Slot(tail, 1), i - 1) = Slot(tail, i)
    BY <1>3, <2>1, SlotFromNext
  <2>3. Slot(tail, i) \in Slots /\ Slot(tail, i) # tail
    BY <1>5, SlotsAfterFirst
  <2>4. s[i + 1] = buffer[Slot(tail, i)]
    BY <2>1
  <2>5. QED
    BY <1>1, <1>2, <1>5, <2>2, <2>3, <2>4
<1>6. QED
  BY <1>4, <1>5

\* CircularBuffer is a window: the value that comes to a full ring takes the
\* slot of the oldest.
LEMMA PushMovesWindow ==
    ASSUME ring \in RingState, NEW s \in Seq(Nat), Holds(ring, s), NEW value \in Nat
    PROVE  Holds(CircularPush(value), Moved(s, value))
<1> USE SizeAssumption
<1>1. /\ ring.head \in Slots /\ ring.tail \in Slots /\ ring.count \in 0 .. Size
      /\ ring.buffer \in [Slots -> Nat]
  BY DEF RingState
<1>2. /\ (ring.head + 1) % Size = Slot(ring.head, 1)
      /\ (ring.tail + 1) % Size = Slot(ring.tail, 1) /\ Slot(ring.tail, 1) \in Slots
  BY <1>1, NextSlot
<1>3. CASE ring.count < Size
  <2>1. ring.count \in 0 .. Size - 1 /\ Len(s) # Size /\ Len(s) = ring.count
    BY <1>1, <1>3 DEF Holds
  <2>2. Moved(s, value) = Append(s, value) /\ Len(Append(s, value)) = ring.count + 1
    BY <2>1 DEF Moved
  <2>3. CircularPush(value) = [buffer |-> [ring.buffer EXCEPT ![ring.head] = value],
                               head |-> Slot(ring.head, 1), tail |-> ring.tail,
                               count |-> ring.count + 1]
    BY <1>2, <1>3 DEF CircularPush
  <2>4. Slot(ring.head, 1) = Slot(ring.tail, ring.count + 1)
    BY <1>1, <2>1, SlotAfter DEF Holds
  <2>5. HasFrom([ring.buffer EXCEPT ![ring.head] = value], ring.tail, ring.count + 1,
                Append(s, value))
    <3>1. ring.head = Slot(ring.tail, ring.count)
          /\ HasFrom(ring.buffer, ring.tail, ring.count, s)
      BY DEF Holds
    <3>2. QED
      BY <1>1, <2>1, <3>1, PushGrows
  <2>6. QED
    BY <2>2, <2>3, <2>4, <2>5 DEF Holds
<1>4. CASE ring.count = Size
  <2>1. Len(s) = Size /\ ring.head = ring.tail
    BY <1>1, <1>4, SlotEnds DEF Holds
  <2>2. Moved(s, value) = Append(Tail(s), value) /\ Len(Append(Tail(s), value)) = Size
    BY <2>1 DEF Moved
  <2>3. CircularPush(value) = [buffer |-> [ring.buffer EXCEPT ![ring.tail] = value],
                               head |-> Slot(ring.tail, 1), tail |-> Slot(ring.tail, 1),
                               count |-> Size]
    BY <1>2, <1>4, <2>1 DEF CircularPush
  <2>4. Slot(ring.tail, 1) = Slot(Slot(ring.tail, 1), Size)
    BY <1>2, SlotEnds
  <2>5. HasFrom([ring.buffer EXCEPT ![ring.tail] = value], Slot(ring.tail, 1), Size,
                Append(Tail(s), value))
    <3>1. HasFrom(ring.buffer, ring.tail, Size, s)
      BY <1>4 DEF Holds
    <3>2. QED
      BY <1>1, <2>1, <3>1, PushTurns
  <2>6. QED
    BY <2>2, <2>3, <2>4, <2>5 DEF Holds
<1>5. QED
  BY <1>1, <1>3, <1>4

\* The window as the ring has it: without the value of a Push under way.
WindowInv ==
    /\ window \in Seq(Nat)
    /\ Final = Len(window)
    /\ IF "ring" \in push.todo
       THEN \E s \in Seq(Nat) : Holds(ring, s) /\ window = Moved(s, push.in)
       ELSE Holds(ring, window)

LEMMA WindowInit == AvgInit => WindowInv
<1> SUFFICES ASSUME AvgInit PROVE WindowInv
  OBVIOUS
<1>1. Holds(ring, window)
  BY SizeAssumption DEF AvgInit, Holds, HasFrom, Slot
<1>2. QED
  BY <1>1 DEF AvgInit, WindowInv, Final, Due

\* What leaves the ring, the window and the outcome of Push alone.
LEMMA WindowStays ==
    ASSUME WindowInv, UNCHANGED <<ring, window, push.in>>, Final' = Final,
           "ring" \in push'.todo <=> "ring" \in push.todo
    PROVE  WindowInv'
BY DEF WindowInv, Holds, HasFrom, Slot

LEMMA WindowNext == AvgInv /\ WindowInv /\ [AvgNext]_avgVars => WindowInv'
<1> SUFFICES ASSUME AvgInv, WindowInv, [AvgNext]_avgVars PROVE WindowInv'
  OBVIOUS
<1> USE SizeAssumption, AvgValuesAssumption
<1>1. ASSUME NEW value \in AvgValues, PushBegins(value) PROVE WindowInv'
  <2> USE <1>1
  <2>1. value \in Nat /\ push.todo = {} /\ window \in Seq(Nat) /\ Holds(ring, window)
    BY DEF WindowInv, PushBegins
  <2>2. window' = Moved(window, value) /\ push'.in = value /\ push'.todo = StoresOfPush
        /\ ring' = ring /\ count' = count
    BY DEF PushBegins, Moved
  <2>3. window' \in Seq(Nat)
        /\ Len(window') = IF Len(window) = Size THEN Size ELSE Len(window) + 1
    BY <2>1, <2>2 DEF Moved
  <2>4. count = Len(window) /\ count \in 0 .. Size
    BY <2>1 DEF WindowInv, Final, Due, AvgInv, PushInv
  <2>5. Final' = Len(window')
    <3>1. CASE count = Size
      <4>1. "countIn" \in push'.todo /\ "countOut" \in push'.todo
        BY <2>2, <3>1 DEF StoresOfPush, Stores
      <4>2. Final' = count'
        BY <2>2, <2>4, <4>1 DEF Final, Due
      <4>3. QED
        BY <2>2, <2>3, <2>4, <3>1, <4>2
    <3>2. CASE count # Size
      <4>1. "countIn" \in push'.todo /\ "countOut" \notin push'.todo
        BY <2>2, <2>4, <3>2 DEF StoresOfPush, Stores
      <4>2. Final' = count' + 1
        BY <2>2, <2>4, <4>1 DEF Final, Due
      <4>3. QED
        BY <2>2, <2>3, <2>4, <3>2, <4>2
    <3>3. QED
      BY <3>1, <3>2
  <2>6. "ring" \in push'.todo
    BY <2>2 DEF StoresOfPush, Stores
  <2>7. \E s \in Seq(Nat) : Holds(ring', s) /\ window' = Moved(s, push'.in)
    BY <2>1, <2>2
  <2>8. QED
    BY <2>3, <2>5, <2>6, <2>7 DEF WindowInv, Holds, HasFrom, Slot, Moved
<1>2. CASE StoreRing
  <2>1. PICK s \in Seq(Nat) : Holds(ring, s) /\ window = Moved(s, push.in)
    BY <1>2 DEF WindowInv, StoreRing, NextStore
  <2>2. ring' = CircularPush(push.in) /\ window' = window
        /\ push' = [push EXCEPT !.todo = @ \ {"ring"}] /\ count' = count
    BY <1>2 DEF StoreRing, NextStore
  <2>3. ring \in RingState /\ push.in \in Nat
        /\ push \in [todo : SUBSET Stores, in : Nat, out : Nat]
    BY DEF AvgInv, Typed, RingState
  <2>4. Holds(ring', window')
    BY <2>1, <2>2, <2>3, PushMovesWindow
  <2>5. Final' = Final /\ "ring" \notin push'.todo
    BY <2>2, <2>3 DEF Final, Due
  <2>6. QED
    BY <2>2, <2>4, <2>5 DEF WindowInv, Holds, HasFrom, Slot
<1>3. CASE StoreSumOut \/ StoreSumIn \/ StoreCountOut \/ StoreCountIn
  <2>1. push \in [todo : SUBSET Stores, in : Nat, out : Nat]
    BY DEF AvgInv, Typed
  <2>2. UNCHANGED <<ring, window, push.in>> /\ ("ring" \in push'.todo <=> "ring" \in push.todo)
    BY <1>3, <2>1 DEF StoreSumOut, StoreSumIn, StoreCountOut, StoreCountIn, NextStore
  <2>3. Final' = Final
    BY <1>3, <2>1 DEF StoreSumOut, StoreSumIn, StoreCountOut, StoreCountIn, NextStore,
                      AvgInv, PushInv, Final, Due
  <2>4. QED
    BY <2>2, <2>3, WindowStays
<1>4. CASE ReaderMoves
  BY <1>4, ReaderStep, WindowStays DEF ReaderMoves
<1>5. CASE UNCHANGED avgVars
  BY <1>5, WindowStays DEF avgVars, Final, Due
<1>6. QED
  BY <1>1, <1>2, <1>3, <1>4, <1>5
     DEF AvgNext, GetAvg, LoadSum, LoadCount, GetAvgIsZero, TestPasses, Divide

LEMMA OldestIsFirst == AvgInv /\ WindowInv => OldestGoesOut
<1> SUFFICES ASSUME AvgInv, WindowInv, push.todo = {}, Len(window) = Size
             PROVE  Oldest = Head(window)
  BY DEF OldestGoesOut
<1>1. Holds(ring, window) /\ window \in Seq(Nat) /\ ring \in RingState
  BY DEF WindowInv, AvgInv, Typed, RingState
<1>2. Head(window) = window[1] /\ 1 \in 1 .. ring.count /\ Slot(ring.tail, 1 - 1) = ring.tail
  BY <1>1, SizeAssumption DEF Holds, Slot, RingState, Slots
<1>3. QED
  BY <1>1, <1>2 DEF Holds, HasFrom, Oldest

\* Through every wrap of the ring and any order of Push's stores, the value that
\* goes out of a full average is the oldest one in it.
THEOREM OldestAlwaysGoesOut == AvgSpec => []OldestGoesOut
<1>1. AvgSpec => []WindowInv
  BY WindowInit, WindowNext, AvgInvariant, PTL DEF AvgSpec
<1>2. QED
  BY <1>1, OldestIsFirst, AvgInvariant, PTL

-----------------------------------------------------------------------------
(***************************************************************************)
(* The sum is that of the window.                                          *)
(***************************************************************************)

\* What a store has still to bring to m_Sum, or to take from it.
Owed(store, value) == IF store \in push.todo THEN value ELSE 0

\* The stores of Push that are left make m_Sum the sum of the window, and it is
\* never below zero on the way.
SumInv ==
    /\ sum \in Nat
    /\ reader.got.sum \in Nat
    /\ Owed("sumOut", push.out) <= sum
    /\ (sum - Owed("sumOut", push.out)) + Owed("sumIn", push.in) = Total(window)

LEMMA SumInit == AvgInit => SumInv
BY TotalOfEmpty DEF AvgInit, SumInv, Idle, NotLoaded, Owed

\* The sum of the window moves as m_Sum does.
LEMMA MovedTotal ==
    ASSUME NEW s \in Seq(Nat), NEW value \in Nat
    PROVE  /\ Len(s) = Size => Head(s) \in Nat /\ Head(s) <= Total(s)
                               /\ Total(Moved(s, value)) = (Total(s) - Head(s)) + value
           /\ Len(s) # Size => Total(Moved(s, value)) = Total(s) + value
<1>1. ASSUME Len(s) = Size
      PROVE  Head(s) \in Nat /\ Head(s) <= Total(s)
             /\ Total(Moved(s, value)) = (Total(s) - Head(s)) + value
  <2>1. s # <<>> /\ Head(s) \in Nat /\ Tail(s) \in Seq(Nat)
    BY <1>1, SizeAssumption
  <2>2. Total(s) = Head(s) + Total(Tail(s)) /\ Total(Tail(s)) \in Nat
    BY <2>1, TotalOfTail, TotalType
  <2>3. Total(Moved(s, value)) = Total(Tail(s)) + value
    BY <1>1, <2>1, TotalOfAppend DEF Moved
  <2>4. QED
    BY <2>1, <2>2, <2>3
<1>2. ASSUME Len(s) # Size PROVE Total(Moved(s, value)) = Total(s) + value
  BY <1>2, TotalOfAppend DEF Moved
<1>3. QED
  BY <1>1, <1>2

LEMMA SumNext == AvgInv /\ WindowInv /\ SumInv /\ [AvgNext]_avgVars => SumInv'
<1> SUFFICES ASSUME AvgInv, WindowInv, SumInv, [AvgNext]_avgVars PROVE SumInv'
  OBVIOUS
<1>1. /\ push \in [todo : SUBSET Stores, in : Nat, out : Nat]
      /\ sum \in Nat /\ reader.got.sum \in Nat /\ window \in Seq(Nat)
      /\ Total(window) \in Nat
  BY TotalType DEF AvgInv, Typed, SumInv, WindowInv
<1>2. ASSUME NEW value \in AvgValues, PushBegins(value) PROVE SumInv'
  <2>1. /\ value \in Nat /\ push.todo = {} /\ window' = Moved(window, value)
        /\ push' = [todo |-> StoresOfPush, in |-> value, out |-> Oldest]
        /\ sum' = sum /\ reader'.got.sum = reader.got.sum
    BY <1>2, AvgValuesAssumption DEF PushBegins, Moved, AvgInv, Typed
  <2>2. sum = Total(window) /\ count = Len(window) /\ count \in 0 .. Size
    BY <1>1, <2>1 DEF SumInv, Owed, WindowInv, Final, Due, AvgInv, PushInv
  <2>3. CASE Len(window) = Size
    <3>1. Oldest = Head(window)
      BY <2>1, <2>3, OldestIsFirst DEF OldestGoesOut
    <3>2. "sumOut" \in push'.todo /\ "sumIn" \in push'.todo
      BY <2>1, <2>2, <2>3, SizeAssumption DEF StoresOfPush, Stores
    <3>3. Head(window) \in Nat /\ Head(window) <= Total(window)
          /\ Total(window') = (Total(window) - Head(window)) + value
      BY <1>1, <2>1, <2>3, MovedTotal
    <3>4. QED
      BY <1>1, <2>1, <2>2, <3>1, <3>2, <3>3 DEF SumInv, Owed
  <2>4. CASE Len(window) # Size
    <3>1. "sumOut" \notin push'.todo /\ "sumIn" \in push'.todo
      BY <2>1, <2>2, <2>4, SizeAssumption DEF StoresOfPush
    <3>2. Total(window') = Total(window) + value
      BY <1>1, <2>1, <2>4, MovedTotal
    <3>3. QED
      BY <1>1, <2>1, <2>2, <3>1, <3>2 DEF SumInv, Owed
  <2>5. QED
    BY <2>3, <2>4
<1>3. CASE StoreSumOut
  <2>1. /\ "sumOut" \in push.todo /\ "sumIn" \in push.todo
        /\ push' = [push EXCEPT !.todo = @ \ {"sumOut"}]
        /\ sum' = sum - push.out /\ UNCHANGED <<reader, window>>
    BY <1>3 DEF StoreSumOut, NextStore, AvgInv, PushInv
  <2>2. "sumOut" \notin push'.todo /\ "sumIn" \in push'.todo
        /\ push'.in = push.in /\ push'.out = push.out
    BY <1>1, <2>1
  <2>3. QED
    BY <1>1, <2>1, <2>2 DEF SumInv, Owed
<1>4. CASE StoreSumIn
  <2>1. /\ "sumOut" \notin push.todo /\ "sumIn" \in push.todo
        /\ push' = [push EXCEPT !.todo = @ \ {"sumIn"}]
        /\ sum' = sum + push.in /\ UNCHANGED <<reader, window>>
    BY <1>4 DEF StoreSumIn, NextStore
  <2>2. "sumOut" \notin push'.todo /\ "sumIn" \notin push'.todo
        /\ push'.in = push.in /\ push'.out = push.out
    BY <1>1, <2>1
  <2>3. QED
    BY <1>1, <2>1, <2>2 DEF SumInv, Owed
<1>5. CASE StoreCountOut \/ StoreCountIn \/ StoreRing
  <2>1. UNCHANGED <<sum, reader, window>> /\ push'.in = push.in /\ push'.out = push.out
        /\ ("sumOut" \in push'.todo <=> "sumOut" \in push.todo)
        /\ ("sumIn" \in push'.todo <=> "sumIn" \in push.todo)
    BY <1>1, <1>5 DEF StoreCountOut, StoreCountIn, StoreRing, NextStore
  <2>2. QED
    BY <2>1 DEF SumInv, Owed
<1>6. CASE ReaderMoves /\ reader'.got.sum \in Nat
  BY <1>6 DEF ReaderMoves, SumInv, Owed
<1>7. GetAvg \/ GetAvgIsZero \/ Divide => reader'.got.sum \in Nat
  <2>1. Idle.got.sum = 0 /\ [Idle EXCEPT !.at = "test", !.overlaps = (push.todo # {})].got.sum = 0
    BY DEF Idle, NotLoaded
  <2>2. GetAvg => reader'.got.sum = 0
    BY <2>1 DEF GetAvg
  <2>3. GetAvgIsZero \/ Divide => reader'.got.sum = 0
    <3>1. GetAvgIsZero \/ Divide => reader' = Idle
      BY DEF GetAvgIsZero, Divide
    <3>2. QED
      BY <2>1, <3>1
  <2>4. QED
    BY <2>2, <2>3
<1>8. LoadSum \/ LoadCount \/ TestPasses => reader'.got.sum \in Nat
  <2>1. reader = [at |-> reader.at, loaded |-> reader.loaded, got |-> reader.got,
                  overlaps |-> reader.overlaps]
        /\ reader.got = [sum |-> reader.got.sum, count |-> reader.got.count,
                         terms |-> reader.got.terms]
    BY DEF AvgInv, Typed
  <2>2. LoadSum => reader'.got.sum = sum
    BY <2>1 DEF LoadSum
  <2>3. LoadCount => reader'.got.sum = reader.got.sum
    BY <2>1 DEF LoadCount
  <2>4. TestPasses => reader'.got.sum = reader.got.sum
    BY <2>1 DEF TestPasses
  <2>5. QED
    BY <1>1, <2>2, <2>3, <2>4
<1>9. CASE UNCHANGED avgVars
  BY <1>9 DEF avgVars, SumInv, Owed
<1>10. QED
  BY <1>2, <1>3, <1>4, <1>5, <1>6, <1>7, <1>8, <1>9
     DEF AvgNext, GetAvg, LoadSum, LoadCount, GetAvgIsZero, TestPasses, Divide

LEMMA SumInvImplies == AvgInv /\ WindowInv /\ SumInv => AverageExact /\ AvgTypeOK
<1> SUFFICES ASSUME AvgInv, WindowInv, SumInv PROVE AverageExact /\ AvgTypeOK
  OBVIOUS
<1>1. AverageExact
  <2> SUFFICES ASSUME push.todo = {} PROVE sum = Total(window) /\ count = Len(window)
    BY DEF AverageExact, Total
  <2>1. Total(window) \in Nat
    BY TotalType DEF WindowInv
  <2>2. QED
    BY <2>1 DEF SumInv, Owed, WindowInv, Final, Due, AvgInv, PushInv
<1>2. AvgTypeOK
  BY DEF AvgTypeOK, AvgInv, Typed, PushInv, WindowInv, SumInv
<1>3. QED
  BY <1>1, <1>2

LEMMA SumInvariant == AvgSpec => []SumInv
<1>1. AvgSpec => []WindowInv
  BY WindowInit, WindowNext, AvgInvariant, PTL DEF AvgSpec
<1>2. QED
  BY <1>1, SumInit, SumNext, AvgInvariant, PTL DEF AvgSpec

\* After any number of pushes, through every wrap of the ring and any order of
\* the stores, m_Sum and m_Count are exactly those of the last Size readings:
\* nothing is lost or counted twice.
THEOREM AverageStaysExact == AvgSpec => [](AverageExact /\ AvgTypeOK)
<1>1. AvgSpec => []WindowInv
  BY WindowInit, WindowNext, AvgInvariant, PTL DEF AvgSpec
<1>2. QED
  BY <1>1, SumInvImplies, SumInvariant, AvgInvariant, PTL

-----------------------------------------------------------------------------
(***************************************************************************)
(* main.cpp: setup() and the averages together.                            *)
(***************************************************************************)

\* A power loss leaves the averages as they are at first.
LEMMA AveragesStartAnew == PowerLoss => AvgInit'
BY DEF PowerLoss, AvgInit, Idle, Slots, NotLoaded

\* Each step is one of setup(), or of the averages, or takes the power away.
LEMMA MainSteps ==
    ASSUME [MainNext]_mainVars
    PROVE  [ConfigNext]_configVars /\ ([AvgNext]_avgVars \/ AvgInit')
<1>1. CASE SetupStep
  BY <1>1 DEF SetupStep, ConfigNext
<1>2. CASE PowerLoss
  BY <1>2, AveragesStartAnew DEF PowerLoss, ConfigNext
<1>3. CASE SensorTask
  BY <1>3 DEF SensorTask, AvgNext
<1>4. CASE loop
  BY <1>4 DEF loop, AvgNext
<1>5. CASE UNCHANGED mainVars
  BY <1>5 DEF mainVars
<1>6. QED
  BY <1>1, <1>2, <1>3, <1>4, <1>5 DEF MainNext

MainInv == ConfigInv /\ AvgInv /\ WindowInv /\ SumInv

LEMMA MainInvariant == MainSpec => []MainInv
<1>1. MainInit => MainInv
  BY ConfigInitInv, AvgInitInv, WindowInit, SumInit DEF MainInit, MainInv
<1>2. MainInv /\ [MainNext]_mainVars => MainInv'
  <2> SUFFICES ASSUME MainInv, [MainNext]_mainVars PROVE MainInv'
    OBVIOUS
  <2>1. ConfigInv'
    BY MainSteps, ConfigNextInv DEF MainInv
  <2>2. CASE [AvgNext]_avgVars
    BY <2>1, <2>2, AvgNextInv, WindowNext, SumNext DEF MainInv
  <2>3. CASE AvgInit'
    <3>1. AvgInv' /\ WindowInv' /\ SumInv'
      BY <2>3, AvgInitInv, WindowInit, SumInit, PTL
    <3>2. QED
      BY <2>1, <3>1 DEF MainInv
  <2>4. QED
    BY <2>2, <2>3, MainSteps
<1>3. QED
  BY <1>1, <1>2, PTL DEF MainSpec

\* Whatever the sensor task and loop() do, and however often power is lost,
\* what is called configured is there, and a restarted sensor uses what it last
\* accepted, but for a store that was cut short and fields that do not fit.
THEOREM MainKeepsConfig ==
    MainSpec => [](ConfiguredMeansPresent /\ RestartKeepsConfig)
<1>1. MainInv => ConfiguredMeansPresent /\ RestartKeepsConfig
  BY ConfigInvImplies DEF MainInv
<1>2. QED
  BY <1>1, MainInvariant, PTL

\* The averages are sound and exact through any number of restarts of the device.
THEOREM MainKeepsAverages ==
    MainSpec => [](NeverDividesByZero /\ OffByOne /\ OldestGoesOut /\ AverageExact)
<1>1. MainInv => NeverDividesByZero /\ OffByOne /\ OldestGoesOut /\ AverageExact
  BY AvgInvImplies, OldestIsFirst, SumInvImplies DEF MainInv
<1>2. QED
  BY <1>1, MainInvariant, PTL

\* All of the state of main.cpp keeps its types; m_Sum, which
\* is unsigned, never wraps below zero between two of Push's stores.
THEOREM MainKeepsTypes == MainSpec => []MainTypeOK
<1>1. MainInv => MainTypeOK
  BY SumInvImplies DEF MainInv, MainTypeOK, ConfigInv
<1>2. QED
  BY <1>1, MainInvariant, PTL
=============================================================================
