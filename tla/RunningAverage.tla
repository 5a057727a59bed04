--------------------------- MODULE RunningAverage ---------------------------
(***************************************************************************)
(* A running average of the sensor (Firmware/src/Utilities, Sensor.cpp):   *)
(* the sensor task pushes each reading, loop() shows the average of the    *)
(* last Size.  Nothing guards m_Sum and m_Count, so the compiler may order *)
(* Push's stores to them as it likes and loop() may see any of the states  *)
(* in between; the stores to one member stay in order.                     *)
(*                                                                         *)
(* One average of integers (m_CO2Avg); the others differ in rounding only. *)
(***************************************************************************)
EXTENDS Naturals, SequencesExt

CONSTANTS
    Size,           \* readings in the average, 5 in the program
    AvgValues       \* readings

ASSUME SizeAssumption == Size \in Nat \ {0, 1}
ASSUME AvgValuesAssumption == AvgValues \subseteq Nat

VARIABLES
    ring,           \* m_Buffer, a CircularBuffer
    sum,            \* m_Sum
    count,          \* m_Count
    push,           \* Push under way: the stores left, the value that comes in
                    \* and the one that goes out
    reader,         \* GetAvg under way: what it has loaded
    terms,          \* auxiliary: how many readings m_Sum is of
    window          \* auxiliary: the last Size readings pushed

avgVars == <<ring, sum, count, push, reader, terms, window>>

Slots == 0 .. Size - 1
Stores == {"sumOut", "sumIn", "countOut", "countIn", "ring"}
NotLoaded == [sum |-> 0, count |-> 0, terms |-> 0]

AvgTypeOK ==
    /\ ring \in [buffer : [Slots -> Nat], head : Slots, tail : Slots, count : 0 .. Size]
    /\ sum \in Nat
    /\ count \in 0 .. Size
    /\ push \in [todo : SUBSET Stores, in : Nat, out : Nat]
    /\ reader \in [at : {"idle", "test", "divide"}, loaded : SUBSET {"sum", "count"},
                   got : [sum : Nat, count : 0 .. Size, terms : 0 .. Size],
                   overlaps : BOOLEAN]
    /\ terms \in 0 .. Size
    /\ window \in Seq(Nat)

Idle == [at |-> "idle", loaded |-> {}, got |-> NotLoaded, overlaps |-> FALSE]

AvgInit ==
    /\ ring = [buffer |-> [s \in Slots |-> 0], head |-> 0, tail |-> 0, count |-> 0]
    /\ sum = 0
    /\ count = 0
    /\ push = [todo |-> {}, in |-> 0, out |-> 0]
    /\ reader = Idle
    /\ terms = 0
    /\ window = <<>>

-----------------------------------------------------------------------------
(***************************************************************************)
(* CircularBuffer.                                                         *)
(***************************************************************************)

Oldest == ring.buffer[ring.tail]

\* A mistake: the oldest slot is not moved on.
KeepsTail(value) ==
    [buffer |-> [ring.buffer EXCEPT ![ring.head] = value],
     head |-> (ring.head + 1) % Size,
     tail |-> ring.tail,
     count |-> IF ring.count < Size THEN ring.count + 1 ELSE ring.count]

CircularPush(value) ==
    [buffer |-> [ring.buffer EXCEPT ![ring.head] = value],
     head |-> (ring.head + 1) % Size,
     tail |-> IF ring.count < Size THEN ring.tail ELSE (ring.tail + 1) % Size,
     count |-> IF ring.count < Size THEN ring.count + 1 ELSE ring.count]

-----------------------------------------------------------------------------
(***************************************************************************)
(* Push, on the sensor task.  Readings are 5 s apart, so at most one push  *)
(* overlaps a GetAvg.                                                      *)
(***************************************************************************)

\* A mistake: the reading that goes out is still counted.
StoresWithoutCountOut ==
    IF count + 1 > Size THEN Stores \ {"countOut"} ELSE {"sumIn", "countIn", "ring"}
StoresOfPush == IF count + 1 > Size THEN Stores ELSE {"sumIn", "countIn", "ring"}

PushBegins(value) ==
    /\ push.todo = {}
    /\ ~reader.overlaps
    /\ push' = [todo |-> StoresOfPush, in |-> value, out |-> Oldest]
    /\ reader' = [reader EXCEPT !.overlaps = (reader.at # "idle")]
    /\ window' = Append(IF Len(window) = Size THEN Tail(window) ELSE window, value)
    /\ UNCHANGED <<ring, sum, count, terms>>

\* The next store of those left, none of "after" among them.
NextStore(store, after) ==
    /\ store \in push.todo
    /\ after \cap push.todo = {}
    /\ push' = [push EXCEPT !.todo = @ \ {store}]
    /\ UNCHANGED <<reader, window>>

StoreSumOut ==
    /\ NextStore("sumOut", {})
    /\ sum' = sum - push.out
    /\ terms' = terms - 1
    /\ UNCHANGED <<ring, count>>

StoreSumIn ==
    /\ NextStore("sumIn", {"sumOut"})
    /\ sum' = sum + push.in
    /\ terms' = terms + 1
    /\ UNCHANGED <<ring, count>>

StoreCountOut ==
    /\ NextStore("countOut", {})
    /\ count' = count - 1
    /\ UNCHANGED <<ring, sum, terms>>

StoreCountIn ==
    /\ NextStore("countIn", {"countOut"})
    /\ count' = count + 1
    /\ UNCHANGED <<ring, sum, terms>>

StoreRing ==
    /\ NextStore("ring", {})
    /\ ring' = CircularPush(push.in)
    /\ UNCHANGED <<sum, count, terms>>

-----------------------------------------------------------------------------
(***************************************************************************)
(* GetAvg, called by loop() through GetDisplayStats.  It uses each member  *)
(* in its test and in the division: one load for both, or one for each.    *)
(***************************************************************************)

ReaderMoves == UNCHANGED <<ring, sum, count, push, terms, window>>

GetAvg ==
    /\ reader.at = "idle"
    /\ reader' = [Idle EXCEPT !.at = "test", !.overlaps = (push.todo # {})]
    /\ ReaderMoves

LoadSum ==
    /\ reader.at # "idle"
    /\ reader' = [reader EXCEPT !.loaded = @ \cup {"sum"},
                                !.got.sum = sum, !.got.terms = terms]
    /\ ReaderMoves

LoadCount ==
    /\ reader.at # "idle"
    /\ reader' = [reader EXCEPT !.loaded = @ \cup {"count"}, !.got.count = count]
    /\ ReaderMoves

IsZero(member) ==
    /\ member \in reader.loaded
    /\ reader.got[member] = 0

GetAvgIsZero ==
    /\ reader.at = "test"
    /\ IsZero("sum") \/ IsZero("count")
    /\ reader' = Idle
    /\ ReaderMoves

\* A mistake: the count is not tested.
TestSumOnly ==
    /\ reader.at = "test"
    /\ reader.loaded = {"sum", "count"}
    /\ ~IsZero("sum")
    /\ reader' = [reader EXCEPT !.at = "divide"]
    /\ ReaderMoves

TestPasses ==
    /\ reader.at = "test"
    /\ reader.loaded = {"sum", "count"}
    /\ ~IsZero("sum") /\ ~IsZero("count")
    /\ reader' = [reader EXCEPT !.at = "divide"]
    /\ ReaderMoves

Divide ==
    /\ reader.at = "divide"
    /\ reader' = Idle
    /\ ReaderMoves

AvgNext ==
    \/ \E value \in AvgValues : PushBegins(value)
    \/ StoreSumOut
    \/ StoreSumIn
    \/ StoreCountOut
    \/ StoreCountIn
    \/ StoreRing
    \/ GetAvg
    \/ LoadSum
    \/ LoadCount
    \/ GetAvgIsZero
    \/ TestPasses
    \/ Divide

AvgSpec == AvgInit /\ [][AvgNext]_avgVars

-----------------------------------------------------------------------------
(***************************************************************************)
(* Properties.                                                             *)
(***************************************************************************)

\* The ring and the two counters, kept in two classes, agree after every push:
\* the average is of the last Size readings, however many there have been.
AverageExact ==
    push.todo = {} => sum = FoldLeft(+, 0, window) /\ count = Len(window)

\* What the next Push takes out of a full average is the oldest reading in it,
\* wherever the ring has wrapped.
OldestGoesOut ==
    push.todo = {} /\ Len(window) = Size => Oldest = Head(window)

\* The count is loaded again after the test, while Push may have taken one off:
\* it is never zero in the division.
NeverDividesByZero == reader.at = "divide" => reader.got.count # 0

\* A GetAvg that a Push overlaps is off by one reading at most: the sum it
\* divides is of one reading more or one less than the count says.
OffByOne ==
    reader.loaded = {"sum", "count"} =>
        /\ reader.got.terms <= reader.got.count + 1
        /\ reader.got.count <= reader.got.terms + 1
=============================================================================
