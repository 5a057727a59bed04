-------------------------- MODULE NetworkTaskProofs --------------------------
(***************************************************************************)
(* Theorems about the firmware: whatever the sizes of the ring, of the     *)
(* batches, of the queue and of the TCP window, and whatever the network,  *)
(* the power and the file system do, the flash store inside it is the one  *)
(* that DataSaverProofs is about, no reading is in two places that flash   *)
(* could tell apart, and none is lost but in the ways that are listed.     *)
(***************************************************************************)
EXTENDS NetworkTask, DataSaverProofs

Frame == [tag : Tags, reading : Records]

\* The types of what NetworkTask adds to the store.
TaskTypes ==
    /\ Link!LinkTypeOK
    /\ sample \in Records
    /\ sensorQueue \in Seq(Readings)
    /\ Len(sensorQueue) <= QueueSize
    /\ pc \in BootPCs \cup TaskPCs
    /\ sensorData \in Records
    /\ reconnectDue \in BOOLEAN
    /\ again \subseteq Readings

\* The task that has a reading to send or save has one.
HoldsReading == pc \in {"dispatch", "write"} => sensorData \in Readings

TaskInv == TaskTypes /\ HoldsReading

-----------------------------------------------------------------------------
(***************************************************************************)
(* The store inside the firmware.                                          *)
(***************************************************************************)

\* Every step of the firmware is a step of the store or leaves it alone: the
\* task calls Begin, Read and Write as the store's specification allows.
LEMMA StepsOfTheStore == TaskInv /\ [Next]_vars => [SaverNext]_dvars
<1> SUFFICES ASSUME TaskInv, [Next]_vars PROVE [SaverNext]_dvars
  OBVIOUS
<1>1. CASE UNCHANGED vars
  BY <1>1 DEF vars, storeVars
<1>2. CASE PowerOn \/ SetupFails \/ SetupConnects \/ Sample \/ Enqueue \/ DelayElapses
  BY <1>2 DEF PowerOn, SetupFails, SetupConnects, Sample, Enqueue, Sends, DelayElapses, storeVars
<1>3. CASE PowerLoss \/ SetupMounts
  BY <1>3 DEF PowerLoss, SetupMounts, SaverNext
<1>4. CASE Network \/ Deliver
  BY <1>4 DEF Network, Deliver, storeVars
<1>5. CASE Task
  <2>1. CASE Receive \/ Dispatch \/ WriteSkipped \/ ReconnectNotDue \/ ReconnectSucceeds
             \/ ReconnectFails \/ DrainChecks \/ DrainPrints \/ SendLatest
    BY <2>1 DEF Receive, Dispatch, WriteSkipped, ReconnectNotDue, Reconnect,
                ReconnectSucceeds, ReconnectFails, DrainChecks, DrainPrints, SendLatest,
                storeVars
  <2>2. CASE Write
    BY <2>2 DEF Write, TaskInv, HoldsReading, SaverNext
  <2>3. CASE WriteCloses \/ DrainPops \/ DrainPopsUnsaved \/ DrainEnds \/ DrainStops
    BY <2>3 DEF WriteCloses, DrainPops, DrainPopsUnsaved, DrainEnds, DrainStops, SaverNext
  <2>4. QED
    BY <1>5, <2>1, <2>2, <2>3 DEF Task
<1>6. QED
  BY <1>1, <1>2, <1>3, <1>4, <1>5 DEF Next

-----------------------------------------------------------------------------
(***************************************************************************)
(* Types.                                                                  *)
(***************************************************************************)

\* A fragment is a frame without a reading.
LEMMA FramesAre ==
    /\ Fragment \in Frame
    /\ [tag : Tags, reading : Readings \cup {Zeroed}] \cup {Fragment} = Frame
<1>1. Fragment \in Frame
  BY DEF Fragment, Frame, Tags, Records
<1>2. [tag : Tags, reading : Readings \cup {Zeroed}] = Frame
  BY DEF Frame, Records
<1>3. QED
  BY <1>1, <1>2

\* The frames left of a connection that ends are frames.
LEMMA LostTailTypes ==
    ASSUME Link!LinkTypeOK, Link!LoseTail
    PROVE  tx' \in Seq(Frame) /\ Len(tx') <= MaxInFlight
<1>1. PICK n \in 0 .. Len(tx) : tx' = SubSeq(tx, 1, n)
  BY DEF Link!LoseTail
<1>2. tx \in Seq(Frame) /\ Len(tx) \in Nat /\ Len(tx) <= MaxInFlight
  BY FramesAre DEF Link!LinkTypeOK
<1>3. \A i \in 1 .. n : tx[i] \in Frame
  BY <1>2, ElementOfSeq
<1>4. SubSeq(tx, 1, n) \in Seq(Frame) /\ Len(SubSeq(tx, 1, n)) <= n
  BY <1>2, <1>3, SubSeqProperties
<1>5. QED
  BY <1>1, <1>2, <1>4, MaxInFlightAssumption

LEMMA PrintlnTypes ==
    ASSUME Link!LinkTypeOK, NEW frame \in Frame, Link!Println(frame)
    PROVE  Link!LinkTypeOK'
<1>1. tx \in Seq(Frame) /\ Len(tx) <= MaxInFlight
  BY FramesAre DEF Link!LinkTypeOK
<1>2. CASE Link!PrintlnSends(frame)
  <2>1. Append(tx, frame) \in Seq(Frame) /\ Len(Append(tx, frame)) = Len(tx) + 1
    BY <1>1, AppendProperties
  <2>2. Len(tx) < MaxInFlight /\ tx' = Append(tx, frame)
    BY <1>2 DEF Link!PrintlnSends
  <2>3. Len(tx') <= MaxInFlight
    BY <1>1, <2>1, <2>2, LenProperties, MaxInFlightAssumption
  <2>4. QED
    BY <1>2, <2>1, <2>2, <2>3, FramesAre DEF Link!PrintlnSends, Link!LinkTypeOK
<1>3. CASE Link!PrintlnSkips \/ Link!PrintlnFails
  BY <1>3 DEF Link!PrintlnSkips, Link!PrintlnFails, Link!cvars, Link!LinkTypeOK
<1>4. CASE Link!PrintlnTimesOut
  <2>1. Append(tx, Fragment) \in Seq(Frame) /\ Len(Append(tx, Fragment)) = Len(tx) + 1
    BY <1>1, FramesAre, AppendProperties
  <2>2. tx' = tx \/ (Len(tx) < MaxInFlight /\ tx' = Append(tx, Fragment))
    BY <1>4 DEF Link!PrintlnTimesOut
  <2>3. tx' \in Seq(Frame) /\ Len(tx') <= MaxInFlight
    BY <1>1, <2>1, <2>2, LenProperties, MaxInFlightAssumption
  <2>4. QED
    BY <1>4, <2>3, FramesAre DEF Link!PrintlnTimesOut, Link!LinkTypeOK
<1>5. QED
  BY <1>2, <1>3, <1>4 DEF Link!Println

LEMMA LinkStepTypes ==
    ASSUME Link!LinkTypeOK,
           \/ Link!BeginWithoutTime \/ Link!BeginWithTime
           \/ Link!ReconnectSucceeds \/ Link!ReconnectFails
           \/ Link!WifiDown \/ Link!WifiUp \/ Link!SockDrop
           \/ Link!Deliver \/ Link!LinkPowerLoss
    PROVE  Link!LinkTypeOK'
<1> USE DEF Link!LinkTypeOK
<1>1. CASE Link!BeginWithoutTime \/ Link!BeginWithTime \/ Link!ReconnectFails
           \/ Link!WifiDown \/ Link!WifiUp
  BY <1>1 DEF Link!BeginWithoutTime, Link!BeginWithTime, Link!ReconnectFails,
              Link!WifiDown, Link!WifiUp, Link!cvars
<1>2. CASE Link!ReconnectSucceeds
  BY <1>2, LostTailTypes, FramesAre DEF Link!ReconnectSucceeds
<1>3. CASE Link!SockDrop \/ Link!LinkPowerLoss
  BY <1>3, LostTailTypes, FramesAre DEF Link!SockDrop, Link!LinkPowerLoss
<1>4. CASE Link!Deliver
  <2>1. tx \in Seq(Frame) /\ tx # <<>> /\ tx' = Tail(tx)
    BY <1>4, FramesAre DEF Link!Deliver
  <2>2. tx' \in Seq(Frame) /\ Len(tx') = Len(tx) - 1
    BY <2>1, HeadTailProperties
  <2>3. Len(tx') <= MaxInFlight
    BY <2>1, <2>2, LenProperties, MaxInFlightAssumption
  <2>4. QED
    BY <1>4, <2>2, <2>3, FramesAre DEF Link!Deliver
<1>5. QED
  BY <1>1, <1>2, <1>3, <1>4

\* Nothing queued and nothing on its way is within the limits.
LEMMA EmptyFits ==
    /\ <<>> \in Seq(Frame) /\ Len(<<>>) <= MaxInFlight
    /\ <<>> \in Seq(Readings) /\ Len(<<>>) <= QueueSize
<1>1. <<>> \in Seq(Frame) /\ <<>> \in Seq(Readings) /\ Len(<<>>) = 0
  BY EmptySeq
<1>2. 0 <= MaxInFlight /\ 0 <= QueueSize
  BY MaxInFlightAssumption, QueueSizeAssumption
<1>3. QED
  BY <1>1, <1>2

LEMMA TaskInvInit == Init => TaskInv
<1> SUFFICES ASSUME Init PROVE TaskInv
  OBVIOUS
<1>1. Link!LinkTypeOK
  BY EmptyFits, FramesAre DEF Init, Link!LinkInit, Link!LinkTypeOK
<1>2. QED
  BY <1>1, EmptyFits
  DEF Init, TaskInv, TaskTypes, HoldsReading, Records, BootPCs

LEMMA OverwrittenTypes == RingInv => Overwritten \subseteq Readings
BY DEF RingInv, SaverTypeOK, Overwritten, Records

\* TaskInv needs the store's types: what is printed comes from there.
LEMMA TaskInvNext == RingInv /\ TaskInv /\ [Next]_vars => TaskInv'
<1> SUFFICES ASSUME RingInv, TaskInv, [Next]_vars PROVE TaskInv'
  OBVIOUS
<1> USE DEF TaskInv, TaskTypes, HoldsReading, storeVars, linkVars, sensorVars, taskVars
<1> DEFINE SameLink == UNCHANGED linkVars
<1>1. ASSUME SameLink PROVE Link!LinkTypeOK'
  BY <1>1 DEF Link!LinkTypeOK
<1>2. CASE UNCHANGED vars
  BY <1>1, <1>2 DEF vars
<1>3. CASE PowerOn
  BY <1>1, <1>3 DEF PowerOn, Goto, BootPCs, TaskPCs
<1>4. CASE PowerLoss
  <2>1. Link!LinkTypeOK'
    BY <1>4, LinkStepTypes DEF PowerLoss
  <2>2. Overwritten \subseteq Readings
    BY OverwrittenTypes
  <2>3. QED
    BY <1>4, <2>1, <2>2, EmptyFits DEF PowerLoss, BootPCs, TaskPCs, Records
<1>5. CASE SetupMounts \/ SetupFails
  BY <1>1, <1>5 DEF SetupMounts, SetupFails, Goto, BootPCs, TaskPCs
<1>6. CASE SetupConnects
  BY <1>6, LinkStepTypes DEF SetupConnects, Goto, BootPCs, TaskPCs
<1>7. CASE Sample
  BY <1>1, <1>7, AlikeAssumption DEF Sample, Records
<1>8. CASE Enqueue
  <2>1. sample \in Readings /\ sensorQueue' = Append(sensorQueue, sample)
        /\ Len(sensorQueue) < QueueSize
    BY <1>8 DEF Enqueue, Sends, Records
  <2>2. sensorQueue' \in Seq(Readings) /\ Len(sensorQueue') = Len(sensorQueue) + 1
    BY <2>1, AppendProperties
  <2>3. Len(sensorQueue') <= QueueSize
    BY <2>1, <2>2, LenProperties, QueueSizeAssumption
  <2>4. QED
    BY <1>1, <1>8, <2>2, <2>3 DEF Enqueue, Sends, Records
<1>9. CASE DelayElapses
  BY <1>1, <1>9 DEF DelayElapses
<1>10. CASE Network
  BY <1>10, LinkStepTypes DEF Network
<1>11. CASE Deliver
  BY <1>11, LinkStepTypes DEF Deliver
<1>12. CASE Receive
  <2>1. sensorQueue # <<>> /\ sensorData' = Head(sensorQueue)
        /\ sensorQueue' = Tail(sensorQueue)
    BY <1>12 DEF Receive
  <2>2. /\ sensorData' \in Readings
        /\ sensorQueue' \in Seq(Readings)
        /\ Len(sensorQueue') = Len(sensorQueue) - 1
    BY <2>1, HeadTailProperties
  <2>3. Len(sensorQueue') <= QueueSize
    BY <2>2, LenProperties, QueueSizeAssumption
  <2>4. QED
    BY <1>1, <1>12, <2>2, <2>3 DEF Receive, TaskPCs, Records
<1>13. CASE Dispatch
  BY <1>1, <1>13 DEF Dispatch, Goto, TaskPCs
<1>14. CASE WriteSkipped \/ Write
  BY <1>1, <1>14 DEF WriteSkipped, Write, TaskPCs, Records
<1>15. CASE WriteCloses \/ ReconnectNotDue
  BY <1>1, <1>15, OverwrittenTypes DEF WriteCloses, ReconnectNotDue, Goto, TaskPCs
<1>16. CASE ReconnectSucceeds \/ ReconnectFails
  BY <1>16, LinkStepTypes DEF ReconnectSucceeds, ReconnectFails, Reconnect, TaskPCs
<1>17. CASE DrainPops \/ DrainPopsUnsaved \/ DrainEnds \/ DrainChecks \/ DrainStops
  <2>1. CASE DrainPops \/ DrainPopsUnsaved
    <3>1. out.data \in Records /\ out'.data \in Records
      BY RingInvNext, StepsOfTheStore, <2>1 DEF RingInv, SaverTypeOK
    <3>2. again' \subseteq Readings
      BY <2>1, <3>1 DEF DrainPops, DrainPopsUnsaved, Records
    <3>3. QED
      BY <1>1, <2>1, <3>2 DEF DrainPops, DrainPopsUnsaved, Goto, TaskPCs
  <2>2. CASE DrainEnds \/ DrainChecks \/ DrainStops
    BY <1>1, <2>2 DEF DrainEnds, DrainChecks, DrainStops, Goto, TaskPCs
  <2>3. QED
    BY <1>17, <2>1, <2>2
<1>18. CASE DrainPrints
  <2>1. [tag |-> "SRH", reading |-> out.data] \in Frame
    BY DEF RingInv, SaverTypeOK, Frame, Tags
  <2>2. Link!LinkTypeOK'
    BY <1>18, <2>1, PrintlnTypes DEF DrainPrints
  <2>3. QED
    BY <1>18, <2>2 DEF DrainPrints, Goto, TaskPCs
<1>19. CASE SendLatest
  <2>1. [tag |-> "SRD", reading |-> sensorData] \in Frame
    BY DEF Frame, Tags
  <2>2. Link!LinkTypeOK'
    BY <1>19, <2>1, PrintlnTypes DEF SendLatest
  <2>3. QED
    BY <1>19, <2>2 DEF SendLatest, TaskPCs, Records
<1>20. QED
  BY <1>2, <1>3, <1>4, <1>5, <1>6, <1>7, <1>8, <1>9, <1>10, <1>11, <1>12, <1>13,
     <1>14, <1>15, <1>16, <1>17, <1>18, <1>19 DEF Next, Task

FirmwareInv == RingInv /\ TaskInv

LEMMA FirmwareInvInductive ==
    /\ Init => FirmwareInv
    /\ FirmwareInv /\ [Next]_vars => FirmwareInv' /\ [SaverNext]_dvars
<1>1. Init => RingInv
  BY RingInvInit DEF Init
<1>2. QED
  BY <1>1, TaskInvInit, TaskInvNext, StepsOfTheStore, RingInvNext DEF FirmwareInv

\* Whatever the handles see, whatever fails and whenever power goes: every
\* variable of the firmware keeps its type, the sensor's queue and the frames
\* on their way their limits.
THEOREM FirmwareTypeCorrect == Spec => []TypeOK
<1>1. FirmwareInv => TypeOK
  BY DEF FirmwareInv, RingInv, TaskInv, TaskTypes, TypeOK, Records
<1>2. QED
  BY <1>1, FirmwareInvInductive, PTL DEF Spec

\* The tasks use the store as its specification says it is used, ...
THEOREM FirmwareUsesTheStore == Spec => SaverSpec
<1>1. Init => SaverInit
  BY DEF Init
<1>2. QED
  BY <1>1, FirmwareInvInductive, PTL DEF Spec, SaverSpec

\* ... so that what is proved of the store is true of the store in the
\* firmware: setup(), both tasks, the network and the power together leave it
\* a queue that drops its oldest reading, with the exceptions that
\* DropOldestQueue names and no other.
THEOREM FirmwareStoreIsQueue == Spec => IsDropOldestQueue
<1>1. QED
  BY ImplementsDropOldestQueue, FirmwareUsesTheStore

-----------------------------------------------------------------------------
(***************************************************************************)
(* The places outside flash, as a family of sequences.                     *)
(***************************************************************************)

PoppedRow == IF pc \in {"drainCheck", "drainPrint"} THEN <<out.data>> ELSE <<>>

\* The readings of a sequence of frames.
ReadingsOf(frames) == [i \in DOMAIN frames |-> frames[i].reading]

Rows ==
    [sample |-> <<sample>>, data |-> <<sensorData>>, queue |-> sensorQueue,
     popped |-> PoppedRow, tx |-> ReadingsOf(tx)]

RowNames == {"sample", "data", "queue", "popped", "tx"}

\* No reading is twice in a family of sequences, those of X excepted.
Once(R, X) ==
    \A p, q \in RowNames :
        \A i \in DOMAIN R[p], j \in DOMAIN R[q] :
            R[p][i] = R[q][j] /\ R[p][i] \notin X => p = q /\ i = j

\* Every element of a row S[p], except the one at (to, at), was in that row
\* before, and not at (from, was): the row has shifted by d positions.
Stays(R, S, p, from, was, to, at) ==
    /\ DOMAIN S[p] \subseteq Int
    /\ \E d \in {0, 1} : \A i \in DOMAIN S[p] :
        \/ p = to /\ i = at
        \/ S[p][i] = Zeroed
        \/ /\ i + d \in DOMAIN R[p]
           /\ S[p][i] = R[p][i + d]
           /\ ~(p = from /\ i + d = was)

Nowhere(R, x) == \A p \in RowNames : \A i \in DOMAIN R[p] : R[p][i] # x

\* If one reading at most moves from its place to another, or comes from
\* nowhere, and the others stay in their rows or go, none is there twice.
LEMMA Moves ==
    ASSUME NEW R, NEW S, NEW X, NEW Y, Once(R, X), Zeroed \in Y,
           NEW from, NEW was, NEW to, NEW at,
           \A p \in RowNames : Stays(R, S, p, from, was, to, at),
           \A v \in X : v \in Y \/ (v = S[to][at] /\ Nowhere(R, v)),
           \/ to \notin RowNames
           \/ from \in RowNames /\ was \in DOMAIN R[from] /\ S[to][at] = R[from][was]
           \/ S[to][at] \in Y
           \/ Nowhere(R, S[to][at])
    PROVE  Once(S, Y)
<1> SUFFICES ASSUME NEW p \in RowNames, NEW q \in RowNames,
                    NEW i \in DOMAIN S[p], NEW j \in DOMAIN S[q],
                    S[p][i] = S[q][j], S[p][i] \notin Y
             PROVE  p = q /\ i = j
  BY DEF Once
<1>1. CASE p = to /\ i = at /\ q = to /\ j = at
  BY <1>1
<1>2. ASSUME NEW k \in RowNames, NEW n \in DOMAIN S[k], ~(k = to /\ n = at),
             S[k][n] \notin Y, to \in RowNames
      PROVE  S[k][n] # S[to][at]
  <2>1. PICK m \in DOMAIN R[k] : S[k][n] = R[k][m] /\ ~(k = from /\ m = was)
    BY <1>2 DEF Stays
  <2>2. R[k][m] \notin X
    BY <1>2, <2>1 DEF Nowhere
  <2>3. QED
    BY <1>2, <2>1, <2>2 DEF Once, Nowhere
<1>3. CASE ~(p = to /\ i = at) /\ ~(q = to /\ j = at)
  <2>1. PICK d \in {0, 1} : \A n \in DOMAIN S[p] :
            (p = to /\ n = at) \/ S[p][n] = Zeroed
               \/ (n + d \in DOMAIN R[p] /\ S[p][n] = R[p][n + d])
    BY DEF Stays
  <2>2. PICK m \in DOMAIN R[p] : m = i + d /\ S[p][i] = R[p][m]
    BY <1>3, <2>1
  <2>3. PICK n \in DOMAIN R[q] : S[q][j] = R[q][n] /\ (p = q => n = j + d)
    <3>1. CASE p = q
      BY <1>3, <2>1, <3>1
    <3>2. CASE p # q
      BY <1>3, <3>2 DEF Stays
    <3>3. QED
      BY <3>1, <3>2
  <2>4. p = q /\ m = n
    <3>1. R[p][m] = R[q][n] /\ R[p][m] \notin X
      BY <2>2, <2>3 DEF Nowhere
    <3>2. QED
      BY <3>1 DEF Once
  <2>5. i \in Int /\ j \in Int
    BY DEF Stays
  <2>6. i = j
    <3>1. i + d = j + d
      BY <2>2, <2>3, <2>4
    <3>2. QED
      BY <2>5, <3>1
  <2>7. QED
    BY <2>4, <2>6
<1>4. QED
  BY <1>1, <1>2, <1>3

-----------------------------------------------------------------------------
(***************************************************************************)
(* The rows of the firmware's places.                                      *)
(***************************************************************************)

LEMMA ReadingsOfFrames ==
    ASSUME NEW s \in Seq(Frame)
    PROVE  /\ ReadingsOf(s) \in Seq(Records)
           /\ Len(ReadingsOf(s)) = Len(s)
           /\ Len(s) \in Nat
           /\ \A i \in 1 .. Len(s) : ReadingsOf(s)[i] = s[i].reading
<1>1. Len(s) \in Nat /\ DOMAIN s = 1 .. Len(s) /\ \A i \in 1 .. Len(s) : s[i] \in Frame
  BY LenProperties, ElementOfSeq
<1>2. ReadingsOf(s) \in [1 .. Len(s) -> Records]
  BY <1>1 DEF ReadingsOf, Frame
<1>3. QED
  BY <1>1, <1>2 DEF ReadingsOf

\* Each row is a sequence of records.
LEMMA RowsAreSeqs ==
    ASSUME QueueInv, TaskInv
    PROVE  \A p \in RowNames : Rows[p] \in Seq(Records)
<1>1. <<sample>> \in Seq(Records) /\ <<sensorData>> \in Seq(Records)
  BY DEF TaskInv, TaskTypes
<1>2. sensorQueue \in Seq(Records)
  BY SeqMonotonic DEF TaskInv, TaskTypes, Records
<1>3. PoppedRow \in Seq(Records)
  BY DEF PoppedRow, QueueInv, RingInv, SaverTypeOK
<1>4. ReadingsOf(tx) \in Seq(Records)
  BY ReadingsOfFrames, FramesAre DEF TaskInv, TaskTypes, Link!LinkTypeOK
<1>5. /\ Rows["sample"] = <<sample>> /\ Rows["data"] = <<sensorData>>
      /\ Rows["queue"] = sensorQueue
      /\ Rows["popped"] = PoppedRow /\ Rows["tx"] = ReadingsOf(tx)
  BY DEF Rows
<1>6. QED
  BY <1>1, <1>2, <1>3, <1>4, <1>5 DEF RowNames

\* How a row may change: not at all, ...
LEMMA SameStays ==
    ASSUME NEW R, NEW S, NEW p, NEW from, NEW was, NEW to, NEW at,
           R[p] \in Seq(Records), S[p] = R[p], p # from
    PROVE  Stays(R, S, p, from, was, to, at)
<1>1. DOMAIN S[p] \subseteq Int
  BY LenProperties
<1>2. \A i \in DOMAIN S[p] : i + 0 = i
  BY <1>1
<1>3. QED
  BY <1>1, <1>2 DEF Stays

\* ... to nothing, to no reading, or to the reading that moves, ...
LEMMA EmptyStays ==
    ASSUME NEW R, NEW S, NEW p, NEW from, NEW was, NEW to, NEW at,
           S[p] = <<>> \/ S[p] = <<Zeroed>> \/ (\E v : S[p] = <<v>> /\ p = to /\ at = 1)
    PROVE  Stays(R, S, p, from, was, to, at)
<1>1. CASE S[p] = <<>>
  BY <1>1 DEF Stays
<1>2. ASSUME NEW v, S[p] = <<v>>
      PROVE  DOMAIN S[p] = {1} /\ S[p][1] = v /\ DOMAIN S[p] \subseteq Int
  BY <1>2
<1>3. CASE S[p] # <<>>
  BY <1>2, <1>3 DEF Stays
<1>4. QED
  BY <1>1, <1>3

\* ... by its first element, ...
LEMMA TailStays ==
    ASSUME NEW R, NEW S, NEW p, NEW from, NEW was, NEW to, NEW at,
           R[p] \in Seq(Records), R[p] # <<>>, S[p] = Tail(R[p]),
           p = from => was = 1
    PROVE  Stays(R, S, p, from, was, to, at)
<1> DEFINE n == Len(R[p])
<1>1. n \in Nat /\ DOMAIN R[p] = 1 .. n
  BY LenProperties
<1>2. /\ S[p] \in Seq(Records)
      /\ Len(S[p]) = n - 1
      /\ \A i \in 1 .. Len(S[p]) : S[p][i] = R[p][i + 1]
  BY HeadTailProperties
<1>3. DOMAIN S[p] = 1 .. Len(S[p])
  BY <1>2, LenProperties
<1> HIDE DEF n
<1>4. DOMAIN S[p] = 1 .. n - 1
  BY <1>2, <1>3
<1>5. \A i \in 1 .. n - 1 : i + 1 \in 1 .. n /\ i + 1 # 1
  BY <1>1
<1>6. DOMAIN S[p] \subseteq Int
  BY <1>1, <1>4
<1>7. QED
  BY <1>1, <1>2, <1>4, <1>5, <1>6 DEF Stays

\* ... or by x at its end.
Grows(R, S, p, x) == R[p] \in Seq(Records) /\ S[p] = Append(R[p], x)

\* The end of the row is where x is now, and the only place of the row that
\* Stays leaves out.
Lands(R, S, p, from, was, x) == \E at : Stays(R, S, p, from, was, p, at) /\ S[p][at] = x

LEMMA GrowingStays ==
    ASSUME NEW R, NEW S, NEW p, NEW from, NEW was, NEW x \in Records,
           Grows(R, S, p, x), p # from
    PROVE  Lands(R, S, p, from, was, x)
<1> DEFINE n == Len(R[p])
<1>1. n \in Nat /\ DOMAIN R[p] = 1 .. n
  BY LenProperties DEF Grows
<1>2. /\ S[p] \in Seq(Records)
      /\ Len(S[p]) = n + 1
      /\ \A i \in 1 .. n : S[p][i] = R[p][i]
      /\ S[p][n + 1] = x
  BY AppendProperties DEF Grows
<1>3. DOMAIN S[p] = 1 .. n + 1
  BY <1>2, LenProperties
<1> HIDE DEF n
<1>4. \A i \in 1 .. n + 1 : i + 0 = i /\ (i = n + 1 \/ i \in 1 .. n)
  BY <1>1
<1>5. DOMAIN S[p] \subseteq Int
  BY <1>1, <1>3
<1>6. Stays(R, S, p, from, was, p, n + 1)
  BY <1>1, <1>2, <1>3, <1>4, <1>5 DEF Stays
<1>7. QED
  BY <1>2, <1>6 DEF Lands

\* A row cut off at the end.
LEMMA PrefixStays ==
    ASSUME NEW R, NEW S, NEW p, NEW from, NEW was, NEW to, NEW at,
           R[p] \in Seq(Records), NEW n \in 0 .. Len(R[p]), S[p] = SubSeq(R[p], 1, n),
           p # from
    PROVE  Stays(R, S, p, from, was, to, at)
<1>1. Len(R[p]) \in Nat /\ DOMAIN R[p] = 1 .. Len(R[p]) /\ n \in Nat /\ n <= Len(R[p])
  BY LenProperties
<1>2. \A i \in 1 .. n : i \in 1 .. Len(R[p]) /\ i + 0 = i
  BY <1>1
<1>3. \A i \in 1 .. n : R[p][i] \in Records
  BY <1>2, ElementOfSeq
<1>4. /\ S[p] \in Seq(Records)
      /\ Len(S[p]) = n
      /\ \A i \in 1 .. n : S[p][i] = R[p][i]
  BY <1>1, <1>3, SubSeqProperties
<1>5. DOMAIN S[p] = 1 .. n /\ DOMAIN S[p] \subseteq Int
  BY <1>1, <1>4, LenProperties
<1>6. QED
  BY <1>1, <1>2, <1>4, <1>5 DEF Stays

\* The readings follow the frames.
LEMMA ReadingsOfTail ==
    ASSUME NEW s \in Seq(Frame), s # <<>>
    PROVE  ReadingsOf(s) # <<>> /\ ReadingsOf(Tail(s)) = Tail(ReadingsOf(s))
<1>1. /\ Tail(s) \in Seq(Frame)
      /\ Len(Tail(s)) = Len(s) - 1
      /\ \A i \in 1 .. Len(Tail(s)) : Tail(s)[i] = s[i + 1]
  BY HeadTailProperties
<1>2. Len(s) \in Nat /\ Len(s) # 0
  BY LenProperties, EmptySeq
<1>3. ReadingsOf(s) \in Seq(Records) /\ Len(ReadingsOf(s)) = Len(s) /\ ReadingsOf(s) # <<>>
  BY <1>2, ReadingsOfFrames, EmptySeq
<1>4. /\ Tail(ReadingsOf(s)) \in Seq(Records)
      /\ Len(Tail(ReadingsOf(s))) = Len(s) - 1
      /\ \A i \in 1 .. Len(s) - 1 : Tail(ReadingsOf(s))[i] = ReadingsOf(s)[i + 1]
  BY <1>3, HeadTailProperties
<1>5. /\ ReadingsOf(Tail(s)) \in Seq(Records)
      /\ Len(ReadingsOf(Tail(s))) = Len(s) - 1
      /\ \A i \in 1 .. Len(s) - 1 : ReadingsOf(Tail(s))[i] = Tail(s)[i].reading
  BY <1>1, ReadingsOfFrames
<1>6. \A i \in 1 .. Len(s) - 1 : i + 1 \in 1 .. Len(s)
  BY <1>2
<1>7. \A i \in 1 .. Len(s) - 1 : ReadingsOf(Tail(s))[i] = Tail(ReadingsOf(s))[i]
  BY <1>1, <1>4, <1>5, <1>6, ReadingsOfFrames
<1>8. QED
  BY <1>3, <1>4, <1>5, <1>7, SeqEqual

LEMMA ReadingsOfAppend ==
    ASSUME NEW s \in Seq(Frame), NEW f \in Frame
    PROVE  ReadingsOf(Append(s, f)) = Append(ReadingsOf(s), f.reading)
<1>1. /\ Append(s, f) \in Seq(Frame)
      /\ Len(Append(s, f)) = Len(s) + 1
      /\ \A i \in 1 .. Len(s) : Append(s, f)[i] = s[i]
      /\ Append(s, f)[Len(s) + 1] = f
  BY AppendProperties
<1>2. f.reading \in Records /\ ReadingsOf(s) \in Seq(Records)
      /\ Len(ReadingsOf(s)) = Len(s) /\ Len(s) \in Nat
      /\ \A i \in 1 .. Len(s) : ReadingsOf(s)[i] = s[i].reading
  BY ReadingsOfFrames DEF Frame
<1>3. /\ Append(ReadingsOf(s), f.reading) \in Seq(Records)
      /\ Len(Append(ReadingsOf(s), f.reading)) = Len(s) + 1
      /\ \A i \in 1 .. Len(s) : Append(ReadingsOf(s), f.reading)[i] = ReadingsOf(s)[i]
      /\ Append(ReadingsOf(s), f.reading)[Len(s) + 1] = f.reading
  BY <1>2, AppendProperties
<1>4. /\ ReadingsOf(Append(s, f)) \in Seq(Records)
      /\ Len(ReadingsOf(Append(s, f))) = Len(s) + 1
      /\ \A i \in 1 .. Len(s) + 1 : ReadingsOf(Append(s, f))[i] = Append(s, f)[i].reading
  BY <1>1, ReadingsOfFrames
<1>5. \A i \in 1 .. Len(s) + 1 : i \in 1 .. Len(s) \/ i = Len(s) + 1
  BY <1>2
<1>6. \A i \in 1 .. Len(s) + 1 :
          ReadingsOf(Append(s, f))[i] = Append(ReadingsOf(s), f.reading)[i]
  BY <1>1, <1>2, <1>3, <1>4, <1>5
<1>7. QED
  BY <1>3, <1>4, <1>6, SeqEqual

LEMMA ReadingsOfPrefix ==
    ASSUME NEW s \in Seq(Frame), NEW n \in 0 .. Len(s)
    PROVE  ReadingsOf(SubSeq(s, 1, n)) = SubSeq(ReadingsOf(s), 1, n)
<1>1. Len(s) \in Nat /\ n \in Nat /\ n <= Len(s)
  BY LenProperties
<1>2. \A i \in 1 .. n : i \in 1 .. Len(s) /\ 1 + i - 1 = i
  BY <1>1
<1>3. ReadingsOf(s) \in Seq(Records) /\ Len(ReadingsOf(s)) = Len(s)
      /\ \A i \in 1 .. Len(s) : ReadingsOf(s)[i] = s[i].reading
  BY ReadingsOfFrames
<1>4. \A i \in 1 .. n : s[i] \in Frame /\ ReadingsOf(s)[i] \in Records
  BY <1>2, <1>3, ElementOfSeq
<1>5. /\ SubSeq(s, 1, n) \in Seq(Frame)
      /\ Len(SubSeq(s, 1, n)) = n
      /\ \A i \in 1 .. n : SubSeq(s, 1, n)[i] = s[i]
  BY <1>1, <1>2, <1>4, SubSeqProperties
<1>6. /\ SubSeq(ReadingsOf(s), 1, n) \in Seq(Records)
      /\ Len(SubSeq(ReadingsOf(s), 1, n)) = n
      /\ \A i \in 1 .. n : SubSeq(ReadingsOf(s), 1, n)[i] = ReadingsOf(s)[i]
  BY <1>1, <1>2, <1>4, SubSeqProperties
<1>7. /\ ReadingsOf(SubSeq(s, 1, n)) \in Seq(Records)
      /\ Len(ReadingsOf(SubSeq(s, 1, n))) = n
      /\ \A i \in 1 .. n : ReadingsOf(SubSeq(s, 1, n))[i] = SubSeq(s, 1, n)[i].reading
  BY <1>5, ReadingsOfFrames
<1>8. \A i \in 1 .. n : ReadingsOf(SubSeq(s, 1, n))[i] = SubSeq(ReadingsOf(s), 1, n)[i]
  BY <1>2, <1>3, <1>5, <1>6, <1>7
<1>9. QED
  BY <1>6, <1>7, <1>8, SeqEqual

-----------------------------------------------------------------------------
(***************************************************************************)
(* The readings in flash, and those that have left it.                     *)
(***************************************************************************)

\* The readings that have no identity, and those that may be there twice.
Untold == Alike \cup {Zeroed}
Exempt == again \cup Untold

InRam == {sample, sensorData} \cup InQueue
Sent == Popped \cup InFlight

\* The slots a ring counts.
Counted(b) == {SlotAt(b, i) : i \in 1 .. b.Count}

\* The copies of a reading, in the file and in what the batch handles see of
\* it, are in one slot; the one that is being saved has no copy yet.
Apart ==
    /\ \A i, j \in Slots :
          readingsFile[i] = readingsFile[j] /\ readingsFile[i] \notin Untold => i = j
    /\ \A i, j \in Slots :
          snapshot.readings[i] = readingsFile[j] /\ readingsFile[j] \notin Untold => i = j
    /\ \A i, j \in Slots :
          snapshot.readings[i] = snapshot.readings[j] /\ snapshot.readings[i] \notin Untold
             => i = j
    /\ saving.data \notin Untold =>
          \A s \in Slots : saving.data # readingsFile[s] /\ saving.data # snapshot.readings[s]

\* A reading on its way to flash or to the socket has left no copy behind.
RamApart == \A r \in InRam \ Untold : r \notin Traces \cup again

\* No slot that the ring counts, or may count once the batch handles have
\* committed what they remember, holds it.
Gone(r) ==
    /\ r # saving.data
    /\ \A s \in Counted(bufferFile) : r # Saved[s]
    /\ \A s \in Counted(snapshot.buffer) : r # readingsFile[s] /\ r # snapshot.readings[s]

SentApart == \A r \in Sent \ Exempt : Gone(r)

FlashInv == Apart /\ RamApart /\ SentApart

LEMMA CountedSlots ==
    ASSUME QueueInv
    PROVE  Counted(bufferFile) \subseteq Slots /\ Counted(snapshot.buffer) \subseteq Slots
<1>1. bufferFile \in BufferState /\ snapshot.buffer \in BufferState
      /\ readingsFile \in [Slots -> Records]
  BY QueueFacts
<1>2. QED
  BY <1>1, InRingIsSeq DEF Counted

LEMMA CountedPop ==
    ASSUME NEW b \in BufferState, b.Count > 0, Pop(b) \in BufferState
    PROVE  /\ b.Tail \in Counted(b)
           /\ Counted(Pop(b)) \subseteq Counted(b) \ {b.Tail}
<1> DEFINE rd == [s \in Slots |-> Zeroed]
<1>1. rd \in [Slots -> Records]
  BY DEF Records
<1>2. /\ b.Count \in 1 .. Size /\ b.Tail \in 0 .. Size - 1
      /\ 1 \in 1 .. Size /\ 1 \in 1 .. b.Count
      /\ Pop(b).Count = b.Count - 1
      /\ \A i \in 1 .. b.Count - 1 : i + 1 \in 1 .. b.Count /\ i + 1 \in 1 .. Size /\ i + 1 # 1
  BY SizeAssumption DEF BufferState, Slots, Pop
<1>3. SlotAt(b, 1) = b.Tail
  <2>1. SlotAt(b, 1) = IF b.Tail + 1 <= Size THEN b.Tail + 1 - 1 ELSE b.Tail + 1 - 1 - Size
    BY <1>2, RingSlot
  <2>2. QED
    BY <1>2, <2>1, SizeAssumption
<1>4. \A i \in 1 .. b.Count - 1 : SlotAt(Pop(b), i) = SlotAt(b, i + 1)
  BY <1>1, PopIsTail
<1>5. \A i \in 1 .. b.Count - 1 : SlotAt(b, i + 1) # SlotAt(b, 1)
  BY <1>2, RingSlotsDistinct
<1>6. QED
  BY <1>2, <1>3, <1>4, <1>5 DEF Counted

LEMMA CountedPush ==
    ASSUME NEW b \in BufferState, Consistent(b)
    PROVE  Counted(Push(b)) \subseteq Counted(b) \cup {b.Head}
<1> DEFINE n == b.Count
           k == IF n = Size THEN n - 1 ELSE n
<1>1. Push(b) \in BufferState /\ n \in 0 .. Size
  BY PushIsConsistent DEF BufferState
<1>2. /\ k \in Nat /\ Push(b).Count = k + 1
      /\ SlotAt(Push(b), k + 1) = b.Head
      /\ \A i \in 1 .. k : SlotAt(Push(b), i) = SlotAt(b, IF n = Size THEN i + 1 ELSE i)
  BY <1>1, PushSlots
<1>3. \A i \in 1 .. k : (IF n = Size THEN i + 1 ELSE i) \in 1 .. n
  BY <1>1, SizeAssumption
<1> HIDE DEF k
<1>4. \A i \in 1 .. k + 1 : i \in 1 .. k \/ i = k + 1
  BY <1>2
<1>5. \A i \in 1 .. k + 1 : SlotAt(Push(b), i) = b.Head
          \/ \E j \in 1 .. n : SlotAt(Push(b), i) = SlotAt(b, j)
  BY <1>2, <1>3, <1>4
<1>6. QED
  BY <1>2, <1>5 DEF Counted

\* A reading in RAM is nowhere in flash.
LEMMA RamIsGone ==
    ASSUME QueueInv, RamApart, NEW r \in InRam \ Untold
    PROVE  Gone(r)
<1>1. r \notin Traces
  BY DEF RamApart
<1>2. \A s \in Slots : r # readingsFile[s] /\ r # snapshot.readings[s] /\ r # Saved[s]
  BY <1>1, QueueFacts DEF Traces, Saved
<1>3. QED
  BY <1>1, <1>2, CountedSlots DEF Gone, Traces

\* Steps that leave the store alone.
LEMMA FlashKept ==
    ASSUME QueueInv, FlashInv, UNCHANGED storeVars,
           InRam' \subseteq InRam \cup {Zeroed},
           Sent' \subseteq Sent \cup InRam \cup {Zeroed}
    PROVE  FlashInv'
<1> USE DEF FlashInv
<1>1. UNCHANGED <<bufferFile, readingsFile, snapshot, saving, out, again>>
  BY DEF storeVars, dvars
<1>2. Apart'
  BY <1>1 DEF Apart, Untold
<1>3. RamApart'
  BY <1>1 DEF RamApart, Traces, Untold
<1>4. ASSUME NEW r \in Sent', r \notin Exempt' PROVE Gone(r)'
  <2>1. r \notin Exempt /\ r # Zeroed /\ r \notin Untold
    BY <1>1, <1>4 DEF Exempt, Untold
  <2>2. Gone(r)
    BY <2>1, RamIsGone DEF SentApart
  <2>3. QED
    BY <1>1, <2>2 DEF Gone, Saved, Counted, SlotAt
<1>5. QED
  BY <1>2, <1>3, <1>4 DEF SentApart

LEMMA FlashSample ==
    ASSUME QueueInv, FlashInv, Sample
    PROVE  FlashInv'
<1> USE DEF FlashInv
<1>1. /\ UNCHANGED <<bufferFile, readingsFile, snapshot, saving, out>>
      /\ again' = again \ {sample'}
      /\ sample' \in Alike \/ sample' \notin Held \cup Traces
      /\ sensorQueue' = sensorQueue /\ sensorData' = sensorData
      /\ Popped' = Popped /\ InFlight' = InFlight
  BY DEF Sample, dvars, linkVars, taskVars, Popped, InFlight
<1>2. Apart'
  BY <1>1 DEF Apart, Untold
<1>3. RamApart'
  BY <1>1 DEF RamApart, Traces, Untold, InRam, InQueue, Members
<1>4. ASSUME NEW r \in Sent', r \notin Exempt' PROVE Gone(r)'
  <2>1. r \in Sent /\ r # Zeroed
    BY <1>1, <1>4 DEF Sent, Exempt, Untold
  <2>2. r \in Held
    BY <2>1 DEF Sent, Held
  <2>3. r \notin Exempt
    BY <1>1, <1>4, <2>2 DEF Exempt, Untold
  <2>4. Gone(r)
    BY <2>1, <2>3 DEF SentApart
  <2>5. QED
    BY <1>1, <2>4 DEF Gone, Saved, Counted, SlotAt
<1>5. QED
  BY <1>2, <1>3, <1>4 DEF SentApart

\* The batch may be closed and the output dropped; or flash is formatted while
\* no batch and no Write is under way.
LEMMA FlashQuiet ==
    ASSUME QueueInv, FlashInv,
           saving' = saving, again' = again, out' \in {out, NoOutput},
           snapshot' \in {snapshot, NoSnapshot},
           \/ UNCHANGED <<bufferFile, readingsFile>>
           \/ bufferFile' = EmptyBuffer /\ readingsFile' = NoReadings,
           InRam' \subseteq InRam, Sent' \subseteq Sent
    PROVE  FlashInv'
<1> USE DEF FlashInv
<1>1. /\ \A s \in Slots : readingsFile'[s] \in {readingsFile[s], Zeroed}
      /\ \A s \in Slots : snapshot'.readings[s] \in {snapshot.readings[s], Zeroed}
      /\ out'.data \in {out.data, Zeroed} /\ saving'.data = saving.data
  BY DEF NoReadings, NoSnapshot, NoOutput
<1>2. Untold' = Untold /\ Exempt' = Exempt /\ Zeroed \in Untold /\ Zeroed \in Exempt
  BY DEF Untold, Exempt
<1>3. Apart'
  BY <1>1, <1>2 DEF Apart
<1>4. RamApart'
  BY <1>1, <1>2 DEF RamApart, Traces
<1>5. ASSUME NEW r \in Sent', r \notin Exempt' PROVE Gone(r)'
  <2>1. Gone(r) /\ r # Zeroed
    BY <1>2, <1>5 DEF SentApart
  <2>2. Counted(EmptyBuffer) = {}
    BY DEF Counted, EmptyBuffer
  <2>3. /\ Counted(bufferFile') \subseteq Counted(bufferFile)
        /\ Counted(snapshot'.buffer) \subseteq Counted(snapshot.buffer)
        /\ Counted(bufferFile') # {} => readingsFile' = readingsFile
    BY <2>2 DEF NoSnapshot
  <2>4. \A s \in Counted(bufferFile') : r # Saved'[s]
    BY <2>1, <2>3 DEF Gone, Saved
  <2>5. \A s \in Counted(snapshot'.buffer) : r # readingsFile'[s] /\ r # snapshot'.readings[s]
    BY <1>1, <2>1, <2>3, CountedSlots DEF Gone
  <2>6. QED
    BY <1>1, <2>1, <2>4, <2>5 DEF Gone, Counted, SlotAt
<1>6. QED
  BY <1>3, <1>4, <1>5 DEF SentApart

\* A Write that ends without its slot: what the slot held is exempt.
LEMMA FlashUnsaved ==
    ASSUME QueueInv, FlashInv,
           UNCHANGED <<bufferFile, readingsFile>>, saving' = NoSave,
           again' = IF saving = NoSave THEN again ELSE again \cup Overwritten,
           out' \in {out, NoOutput}, snapshot' \in {snapshot, NoSnapshot},
           InRam' \subseteq InRam \cup {Zeroed}, Sent' \subseteq Sent
    PROVE  FlashInv'
<1> USE DEF FlashInv
<1>1. /\ \A s \in Slots : snapshot'.readings[s] \in {snapshot.readings[s], Zeroed}
      /\ out'.data \in {out.data, Zeroed} /\ saving'.data = Zeroed
      /\ saving.slot \in Slots
  BY QueueFacts DEF NoReadings, NoSnapshot, NoOutput, NoSave
<1>2. /\ Untold' = Untold /\ Exempt \subseteq Exempt'
      /\ Zeroed \in Untold /\ Zeroed \in Exempt'
      /\ again' \subseteq again \cup Traces
  BY <1>1 DEF Untold, Exempt, Overwritten, Traces
<1>3. Apart'
  BY <1>1, <1>2 DEF Apart
<1>4. RamApart'
  BY <1>1, <1>2 DEF RamApart, Traces
<1>5. ASSUME NEW r \in Sent', r \notin Exempt' PROVE Gone(r)'
  <2>1. Gone(r) /\ r # Zeroed
    BY <1>2, <1>5 DEF SentApart
  <2>2. /\ Counted(snapshot'.buffer) \subseteq Counted(snapshot.buffer)
    BY DEF NoSnapshot, Counted, EmptyBuffer
  <2>3. ASSUME NEW s \in Counted(bufferFile) PROVE r # readingsFile[s]
    <3>1. s \in Slots /\ r # Saved[s]
      BY <2>1, CountedSlots DEF Gone
    <3>2. CASE saving = NoSave \/ s # saving.slot
      BY <3>1, <3>2, QueueFacts DEF Saved
    <3>3. CASE saving # NoSave /\ s = saving.slot
      BY <1>5, <2>1, <3>3 DEF Exempt, Overwritten
    <3>4. QED
      BY <3>2, <3>3
  <2>4. Saved' = readingsFile
    BY DEF Saved
  <2>5. \A s \in Counted(snapshot'.buffer) : r # readingsFile[s] /\ r # snapshot'.readings[s]
    BY <1>1, <2>1, <2>2, CountedSlots DEF Gone
  <2>6. QED
    BY <1>1, <2>1, <2>3, <2>4, <2>5 DEF Gone, Counted, SlotAt
<1>6. QED
  BY <1>3, <1>4, <1>5 DEF SentApart

\* Write's second close: the reading is in its slot.
LEMMA FlashSaved ==
    ASSUME QueueInv, FlashInv, WriteClosesReadings, again' = again,
           InRam' \subseteq InRam, Sent' \subseteq Sent
    PROVE  FlashInv'
<1> USE DEF FlashInv
<1>1. /\ UNCHANGED <<bufferFile, snapshot, out>>
      /\ saving # NoSave /\ saving.slot \in Slots /\ saving'.data = Zeroed
      /\ readingsFile' = Saved /\ Saved' = Saved
      /\ \A s \in Slots : readingsFile'[s] = IF s = saving.slot THEN saving.data
                                                                 ELSE readingsFile[s]
  BY QueueFacts DEF WriteClosesReadings, Saved, NoSave
<1>2. Untold' = Untold /\ Exempt' = Exempt /\ Zeroed \in Untold
  BY DEF Untold, Exempt
<1>3. Apart'
  BY <1>1, <1>2 DEF Apart
<1>4. RamApart'
  BY <1>1, <1>2 DEF RamApart, Traces
<1>5. ASSUME NEW r \in Sent', r \notin Exempt' PROVE Gone(r)'
  <2>1. Gone(r) /\ r # Zeroed
    BY <1>2, <1>5 DEF SentApart, Exempt
  <2>2. \A s \in Counted(snapshot.buffer) : r # readingsFile'[s] /\ r # snapshot.readings[s]
    BY <1>1, <2>1, CountedSlots DEF Gone
  <2>3. r # saving'.data /\ \A s \in Counted(bufferFile) : r # Saved[s]
    BY <1>1, <2>1 DEF Gone
  <2>4. QED
    BY <1>1, <2>2, <2>3 DEF Gone, Counted, SlotAt
<1>6. QED
  BY <1>3, <1>4, <1>5 DEF SentApart

\* Write's first close: the reading leaves RAM.
LEMMA FlashWrite ==
    ASSUME QueueInv, FlashInv, NEW r \in InRam \cap Readings,
           NEW b \in {bufferFile, Push(bufferFile)}, Pushes(r, b), again' = again,
           InRam' \subseteq InRam \cup {Zeroed}, r \in InRam' => r \in Untold,
           Sent' \subseteq Sent,
           r \notin Untold => r \notin Sent \/ r \in again
    PROVE  FlashInv'
<1> USE DEF FlashInv
<1>1. /\ UNCHANGED <<readingsFile, snapshot, out>> /\ bufferFile' = b
      /\ saving = NoSave /\ saving' = [slot |-> bufferFile.Head, data |-> r]
      /\ Saved = readingsFile
      /\ bufferFile \in BufferState /\ Consistent(bufferFile)
  BY QueueFacts DEF Pushes, WriteSlot, Ready, Saved
<1>2. Untold' = Untold /\ Exempt' = Exempt /\ Zeroed \in Untold
  BY DEF Untold, Exempt
<1>3. r \notin Untold => r \notin Traces \cup again
  BY DEF RamApart
<1>4. Apart'
  BY <1>1, <1>2, <1>3 DEF Apart, Traces
<1>5. RamApart'
  BY <1>1, <1>2 DEF RamApart, Traces
<1>6. ASSUME NEW v \in Sent', v \notin Exempt' PROVE Gone(v)'
  <2>1. Gone(v) /\ v # Zeroed /\ v # r
    BY <1>2, <1>3, <1>6 DEF SentApart, Exempt
  <2>2. Counted(b) \subseteq Counted(bufferFile) \cup {bufferFile.Head}
        /\ Counted(bufferFile) \subseteq Slots /\ bufferFile.Head \in Slots
    BY <1>1, CountedPush, CountedSlots DEF BufferState
  <2>3. \A s \in Slots : Saved'[s] = IF s = bufferFile.Head THEN r ELSE readingsFile[s]
    <3>1. saving' # NoSave /\ saving'.slot = bufferFile.Head /\ saving'.data = r
      BY <1>1, ZeroedAssumption DEF NoSave
    <3>2. Saved' = [readingsFile EXCEPT ![bufferFile.Head] = r]
      BY <1>1, <3>1 DEF Saved
    <3>3. QED
      BY <3>2, QueueFacts
  <2>4. \A s \in Counted(b) : v # Saved'[s]
    BY <1>1, <2>1, <2>2, <2>3 DEF Gone
  <2>5. \A s \in Counted(snapshot.buffer) : v # readingsFile[s] /\ v # snapshot.readings[s]
    BY <2>1 DEF Gone
  <2>6. saving'.data = r
    BY <1>1
  <2>7. QED
    BY <1>1, <2>1, <2>4, <2>5, <2>6 DEF Gone, Counted, SlotAt
<1>7. QED
  BY <1>4, <1>5, <1>6 DEF SentApart

\* What Read gives: nothing, what it gave before, or the reading of a slot of
\* which the ring and the handles then count no copy.
LEMMA PopIsFresh ==
    ASSUME QueueInv, FlashInv, Takes, out'.data \notin Untold,
           out'.data # out.data
    PROVE  /\ \A s \in Slots : out'.data \in {readingsFile[s], Seen.readings[s]}
                                 => s = Seen.buffer.Tail
           /\ out'.data \in Traces
           /\ out'.data \notin InRam
           /\ out'.data \in Sent => out'.data \in Exempt
<1> DEFINE v == out'.data
           t == Seen.buffer.Tail
<1> USE DEF FlashInv
<1>1. /\ saving = NoSave /\ Seen.buffer.Count > 0 /\ v \in Readable
      /\ Saved = readingsFile
  BY DEF Takes, Ready, Saved
<1>2. /\ Seen.buffer \in BufferState /\ Consistent(Seen.buffer)
      /\ Seen.readings \in [Slots -> Records] /\ t \in Slots
  BY QueueFacts DEF Seen, Committed, BufferState
<1>3. v = Seen.readings[t]
  BY <1>1 DEF Readable, ReadSlot, Untold
<1>4. t \in Counted(Seen.buffer)
  BY <1>1, <1>2, PopIsConsistent, CountedPop
<1>5. \/ batch.open /\ Seen.buffer = snapshot.buffer /\ Seen.readings = snapshot.readings
      \/ Seen.buffer = bufferFile /\ Seen.readings = readingsFile
  BY DEF Seen, Committed
<1>6. v \in Traces
  BY <1>2, <1>3, <1>5 DEF Traces
<1> HIDE DEF v, t
<1>7. v \notin Untold
  BY DEF v
<1>8. \A s \in Slots : v \in {readingsFile[s], Seen.readings[s]} => s = t
  BY <1>2, <1>3, <1>5, <1>7 DEF Apart
<1>9. v \notin InRam
  BY <1>6, <1>7 DEF RamApart
<1>10. v \in Sent => v \in Exempt
  BY <1>1, <1>3, <1>4, <1>5 DEF SentApart, Gone
<1>11. QED
  BY <1>6, <1>8, <1>9, <1>10 DEF v, t

LEMMA FlashPops ==
    ASSUME QueueInv, FlashInv, ReadPops \/ ReadPopsUnsaved,
           again \subseteq again', again' \subseteq again \cup {out.data, out'.data},
           out'.data = out.data \/ bufferFile' # Pop(Seen.buffer)
              => out'.data \in again' \cup {Zeroed},
           InRam' = InRam, Sent' \subseteq Sent \cup {out'.data}
    PROVE  FlashInv'
<1> USE DEF FlashInv
<1> DEFINE sb == Seen.buffer
           sr == Seen.readings
           v == out'.data
<1>1. /\ Takes /\ saving = NoSave /\ saving' = NoSave /\ sb.Count > 0
      /\ readingsFile' = readingsFile
      /\ snapshot' = [Seen EXCEPT !.buffer = Pop(sb)]
      /\ v \in Readable
      /\ bufferFile' \in {bufferFile, Pop(sb)}
      /\ Saved = readingsFile /\ Saved' = readingsFile
  BY DEF ReadPops, ReadPopsUnsaved, Takes, Ready, Saved
<1>2. /\ sb \in BufferState /\ Consistent(sb) /\ sr \in [Slots -> Records]
      /\ Seen = [buffer |-> sb, readings |-> sr] /\ sb.Tail \in Slots
  BY QueueFacts DEF Seen, Committed, BufferState, Snapshot, QueueInv, RingInv, SaverTypeOK
<1>3. PICK pb : pb = Pop(sb)
  OBVIOUS
<1>4. /\ Counted(pb) \subseteq Counted(sb) \ {sb.Tail}
      /\ snapshot'.buffer = pb /\ snapshot'.readings = sr
      /\ bufferFile' \in {bufferFile, pb}
  BY <1>1, <1>2, <1>3, PopIsConsistent, CountedPop
<1>5. \/ sb = snapshot.buffer /\ sr = snapshot.readings
      \/ sb = bufferFile /\ sr = readingsFile
  BY DEF Seen, Committed
<1>6. v \in Traces \cup {Zeroed}
  <2>1. sr[sb.Tail] \in Traces /\ out.data \in Traces
    BY <1>2, <1>5 DEF Traces
  <2>2. QED
    BY <1>1, <2>1 DEF Readable, ReadSlot
<1>7. /\ Untold' = Untold /\ Exempt \subseteq Exempt' /\ Zeroed \in Untold
      /\ Untold \subseteq Exempt' /\ again' \subseteq again \cup Traces \cup {Zeroed}
  BY <1>6 DEF Untold, Exempt, Traces
<1>8. ASSUME v \notin Exempt'
      PROVE  \A s \in Slots : v \in {readingsFile[s], sr[s]} => s = sb.Tail
  <2>1. v \notin Untold /\ v # out.data
    BY <1>7, <1>8 DEF Exempt
  <2>2. QED
    BY <1>1, <2>1, PopIsFresh
<1>9. Apart'
  BY <1>1, <1>4, <1>5, <1>7 DEF Apart, NoSave
<1>10. RamApart'
  <2>1. \A s \in Slots : snapshot'.readings[s] \in Traces
    BY <1>4, <1>5 DEF Traces
  <2>2. Traces' \subseteq Traces \cup {Zeroed}
    BY <1>1, <1>6, <2>1 DEF Traces, NoSave
  <2>3. QED
    BY <1>7, <2>2 DEF RamApart
<1>11. Counted(sb) \subseteq Slots /\ Counted(bufferFile) \subseteq Slots
  BY <1>5, CountedSlots
<1> HIDE DEF v, sb, sr
<1>12. ASSUME NEW r \in Sent', r \notin Exempt' PROVE Gone(r)'
  <2>1. r # Zeroed /\ r \notin Exempt /\ (r \in Sent \/ r = v)
    BY <1>7, <1>12 DEF v
  <2>2. ASSUME NEW s \in Counted(pb) PROVE r # readingsFile[s] /\ r # sr[s]
    <3>1. s \in Counted(sb) /\ s # sb.Tail /\ s \in Slots
      BY <1>4, <1>11
    <3>2. CASE r = v
      BY <1>8, <1>12, <3>1, <3>2
    <3>3. CASE r \in Sent
      <4>1. Gone(r)
        BY <2>1, <3>3 DEF SentApart
      <4>2. QED
        BY <1>1, <1>5, <3>1, <4>1 DEF Gone
    <3>4. QED
      BY <2>1, <3>2, <3>3
  <2>3. ASSUME NEW s \in Counted(bufferFile') PROVE r # readingsFile[s]
    <3>1. CASE bufferFile' = pb
      BY <2>2, <3>1
    <3>2. CASE bufferFile' # pb
      <4>1. v \in Exempt' /\ bufferFile' = bufferFile
        BY <1>3, <1>4, <1>7, <3>2 DEF v, sb, Exempt, Untold
      <4>2. Gone(r)
        BY <1>12, <2>1, <4>1 DEF SentApart
      <4>3. QED
        BY <1>1, <4>1, <4>2 DEF Gone
    <3>3. QED
      BY <3>1, <3>2
  <2>4. saving'.data = Zeroed
    BY <1>1 DEF NoSave
  <2>5. QED
    BY <1>1, <1>4, <2>1, <2>2, <2>3, <2>4 DEF Gone, Counted, SlotAt
<1>13. QED
  BY <1>9, <1>10, <1>12 DEF SentApart

-----------------------------------------------------------------------------
(***************************************************************************)
(* What a step does to the readings in RAM and on their way.               *)
(***************************************************************************)

LEMMA MembersOfAppend ==
    ASSUME NEW X, NEW s \in Seq(X), NEW x \in X
    PROVE  Members(Append(s, x)) = Members(s) \cup {x}
<1> DEFINE n == Len(s)
           a == Append(s, x)
<1>1. /\ n \in Nat /\ DOMAIN s = 1 .. n
      /\ a \in Seq(X) /\ Len(a) = n + 1
      /\ \A i \in 1 .. n : a[i] = s[i]
      /\ a[n + 1] = x
  BY LenProperties, AppendProperties
<1>2. DOMAIN a = 1 .. n + 1
  BY <1>1, LenProperties
<1> HIDE DEF n, a
<1>3. 1 .. n + 1 = (1 .. n) \cup {n + 1}
  BY <1>1
<1>4. {a[i] : i \in 1 .. n + 1} = {a[i] : i \in 1 .. n} \cup {a[n + 1]}
  BY <1>3
<1>5. {a[i] : i \in 1 .. n} = {s[i] : i \in 1 .. n}
  BY <1>1
<1>6. QED
  BY <1>1, <1>2, <1>4, <1>5 DEF a, Members

LEMMA MembersOfTail ==
    ASSUME NEW X, NEW s \in Seq(X), s # <<>>
    PROVE  Head(s) \in X /\ Members(s) = Members(Tail(s)) \cup {Head(s)}
<1>1. /\ Tail(s) \in Seq(X)
      /\ Len(Tail(s)) = Len(s) - 1
      /\ \A i \in 1 .. Len(Tail(s)) : Tail(s)[i] = s[i + 1]
      /\ Head(s) = s[1] /\ Head(s) \in X
  BY HeadTailProperties
<1>2. Len(s) \in Nat /\ Len(s) # 0
      /\ DOMAIN s = 1 .. Len(s) /\ DOMAIN Tail(s) = 1 .. Len(s) - 1
  BY <1>1, LenProperties, EmptySeq
<1>3. \A i \in 1 .. Len(s) : i = 1 \/ (i - 1 \in 1 .. Len(s) - 1 /\ (i - 1) + 1 = i)
  BY <1>2
<1>4. \A i \in 1 .. Len(s) - 1 : i + 1 \in 1 .. Len(s)
  BY <1>2
<1>5. 1 \in 1 .. Len(s)
  BY <1>2
<1>6. Members(s) \subseteq Members(Tail(s)) \cup {Head(s)}
  <2>1. ASSUME NEW i \in 1 .. Len(s), i # 1
        PROVE  \E j \in 1 .. Len(s) - 1 : Tail(s)[j] = s[i]
    <3>1. i - 1 \in 1 .. Len(s) - 1 /\ (i - 1) + 1 = i
      BY <1>3, <2>1
    <3>2. QED
      BY <1>1, <3>1
  <2>2. ASSUME NEW i \in 1 .. Len(s)
        PROVE  s[i] \in Members(Tail(s)) \cup {Head(s)}
    <3>1. CASE i = 1
      BY <1>1, <3>1
    <3>2. CASE i # 1
      BY <1>2, <2>1, <3>2 DEF Members
    <3>3. QED
      BY <3>1, <3>2
  <2>3. Members(s) = {s[i] : i \in 1 .. Len(s)}
    BY <1>2 DEF Members
  <2>4. QED
    BY <2>2, <2>3
<1>7. Members(Tail(s)) \cup {Head(s)} \subseteq Members(s)
  BY <1>1, <1>2, <1>4, <1>5 DEF Members
<1>8. QED
  BY <1>1, <1>6, <1>7

LEMMA MembersOfPrefix ==
    ASSUME NEW X, NEW s \in Seq(X), NEW n \in 0 .. Len(s)
    PROVE  Members(SubSeq(s, 1, n)) \subseteq Members(s)
<1>1. Len(s) \in Nat /\ DOMAIN s = 1 .. Len(s) /\ n \in Nat
  BY LenProperties
<1>2. \A i \in 1 .. n : i \in 1 .. Len(s) /\ s[i] \in X
  BY <1>1, ElementOfSeq
<1>3. /\ SubSeq(s, 1, n) \in Seq(X)
      /\ Len(SubSeq(s, 1, n)) = n
      /\ \A i \in 1 .. n : SubSeq(s, 1, n)[i] = s[i]
  BY <1>1, <1>2, SubSeqProperties
<1>4. DOMAIN SubSeq(s, 1, n) = 1 .. n
  BY <1>1, <1>3, LenProperties
<1>5. QED
  BY <1>1, <1>2, <1>3, <1>4 DEF Members

LEMMA FlightIs == InFlight = {f.reading : f \in Members(tx)}
BY DEF InFlight, Members

LEMMA TxIsSeq == TaskInv => tx \in Seq(Frame)
BY FramesAre DEF TaskInv, TaskTypes, Link!LinkTypeOK

\* Nothing gets on its way but by a print.
LEMMA LinkMembers ==
    ASSUME TaskInv,
           \/ tx' = tx
           \/ tx # <<>> /\ tx' = Tail(tx)
           \/ Link!LoseTail
    PROVE  InFlight' \subseteq InFlight
<1>1. CASE tx' = tx
  BY <1>1 DEF InFlight
<1>2. CASE tx # <<>> /\ tx' = Tail(tx)
  <2>1. Members(tx') \subseteq Members(tx)
    BY <1>2, TxIsSeq, MembersOfTail
  <2>2. QED
    BY <2>1, FlightIs DEF InFlight, Members
<1>3. CASE Link!LoseTail
  <2>1. Members(tx') \subseteq Members(tx)
    BY <1>3, TxIsSeq, MembersOfPrefix DEF Link!LoseTail
  <2>2. QED
    BY <2>1, FlightIs DEF InFlight, Members
<1>4. QED
  BY <1>1, <1>2, <1>3

LEMMA PrintMembers ==
    ASSUME TaskInv, NEW f \in Frame, Link!Println(f)
    PROVE  /\ InFlight \subseteq InFlight'
           /\ InFlight' \subseteq InFlight \cup {f.reading, Zeroed}
           /\ f.reading \in InFlight' \/ NotPrinted
<1>1. tx' \in {tx, Append(tx, f), Append(tx, Fragment)} /\ (tx' = Append(tx, f) \/ NotPrinted)
  BY DEF Link!Println, Link!PrintlnSkips, Link!PrintlnSends, Link!PrintlnFails,
         Link!PrintlnTimesOut, Link!cvars, NotPrinted
<1>2. /\ Members(Append(tx, f)) = Members(tx) \cup {f}
      /\ Members(Append(tx, Fragment)) = Members(tx) \cup {Fragment}
  BY TxIsSeq, FramesAre, MembersOfAppend
<1>3. InFlight' = {g.reading : g \in Members(tx')}
  BY DEF InFlight, Members
<1>4. Fragment.reading = Zeroed
  BY DEF Fragment
<1>5. /\ Members(tx) \subseteq Members(tx') /\ Members(tx') \subseteq Members(tx) \cup {f, Fragment}
      /\ tx' = Append(tx, f) => f \in Members(tx')
  BY <1>1, <1>2
<1> HIDE DEF Members, Fragment
<1>6. QED
  BY <1>1, <1>3, <1>4, <1>5, FlightIs

\* What setup() and the network do to the link.
LEMMA LinkKeeps ==
    ASSUME TaskInv,
           \/ UNCHANGED linkVars
           \/ Link!BeginWithoutTime \/ Link!BeginWithTime
           \/ Link!ReconnectSucceeds \/ Link!ReconnectFails
           \/ Link!WifiDown \/ Link!WifiUp \/ Link!SockDrop
           \/ Link!Deliver \/ Link!LinkPowerLoss
    PROVE  InFlight' \subseteq InFlight
<1>1. \/ tx' = tx
      \/ tx # <<>> /\ tx' = Tail(tx)
      \/ Link!LoseTail
  BY DEF linkVars, Link!BeginWithoutTime, Link!BeginWithTime, Link!ReconnectSucceeds,
         Link!ReconnectFails, Link!WifiDown, Link!WifiUp, Link!SockDrop, Link!Deliver,
         Link!LinkPowerLoss, Link!cvars
<1>2. QED
  BY <1>1, LinkMembers

HeldInv == QueueInv /\ TaskInv /\ FlashInv /\ Once(Rows, Exempt)

LEMMA HeldInvInit == Init => HeldInv
<1> SUFFICES ASSUME Init PROVE HeldInv
  OBVIOUS
<1>1. QueueInv /\ TaskInv
  BY QueueInvInit, TaskInvInit DEF Init
<1>2. \A p \in RowNames : Rows[p] = <<>> \/ Rows[p] = <<Zeroed>>
  <2>1. ReadingsOf(<<>>) = <<>>
    BY DEF ReadingsOf
  <2>2. QED
    BY <2>1 DEF Init, Link!LinkInit, Rows, RowNames, PoppedRow
<1>3. \A p \in RowNames : \A i \in DOMAIN Rows[p] : Rows[p][i] = Zeroed
  BY <1>2
<1>4. Once(Rows, Exempt)
  BY <1>3 DEF Once, Exempt, Untold
<1>5. /\ InRam \subseteq {Zeroed} /\ Sent = {}
  BY DEF Init, InRam, InQueue, Members, Sent, Popped, InFlight, Link!LinkInit
<1>6. FlashInv
  BY <1>5 DEF FlashInv, Apart, RamApart, SentApart, Init, SaverInit, NoReadings,
              NoSnapshot, NoSave, Untold, Exempt
<1>7. QED
  BY <1>1, <1>4, <1>6 DEF HeldInv

\* Two places of RAM do not hold one reading.
LEMMA DataIsAlone ==
    ASSUME Once(Rows, Exempt), sensorData \notin Exempt
    PROVE  sensorData # sample /\ sensorData \notin InQueue /\ sensorData \notin Sent
<1> DEFINE R == Rows
<1>1. /\ R["sample"] = <<sample>> /\ R["data"] = <<sensorData>>
      /\ R["queue"] = sensorQueue
      /\ R["popped"] = PoppedRow /\ R["tx"] = ReadingsOf(tx)
  BY DEF Rows
<1> HIDE DEF R
<1>2. 1 \in DOMAIN R["data"] /\ R["data"][1] = sensorData
  BY <1>1
<1>3. \A p \in RowNames \ {"data"} : \A i \in DOMAIN R[p] : R[p][i] # sensorData
  <2>1. "data" \in RowNames
    BY DEF RowNames
  <2>2. QED
    BY <1>2, <2>1 DEF Once, R
<1>4. sensorData # sample
  <2>1. "sample" \in RowNames \ {"data"} /\ 1 \in DOMAIN R["sample"] /\ R["sample"][1] = sample
    BY <1>1 DEF RowNames
  <2>2. QED
    BY <1>3, <2>1
<1>5. sensorData \notin InQueue
  <2>1. "queue" \in RowNames \ {"data"}
    BY DEF RowNames
  <2>2. QED
    BY <1>1, <1>3, <2>1 DEF InQueue, Members
<1>6. sensorData \notin Popped
  <2>1. "popped" \in RowNames \ {"data"}
    BY DEF RowNames
  <2>2. Popped = {PoppedRow[i] : i \in DOMAIN PoppedRow}
    BY DEF Popped, PoppedRow
  <2>3. QED
    BY <1>1, <1>3, <2>1, <2>2
<1>7. sensorData \notin InFlight
  <2>1. "tx" \in RowNames \ {"data"}
    BY DEF RowNames
  <2>2. QED
    BY <1>1, <1>3, <2>1 DEF InFlight, ReadingsOf
<1>8. QED
  BY <1>4, <1>5, <1>6, <1>7 DEF Sent

-----------------------------------------------------------------------------
(***************************************************************************)
(* No reading is twice in the firmware.                                    *)
(***************************************************************************)

\* The readings in the air between taking them out of flash and printing them.
LEMMA PoppedIs == Popped \in {{}, {out.data}}
BY DEF Popped

LEMMA FlashStep ==
    ASSUME HeldInv, [Next]_vars
    PROVE  FlashInv'
<1>1. QueueInv /\ TaskInv /\ FlashInv /\ Once(Rows, Exempt)
  BY DEF HeldInv
\* Steps that leave the store alone.
<1>2. ASSUME UNCHANGED storeVars, InRam' \subseteq InRam \cup {Zeroed},
             Sent' \subseteq Sent \cup InRam \cup {Zeroed}
      PROVE  FlashInv'
  BY <1>1, <1>2, FlashKept
<1>3. ASSUME UNCHANGED sensorVars, sensorData' \in {sensorData, Zeroed}
      PROVE  InRam' \subseteq InRam \cup {Zeroed}
  BY <1>3 DEF sensorVars, InRam, InQueue
<1>4. CASE UNCHANGED vars
  BY <1>2, <1>4 DEF vars, storeVars, dvars, linkVars, taskVars, sensorVars, InRam, InQueue,
                    Sent, Popped, InFlight
<1>5. CASE PowerOn \/ SetupFails \/ DelayElapses \/ Dispatch \/ WriteSkipped
           \/ ReconnectNotDue \/ DrainChecks
  <2>1. UNCHANGED <<storeVars, linkVars, sensorVars>> /\ sensorData' \in {sensorData, Zeroed}
    BY <1>5 DEF PowerOn, SetupFails, DelayElapses, Dispatch, WriteSkipped, ReconnectNotDue,
                DrainChecks, WriteCannotOpen, Goto
  <2>2. Popped' \subseteq Popped \cup {Zeroed}
    BY <1>5, <2>1 DEF PowerOn, SetupFails, DelayElapses, Dispatch, WriteSkipped,
                ReconnectNotDue, DrainChecks, Goto, Popped, storeVars, dvars
  <2>3. InFlight' = InFlight
    BY <2>1 DEF linkVars, InFlight
  <2>4. QED
    BY <1>2, <1>3, <2>1, <2>2, <2>3 DEF Sent
<1>6. CASE Enqueue
  <2>1. /\ UNCHANGED <<storeVars, linkVars, taskVars>>
        /\ sample' = Zeroed /\ sensorQueue' = Append(sensorQueue, sample)
        /\ sample \in Readings /\ sensorQueue \in Seq(Readings)
    BY <1>1, <1>6 DEF Enqueue, Sends, TaskInv, TaskTypes, Records
  <2>2. InQueue' = InQueue \cup {sample}
    BY <2>1, MembersOfAppend DEF InQueue
  <2>3. Popped' = Popped /\ InFlight' = InFlight /\ sensorData' = sensorData
    BY <2>1 DEF storeVars, dvars, linkVars, taskVars, Popped, InFlight
  <2>4. QED
    BY <1>2, <2>1, <2>2, <2>3 DEF Sent, InRam
<1>7. CASE Receive
  <2>1. /\ UNCHANGED <<storeVars, linkVars>> /\ sample' = sample
        /\ sensorQueue # <<>> /\ sensorQueue \in Seq(Readings)
        /\ sensorData' = Head(sensorQueue) /\ sensorQueue' = Tail(sensorQueue)
        /\ Popped' = {}
    BY <1>1, <1>7 DEF Receive, TaskInv, TaskTypes, Popped
  <2>2. InQueue = InQueue' \cup {sensorData'}
    BY <2>1, MembersOfTail DEF InQueue
  <2>3. InFlight' = InFlight
    BY <2>1 DEF linkVars, InFlight
  <2>4. QED
    BY <1>2, <2>1, <2>2, <2>3 DEF Sent, InRam
<1>8. CASE SetupConnects \/ ReconnectSucceeds \/ ReconnectFails \/ Network \/ Deliver
  <2>1. UNCHANGED <<storeVars, sensorVars>> /\ sensorData' = sensorData
    BY <1>8 DEF SetupConnects, ReconnectSucceeds, ReconnectFails, Reconnect, Network, Deliver,
                Goto, taskVars
  <2>2. InFlight' \subseteq InFlight
    <3>1. CASE SetupConnects
      BY <1>1, <3>1, LinkKeeps DEF SetupConnects
    <3>2. CASE ReconnectSucceeds \/ ReconnectFails
      BY <1>1, <3>2, LinkKeeps DEF ReconnectSucceeds, ReconnectFails, Reconnect
    <3>3. CASE Network
      BY <1>1, <3>3, LinkKeeps DEF Network
    <3>4. CASE Deliver
      BY <1>1, <3>4, LinkKeeps DEF Deliver
    <3>5. QED
      BY <1>8, <3>1, <3>2, <3>3, <3>4
  <2>3. Popped' \subseteq Popped
    BY <1>8, <2>1 DEF SetupConnects, ReconnectSucceeds, ReconnectFails, Reconnect, Network,
                      Deliver, Goto, taskVars, storeVars, dvars, Popped
  <2>4. QED
    BY <1>2, <1>3, <2>1, <2>2, <2>3 DEF Sent
<1>9. CASE DrainPrints
  <2> DEFINE f == [tag |-> "SRH", reading |-> out.data]
  <2>1. f \in Frame /\ f.reading = out.data
    BY <1>1 DEF QueueInv, RingInv, SaverTypeOK, Frame, Tags
  <2>2. Link!Println(f) /\ UNCHANGED <<storeVars, sensorVars>> /\ sensorData' = sensorData
        /\ Popped = {out.data} /\ Popped' = {}
    BY <1>9 DEF DrainPrints, Goto, Popped
  <2> HIDE DEF f
  <2>3. InFlight' \subseteq InFlight \cup {out.data, Zeroed}
    BY <1>1, <2>1, <2>2, PrintMembers
  <2>4. QED
    BY <1>2, <1>3, <2>2, <2>3 DEF Sent
<1>10. CASE SendLatest
  <2> DEFINE f == [tag |-> "SRD", reading |-> sensorData]
  <2>1. f \in Frame /\ f.reading = sensorData
    BY <1>1 DEF TaskInv, TaskTypes, Frame, Tags
  <2>2. Link!Println(f) /\ UNCHANGED <<storeVars, sensorVars>> /\ sensorData' = Zeroed
        /\ Popped' = {}
    BY <1>10 DEF SendLatest, Popped
  <2> HIDE DEF f
  <2>3. InFlight' \subseteq InFlight \cup {sensorData, Zeroed}
    BY <1>1, <2>1, <2>2, PrintMembers
  <2>4. QED
    BY <1>2, <1>3, <2>2, <2>3 DEF Sent, InRam
\* The sensor's new reading, and steps of the store.
<1>11. CASE Sample
  BY <1>1, <1>11, FlashSample
<1>12. CASE PowerLoss
  <2>1. /\ UNCHANGED <<bufferFile, readingsFile>> /\ saving' = NoSave
        /\ again' = IF saving = NoSave THEN again ELSE again \cup Overwritten
        /\ out' = NoOutput /\ snapshot' = NoSnapshot
        /\ Link!LinkPowerLoss
        /\ sample' = Zeroed /\ sensorData' = Zeroed /\ sensorQueue' = <<>> /\ Popped' = {}
    BY <1>12 DEF PowerLoss, SaverPowerLoss, files, Popped
  <2>2. InRam' \subseteq InRam \cup {Zeroed}
    BY <2>1 DEF InRam, InQueue, Members
  <2>3. Sent' \subseteq Sent
    BY <1>1, <2>1, LinkKeeps DEF Sent
  <2>4. QED
    BY <1>1, <2>1, <2>2, <2>3, FlashUnsaved
<1>13. CASE SetupMounts \/ DrainEnds \/ DrainStops
  <2>1. /\ UNCHANGED <<linkVars, sensorVars, again>> /\ sensorData' = sensorData
        /\ Popped' = {}
    BY <1>13 DEF SetupMounts, DrainEnds, DrainStops, Goto, Popped
  <2>2. /\ saving' = saving /\ out' \in {out, NoOutput} /\ snapshot' \in {snapshot, NoSnapshot}
        /\ \/ UNCHANGED <<bufferFile, readingsFile>>
           \/ bufferFile' = EmptyBuffer /\ readingsFile' = NoReadings
    BY <1>13 DEF SetupMounts, Begin, BeginFormats, DrainEnds, ReadEndsBatch, ReadCannotOpen,
                 ReadFindsEmpty, DrainStops, DropOutput
  <2>3. InRam' \subseteq InRam /\ Sent' \subseteq Sent
    BY <2>1 DEF sensorVars, linkVars, InRam, InQueue, Sent, InFlight
  <2>4. QED
    BY <1>1, <2>1, <2>2, <2>3, FlashQuiet
<1>14. CASE Write
  <2>1. /\ UNCHANGED <<linkVars, sensorVars, again>> /\ sensorData' = Zeroed
        /\ Popped' = {} /\ sensorData \in Readings
    BY <1>1, <1>14 DEF Write, Popped, TaskInv, HoldsReading
  <2>2. PICK b \in {bufferFile, Push(bufferFile)} : Pushes(sensorData, b)
    BY <1>14 DEF Write, WriteClosesBuffer, WriteLosesBuffer
  <2>3. /\ sensorData \in InRam \cap Readings
        /\ InRam' \subseteq InRam \cup {Zeroed} /\ Sent' \subseteq Sent
    BY <2>1 DEF sensorVars, linkVars, InRam, InQueue, Sent, InFlight
  <2>4. ASSUME sensorData \notin Untold
        PROVE  sensorData \notin InRam' /\ sensorData \notin Sent
    <3>1. sensorData \notin Exempt
      BY <1>1, <2>3, <2>4 DEF FlashInv, RamApart, Exempt
    <3>2. sensorData # sample /\ sensorData \notin InQueue /\ sensorData \notin Sent
      BY <1>1, <3>1, DataIsAlone
    <3>3. InRam' = {sample, Zeroed} \cup InQueue /\ sensorData # Zeroed
      BY <2>1, ZeroedAssumption DEF sensorVars, InRam, InQueue
    <3>4. QED
      BY <3>2, <3>3
  <2>5. again' = again
    BY <2>1
  <2>6. QED
    BY <1>1, <2>2, <2>3, <2>4, <2>5, FlashWrite
<1>15. CASE WriteCloses
  <2>1. /\ UNCHANGED <<linkVars, sensorVars>> /\ sensorData' = sensorData
        /\ Popped' = {}
    BY <1>15 DEF WriteCloses, Goto, Popped
  <2>2. InRam' \subseteq InRam /\ Sent' \subseteq Sent
    BY <2>1 DEF sensorVars, linkVars, InRam, InQueue, Sent, InFlight
  <2>3. CASE WriteClosesReadings /\ again' = again
    BY <1>1, <2>2, <2>3, FlashSaved
  <2>4. CASE WriteLosesReadings /\ again' = again \cup Overwritten
    BY <1>1, <2>2, <2>4, FlashUnsaved DEF WriteLosesReadings
  <2>5. QED
    BY <1>15, <2>3, <2>4 DEF WriteCloses
<1>16. CASE DrainPops \/ DrainPopsUnsaved
  <2>1. /\ UNCHANGED <<linkVars, sensorVars>> /\ sensorData' = sensorData
        /\ Popped' = {out'.data}
    BY <1>16 DEF DrainPops, DrainPopsUnsaved, Goto, Popped
  <2>2. InRam' = InRam /\ Sent' \subseteq Sent \cup {out'.data}
    BY <2>1 DEF sensorVars, linkVars, InRam, InQueue, Sent, InFlight
  <2>3. /\ ReadPops \/ ReadPopsUnsaved
        /\ again \subseteq again' /\ again' \subseteq again \cup {out.data, out'.data}
        /\ out'.data = out.data \/ bufferFile' # Pop(Seen.buffer)
              => out'.data \in again' \cup {Zeroed}
    BY <1>16 DEF DrainPops, DrainPopsUnsaved, ReadPops
  <2>4. QED
    BY <1>1, <2>2, <2>3, FlashPops
<1>17. QED
  BY <1>4, <1>5, <1>6, <1>7, <1>8, <1>9, <1>10, <1>11, <1>12, <1>13, <1>14, <1>15, <1>16
  DEF Next, Task

\* What the rows hold is in RAM or on its way.
LEMMA RowsAreHeld ==
    ASSUME QueueInv, TaskInv
    PROVE  \A p \in RowNames : \A i \in DOMAIN Rows[p] : Rows[p][i] \in InRam \cup Sent
<1>1. /\ Rows["sample"] = <<sample>> /\ Rows["data"] = <<sensorData>>
      /\ Rows["queue"] = sensorQueue
      /\ Rows["popped"] = PoppedRow /\ Rows["tx"] = ReadingsOf(tx)
  BY DEF Rows
<1>2. \A i \in DOMAIN <<sample>> : <<sample>>[i] \in InRam
  BY DEF InRam
<1>3. \A i \in DOMAIN <<sensorData>> : <<sensorData>>[i] \in InRam
  BY DEF InRam
<1>4. \A i \in DOMAIN sensorQueue : sensorQueue[i] \in InRam
  BY DEF InRam, InQueue, Members
<1>5. \A i \in DOMAIN PoppedRow : PoppedRow[i] \in Sent
  BY DEF Sent, Popped, PoppedRow
<1>6. \A i \in DOMAIN ReadingsOf(tx) : ReadingsOf(tx)[i] \in Sent
  BY DEF Sent, InFlight, ReadingsOf
<1>7. QED
  BY <1>1, <1>2, <1>3, <1>4, <1>5, <1>6 DEF RowNames

LEMMA OnceStep ==
    ASSUME HeldInv, [Next]_vars
    PROVE  Once(Rows, Exempt)'
<1> DEFINE R == Rows
           S == Rows'
           X == Exempt
           Y == Exempt'
<1>1. /\ R["sample"] = <<sample>> /\ R["data"] = <<sensorData>>
      /\ R["queue"] = sensorQueue
      /\ R["popped"] = PoppedRow /\ R["tx"] = ReadingsOf(tx)
  BY DEF Rows
<1>2. /\ S["sample"] = <<sample'>> /\ S["data"] = <<sensorData'>>
      /\ S["queue"] = sensorQueue'
      /\ S["popped"] = PoppedRow' /\ S["tx"] = ReadingsOf(tx')
  BY DEF Rows
<1>3. \A p \in RowNames : R[p] \in Seq(Records)
  BY RowsAreSeqs DEF HeldInv
<1>4. Once(R, X) /\ Zeroed \in Y
  BY DEF HeldInv, Exempt, Untold
<1>5. QueueInv /\ TaskInv /\ FlashInv
  BY DEF HeldInv
<1>6. \A p \in RowNames : \A i \in DOMAIN R[p] : R[p][i] \in InRam \cup Sent
  BY <1>5, RowsAreHeld
<1>7. again \subseteq again' => X \subseteq Y
  BY DEF Exempt, Untold
<1>8. again \subseteq again' \/ Sample
  BY DEF Next, Task, PowerOn, PowerLoss, SetupMounts, SetupFails, SetupConnects, Enqueue, Sends,
         DelayElapses, Network, Deliver, Receive, Dispatch, WriteSkipped, Write, WriteCloses,
         ReconnectNotDue, ReconnectSucceeds, ReconnectFails, Reconnect, DrainPops,
         DrainPopsUnsaved, DrainEnds, DrainChecks, DrainStops, DrainPrints, SendLatest,
         storeVars, vars
<1> SUFFICES Once(S, Y)
  OBVIOUS
<1> HIDE DEF R, S, X, Y
<1>9. tx \in Seq(Frame)
  BY <1>5, TxIsSeq
<1>10. \A v : v = "sample" \/ v = "data" \/ v = "queue" \/ v = "popped" \/ v = "tx"
                <=> v \in RowNames
  BY DEF RowNames
<1>11. "nowhere" \notin RowNames
  BY DEF RowNames
\* Steps that move no reading to another place.
<1> DEFINE Fades ==
        \/ tx' = tx
        \/ tx # <<>> /\ tx' = Tail(tx)
        \/ \E n \in 0 .. Len(tx) : tx' = SubSeq(tx, 1, n)
<1>12. ASSUME sample' \in {sample, Zeroed}, sensorData' \in {sensorData, Zeroed},
              sensorQueue' = sensorQueue \/ sensorQueue' = <<>>,
              PoppedRow' = PoppedRow \/ PoppedRow' = <<>>, Fades, X \subseteq Y
       PROVE  Once(S, Y)
  <2>1. \A p \in RowNames : p # "nowhere"
    BY <1>11
  <2>2. \A p \in RowNames :
            S[p] = R[p] \/ S[p] = <<>> \/ S[p] = <<Zeroed>>
               => Stays(R, S, p, "nowhere", 0, "nowhere", 0)
    BY <1>3, <2>1, SameStays, EmptyStays
  <2>3. \A p \in RowNames \ {"tx"} : S[p] = R[p] \/ S[p] = <<>> \/ S[p] = <<Zeroed>>
    BY <1>1, <1>2, <1>12 DEF RowNames
  <2>4. Stays(R, S, "tx", "nowhere", 0, "nowhere", 0)
    <3>1. CASE tx' = tx
      BY <1>1, <1>2, <1>10, <2>2, <3>1
    <3>2. CASE tx # <<>> /\ tx' = Tail(tx)
      <4>1. R["tx"] # <<>> /\ S["tx"] = Tail(R["tx"])
        BY <1>1, <1>2, <1>9, <3>2, ReadingsOfTail
      <4>2. QED
        BY <1>3, <1>10, <4>1, TailStays
    <3>3. ASSUME NEW n \in 0 .. Len(tx), tx' = SubSeq(tx, 1, n)
          PROVE  Stays(R, S, "tx", "nowhere", 0, "nowhere", 0)
      <4>1. S["tx"] = SubSeq(R["tx"], 1, n) /\ Len(R["tx"]) = Len(tx)
        BY <1>1, <1>2, <1>9, <3>3, ReadingsOfPrefix, ReadingsOfFrames
      <4>2. QED
        BY <1>3, <1>10, <4>1, PrefixStays
    <3>4. QED
      BY <1>12, <3>1, <3>2, <3>3
  <2>5. \A p \in RowNames : Stays(R, S, p, "nowhere", 0, "nowhere", 0)
    BY <2>2, <2>3, <2>4
  <2>6. QED
    BY <1>4, <1>11, <1>12, <2>5, Moves
<1> HIDE DEF Fades
\* The step's own rows, and the others.
<1>13. ASSUME NEW p \in RowNames, NEW from, NEW was, NEW to, NEW at,
              p # from, S[p] = R[p]
       PROVE  Stays(R, S, p, from, was, to, at)
  BY <1>3, <1>13, SameStays
<1>14. CASE Receive
  <2>1. /\ sample' = sample /\ tx' = tx
        /\ sensorQueue # <<>>
        /\ sensorData' = Head(sensorQueue)
        /\ sensorQueue' = Tail(sensorQueue)
        /\ PoppedRow' = <<>> /\ PoppedRow = <<>>
        /\ X \subseteq Y
    BY <1>7, <1>14 DEF Receive, storeVars, linkVars, PoppedRow
  <2>2. Stays(R, S, "queue", "queue", 1, "data", 1)
    BY <1>1, <1>2, <1>3, <1>10, <2>1, TailStays
  <2>3. Stays(R, S, "data", "queue", 1, "data", 1)
    BY <1>1, <1>2, <2>1, EmptyStays
  <2>4. \A p \in RowNames : Stays(R, S, p, "queue", 1, "data", 1)
    BY <1>1, <1>2, <1>13, <2>1, <2>2, <2>3 DEF RowNames
  <2>5. 1 \in DOMAIN R["queue"] /\ S["data"][1] = R["queue"][1]
    BY <1>1, <1>2, <1>5, <2>1, LenProperties, EmptySeq DEF TaskInv, TaskTypes
  <2>6. QED
    BY <1>4, <1>10, <2>1, <2>4, <2>5, Moves
<1>15. CASE Sample
  <2>1. PICK r : /\ sample' = r /\ r \in Readings /\ again' = again \ {r}
                 /\ r \in Alike \/ r \notin Held \cup Traces
    BY <1>15, AlikeAssumption DEF Sample
  <2>2. /\ sensorData' = sensorData /\ sensorQueue' = sensorQueue
        /\ PoppedRow' = PoppedRow /\ tx' = tx
    BY <1>15 DEF Sample, dvars, linkVars, taskVars, PoppedRow
  <2>3. Stays(R, S, "sample", "nowhere", 0, "sample", 1)
    BY <1>2, EmptyStays
  <2>4. \A p \in RowNames : Stays(R, S, p, "nowhere", 0, "sample", 1)
    BY <1>1, <1>2, <1>13, <2>2, <2>3 DEF RowNames
  <2>5. S["sample"][1] = r
    BY <1>2, <2>1
  <2>6. r \in Y \/ Nowhere(R, r)
    <3>1. r \in Alike \/ r \notin InRam \cup Sent
      BY <2>1, ZeroedAssumption DEF Held, InRam, Sent
    <3>2. QED
      BY <1>6, <3>1 DEF Nowhere, Y, Exempt, Untold
  <2>7. \A v \in X : v \in Y \/ v = r
    BY <2>1 DEF X, Y, Exempt, Untold
  <2>8. \A v \in X : v \in Y \/ (v = S["sample"][1] /\ Nowhere(R, v))
    BY <2>5, <2>6, <2>7
  <2>9. S["sample"][1] \in Y \/ Nowhere(R, S["sample"][1])
    BY <2>5, <2>6
  <2>10. QED
    BY <1>4, <2>4, <2>8, <2>9, Moves
<1>16. CASE Enqueue
  <2>1. /\ sample' = Zeroed /\ sensorQueue' = Append(sensorQueue, sample)
        /\ sensorData' = sensorData
        /\ PoppedRow' = PoppedRow /\ tx' = tx
        /\ X \subseteq Y
    BY <1>7, <1>16 DEF Enqueue, Sends, storeVars, dvars, linkVars, taskVars, PoppedRow
  <2>2. sample \in Records
    BY <1>5 DEF TaskInv, TaskTypes
  <2>3. PICK at : /\ Stays(R, S, "queue", "sample", 1, "queue", at)
                  /\ S["queue"][at] = sample
    <3>1. Grows(R, S, "queue", sample)
      BY <1>1, <1>2, <1>3, <1>10, <2>1 DEF Grows
    <3>2. Lands(R, S, "queue", "sample", 1, sample)
      BY <2>2, <3>1, GrowingStays
    <3>3. QED
      BY <3>2 DEF Lands
  <2>4. Stays(R, S, "sample", "sample", 1, "queue", at)
    BY <1>2, <2>1, EmptyStays
  <2>5. \A p \in RowNames : Stays(R, S, p, "sample", 1, "queue", at)
    BY <1>1, <1>2, <1>13, <2>1, <2>3, <2>4 DEF RowNames
  <2>6. 1 \in DOMAIN R["sample"] /\ R["sample"][1] = sample
    BY <1>1
  <2>7. QED
    BY <1>4, <1>10, <2>1, <2>3, <2>5, <2>6, Moves
<1>17. CASE DrainPops \/ DrainPopsUnsaved
  <2>1. /\ Takes
        /\ sensorData' = sensorData /\ sample' = sample /\ sensorQueue' = sensorQueue
        /\ PoppedRow' = <<out'.data>> /\ tx' = tx
        /\ out'.data = out.data => out'.data \in again' \cup {Zeroed}
        /\ again \subseteq again'
    BY <1>17 DEF DrainPops, DrainPopsUnsaved, ReadPops, ReadPopsUnsaved, Goto, linkVars,
                 sensorVars, PoppedRow
  <2>2. Stays(R, S, "popped", "nowhere", 0, "popped", 1)
    BY <1>2, <2>1, EmptyStays
  <2>3. \A p \in RowNames : Stays(R, S, p, "nowhere", 0, "popped", 1)
    BY <1>1, <1>2, <1>13, <2>1, <2>2 DEF RowNames
  <2>4. S["popped"][1] = out'.data
    BY <1>2, <2>1
  <2>5. out'.data \in Y \/ Nowhere(R, out'.data)
    <3>1. CASE out'.data \in Y
      BY <3>1
    <3>2. CASE out'.data \notin Y
      <4>1. out'.data \notin Untold /\ out'.data # out.data /\ out'.data \notin X
        BY <1>4, <1>7, <2>1, <3>2 DEF X, Y, Exempt, Untold
      <4>2. out'.data \notin InRam \cup Sent
        BY <1>5, <2>1, <4>1, PopIsFresh DEF X
      <4>3. QED
        BY <1>6, <4>2 DEF Nowhere
    <3>3. QED
      BY <3>1, <3>2
  <2>6. S["popped"][1] \in Y \/ Nowhere(R, S["popped"][1])
    BY <2>4, <2>5
  <2>7. QED
    BY <1>4, <1>7, <2>1, <2>3, <2>6, Moves
\* A print moves a reading, or sends a fragment.
<1>18. ASSUME NEW f \in Frame, Link!Println(f), NEW row \in {"popped", "data"},
              f.reading \in Records, R[row] = <<f.reading>>, S[row] \in {<<>>, <<Zeroed>>},
              \A p \in RowNames \ {row, "tx"} : S[p] = R[p],
              X \subseteq Y
       PROVE  Once(S, Y)
  <2>1. row \in RowNames /\ row # "tx"
    BY DEF RowNames
  <2>2. Stays(R, S, row, row, 1, "tx", 0) /\ \A at : Stays(R, S, row, row, 1, "tx", at)
    BY <1>18, EmptyStays
  <2>3. CASE tx' = tx
    <3>1. S["tx"] = R["tx"]
      BY <1>1, <1>2, <2>3
    <3>2. Stays(R, S, row, "nowhere", 0, "nowhere", 0)
      BY <1>18, EmptyStays
    <3>3. \A p \in RowNames : Stays(R, S, p, "nowhere", 0, "nowhere", 0)
      BY <1>11, <1>13, <1>18, <3>1, <3>2
    <3>4. QED
      BY <1>4, <1>11, <1>18, <3>3, Moves
  <2>4. ASSUME NEW g \in Frame, tx' = Append(tx, g), g.reading \in {f.reading, Zeroed}
        PROVE  Once(S, Y)
    <3>1. Grows(R, S, "tx", g.reading) /\ g.reading \in Records
      BY <1>1, <1>2, <1>3, <1>9, <1>10, <1>18, <2>4, ReadingsOfAppend DEF Grows, Records
    <3>2. Lands(R, S, "tx", row, 1, g.reading)
      BY <2>1, <3>1, GrowingStays
    <3>3. PICK at : Stays(R, S, "tx", row, 1, "tx", at) /\ S["tx"][at] = g.reading
      BY <3>2 DEF Lands
    <3>4. \A p \in RowNames : Stays(R, S, p, row, 1, "tx", at)
      BY <1>13, <1>18, <2>2, <3>3
    <3>5. 1 \in DOMAIN R[row] /\ R[row][1] = f.reading
      BY <1>18
    <3>6. S["tx"][at] = R[row][1] \/ S["tx"][at] \in Y
      BY <1>4, <2>4, <3>3, <3>5
    <3>7. \/ row \in RowNames /\ 1 \in DOMAIN R[row] /\ S["tx"][at] = R[row][1]
          \/ S["tx"][at] \in Y
      BY <2>1, <3>5, <3>6
    <3>8. \A v \in X : v \in Y
      BY <1>18
    <3>9. QED
      BY <1>4, <3>4, <3>7, <3>8, Moves
  <2>5. tx' = tx \/ tx' = Append(tx, f) \/ tx' = Append(tx, Fragment)
    BY <1>18 DEF Link!Println, Link!PrintlnSkips, Link!PrintlnSends, Link!PrintlnFails,
                 Link!PrintlnTimesOut, Link!cvars
  <2>6. Fragment \in Frame /\ Fragment.reading = Zeroed
    BY FramesAre DEF Fragment
  <2>7. QED
    BY <2>3, <2>4, <2>5, <2>6
<1>19. CASE DrainPrints
  <2> DEFINE f == [tag |-> "SRH", reading |-> out.data]
  <2>1. f \in Frame /\ f.reading = out.data /\ out.data \in Records
    BY <1>5 DEF QueueInv, RingInv, SaverTypeOK, Frame, Tags, Records
  <2>2. /\ Link!Println(f)
        /\ sensorData' = sensorData /\ sample' = sample /\ sensorQueue' = sensorQueue
        /\ PoppedRow = <<out.data>> /\ PoppedRow' = <<>>
        /\ X \subseteq Y
    BY <1>7, <1>19 DEF DrainPrints, Goto, storeVars, sensorVars, PoppedRow
  <2> HIDE DEF f
  <2>3. /\ R["popped"] = <<f.reading>> /\ S["popped"] \in {<<>>, <<Zeroed>>}
        /\ \A p \in RowNames \ {"popped", "tx"} : S[p] = R[p]
    BY <1>1, <1>2, <2>1, <2>2 DEF RowNames
  <2>4. QED
    BY <1>18, <2>1, <2>2, <2>3
<1>20. CASE SendLatest
  <2> DEFINE f == [tag |-> "SRD", reading |-> sensorData]
  <2>1. f \in Frame /\ f.reading = sensorData /\ sensorData \in Records
    BY <1>5 DEF TaskInv, TaskTypes, Frame, Tags, Records
  <2>2. /\ Link!Println(f)
        /\ sensorData' = Zeroed /\ sample' = sample /\ sensorQueue' = sensorQueue
        /\ PoppedRow = <<>> /\ PoppedRow' = <<>>
        /\ X \subseteq Y
    BY <1>7, <1>20 DEF SendLatest, storeVars, sensorVars, PoppedRow
  <2> HIDE DEF f
  <2>3. /\ R["data"] = <<f.reading>> /\ S["data"] \in {<<>>, <<Zeroed>>}
        /\ \A p \in RowNames \ {"data", "tx"} : S[p] = R[p]
    BY <1>1, <1>2, <2>1, <2>2 DEF RowNames
  <2>4. QED
    BY <1>18, <2>1, <2>2, <2>3
\* The others.
<1>21. ASSUME ~Sample PROVE X \subseteq Y
  BY <1>7, <1>8, <1>21
<1>22. CASE UNCHANGED vars
  BY <1>7, <1>12, <1>22
  DEF vars, storeVars, dvars, linkVars, taskVars, sensorVars, PoppedRow, Fades
<1>23. CASE PowerOn \/ SetupFails \/ DelayElapses \/ Dispatch \/ ReconnectNotDue \/ DrainChecks
            \/ WriteSkipped
  BY <1>7, <1>12, <1>23
  DEF PowerOn, SetupFails, DelayElapses, Dispatch, ReconnectNotDue, DrainChecks, WriteSkipped,
      Goto, storeVars, dvars, linkVars, sensorVars, PoppedRow, Fades
<1>24. CASE SetupMounts \/ DrainEnds \/ DrainStops
  BY <1>7, <1>12, <1>24
  DEF SetupMounts, DrainEnds, DrainStops, Goto, linkVars, sensorVars, PoppedRow, Fades
<1>25. CASE Write \/ WriteCloses
  BY <1>7, <1>12, <1>25
  DEF Write, WriteCloses, Goto, linkVars, sensorVars, PoppedRow, Fades
<1>26. CASE PowerLoss
  BY <1>7, <1>12, <1>26
  DEF PowerLoss, Link!LinkPowerLoss, Link!LoseTail, PoppedRow, Fades
<1>27. CASE SetupConnects
  BY <1>7, <1>12, <1>27
  DEF SetupConnects, Goto, Link!BeginWithoutTime, Link!BeginWithTime, Link!cvars,
      storeVars, dvars, sensorVars, PoppedRow, Fades
<1>28. CASE ReconnectSucceeds \/ ReconnectFails
  BY <1>7, <1>12, <1>28
  DEF ReconnectSucceeds, ReconnectFails, Reconnect, Link!ReconnectSucceeds,
      Link!ReconnectFails, Link!LoseTail, Link!cvars, storeVars, dvars, sensorVars, PoppedRow,
      Fades
<1>29. CASE Network
  BY <1>7, <1>12, <1>29
  DEF Network, Link!WifiDown, Link!WifiUp, Link!SockDrop, Link!LoseTail,
      storeVars, dvars, taskVars, sensorVars, PoppedRow, Fades
<1>30. CASE Deliver
  BY <1>7, <1>12, <1>30
  DEF Deliver, Link!Deliver, storeVars, dvars, taskVars, sensorVars, PoppedRow, Fades
<1>31. QED
  BY <1>14, <1>15, <1>16, <1>17, <1>19, <1>20, <1>22, <1>23, <1>24, <1>25, <1>26, <1>27,
     <1>28, <1>29, <1>30 DEF Next, Task

LEMMA HeldInvNext == HeldInv /\ [Next]_vars => HeldInv'
<1> SUFFICES ASSUME HeldInv, [Next]_vars PROVE HeldInv'
  OBVIOUS
<1>1. QueueInv /\ RingInv /\ TaskInv
  BY DEF HeldInv, QueueInv
<1>2. [SaverNext]_dvars
  BY <1>1, StepsOfTheStore
<1>3. QueueInv'
  BY <1>1, <1>2, QueueStep
<1>4. TaskInv'
  BY <1>1, TaskInvNext
<1>5. FlashInv' /\ Once(Rows, Exempt)'
  BY FlashStep, OnceStep
<1>6. QED
  BY <1>3, <1>4, <1>5 DEF HeldInv

-----------------------------------------------------------------------------
(***************************************************************************)
(* From the family of rows to the one sequence Places.                     *)
(***************************************************************************)

OnceIn(s, X) == \A i, j \in DOMAIN s : s[i] = s[j] /\ s[i] \notin X => i = j

Disjoint(s, t, X) == \A i \in DOMAIN s, j \in DOMAIN t : s[i] = t[j] => s[i] \in X

\* Where an element of a concatenation comes from.
LEMMA ConcatElement ==
    ASSUME NEW s \in Seq(Records), NEW t \in Seq(Records), NEW i \in DOMAIN (s \o t)
    PROVE  \/ i \in DOMAIN s /\ (s \o t)[i] = s[i]
           \/ /\ i - Len(s) \in DOMAIN t /\ (s \o t)[i] = t[i - Len(s)]
              /\ i \in Int /\ Len(s) \in Int /\ i \notin DOMAIN s
<1>1. /\ s \o t \in Seq(Records)
      /\ Len(s \o t) = Len(s) + Len(t)
      /\ \A k \in 1 .. Len(s) + Len(t) :
            (s \o t)[k] = IF k <= Len(s) THEN s[k] ELSE t[k - Len(s)]
  BY ConcatProperties
<1>2. /\ Len(s) \in Nat /\ DOMAIN s = 1 .. Len(s)
      /\ Len(t) \in Nat /\ DOMAIN t = 1 .. Len(t)
      /\ DOMAIN (s \o t) = 1 .. Len(s) + Len(t)
  BY <1>1, LenProperties
<1>3. i \in 1 .. Len(s) + Len(t)
  BY <1>2
<1>4. (s \o t)[i] = IF i <= Len(s) THEN s[i] ELSE t[i - Len(s)]
  BY <1>1, <1>3
<1> DEFINE m == Len(s)
           n == Len(t)
<1> HIDE DEF m, n
<1>5. CASE i <= Len(s)
  <2>1. i \in 1 .. m
    BY <1>2, <1>3, <1>5 DEF m
  <2>2. QED
    BY <1>2, <1>4, <1>5, <2>1 DEF m
<1>6. CASE ~(i <= Len(s))
  <2>1. m \in Nat /\ n \in Nat /\ i \in 1 .. m + n /\ ~(i <= m)
    BY <1>2, <1>3, <1>6 DEF m, n
  <2>2. i - m \in 1 .. n /\ i \in Int /\ m \in Int /\ i \notin 1 .. m
    BY <2>1
  <2>3. QED
    BY <1>2, <1>4, <1>6, <2>2 DEF m, n
<1>7. QED
  BY <1>5, <1>6

LEMMA ConcatOnce ==
    ASSUME NEW s \in Seq(Records), NEW t \in Seq(Records), NEW X,
           OnceIn(s, X), OnceIn(t, X), Disjoint(s, t, X)
    PROVE  OnceIn(s \o t, X)
<1> DEFINE c == s \o t
<1> SUFFICES ASSUME NEW i \in DOMAIN c, NEW j \in DOMAIN c, c[i] = c[j], c[i] \notin X
             PROVE  i = j
  BY DEF OnceIn
<1>1. \/ i \in DOMAIN s /\ c[i] = s[i]
      \/ /\ i - Len(s) \in DOMAIN t /\ c[i] = t[i - Len(s)]
         /\ i \in Int /\ Len(s) \in Int
  BY ConcatElement
<1>2. \/ j \in DOMAIN s /\ c[j] = s[j]
      \/ /\ j - Len(s) \in DOMAIN t /\ c[j] = t[j - Len(s)]
         /\ j \in Int /\ Len(s) \in Int
  BY ConcatElement
<1> HIDE DEF c
<1>3. CASE i \in DOMAIN s /\ c[i] = s[i] /\ j \in DOMAIN s /\ c[j] = s[j]
  BY <1>3 DEF OnceIn
<1>4. CASE /\ i - Len(s) \in DOMAIN t /\ c[i] = t[i - Len(s)]
           /\ j - Len(s) \in DOMAIN t /\ c[j] = t[j - Len(s)]
           /\ i \in Int /\ j \in Int /\ Len(s) \in Int
  <2>1. i - Len(s) = j - Len(s)
    BY <1>4 DEF OnceIn
  <2>2. QED
    BY <1>4, <2>1
<1>5. QED
  BY <1>1, <1>2, <1>3, <1>4 DEF Disjoint

LEMMA ConcatDisjoint ==
    ASSUME NEW s \in Seq(Records), NEW t \in Seq(Records), NEW u, NEW X,
           Disjoint(s, u, X), Disjoint(t, u, X)
    PROVE  Disjoint(s \o t, u, X)
<1> DEFINE c == s \o t
<1> SUFFICES ASSUME NEW i \in DOMAIN c, NEW j \in DOMAIN u, c[i] = u[j]
             PROVE  c[i] \in X
  BY DEF Disjoint
<1>1. \/ i \in DOMAIN s /\ c[i] = s[i]
      \/ i - Len(s) \in DOMAIN t /\ c[i] = t[i - Len(s)]
  BY ConcatElement
<1> HIDE DEF c
<1>2. QED
  BY <1>1 DEF Disjoint

\* The first two places, as Places writes them.
LEMMA PairIsConcat ==
    ASSUME NEW x \in Records, NEW y \in Records
    PROVE  <<x>> \o <<y>> = <<x, y>>
<1> DEFINE s == <<x>>
           t == <<y>>
           u == <<x, y>>
<1>1. /\ s \in Seq(Records) /\ Len(s) = 1 /\ s[1] = x
      /\ t \in Seq(Records) /\ Len(t) = 1 /\ t[1] = y
      /\ u \in Seq(Records) /\ Len(u) = 2 /\ u[1] = x /\ u[2] = y
  OBVIOUS
<1> HIDE DEF s, t, u
<1>2. /\ s \o t \in Seq(Records)
      /\ Len(s \o t) = Len(s) + Len(t)
      /\ \A i \in 1 .. Len(s) + Len(t) :
            (s \o t)[i] = IF i <= Len(s) THEN s[i] ELSE t[i - Len(s)]
  BY <1>1, ConcatProperties
<1> DEFINE c == s \o t
<1>3. c \in Seq(Records) /\ Len(c) = 2 /\ c[1] = x /\ c[2] = y
  BY <1>1, <1>2
<1> HIDE DEF c
<1>4. \A i \in 1 .. Len(c) : c[i] = u[i]
  BY <1>1, <1>3
<1>5. c = u
  BY <1>1, <1>3, <1>4, SeqEqual
<1>6. QED
  BY <1>5 DEF c, s, t, u

\* What the store holds: each reading once, and none that RAM holds or that
\* has been sent.
LEMMA ContentsAreApart ==
    ASSUME QueueInv, FlashInv
    PROVE  /\ OnceIn(Contents, Exempt)
           /\ \A i \in DOMAIN Contents : Contents[i] \in InRam \cup Sent => Contents[i] \in Exempt
<1>1. /\ bufferFile \in BufferState /\ Saved \in [Slots -> Records]
      /\ readingsFile \in [Slots -> Records]
  BY QueueFacts
<1>2. /\ DOMAIN Contents = 1 .. bufferFile.Count
      /\ \A i \in 1 .. bufferFile.Count :
            /\ i \in 1 .. Size /\ SlotAt(bufferFile, i) \in Slots
            /\ Contents[i] = Saved[SlotAt(bufferFile, i)]
  BY <1>1, InRingIsSeq DEF Contents
<1>3. \A s \in Slots : \/ saving # NoSave /\ s = saving.slot /\ Saved[s] = saving.data
                       \/ Saved[s] = readingsFile[s]
  BY <1>1 DEF Saved
<1>4. \A s, t \in Slots : Saved[s] = Saved[t] /\ Saved[s] \notin Untold => s = t
  BY <1>3 DEF FlashInv, Apart
<1>5. OnceIn(Contents, Exempt)
  <2> SUFFICES ASSUME NEW i \in 1 .. bufferFile.Count, NEW j \in 1 .. bufferFile.Count,
                      Contents[i] = Contents[j], Contents[i] \notin Exempt
               PROVE  i = j
    BY <1>2 DEF OnceIn
  <2>1. SlotAt(bufferFile, i) = SlotAt(bufferFile, j)
    BY <1>2, <1>4 DEF Exempt
  <2>2. QED
    BY <1>1, <1>2, <2>1, RingSlotsDistinct
<1>6. ASSUME NEW i \in DOMAIN Contents, Contents[i] \in InRam \cup Sent
      PROVE  Contents[i] \in Exempt
  <2> DEFINE s == SlotAt(bufferFile, i)
  <2>1. s \in Slots /\ s \in Counted(bufferFile) /\ Contents[i] = Saved[s]
    BY <1>2, <1>6 DEF Counted
  <2> HIDE DEF s
  <2>2. Contents[i] \in Traces
    BY <1>3, <2>1 DEF Traces
  <2>3. ~Gone(Contents[i])
    BY <2>1 DEF Gone
  <2>4. QED
    BY <1>6, <2>2, <2>3 DEF FlashInv, RamApart, SentApart, Exempt
<1>7. QED
  BY <1>5, <1>6

LEMMA HeldOnceFollows == HeldInv => HeldOnce
<1> SUFFICES ASSUME HeldInv PROVE HeldOnce
  OBVIOUS
<1> DEFINE X == Exempt
           a == <<sample>>
           b == <<sensorData>>
           q == sensorQueue
           c == Contents
           p == PoppedRow
           f == ReadingsOf(tx)
<1>1. /\ Rows["sample"] = a /\ Rows["data"] = b /\ Rows["queue"] = q
      /\ Rows["popped"] = p /\ Rows["tx"] = f
  BY DEF Rows
<1>2. Places = ((((a \o b) \o q) \o c) \o p) \o f
  <2>1. a \o b = <<sample, sensorData>>
    BY PairIsConcat DEF HeldInv, TaskInv, TaskTypes
  <2>2. p = IF Popped = {} THEN <<>> ELSE <<out.data>>
    BY DEF Popped, PoppedRow
  <2>3. f = [i \in DOMAIN tx |-> tx[i].reading]
    BY DEF ReadingsOf
  <2>4. QED
    BY <2>1, <2>2, <2>3 DEF Places
<1>3. /\ a \in Seq(Records) /\ b \in Seq(Records) /\ q \in Seq(Records)
      /\ c \in Seq(Records) /\ p \in Seq(Records) /\ f \in Seq(Records)
  <2>1. c \in Seq(Records)
    BY QueueFacts, InRingIsSeq DEF HeldInv, Contents
  <2>2. QED
    BY <1>1, <2>1, RowsAreSeqs DEF HeldInv, RowNames
<1>4. QueueInv /\ TaskInv /\ FlashInv /\ Once(Rows, X)
  BY DEF HeldInv
<1>5. X = again \cup Alike \cup {Zeroed}
  BY DEF Exempt, Untold
<1>6. /\ OnceIn(c, X)
      /\ \A i \in DOMAIN c : c[i] \in InRam \cup Sent => c[i] \in X
  BY <1>4, ContentsAreApart
<1>7. \A m \in RowNames : \A i \in DOMAIN Rows[m] : Rows[m][i] \in InRam \cup Sent
  BY <1>4, RowsAreHeld
<1> HIDE DEF X, a, b, q, c, p, f
<1>8. \A m \in RowNames : OnceIn(Rows[m], X) /\ Disjoint(Rows[m], c, X) /\ Disjoint(c, Rows[m], X)
  BY <1>4, <1>6, <1>7 DEF Once, OnceIn, Disjoint
<1>9. \A m, n \in RowNames : m # n => Disjoint(Rows[m], Rows[n], X)
  BY <1>4 DEF Once, Disjoint
<1>10. /\ OnceIn(a, X) /\ OnceIn(b, X) /\ OnceIn(q, X) /\ OnceIn(p, X) /\ OnceIn(f, X)
       /\ Disjoint(a, c, X) /\ Disjoint(b, c, X) /\ Disjoint(q, c, X)
       /\ Disjoint(c, p, X) /\ Disjoint(c, f, X)
  BY <1>1, <1>8 DEF RowNames
<1>11. /\ Disjoint(a, b, X) /\ Disjoint(a, q, X) /\ Disjoint(a, p, X) /\ Disjoint(a, f, X)
       /\ Disjoint(b, q, X) /\ Disjoint(b, p, X) /\ Disjoint(b, f, X)
       /\ Disjoint(q, p, X) /\ Disjoint(q, f, X) /\ Disjoint(p, f, X)
  BY <1>1, <1>9 DEF RowNames
<1> DEFINE s2 == a \o b
           s3 == s2 \o q
           s4 == s3 \o c
           s5 == s4 \o p
<1>12. /\ s2 \in Seq(Records) /\ OnceIn(s2, X)
       /\ Disjoint(s2, q, X) /\ Disjoint(s2, c, X) /\ Disjoint(s2, p, X) /\ Disjoint(s2, f, X)
  BY <1>3, <1>10, <1>11, ConcatProperties, ConcatOnce, ConcatDisjoint
<1> HIDE DEF s2
<1>13. /\ s3 \in Seq(Records) /\ OnceIn(s3, X)
       /\ Disjoint(s3, c, X) /\ Disjoint(s3, p, X) /\ Disjoint(s3, f, X)
  BY <1>3, <1>10, <1>11, <1>12, ConcatProperties, ConcatOnce, ConcatDisjoint
<1> HIDE DEF s3
<1>14. /\ s4 \in Seq(Records) /\ OnceIn(s4, X)
       /\ Disjoint(s4, p, X) /\ Disjoint(s4, f, X)
  BY <1>3, <1>6, <1>10, <1>13, ConcatProperties, ConcatOnce, ConcatDisjoint
<1> HIDE DEF s4
<1>15. s5 \in Seq(Records) /\ OnceIn(s5, X) /\ Disjoint(s5, f, X)
  BY <1>3, <1>10, <1>11, <1>14, ConcatProperties, ConcatOnce, ConcatDisjoint
<1> HIDE DEF s5
<1>16. OnceIn(s5 \o f, X)
  BY <1>3, <1>10, <1>15, ConcatOnce
<1>17. Places = s5 \o f
  BY <1>2 DEF s2, s3, s4, s5
<1>18. QED
  BY <1>5, <1>16, <1>17 DEF OnceIn, HeldOnce

\* A reading is in one place at a time: not sent twice, and not both sent and
\* saved, whatever the sizes, however long it runs, whatever the power does
\* between any two commits, and however old the handles of a batch are; those
\* excepted of which flash was not told, by a failing flush or close, that
\* they had gone.
THEOREM NoReadingTwice == Spec => []HeldOnce
<1>1. QED
  BY HeldInvInit, HeldInvNext, HeldOnceFollows, PTL DEF Spec

-----------------------------------------------------------------------------
(***************************************************************************)
(* What becomes of a reading.                                              *)
(***************************************************************************)

\* Between two readings the task has none.
HandsFree ==
    pc \notin {"dispatch", "write", "drain", "drainCheck", "drainPrint", "latest"}
        => sensorData = Zeroed

LEMMA HandsFreeNext == HandsFree /\ [Next]_vars => HandsFree'
<1> SUFFICES ASSUME HandsFree, [Next]_vars PROVE HandsFree'
  OBVIOUS
<1> USE DEF HandsFree
<1>1. CASE UNCHANGED vars \/ Sample \/ Enqueue \/ DelayElapses \/ Network \/ Deliver
  BY <1>1 DEF vars, Sample, Enqueue, Sends, DelayElapses, Network, Deliver, taskVars
<1>2. CASE PowerOn \/ PowerLoss \/ SetupMounts \/ SetupFails \/ SetupConnects
  BY <1>2 DEF PowerOn, PowerLoss, SetupMounts, SetupFails, SetupConnects, Goto
<1>3. CASE Receive \/ Dispatch \/ WriteSkipped \/ Write \/ WriteCloses \/ ReconnectNotDue
           \/ ReconnectSucceeds \/ ReconnectFails
  BY <1>3 DEF Receive, Dispatch, WriteSkipped, Write, WriteCloses, ReconnectNotDue,
              ReconnectSucceeds, ReconnectFails, Reconnect, Goto
<1>4. CASE DrainPops \/ DrainPopsUnsaved \/ DrainEnds \/ DrainChecks \/ DrainStops
           \/ DrainPrints \/ SendLatest
  BY <1>4 DEF DrainPops, DrainPopsUnsaved, DrainEnds, DrainChecks, DrainStops, DrainPrints,
              SendLatest, Goto
<1>5. QED
  BY <1>1, <1>2, <1>3, <1>4 DEF Next, Task

\* A step that leaves the store's files alone leaves what it holds alone.
LEMMA ContentsKept ==
    ASSUME bufferFile' = bufferFile, readingsFile' = readingsFile, saving' = saving
    PROVE  InFlash' = InFlash
BY DEF Contents, InRing, SlotAt, Saved, InFlash, Members

\* A reading in the store is in a slot that the ring counts.
LEMMA InFlashIs ==
    /\ \A r : r \in InFlash <=>
          \E i \in 1 .. bufferFile.Count : r = Saved[SlotAt(bufferFile, i)]
    /\ \A i \in 1 .. bufferFile'.Count : Saved'[SlotAt(bufferFile', i)] \in InFlash'
<1>1. /\ DOMAIN Contents = 1 .. bufferFile.Count
      /\ \A i \in 1 .. bufferFile.Count : Contents[i] = Saved[SlotAt(bufferFile, i)]
  BY DEF Contents, InRing
<1>2. /\ DOMAIN Contents' = 1 .. bufferFile'.Count
      /\ \A i \in 1 .. bufferFile'.Count : Contents'[i] = Saved'[SlotAt(bufferFile', i)]
  BY DEF Contents, InRing, SlotAt
<1>3. InFlash = {Contents[i] : i \in DOMAIN Contents}
      /\ InFlash' = {Contents'[i] : i \in DOMAIN Contents'}
  BY DEF InFlash, Members
<1>4. QED
  BY <1>1, <1>2, <1>3

\* A Write that ends without its slot takes its own reading with it.
LEMMA LossOfTheUnsaved ==
    ASSUME QueueInv, UNCHANGED files, saving' = NoSave,
           NEW r \in InFlash, r \notin InFlash'
    PROVE  r = saving.data
<1>1. PICK i \in 1 .. bufferFile.Count : r = Saved[SlotAt(bufferFile, i)]
  BY InFlashIs
<1>2. SlotAt(bufferFile, i) \in Slots /\ readingsFile \in [Slots -> Records]
  BY QueueFacts, InRingIsSeq
<1>3. bufferFile' = bufferFile /\ Saved' = readingsFile
  BY DEF files, Saved
<1>4. PICK s : s = SlotAt(bufferFile, i) /\ s = SlotAt(bufferFile', i)
  BY <1>3
<1>5. r # readingsFile[s]
  <2>1. i \in 1 .. bufferFile'.Count
    BY <1>3
  <2>2. r # Saved'[s]
    BY <1>4, <2>1, InFlashIs
  <2>3. QED
    BY <1>3, <2>2
<1>6. QED
  BY <1>1, <1>2, <1>4, <1>5 DEF Saved

\* Write drops nothing but the oldest reading of a full ring.
LEMMA LossOfTheOldest ==
    ASSUME QueueInv, NEW d, NEW b \in {bufferFile, Push(bufferFile)}, Pushes(d, b),
           NEW r \in InFlash, r \notin InFlash'
    PROVE  bufferFile.Count = Size /\ r = Contents[1]
<1> DEFINE n == bufferFile.Count
<1>1. PICK i \in 1 .. n : r = Saved[SlotAt(bufferFile, i)]
  BY InFlashIs
<1>2. /\ bufferFile \in BufferState /\ Consistent(bufferFile)
      /\ Push(bufferFile) \in BufferState
      /\ readingsFile \in [Slots -> Records]
  BY QueueFacts, PushIsConsistent
<1>3. /\ n \in 0 .. Size /\ i \in 1 .. Size /\ SlotAt(bufferFile, i) \in Slots
      /\ r = Contents[i]
  BY <1>1, <1>2, InRingIsSeq, QueueFacts DEF Contents
<1>4. /\ saving = NoSave /\ Saved = readingsFile /\ bufferFile' = b
      /\ readingsFile' = readingsFile
      /\ saving' = [slot |-> bufferFile.Head, data |-> d]
  BY DEF Pushes, Ready, Saved, WriteSlot
<1>5. SUFFICES ASSUME ~(n = Size /\ i = 1) PROVE FALSE
  BY <1>3
<1>6. SlotAt(bufferFile, i) # bufferFile.Head
  BY <1>2, <1>5, HeadOutside
<1>7. \E j \in 1 .. b.Count : SlotAt(b, j) = SlotAt(bufferFile, i)
  <2>1. CASE b = bufferFile
    BY <2>1
  <2>2. CASE b = Push(bufferFile)
    <3> DEFINE k == IF n = Size THEN n - 1 ELSE n
               j == IF n = Size THEN i - 1 ELSE i
    <3>1. /\ k \in Nat /\ Push(bufferFile).Count = k + 1
          /\ \A m \in 1 .. k : SlotAt(Push(bufferFile), m)
                                 = SlotAt(bufferFile, IF n = Size THEN m + 1 ELSE m)
      BY <1>2, PushSlots
    <3>2. j \in 1 .. k /\ (IF n = Size THEN j + 1 ELSE j) = i /\ 1 .. k \subseteq 1 .. k + 1
      BY <1>3, <1>5, SizeAssumption
    <3> HIDE DEF k, j
    <3>3. SlotAt(Push(bufferFile), j) = SlotAt(bufferFile, i)
      BY <3>1, <3>2
    <3>4. j \in 1 .. b.Count
      BY <2>2, <3>1, <3>2
    <3>5. QED
      BY <2>2, <3>3, <3>4
  <2>3. QED
    BY <2>1, <2>2
<1>8. PICK j \in 1 .. b.Count : SlotAt(b, j) = SlotAt(bufferFile, i)
  BY <1>7
<1>9. PICK s : s = SlotAt(bufferFile, i) /\ s = SlotAt(b, j)
  BY <1>8
<1>10. Saved'[s] = readingsFile[s]
  BY <1>2, <1>3, <1>4, <1>6, <1>9 DEF Saved
<1>11. r \in InFlash'
  <2>1. j \in 1 .. bufferFile'.Count /\ s = SlotAt(bufferFile', j)
    BY <1>4, <1>8, <1>9
  <2>2. r = Saved'[s]
    BY <1>1, <1>4, <1>9, <1>10
  <2>3. QED
    BY <2>1, <2>2, InFlashIs
<1>12. QED
  BY <1>11

\* Read takes out what it gives; handles that are behind forget what they do
\* not have before them.
LEMMA LossOfTheForgotten ==
    ASSUME QueueInv, FlashInv, ReadPops, NEW r \in InFlash, r \notin InFlash',
           r \notin Untold, r # out'.data
    PROVE  Behind /\ r \notin {InView[i] : i \in 2 .. Len(InView)}
<1> DEFINE sb == Seen.buffer
<1>1. /\ Takes /\ saving = NoSave /\ saving' = NoSave /\ sb.Count > 0
      /\ bufferFile' = Pop(sb) /\ readingsFile' = readingsFile
      /\ out'.data \in Readable
      /\ Saved = readingsFile /\ Saved' = readingsFile
  <2>1. Takes /\ bufferFile' = Pop(sb)
    BY DEF ReadPops
  <2>2. /\ saving = NoSave /\ saving' = saving /\ sb.Count > 0 /\ readingsFile' = readingsFile
        /\ out'.data \in Readable
    BY <2>1 DEF Takes, Ready
  <2>3. QED
    BY <2>1, <2>2 DEF Saved
<1>2. /\ sb \in BufferState /\ Consistent(sb) /\ Pop(sb) \in BufferState
      /\ readingsFile \in [Slots -> Records]
      /\ sb.Count \in 1 .. Size
  <2>1. sb \in BufferState /\ Consistent(sb) /\ readingsFile \in [Slots -> Records]
    BY QueueFacts DEF Seen, Committed
  <2>2. QED
    BY <1>1, <2>1, PopIsConsistent DEF BufferState
<1>3. PICK i \in 1 .. bufferFile.Count : r = readingsFile[SlotAt(bufferFile, i)]
  BY <1>1, InFlashIs
<1>4. SlotAt(bufferFile, i) \in Slots
  BY QueueFacts, InRingIsSeq
<1> HIDE DEF sb
\* The ring that Read leaves has what the handles had, but for the first slot.
<1>5. ASSUME NEW j \in 2 .. sb.Count
      PROVE  r # readingsFile[SlotAt(sb, j)]
  <2>1. j - 1 \in 1 .. sb.Count - 1 /\ (j - 1) + 1 = j
    BY <1>2
  <2>2. SlotAt(Pop(sb), j - 1) = SlotAt(sb, j)
    BY <1>1, <1>2, <2>1, PopIsTail
  <2>3. Pop(sb).Count = sb.Count - 1
    BY DEF Pop
  <2>4. j - 1 \in 1 .. bufferFile'.Count /\ SlotAt(bufferFile', j - 1) = SlotAt(sb, j)
    BY <1>1, <2>1, <2>2, <2>3
  <2>5. r # Saved'[SlotAt(bufferFile', j - 1)]
    BY <2>4, InFlashIs
  <2>6. QED
    BY <1>1, <2>4, <2>5
<1>6. Behind
  <2> SUFFICES ASSUME ~Behind PROVE FALSE
    OBVIOUS
  <2>1. Seen = Committed
    BY DEF Behind, Seen
  <2>2. sb = bufferFile /\ Seen.readings = readingsFile
    BY <2>1 DEF sb, Committed
  <2>3. i = 1
    BY <1>2, <1>3, <1>5, <2>2
  <2>4. SlotAt(sb, 1) = sb.Tail
    <3>1. /\ sb.Tail \in 0 .. Size - 1 /\ 1 \in 1 .. Size
          /\ SlotAt(sb, 1) = IF sb.Tail + 1 <= Size THEN sb.Tail + 1 - 1
                                                    ELSE sb.Tail + 1 - 1 - Size
      BY <1>2, RingSlot, SizeAssumption DEF BufferState, Slots
    <3>2. QED
      BY <3>1, SizeAssumption
  <2>5. r = readingsFile[sb.Tail] /\ r # Zeroed
    BY <1>3, <2>2, <2>3, <2>4 DEF Untold
  <2>6. sb.Tail \in sb.Tail .. Size - 1
    BY <1>2, SizeAssumption DEF BufferState, Slots
  <2>7. ReadSlot(readingsFile, sb.Tail, out.data) = r
    BY <2>5, <2>6 DEF ReadSlot
  <2>8. QED
    BY <1>1, <2>2, <2>7 DEF Readable, sb
<1>7. ASSUME NEW j \in 2 .. Len(InView)
      PROVE  r # InView[j]
  <2>1. sb = snapshot.buffer /\ snapshot.readings \in [Slots -> Records]
    BY <1>6, QueueFacts DEF Behind, Seen, sb
  <2>2. /\ Len(InView) = sb.Count
        /\ \A k \in 1 .. sb.Count : /\ InView[k] = snapshot.readings[SlotAt(sb, k)]
                                    /\ SlotAt(sb, k) \in Slots
    BY <1>2, <2>1, InRingIsSeq DEF InView
  <2>3. j \in 1 .. sb.Count /\ j \in 2 .. sb.Count
    BY <1>2, <2>2
  <2>4. r = snapshot.readings[SlotAt(sb, j)] => SlotAt(sb, j) = SlotAt(bufferFile, i)
    BY <1>3, <1>4, <2>2, <2>3 DEF FlashInv, Apart
  <2>5. QED
    BY <1>3, <1>5, <2>2, <2>3, <2>4
<1>8. QED
  BY <1>6, <1>7

LossInv == HeldInv /\ HandsFree

LEMMA LossesAreKnown ==
    ASSUME LossInv, [Next]_vars
    PROVE  \A r \in Held \ (Held' \cup Alike) : MayGo(r)
<1> SUFFICES ASSUME NEW r, r \in Held, r \notin Held', r \notin Alike
             PROVE  MayGo(r)
  OBVIOUS
<1>1. QueueInv /\ TaskInv /\ FlashInv /\ HandsFree
  BY DEF LossInv, HeldInv
<1>2. r # Zeroed /\ r \notin Untold
  BY DEF Held, Untold
<1>3. \/ r = sample \/ r = sensorData \/ r \in InQueue \/ r \in InFlash
      \/ r \in InFlight \/ r \in Popped
  BY DEF Held
<1>4. /\ r # sample' /\ r # sensorData' /\ r \notin InQueue' /\ r \notin InFlash'
      /\ r \notin InFlight' /\ r \notin Popped'
  BY <1>2 DEF Held
<1>5. tx \in Seq(Frame) /\ sensorQueue \in Seq(Readings)
  BY <1>1, TxIsSeq DEF TaskInv, TaskTypes
\* What is still there cannot be what went.
<1>6. UNCHANGED storeVars => r \notin InFlash
  BY <1>4, ContentsKept DEF storeVars, dvars
<1>7. UNCHANGED sensorVars => r # sample /\ r \notin InQueue
  BY <1>4 DEF sensorVars, InQueue
<1>8. UNCHANGED linkVars => r \notin InFlight
  BY <1>4 DEF linkVars, InFlight
<1>9. CASE PowerLoss
  <2>1. UNCHANGED files /\ saving' = NoSave /\ pc' = "off"
    BY <1>9 DEF PowerLoss, SaverPowerLoss
  <2>2. r \in InFlash => r = saving.data
    BY <1>1, <1>4, <2>1, LossOfTheUnsaved
  <2>3. QED
    BY <2>1, <2>2 DEF MayGo
<1>10. CASE UNCHANGED vars
  BY <1>3, <1>4, <1>6, <1>7, <1>8, <1>10 DEF vars, storeVars, dvars, taskVars, Popped
<1>11. CASE PowerOn \/ SetupFails \/ DelayElapses \/ Dispatch \/ ReconnectNotDue \/ DrainChecks
  BY <1>3, <1>4, <1>6, <1>7, <1>8, <1>11
  DEF PowerOn, SetupFails, DelayElapses, Dispatch, ReconnectNotDue, DrainChecks, Goto,
      storeVars, dvars, Popped
<1>12. CASE SetupMounts
  <2>1. /\ UNCHANGED <<linkVars, sensorVars>> /\ sensorData' = sensorData
        /\ Popped = {} /\ pc = "setup"
    BY <1>12 DEF SetupMounts, Goto, Popped
  <2>2. QED
    BY <1>3, <1>4, <1>7, <1>8, <2>1 DEF MayGo
<1>13. CASE DrainEnds
  <2>1. /\ UNCHANGED <<linkVars, sensorVars>> /\ sensorData' = sensorData /\ Popped = {}
    BY <1>13 DEF DrainEnds, Goto, Popped
  <2>2. InFlash' = InFlash
    BY <1>13, ContentsKept DEF DrainEnds, ReadEndsBatch, ReadCannotOpen, ReadFindsEmpty
  <2>3. QED
    BY <1>3, <1>4, <1>7, <1>8, <2>1, <2>2
<1>14. CASE SetupConnects
  <2>1. UNCHANGED <<storeVars, sensorVars>> /\ sensorData' = sensorData /\ Popped = {}
    BY <1>14 DEF SetupConnects, Goto, Popped
  <2>2. tx' = tx
    BY <1>14 DEF SetupConnects, Link!BeginWithoutTime, Link!BeginWithTime, Link!cvars
  <2>3. InFlight' = InFlight
    BY <2>2 DEF InFlight
  <2>4. QED
    BY <1>3, <1>4, <1>6, <1>7, <2>1, <2>3
<1>15. CASE Sample
  <2>1. /\ sample = Zeroed /\ UNCHANGED <<dvars, linkVars, taskVars, sensorQueue>>
    BY <1>15 DEF Sample
  <2>2. InFlash' = InFlash /\ Popped' = Popped /\ InQueue' = InQueue
    BY <2>1, ContentsKept DEF dvars, taskVars, Popped, InQueue
  <2>3. QED
    BY <1>2, <1>3, <1>4, <1>8, <2>1, <2>2 DEF taskVars
<1>16. CASE Enqueue
  <2>1. /\ UNCHANGED <<storeVars, linkVars, taskVars>>
        /\ sensorQueue' = Append(sensorQueue, sample) /\ sample \in Readings
    BY <1>1, <1>16 DEF Enqueue, Sends, TaskInv, TaskTypes, Records
  <2>2. InQueue' = InQueue \cup {sample}
    BY <1>5, <2>1, MembersOfAppend DEF InQueue
  <2>3. Popped' = Popped
    BY <2>1 DEF storeVars, dvars, taskVars, Popped
  <2>4. QED
    BY <1>3, <1>4, <1>6, <1>8, <2>1, <2>2, <2>3 DEF taskVars
<1>17. CASE Receive
  <2>1. /\ UNCHANGED <<storeVars, linkVars>> /\ sample' = sample
        /\ sensorQueue # <<>> /\ sensorData' = Head(sensorQueue)
        /\ sensorQueue' = Tail(sensorQueue)
        /\ Popped = {} /\ sensorData = Zeroed
    BY <1>1, <1>17 DEF Receive, HandsFree, Popped
  <2>2. InQueue = InQueue' \cup {sensorData'}
    BY <1>5, <2>1, MembersOfTail DEF InQueue
  <2>3. QED
    BY <1>2, <1>3, <1>4, <1>6, <1>8, <2>1, <2>2
<1>18. CASE WriteSkipped
  <2>1. UNCHANGED <<storeVars, linkVars, sensorVars>> /\ pc = "write" /\ Popped = {}
    BY <1>18 DEF WriteSkipped, Popped
  <2>2. QED
    BY <1>3, <1>6, <1>7, <1>8, <2>1 DEF MayGo
<1>19. CASE Write
  <2>1. UNCHANGED <<linkVars, sensorVars>> /\ pc = "write" /\ Popped = {}
    BY <1>19 DEF Write, Popped
  <2>2. PICK b \in {bufferFile, Push(bufferFile)} : Pushes(sensorData, b)
    BY <1>19 DEF Write, WriteClosesBuffer, WriteLosesBuffer
  <2>3. r \in InFlash => bufferFile.Count = Size /\ r = Contents[1]
    BY <1>1, <1>4, <2>2, LossOfTheOldest
  <2>4. QED
    BY <1>3, <1>7, <1>8, <2>1, <2>3 DEF MayGo
<1>20. CASE WriteCloses
  <2>1. /\ UNCHANGED <<linkVars, sensorVars>> /\ sensorData' = sensorData
        /\ Popped = {} /\ pc = "writeClose"
    BY <1>20 DEF WriteCloses, Goto, Popped
  <2>2. CASE WriteClosesReadings
    <3>1. /\ bufferFile' = bufferFile /\ readingsFile' = Saved /\ saving' = NoSave
      BY <2>2 DEF WriteClosesReadings, Saved
    <3>2. bufferFile' = bufferFile /\ Saved' = Saved
      BY <3>1 DEF Saved
    <3>3. InFlash' = InFlash
      BY <3>2 DEF InFlash, Members, Contents, InRing, SlotAt
    <3>4. QED
      BY <1>3, <1>4, <1>7, <1>8, <2>1, <3>3
  <2>3. CASE WriteLosesReadings
    <3>1. UNCHANGED files /\ saving' = NoSave
      BY <2>3 DEF WriteLosesReadings, files
    <3>2. r \in InFlash => r = saving.data
      BY <1>1, <1>4, <3>1, LossOfTheUnsaved
    <3>3. QED
      BY <1>3, <1>4, <1>7, <1>8, <2>1, <3>2 DEF MayGo
  <2>4. QED
    BY <1>20, <2>2, <2>3 DEF WriteCloses
<1>21. CASE ReconnectSucceeds \/ ReconnectFails
  <2>1. /\ UNCHANGED <<storeVars, sensorVars>> /\ sensorData' = sensorData
        /\ Popped = {} /\ pc = "reconnect"
    BY <1>21 DEF ReconnectSucceeds, ReconnectFails, Reconnect, Popped
  <2>2. QED
    BY <1>3, <1>4, <1>6, <1>7, <2>1 DEF MayGo
<1>22. CASE DrainPops
  <2>1. /\ UNCHANGED <<linkVars, sensorVars>> /\ sensorData' = sensorData
        /\ Popped = {} /\ Popped' = {out'.data} /\ pc = "drain" /\ ReadPops
    BY <1>22 DEF DrainPops, Goto, Popped
  <2>2. r \in InFlash => Behind /\ r \notin {InView[i] : i \in 2 .. Len(InView)}
    BY <1>1, <1>2, <1>4, <2>1, LossOfTheForgotten
  <2>3. QED
    BY <1>3, <1>4, <1>7, <1>8, <2>1, <2>2 DEF MayGo
<1>23. CASE DrainPopsUnsaved
  <2>1. /\ UNCHANGED <<linkVars, sensorVars>> /\ sensorData' = sensorData
        /\ Popped = {} /\ ReadPopsUnsaved
    BY <1>23 DEF DrainPopsUnsaved, Goto, Popped
  <2>2. InFlash' = InFlash
    BY <2>1, ContentsKept DEF ReadPopsUnsaved, Takes
  <2>3. QED
    BY <1>3, <1>4, <1>7, <1>8, <2>1, <2>2
<1>24. CASE DrainStops
  <2>1. /\ UNCHANGED <<linkVars, sensorVars>> /\ sensorData' = sensorData
        /\ pc = "drainCheck" /\ ~Link!IsConnected /\ Popped = {out.data}
    BY <1>24 DEF DrainStops, Goto, Popped
  <2>2. InFlash' = InFlash
    BY <1>24, ContentsKept DEF DrainStops, DropOutput
  <2>3. QED
    BY <1>3, <1>4, <1>7, <1>8, <2>1, <2>2 DEF MayGo
<1>25. CASE DrainPrints
  <2> DEFINE f == [tag |-> "SRH", reading |-> out.data]
  <2>1. f \in Frame /\ f.reading = out.data
    BY <1>1 DEF QueueInv, RingInv, SaverTypeOK, Frame, Tags
  <2>2. /\ Link!Println(f) /\ UNCHANGED <<storeVars, sensorVars>> /\ sensorData' = sensorData
        /\ pc = "drainPrint" /\ Popped = {out.data}
    BY <1>25 DEF DrainPrints, Goto, Popped
  <2> HIDE DEF f
  <2>3. InFlight \subseteq InFlight' /\ (out.data \in InFlight' \/ NotPrinted)
    BY <1>1, <2>1, <2>2, PrintMembers
  <2>4. QED
    BY <1>3, <1>4, <1>6, <1>7, <2>2, <2>3 DEF MayGo
<1>26. CASE SendLatest
  <2> DEFINE f == [tag |-> "SRD", reading |-> sensorData]
  <2>1. f \in Frame /\ f.reading = sensorData
    BY <1>1 DEF TaskInv, TaskTypes, Frame, Tags
  <2>2. /\ Link!Println(f) /\ UNCHANGED <<storeVars, sensorVars>>
        /\ pc = "latest" /\ Popped = {}
    BY <1>26 DEF SendLatest, Popped
  <2> HIDE DEF f
  <2>3. InFlight \subseteq InFlight' /\ (sensorData \in InFlight' \/ NotPrinted)
    BY <1>1, <2>1, <2>2, PrintMembers
  <2>4. QED
    BY <1>3, <1>4, <1>6, <1>7, <2>2, <2>3 DEF MayGo
<1>27. CASE Network
  <2>1. UNCHANGED <<storeVars, taskVars, sensorVars>>
    BY <1>27 DEF Network
  <2>2. sensorData' = sensorData /\ Popped' = Popped
    BY <2>1 DEF storeVars, dvars, taskVars, Popped
  <2>3. tx' = tx \/ sock # sock'
    BY <1>27 DEF Network, Link!WifiDown, Link!WifiUp, Link!SockDrop
  <2>4. r \in InFlight => sock # sock'
    BY <1>4, <2>3 DEF InFlight
  <2>5. QED
    BY <1>3, <1>4, <1>6, <1>7, <2>1, <2>2, <2>4 DEF MayGo
<1>28. CASE Deliver
  <2>1. tx # <<>> /\ tx' = Tail(tx) /\ UNCHANGED <<storeVars, taskVars, sensorVars>>
    BY <1>28 DEF Deliver, Link!Deliver
  <2>2. sensorData' = sensorData /\ Popped' = Popped
    BY <2>1 DEF storeVars, dvars, taskVars, Popped
  <2>3. Members(tx) = Members(tx') \cup {Head(tx)}
    BY <1>5, <2>1, MembersOfTail
  <2>4. /\ InFlight = {g.reading : g \in Members(tx)}
        /\ InFlight' = {g.reading : g \in Members(tx')}
    BY DEF InFlight, Members
  <2> HIDE DEF Members
  <2>5. r \in InFlight => r = Head(tx).reading
    BY <1>4, <2>3, <2>4
  <2>6. QED
    BY <1>3, <1>4, <1>6, <1>7, <2>1, <2>2, <2>5 DEF MayGo
<1>29. QED
  BY <1>9, <1>10, <1>11, <1>12, <1>13, <1>14, <1>15, <1>16, <1>17, <1>18, <1>19, <1>20,
     <1>21, <1>22, <1>23, <1>24, <1>25, <1>26, <1>27, <1>28 DEF Next, Task

\* A reading that goes has been received, or was lost in one of the ways that
\* MayGo lists: with its connection or with the power, for want of a clock, a
\* file or a commit, as the oldest of a full ring, with the file system, or
\* forgotten by the handles of an interrupted batch.  None is lost between two
\* places of the firmware, and every commit outlives the power.
THEOREM NoOtherLosses == Spec => OnlyKnownLosses
<1>1. Init => LossInv
  BY HeldInvInit DEF Init, LossInv, HandsFree
<1>2. LossInv /\ [Next]_vars => LossInv'
  BY HeldInvNext, HandsFreeNext DEF LossInv
<1>3. LossInv /\ [Next]_vars => [\A r \in Held \ (Held' \cup Alike) : MayGo(r)]_vars
  BY LossesAreKnown
<1>4. QED
  BY <1>1, <1>2, <1>3, PTL DEF Spec, OnlyKnownLosses

=============================================================================
