----------------------------- MODULE NetworkTask -----------------------------
(***************************************************************************)
(* The firmware at work: the sensor task puts readings in a FreeRTOS       *)
(* queue, the network task (Firmware/src/Network/NetworkTask) takes them   *)
(* out and sends each one to the server or saves it to flash, and sends    *)
(* what was saved when the connection is back.  Composes DataSaver and     *)
(* Connection with the two tasks, the boot sequence and power losses.      *)
(*                                                                         *)
(* A reading is an identity: the sensor gives each new reading one that    *)
(* nothing in the system holds any more, not even as a leftover in a slot. *)
(* The readings of Alike have none: they come any number of times.         *)
(***************************************************************************)
EXTENDS DataSaver, FiniteSets

CONSTANTS
    MaxInFlight,    \* of Connection
    QueueSize,      \* SENSOR_QUEUE_SIZE, 16 in the program
    Alike           \* the readings that are not told apart

ASSUME QueueSizeAssumption == QueueSize \in Nat \ {0}
ASSUME MaxInFlightAssumption == MaxInFlight \in Nat \ {0}
ASSUME AlikeAssumption == Alike \subseteq Readings

VARIABLES
    wifi, sock, timeConfigured, tx,
    sample,         \* the reading the sensor task is about to queue, or Zeroed
    sensorQueue,    \* m_Queue
    pc,             \* where setup(), then NetworkTask::Task, is
    sensorData,     \* the reading the network task works on, or Zeroed
    reconnectDue,   \* RECONNECT_ATTEMPT_DELAY has passed since the last attempt
    again           \* (history) the readings that flash may give out once more:
                    \* a flush or a close() that was to prevent it did nothing

storeVars == <<dvars, again>>
linkVars == <<wifi, sock, timeConfigured, tx>>
taskVars == <<pc, sensorData, reconnectDue>>
sensorVars == <<sample, sensorQueue>>
vars == <<storeVars, linkVars, taskVars, sensorVars>>

Tags == {"SRD", "SRH"}

Fragment == [tag |-> "SRD", reading |-> Zeroed]

Link == INSTANCE Connection WITH
    Frames <- [tag : Tags, reading : Readings \cup {Zeroed}]

BootPCs == {"off", "setup", "connect", "fatal"}
TaskPCs == {"receive", "dispatch", "write", "writeClose", "reconnect",
            "drain", "drainCheck", "drainPrint", "latest"}

TypeOK ==
    /\ SaverTypeOK
    /\ Link!LinkTypeOK
    /\ sample \in Readings \cup {Zeroed}
    /\ sensorQueue \in Seq(Readings)
    /\ Len(sensorQueue) <= QueueSize
    /\ pc \in BootPCs \cup TaskPCs
    /\ sensorData \in Readings \cup {Zeroed}
    /\ reconnectDue \in BOOLEAN
    /\ again \subseteq Readings

Init ==
    /\ SaverInit
    /\ Link!LinkInit
    /\ sample = Zeroed
    /\ sensorQueue = <<>>
    /\ pc = "off"
    /\ sensorData = Zeroed
    /\ reconnectDue = FALSE
    /\ again = {}

Goto(label) == pc' = label /\ UNCHANGED <<sensorData, reconnectDue>>

-----------------------------------------------------------------------------
(***************************************************************************)
(* Where a reading can be.                                                 *)
(***************************************************************************)

\* savedSensorData, between its Read and its Println.
Popped == IF pc \in {"drainCheck", "drainPrint"} THEN {out.data} ELSE {}

Members(s) == {s[i] : i \in DOMAIN s}

InQueue == Members(sensorQueue)
InFlash == Members(Contents)
InFlight == {tx[i].reading : i \in DOMAIN tx}

Held ==
    ({sample, sensorData} \cup InQueue \cup InFlash \cup InFlight \cup Popped)
        \ {Zeroed}

\* What is left of readings in flash, counted by the ring or not.
Traces ==
    {readingsFile[s] : s \in Slots} \cup {snapshot.readings[s] : s \in Slots}
        \cup {saving.data, out.data}

\* The reading whose slot a Write was to fill.
Overwritten == {readingsFile[saving.slot]} \ {Zeroed}

-----------------------------------------------------------------------------
(***************************************************************************)
(* Power and setup().                                                      *)
(***************************************************************************)

PowerOn ==
    /\ pc = "off"
    /\ Goto("setup")
    /\ UNCHANGED <<storeVars, linkVars, sensorVars>>

\* The files and what the server got survive.
PowerLoss ==
    /\ pc # "off"
    /\ SaverPowerLoss
    /\ Link!LinkPowerLoss
    /\ pc' = "off"
    /\ sensorData' = Zeroed
    /\ reconnectDue' = FALSE
    /\ sample' = Zeroed
    /\ sensorQueue' = <<>>
    /\ again' = IF saving = NoSave THEN again ELSE again \cup Overwritten

SetupMounts ==
    /\ pc = "setup"
    /\ Begin \/ BeginFormats
    /\ Goto("connect")
    /\ UNCHANGED <<linkVars, sensorVars, again>>

\* Config, sensor or data saver does not start: FatalError never returns.
SetupFails ==
    /\ pc = "setup"
    /\ Goto("fatal")
    /\ UNCHANGED <<storeVars, linkVars, sensorVars>>

\* Connection::Begin, whose result setup() ignores, and the start of the tasks.
SetupConnects ==
    /\ pc = "connect"
    /\ Link!BeginWithoutTime \/ Link!BeginWithTime
    /\ Goto("receive")
    /\ UNCHANGED <<storeVars, sensorVars>>

-----------------------------------------------------------------------------
(***************************************************************************)
(* The sensor task.                                                        *)
(***************************************************************************)

Running == pc \in TaskPCs

\* A measurement succeeds.
Sample ==
    /\ Running
    /\ sample = Zeroed
    /\ sample' \in (Readings \ (Held \cup Traces)) \cup Alike
    /\ again' = again \ {sample'}
    /\ UNCHANGED <<dvars, linkVars, taskVars, sensorQueue>>

Sends(newQueue) ==
    /\ sample # Zeroed
    /\ sensorQueue' = newQueue
    /\ sample' = Zeroed
    /\ UNCHANGED <<storeVars, linkVars, taskVars>>

\* Mistakes: the queue is not looked at, or nobody waits for room in it.
EnqueueAnyway == Sends(Append(sensorQueue, sample))
EnqueueOrDrop ==
    Sends(IF Len(sensorQueue) < QueueSize THEN Append(sensorQueue, sample) ELSE sensorQueue)

\* xQueueSend(portMAX_DELAY): wait for room.
Enqueue == Len(sensorQueue) < QueueSize /\ Sends(Append(sensorQueue, sample))

-----------------------------------------------------------------------------
(***************************************************************************)
(* The network task.                                                       *)
(***************************************************************************)

\* xQueueReceive(portMAX_DELAY): wait for a reading.
Receive ==
    /\ pc = "receive"
    /\ sensorQueue # <<>>
    /\ sensorData' = Head(sensorQueue)
    /\ sensorQueue' = Tail(sensorQueue)
    /\ pc' = "dispatch"
    /\ UNCHANGED <<storeVars, linkVars, reconnectDue, sample>>

\* A mistake: every reading starts the delay again.
DispatchRestartsDelay ==
    /\ pc = "dispatch"
    /\ pc' = IF Link!IsConnected THEN "drain" ELSE "write"
    /\ reconnectDue' = FALSE
    /\ UNCHANGED <<storeVars, linkVars, sensorVars, sensorData>>

\* The one test of the connection that decides between sending and saving.
Dispatch ==
    /\ pc = "dispatch"
    /\ Goto(IF Link!IsConnected THEN "drain" ELSE "write")
    /\ UNCHANGED <<storeVars, linkVars, sensorVars>>

\* Without a clock the reading has no time, and is not saved; nor is it when a
\* file does not open.
WriteSkipped ==
    /\ pc = "write"
    /\ timeConfigured => WriteCannotOpen
    /\ sensorData' = Zeroed
    /\ pc' = "reconnect"
    /\ UNCHANGED <<storeVars, linkVars, sensorVars, reconnectDue>>

Write ==
    /\ pc = "write"
    /\ timeConfigured
    /\ WriteClosesBuffer(sensorData) \/ WriteLosesBuffer(sensorData)
    /\ sensorData' = Zeroed
    /\ pc' = "writeClose"
    /\ UNCHANGED <<linkVars, sensorVars, reconnectDue, again>>

WriteCloses ==
    /\ pc = "writeClose"
    /\ \/ WriteClosesReadings /\ UNCHANGED again
       \/ WriteLosesReadings /\ again' = again \cup Overwritten
    /\ Goto("reconnect")
    /\ UNCHANGED <<linkVars, sensorVars>>

\* RECONNECT_ATTEMPT_DELAY goes by.
DelayElapses ==
    /\ Running
    /\ ~reconnectDue
    /\ reconnectDue' = TRUE
    /\ UNCHANGED <<storeVars, linkVars, sensorVars, pc, sensorData>>

ReconnectNotDue ==
    /\ pc = "reconnect"
    /\ ~reconnectDue
    /\ Goto("receive")
    /\ UNCHANGED <<storeVars, linkVars, sensorVars>>

Reconnect(outcome) ==
    /\ pc = "reconnect"
    /\ reconnectDue
    /\ outcome
    /\ reconnectDue' = FALSE
    /\ pc' = "receive"
    /\ UNCHANGED <<storeVars, sensorVars, sensorData>>

ReconnectSucceeds == Reconnect(Link!ReconnectSucceeds)

\* A mistake: the task tries again until it is connected.
ReconnectRetries ==
    /\ pc = "reconnect"
    /\ reconnectDue
    /\ Link!ReconnectFails
    /\ UNCHANGED <<storeVars, sensorVars, taskVars>>

ReconnectFails == Reconnect(Link!ReconnectFails)

\* The loop's Read: a saved reading goes on to IsConnected, also when its slot
\* turns out to be empty and savedSensorData is still the reading before it, ...
DrainPops ==
    /\ pc = "drain"
    /\ ReadPops
    /\ again' = IF out'.data = out.data THEN again \cup ({out.data} \ {Zeroed}) ELSE again
    /\ Goto("drainCheck")
    /\ UNCHANGED <<linkVars, sensorVars>>

\* ... and when flash does not know that it was taken out; ...
DrainPopsUnsaved ==
    /\ pc = "drain"
    /\ ReadPopsUnsaved
    /\ again' = again \cup ({out'.data} \ {Zeroed})
    /\ Goto("drainCheck")
    /\ UNCHANGED <<linkVars, sensorVars>>

\* ... the end of the batch or of the backlog ends the loop.
DrainEnds ==
    /\ pc = "drain"
    /\ ReadEndsBatch \/ ReadCannotOpen \/ ReadFindsEmpty
    /\ Goto("latest")
    /\ UNCHANGED <<linkVars, sensorVars, again>>

\* The loop's IsConnected, evaluated after Read took the reading out.
DrainChecks ==
    /\ pc = "drainCheck"
    /\ Link!IsConnected
    /\ Goto("drainPrint")
    /\ UNCHANGED <<storeVars, linkVars, sensorVars>>

DrainStops ==
    /\ pc = "drainCheck"
    /\ ~Link!IsConnected
    /\ DropOutput
    /\ Goto("latest")
    /\ UNCHANGED <<linkVars, sensorVars, again>>

DrainPrints ==
    /\ pc = "drainPrint"
    /\ Link!Println([tag |-> "SRH", reading |-> out.data])
    /\ Goto("drain")
    /\ UNCHANGED <<storeVars, sensorVars>>

\* The latest reading, after the backlog.
SendLatest ==
    /\ pc = "latest"
    /\ Link!Println([tag |-> "SRD", reading |-> sensorData])
    /\ sensorData' = Zeroed
    /\ pc' = "receive"
    /\ UNCHANGED <<storeVars, sensorVars, reconnectDue>>

-----------------------------------------------------------------------------
Task ==
    \/ Receive
    \/ Dispatch
    \/ WriteSkipped
    \/ Write
    \/ WriteCloses
    \/ ReconnectNotDue
    \/ ReconnectSucceeds
    \/ ReconnectFails
    \/ DrainPops
    \/ DrainPopsUnsaved
    \/ DrainEnds
    \/ DrainChecks
    \/ DrainStops
    \/ DrainPrints
    \/ SendLatest

\* What the WiFi driver, the TCP stack and the network do meanwhile.
Network ==
    /\ Running \/ pc = "connect"
    /\ Link!WifiDown \/ Link!WifiUp \/ Link!SockDrop
    /\ UNCHANGED <<storeVars, taskVars, sensorVars>>

\* The server gets a frame, also one of a device that is off by now.
Deliver ==
    /\ Link!Deliver
    /\ UNCHANGED <<storeVars, taskVars, sensorVars>>

Next ==
    \/ PowerOn
    \/ PowerLoss
    \/ SetupMounts
    \/ SetupFails
    \/ SetupConnects
    \/ Sample
    \/ Enqueue
    \/ DelayElapses
    \/ Task
    \/ Network
    \/ Deliver

Spec == Init /\ [][Next]_vars

\* The scheduler runs both tasks and every call they make returns: a print
\* that finds the TCP window full gives up after a while.  Measurements and
\* time go on.  What the server still gets of a connection that has ended, it
\* gets in the end; of one that lasts it may stop reading.  The server is not
\* refused for ever, and the file system does not fail to open the two files
\* for ever.
Fairness ==
    /\ WF_vars(Task)
    /\ WF_vars(Sample)
    /\ WF_vars(Enqueue)
    /\ WF_vars(DelayElapses)
    /\ WF_vars(~sock /\ Deliver)
    /\ SF_vars(ReconnectSucceeds)
    /\ SF_vars(DrainPops)

LiveSpec == Spec /\ Fairness

-----------------------------------------------------------------------------
(***************************************************************************)
(* Properties.                                                             *)
(***************************************************************************)

\* Every place a reading can be in, one after the other.
Places ==
    <<sample, sensorData>>
        \o sensorQueue
        \o Contents
        \o (IF Popped = {} THEN <<>> ELSE <<out.data>>)
        \o [i \in DOMAIN tx |-> tx[i].reading]

\* A reading is in one place at a time, so the server never gets it twice,
\* whatever happens to the connection or to the power between taking it out
\* of one place and putting it in the next, and although an interrupted batch
\* goes on later with what its handles remember.  Only where flash was not told
\* that a reading was taken out or overwritten may it come again.
HeldOnce ==
    LET p == Places IN
    \A i, j \in DOMAIN p : p[i] = p[j] /\ p[i] \notin again \cup Alike \cup {Zeroed} => i = j

\* The batch handles are open, and the files have changed since.
Behind == batch.open /\ snapshot # Committed

\* A print of a reading that does not go out, or not as a whole.
NotPrinted == ~sock' \/ tx' \in {tx, Append(tx, Fragment)}

\* The readings that a step may make disappear.
MayGo(r) ==
    \* the power goes: what is in RAM or in the air, and the half-saved one
    \/ pc' = "off" /\ (r \in InFlash => r = saving.data)
    \* the file system had to be formatted
    \/ pc = "setup" /\ r \in InFlash
    \* received by the server
    \/ tx # <<>> /\ r = Head(tx).reading
    \* on their way in a connection that ends
    \/ r \in InFlight /\ (sock # sock' \/ pc = "reconnect")
    \* printed to a socket that is dead, dies, or takes no more
    \/ pc = "drainPrint" /\ r = out.data /\ NotPrinted
    \/ pc = "latest" /\ r = sensorData /\ NotPrinted
    \* taken out of flash just before the connection ended
    \/ pc = "drainCheck" /\ r = out.data /\ ~Link!IsConnected
    \* saved, or overwritten there, while the handles of an interrupted batch
    \* were open, which now go on with what they remember
    \/ pc = "drain" /\ Behind /\ r \notin {InView[i] : i \in 2 .. Len(InView)}
    \* not saved: no clock, no file, no commit; or the oldest of a full ring
    \/ pc = "write" /\ r = sensorData
    \/ pc = "writeClose" /\ r = saving.data
    \/ pc = "write" /\ bufferFile.Count = Size /\ r = Contents[1]

\* A reading is lost in these ways and no other: not between the tasks, not
\* at the end of a batch, not because a reconnect took long; and what has been
\* committed to flash outlives the power.
OnlyKnownLosses == [][\A r \in Held \ (Held' \cup Alike) : MayGo(r)]_vars

\* The sensor task is not blocked for ever on the full queue: the network
\* task always comes back for the next reading, connected or not.
SensorNeverStuck == sample # Zeroed ~> sample = Zeroed

\* If the access point stays, the sensor is connected again and again.
Reconnects == <>[](Running /\ wifi) => []<>sock

\* If the connection stays and the server reads, all that was saved is sent,
\* batch by batch, while new readings keep coming.
BacklogDrains ==
    <>[](Running /\ Link!IsConnected) /\ []<>(tx = <<>>) =>
        []<>(bufferFile.Count = 0)

\* "When the sensor [manages] to reestablish connection to the server, it will
\* send all accumulated data to it in batches" (README): what Read takes out
\* of flash is printed to a live socket, unless the device loses power.
AccumulatedIsSent ==
    [][\A r \in Popped :
        pc' = "off" \/ r \in Popped' \/ (pc = "drainPrint" /\ sock)]_vars
=============================================================================
