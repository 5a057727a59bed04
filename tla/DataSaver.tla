------------------------------ MODULE DataSaver ------------------------------
(***************************************************************************)
(* The flash store of the firmware (Firmware/src/DataSaver): a circular    *)
(* buffer of readings in two LittleFS files, /sensor/buffer.dat (Head,     *)
(* Tail and Count) and /sensor/readings.dat (the slots).                   *)
(*                                                                         *)
(* Write opens both files, pushes one reading and closes them.  Read pops  *)
(* one reading and keeps its own two handles open from one call to the     *)
(* next, for a whole batch.  What a file holds changes when a handle is    *)
(* flushed or closed; the device may lose power between any two of these,  *)
(* and a flush or close may fail, which nobody notices.  An open handle    *)
(* does not see what another one commits (littlefs 2): it keeps a copy of  *)
(* what the file was when it was opened.                                   *)
(***************************************************************************)
EXTENDS Naturals, Sequences

CONSTANTS
    Size,           \* CIRCULAR_BUFFER_SIZE, 57600 in the program
    MaxBatch,       \* MAX_READINGS_PER_BATCH, 50 in the program
    Readings,       \* the readings (SensorData) the sensor produces
    Zeroed          \* the SensorData with all fields zero: no reading

ASSUME SizeAssumption == Size \in Nat \ {0}
ASSUME MaxBatchAssumption == MaxBatch \in Nat
ASSUME ZeroedAssumption == Zeroed \notin Readings

VARIABLES
    bufferFile,     \* buffer.dat as committed
    readingsFile,   \* readings.dat as committed; Zeroed where nothing was written
    batch,          \* m_CurrentBatch: are its handles open, and its Count
    snapshot,       \* the two files as the open batch handles see them
    saving,         \* the push of a Write whose readingsFile is not closed yet
    out,            \* what the last Read returned, and its out-parameter
    mounted,        \* Begin succeeded
    cut             \* (history) the empty slots whose Write did not commit its
                    \* reading: power was lost, or close() failed

dvars == <<bufferFile, readingsFile, batch, snapshot, saving, out, mounted, cut>>
files == <<bufferFile, readingsFile>>

Slots == 0 .. Size - 1
Records == Readings \cup {Zeroed}
BufferState == [Head : Slots, Tail : Slots, Count : 0 .. Size]
Snapshot == [buffer : BufferState, readings : [Slots -> Records]]

EmptyBuffer == [Head |-> 0, Tail |-> 0, Count |-> 0]
NoReadings == [s \in Slots |-> Zeroed]
NoBatch == [open |-> FALSE, count |-> 0]
NoSnapshot == [buffer |-> EmptyBuffer, readings |-> NoReadings]
NoSave == [slot |-> 0, data |-> Zeroed]
NoOutput == [ok |-> FALSE, data |-> Zeroed]

SaverTypeOK ==
    /\ bufferFile \in BufferState
    /\ readingsFile \in [Slots -> Records]
    /\ batch \in [open : BOOLEAN, count : Nat]
    /\ snapshot \in Snapshot
    /\ saving \in [slot : Slots, data : Records]
    /\ out \in [ok : BOOLEAN, data : Records]
    /\ mounted \in BOOLEAN
    /\ cut \subseteq Slots

SaverInit ==
    /\ bufferFile = EmptyBuffer
    /\ readingsFile = NoReadings
    /\ batch = NoBatch
    /\ snapshot = NoSnapshot
    /\ saving = NoSave
    /\ out = NoOutput
    /\ mounted = FALSE
    /\ cut = {}

-----------------------------------------------------------------------------
(***************************************************************************)
(* The ring's arithmetic.                                                  *)
(***************************************************************************)

AfterUnwrapped(slot) == slot + 1    \* a mistake: the ring has no end
After(slot) == (slot + 1) % Size

\* A mistake: a full ring keeps its oldest reading where it is.
PushKeepsTail(b) ==
    [b EXCEPT !.Head = After(b.Head), !.Count = IF @ < Size THEN @ + 1 ELSE @]

\* The buffer state once a reading has been put at Head.
Push(b) ==
    [Head  |-> After(b.Head),
     Tail  |-> IF b.Count < Size THEN b.Tail ELSE After(b.Tail),
     Count |-> IF b.Count < Size THEN b.Count + 1 ELSE b.Count]

PopKeepsTail(b) == [b EXCEPT !.Count = @ - 1]       \* a mistake

\* The buffer state once the reading at Tail has been taken.
Pop(b) == [Head |-> b.Head, Tail |-> After(b.Tail), Count |-> b.Count - 1]

\* What readBytes leaves in the out-parameter for a slot: past the end of the
\* file it reads nothing, and the parameter keeps its value.
ReadSlot(readings, slot, old) ==
    IF \E s \in slot .. Size - 1 : readings[s] # Zeroed
    THEN readings[slot]
    ELSE old

-----------------------------------------------------------------------------
(***************************************************************************)
(* Begin and power.                                                        *)
(***************************************************************************)

\* Begin mounts the file system and creates what is missing.  A buffer.dat
\* that was created and not yet written reads as zeros, as in EmptyBuffer.
Begin ==
    /\ ~mounted
    /\ mounted' = TRUE
    /\ UNCHANGED <<bufferFile, readingsFile, batch, snapshot, saving, out, cut>>

\* It does not mount: LittleFS.begin(true) formats it, and Begin goes on.
BeginFormats ==
    /\ ~mounted
    /\ mounted' = TRUE
    /\ bufferFile' = EmptyBuffer
    /\ readingsFile' = NoReadings
    /\ cut' = {}
    /\ UNCHANGED <<batch, snapshot, saving, out>>

\* The slot that stays empty when the Write under way goes no further.
Missed == {s \in Slots : saving # NoSave /\ s = saving.slot /\ readingsFile[s] = Zeroed}

\* The files survive, the batch state and a half-done Write do not.
SaverPowerLoss ==
    /\ batch' = NoBatch
    /\ snapshot' = NoSnapshot
    /\ saving' = NoSave
    /\ out' = NoOutput
    /\ mounted' = FALSE
    /\ cut' = cut \cup Missed
    /\ UNCHANGED files

\* The network task calls Read and Write one at a time.
Ready == mounted /\ saving = NoSave

-----------------------------------------------------------------------------
(***************************************************************************)
(* Read.                                                                   *)
(***************************************************************************)

Committed == [buffer |-> bufferFile, readings |-> readingsFile]

\* The files as the batch handles see them: OpenFiles returns at once when
\* they are open already.
Seen == IF batch.open THEN snapshot ELSE Committed

BatchOver == batch.count > MaxBatch

\* A mistake: the files are closed, and the count stays.
ReadEndsBatchForGood ==
    /\ Ready
    /\ BatchOver
    /\ batch' = [batch EXCEPT !.open = FALSE]
    /\ snapshot' = NoSnapshot
    /\ out' = NoOutput
    /\ UNCHANGED <<bufferFile, readingsFile, saving, mounted, cut>>

\* The batch is over: close the files, start counting again, return false.
ReadEndsBatch ==
    /\ Ready
    /\ BatchOver
    /\ batch' = NoBatch
    /\ snapshot' = NoSnapshot
    /\ out' = NoOutput
    /\ UNCHANGED <<bufferFile, readingsFile, saving, mounted, cut>>

\* One of the two files cannot be opened: what was opened is closed again.
ReadCannotOpen ==
    /\ Ready
    /\ ~BatchOver
    /\ ~batch.open
    /\ out' = NoOutput
    /\ UNCHANGED <<bufferFile, readingsFile, batch, snapshot, saving, mounted, cut>>

\* Nothing saved: close the files; the batch's Count stays.
ReadFindsEmpty ==
    /\ Ready
    /\ ~BatchOver
    /\ Seen.buffer.Count = 0
    /\ batch' = [batch EXCEPT !.open = FALSE]
    /\ snapshot' = NoSnapshot
    /\ out' = NoOutput
    /\ UNCHANGED <<bufferFile, readingsFile, saving, mounted, cut>>

\* What reading the slot at Tail may give.  The blocks of a readings.dat that
\* was written since the handle was opened may have been used again: what is
\* read there is no reading.
Readable ==
    {ReadSlot(Seen.readings, Seen.buffer.Tail, out.data)}
        \cup IF Seen.readings # readingsFile THEN {Zeroed} ELSE {}

\* Take the reading at Tail, and write the new buffer state to the handle.
Takes ==
    /\ Ready
    /\ ~BatchOver
    /\ Seen.buffer.Count > 0
    /\ \E d \in Readable : out' = [ok |-> TRUE, data |-> d]
    /\ batch' = [open |-> TRUE, count |-> batch.count + 1]
    /\ snapshot' = [Seen EXCEPT !.buffer = Pop(Seen.buffer)]
    /\ UNCHANGED <<readingsFile, saving, mounted, cut>>

\* flush() commits it, ...
ReadPops ==
    /\ Takes
    /\ bufferFile' = Pop(Seen.buffer)

\* ... or fails: the handle alone knows that the reading was taken.
ReadPopsUnsaved ==
    /\ Takes
    /\ UNCHANGED bufferFile

Read ==
    \/ ReadEndsBatch
    \/ ReadCannotOpen
    \/ ReadFindsEmpty
    \/ ReadPops
    \/ ReadPopsUnsaved

\* The caller's out-parameter goes out of scope; the next one is all zeros.
DropOutput ==
    /\ Ready
    /\ out' = NoOutput
    /\ UNCHANGED <<bufferFile, readingsFile, batch, snapshot, saving, mounted, cut>>

-----------------------------------------------------------------------------
(***************************************************************************)
(* Write, on handles of its own.                                           *)
(***************************************************************************)

\* A mistake: the reading goes where the next one belongs.
HeadOfNext == Push(bufferFile).Head

\* Where the reading goes: Head, before it is moved on.
WriteSlot == bufferFile.Head

Pushes(r, newState) ==
    /\ Ready
    /\ saving' = [slot |-> WriteSlot, data |-> r]
    /\ bufferFile' = newState
    /\ UNCHANGED <<readingsFile, batch, snapshot, out, mounted, cut>>

\* Push the reading; bufferFile.close() commits the new buffer state, ...
WriteClosesBuffer(r) == Pushes(r, Push(bufferFile))

\* ... or fails; Write goes on.
WriteLosesBuffer(r) == Pushes(r, bufferFile)

\* readingsFile.close() commits the slot, and Write returns, ...
WriteClosesReadings ==
    /\ saving # NoSave
    /\ readingsFile' = [readingsFile EXCEPT ![saving.slot] = saving.data]
    /\ saving' = NoSave
    /\ cut' = cut \ {saving.slot}
    /\ UNCHANGED <<bufferFile, batch, snapshot, out, mounted>>

\* ... or its write or close fails, and Write returns.
WriteLosesReadings ==
    /\ saving # NoSave
    /\ saving' = NoSave
    /\ cut' = cut \cup Missed
    /\ UNCHANGED <<bufferFile, readingsFile, batch, snapshot, out, mounted>>

\* A file does not open: the reading is dropped.
WriteCannotOpen ==
    /\ Ready
    /\ UNCHANGED dvars

SaverNext ==
    \/ Begin
    \/ BeginFormats
    \/ SaverPowerLoss
    \/ ReadEndsBatch
    \/ ReadCannotOpen
    \/ ReadFindsEmpty
    \/ ReadPops
    \/ ReadPopsUnsaved
    \/ DropOutput
    \/ \E r \in Readings : WriteClosesBuffer(r) \/ WriteLosesBuffer(r)
    \/ WriteClosesReadings
    \/ WriteLosesReadings
    \/ WriteCannotOpen

SaverSpec == SaverInit /\ [][SaverNext]_dvars

-----------------------------------------------------------------------------
(***************************************************************************)
(* What the store must guarantee.                                          *)
(***************************************************************************)

\* The i-th oldest slot of a ring.
SlotAt(b, i) == (b.Tail + (i - 1)) % Size

\* What a ring holds, oldest first.
InRing(b, readings) == [i \in 1 .. b.Count |-> readings[SlotAt(b, i)]]

\* The readings in the store; the one that is being saved counts as there.
Saved ==
    IF saving = NoSave
    THEN readingsFile
    ELSE [readingsFile EXCEPT ![saving.slot] = saving.data]

Contents == InRing(bufferFile, Saved)

\* The readings the batch handles still have before them.
InView == InRing(snapshot.buffer, snapshot.readings)

\* Head, Tail and Count, which Read and Write update separately and through
\* different handles, always describe one ring: Head is Count slots after
\* Tail, in the committed file and in what the batch handles remember.
RingConsistent ==
    /\ bufferFile.Head = (bufferFile.Tail + bufferFile.Count) % Size
    /\ snapshot.buffer.Head = (snapshot.buffer.Tail + snapshot.buffer.Count) % Size

\* Every slot the ring counts as filled holds a reading that was saved, unless
\* the close() of its own reading failed or the power went before it: no other
\* failure, no old buffer state and no format makes Read yield the zeros of a
\* slot nobody wrote, or the caller's own value.
ContentsWritten ==
    \A i \in 1 .. bufferFile.Count :
        SlotAt(bufferFile, i) \notin cut => Contents[i] \in Readings

\* The two files, the two sets of handles and the batches together are a
\* queue that drops its oldest reading when it is full.  Only the reading that
\* is being saved is at risk when the power goes or a close() fails, and only
\* handles that an interrupted batch has left open can set the queue back, to
\* what they still have before them.
Queue == INSTANCE DropOldestQueue WITH
    Capacity <- Size,
    Values <- Readings,
    Nothing <- Zeroed,
    queue <- Contents,
    got <- out.data,
    reader <- IF ~batch.open THEN "closed"
              ELSE IF snapshot = Committed THEN "open" ELSE "behind",
    view <- InView,
    saving <- saving # NoSave,
    up <- mounted
IsDropOldestQueue == Queue!QSpec
=============================================================================
