------------------------- MODULE GraphDataProcessor -------------------------
(***************************************************************************)
(* The readings' files of the dashboard, one per date, and the graph drawn *)
(* from them (Server/DataProcessing/GraphDataProcessor, and the handlers   *)
(* of Backend that use it).                                                *)
(*                                                                         *)
(* The server thread calls SaveReading, which appends to the file of the   *)
(* reading's date through one buffered stream; the main thread loads a     *)
(* date's file and draws it.  A mutex makes each of the two one step.  The *)
(* rows of a date are only counted: what is at stake is whether a row gets *)
(* to the file and to the graph, once.                                     *)
(*                                                                         *)
(* A file may fail to open, and a flush or a close may fail to write, of   *)
(* which nothing is reported: all rows of the flush are written then, or   *)
(* none.                                                                   *)
(***************************************************************************)
EXTENDS Naturals

CONSTANTS
    Dates,          \* the dates of readings, as days
    FlushCount,     \* BATCH_FLUSH_COUNT, 10 in the program
    MaxRows         \* bound: rows of one date

ASSUME DatesAssumption == Dates \subseteq Nat \ {0}
ASSUME FlushCountAssumption == FlushCount \in Nat \ {0}
ASSUME MaxRowsAssumption == MaxRows \in Nat

VARIABLES
    folder,         \* the data directory is there
    files,          \* rows in the file of each date; NoFile: there is none
    save,           \* m_SaveState: Date, what became of File, Count
    unflushed,      \* rows in the buffer of save.file
    storage,        \* rows in m_Storage
    loaded,         \* what the last LoadDateReadings returned
    selected,       \* m_SelectedDate
    app,            \* the process: off, running, or crashed
    accepted        \* auxiliary: rows of each date that an open stream took,
                    \* without those a crash or a failed close took along

vars == <<folder, files, save, unflushed, storage, loaded, selected, app, accepted>>

NoFile == MaxRows + 1
NoDate == 0             \* the empty string
FileRows(d) == IF files[d] = NoFile THEN 0 ELSE files[d]
FileOpen == save.file # "closed"

TypeOK ==
    /\ folder \in BOOLEAN
    /\ files \in [Dates -> 0 .. NoFile]
    /\ save \in [date : Dates \cup {NoDate}, file : {"closed", "good", "bad"},
                 count : 0 .. FlushCount - 1]
    /\ unflushed \in 0 .. FlushCount
    /\ storage \in 0 .. MaxRows
    /\ loaded \in BOOLEAN
    /\ selected \in Dates
    /\ app \in {"off", "running", "crashed"}
    /\ accepted \in [Dates -> 0 .. MaxRows]

NothingSaved == [date |-> NoDate, file |-> "closed", count |-> 0]

Init ==
    /\ folder \in BOOLEAN
    /\ files = [d \in Dates |-> NoFile]
    /\ save = NothingSaved
    /\ unflushed = 0
    /\ storage = 0
    /\ loaded = FALSE
    /\ selected \in Dates
    /\ app = "off"
    /\ accepted = [d \in Dates |-> 0]

-----------------------------------------------------------------------------
(***************************************************************************)
(* SaveReading, on the server thread.                                      *)
(***************************************************************************)

\* The files once the stream has been flushed, or closed.
Flushed ==
    IF FileOpen
    THEN [files EXCEPT ![save.date] = FileRows(save.date) + unflushed]
    ELSE files

\* close() tries once more, even if the stream is bad, and frees the buffer: what
\* it leaves of the files, and of the rows.
FilesClosed(written) == IF written THEN Flushed ELSE files
RowsClosed(written) ==
    IF written \/ ~FileOpen THEN accepted ELSE [accepted EXCEPT ![save.date] = @ - unflushed]

SaveUnchanged == UNCHANGED <<folder, storage, loaded, selected, app>>

\* A reading of another date: close the file, try to open the other one.  It
\* cannot be opened: report it, and give the reading up.
SaveCannotOpen(d) ==
    /\ app = "running"
    /\ d # save.date
    /\ \E written \in BOOLEAN :
           /\ files' = FilesClosed(written)
           /\ accepted' = RowsClosed(written)
    /\ save' = [save EXCEPT !.file = "closed", !.count = 0]
    /\ unflushed' = 0
    /\ SaveUnchanged

FlushesLate(count) == count > FlushCount        \* a mistake: a row too late
Flushes(count) == count >= FlushCount

CountsOn(count) == count                        \* a mistake: no reset
CountAfter(count) == IF Flushes(count) THEN 0 ELSE count

\* Write a row to the open file of d, of which "onDisk" is what the files hold
\* already, "pending" and "count" come before the row, and "rows" were taken;
\* flush with the last row of a batch.  If that fails the row stays where it is.
WritesRow(d, onDisk, rows, pending, count) ==
    /\ rows[d] < MaxRows
    /\ accepted' = [rows EXCEPT ![d] = @ + 1]
    /\ \E written \in (IF Flushes(count + 1) THEN BOOLEAN ELSE {FALSE}) :
           /\ save' = [date |-> d,
                       file |-> IF Flushes(count + 1) /\ ~written THEN "bad" ELSE "good",
                       count |-> CountAfter(count + 1)]
           /\ files' = IF written THEN [onDisk EXCEPT ![d] = @ + pending + 1] ELSE onDisk
           /\ unflushed' = IF written THEN 0 ELSE pending + 1
    /\ SaveUnchanged

\* A reading of another date, whose file can be opened, or is created.
SaveOpens(d) ==
    /\ app = "running"
    /\ d # save.date
    /\ folder
    /\ \E written \in BOOLEAN :
           WritesRow(d, [FilesClosed(written) EXCEPT ![d] = FileRows(d)], RowsClosed(written), 0, 0)

\* A reading of the date of the stream.
SaveAppends(d) ==
    /\ app = "running"
    /\ d = save.date
    /\ save.file = "good"
    /\ WritesRow(d, files, accepted, unflushed, save.count)

\* The same, but the stream was closed for a date whose file did not open, or
\* it is bad: operator<< and flush do nothing, the row goes nowhere.
SaveGoesNowhere(d) ==
    /\ app = "running"
    /\ d = save.date
    /\ save.file # "good"
    /\ save' = [save EXCEPT !.count = CountAfter(@ + 1)]
    /\ UNCHANGED <<files, unflushed, accepted>>
    /\ SaveUnchanged

-----------------------------------------------------------------------------
(***************************************************************************)
(* LoadDateReadings and the graph, on the main thread.                     *)
(***************************************************************************)

NeverFlushed(d) == FALSE                        \* a mistake
FlushedToLoad(d) == d = save.date /\ save.file = "good"

\* The rows that the stream of this very date still holds are flushed first;
\* Count stays.
FlushesForLoad(d) ==
    \/ /\ ~FlushedToLoad(d)
       /\ UNCHANGED <<files, save, unflushed>>
    \/ /\ FlushedToLoad(d)
       /\ files' = Flushed
       /\ unflushed' = 0
       /\ UNCHANGED save
    \/ /\ FlushedToLoad(d)
       /\ unflushed > 0
       /\ save' = [save EXCEPT !.file = "bad"]
       /\ UNCHANGED <<files, unflushed>>

\* LoadDateReadings(date): without a file, or if it does not open, m_Storage
\* stays empty.
Loads(d) ==
    /\ FlushesForLoad(d)
    /\ loaded' \in (IF files'[d] = NoFile THEN {FALSE} ELSE BOOLEAN)
    /\ storage' = IF loaded' THEN files'[d] ELSE 0
    /\ UNCHANGED <<folder, accepted>>

\* UpdateGraphPoints asks for the last point of m_Storage.  Points.back() of an
\* empty list is undefined: an assertion or a bad pointer ends the process, or
\* the limits of the axis are garbage.
UpdateGraphPoints(points) ==
    app' \in (IF points = 0 THEN {"running", "crashed"} ELSE {"running"})

\* UpdateGraphProperties goes through the data directory; without one that throws,
\* and nobody catches it.
PropertiesThrow == ~folder /\ app' = "crashed"

\* The constructor and Start: today is selected, loaded and drawn.
Start(today) ==
    /\ app = "off"
    /\ selected' = today
    /\ \/ /\ PropertiesThrow
          /\ UNCHANGED <<folder, files, save, unflushed, storage, loaded, accepted>>
       \/ /\ folder
          /\ Loads(today)
          /\ UpdateGraphPoints(storage')

onUpdateGraphButtonClicked ==
    /\ app = "running"
    /\ Loads(selected)
    /\ PropertiesThrow \/ (folder /\ UpdateGraphPoints(storage'))
    /\ UNCHANGED selected

\* Nothing is drawn if the readings could not be loaded.
onSelectedDateChanged(d) ==
    /\ app = "running"
    /\ selected' = d
    /\ Loads(d)
    /\ IF loaded' THEN UpdateGraphPoints(storage') ELSE UNCHANGED app

\* onReadingSelectionRadioButtonClicked, onPeriodSelectionRadioButtonClicked
onSelectionRadioButtonClicked ==
    /\ app = "running"
    /\ UpdateGraphPoints(storage)
    /\ UNCHANGED <<folder, files, save, unflushed, storage, loaded, selected, accepted>>

-----------------------------------------------------------------------------
(***************************************************************************)
(* The process and its surroundings.                                       *)
(***************************************************************************)

Ends ==
    /\ app' = "off"
    /\ save' = NothingSaved
    /\ unflushed' = 0
    /\ storage' = 0
    /\ loaded' = FALSE
    /\ UNCHANGED <<folder, selected>>

\* The server thread is joined, then m_GraphData goes, and closes the file.
Exit ==
    /\ app = "running"
    /\ Ends
    /\ \E written \in BOOLEAN :
           /\ files' = FilesClosed(written)
           /\ accepted' = RowsClosed(written)

\* The process is killed, or it has crashed: what was not flushed is gone.
Kill ==
    /\ app # "off"
    /\ Ends
    /\ accepted' = [d \in Dates |-> FileRows(d)]
    /\ UNCHANGED files

\* Nothing in the program makes the data directory: the user does, and may clear
\* it away with its files, but for one that is open.
MakeOrClearFolder ==
    /\ app # "crashed"
    /\ ~FileOpen
    /\ folder' = ~folder
    /\ files' = [d \in Dates |-> NoFile]
    /\ accepted' = [d \in Dates |-> 0]
    /\ UNCHANGED <<save, unflushed, storage, loaded, selected, app>>

Load ==
    \/ \E d \in Dates : Start(d)
    \/ onUpdateGraphButtonClicked
    \/ \E d \in Dates : onSelectedDateChanged(d)

Next ==
    \/ \E d \in Dates : SaveCannotOpen(d)
    \/ \E d \in Dates : SaveOpens(d)
    \/ \E d \in Dates : SaveAppends(d)
    \/ \E d \in Dates : SaveGoesNowhere(d)
    \/ Load
    \/ onSelectionRadioButtonClicked
    \/ Exit
    \/ Kill
    \/ MakeOrClearFolder

Spec == Init /\ [][Next]_vars

-----------------------------------------------------------------------------
(***************************************************************************)
(* Properties.                                                             *)
(***************************************************************************)

\* Rows of date d that a failed flush has left in the stream.
Stuck(d) == IF d = save.date /\ save.file = "bad" THEN unflushed ELSE 0

\* "If we are reading the active file, force flush so we don't miss the last 9
\* readings": whatever date is loaded, and wherever its rows are at that time,
\* the graph gets every row that was saved, once, or the load fails.  Only rows
\* that could not be written when they were flushed are missing.
LoadShowsAll ==
    [][Load => storage' = IF loaded' THEN (accepted[selected] - Stuck(selected))' ELSE 0]_vars

\* Fewer than BATCH_FLUSH_COUNT rows of those that a stream took are at risk in
\* a crash, one more if a flush failed, and all are of the date that is being
\* saved: changes of date, loads in the middle of a batch, files that do not
\* open and flushes that fail leave no row behind in a stream.
FewAtRisk ==
    \A d \in Dates :
        accepted[d] - FileRows(d) <=
            IF d # save.date THEN 0
            ELSE CASE save.file = "closed" -> 0
                   [] save.file = "good" -> FlushCount - 1
                   [] save.file = "bad" -> FlushCount

\* "make sure you can always view graphs of previous day's measurements"
\* (README): with a directory for the data, drawing the graph does not end the
\* dashboard.
GraphCanBeViewed == folder => app # "crashed"
=============================================================================
