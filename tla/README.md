# A verification project for the CO2 sensor and its dashboard

The repository holds two programs: the firmware of an ESP32 air-quality sensor
(`src/Firmware`) and a Qt desktop dashboard (`src/Dashboard`) that the sensor sends
its readings to over TCP. This directory models their concurrent and persistent
parts in TLA+, checks the models with TLC on small instances, and proves with TLAPS,
for every value of the constants, the safety properties that matter most: eight
modules hold the proofs.

    tlc -config Server_safety.cfg Server.tla       # a run
    tlapm DataSaverProofs.tla                      # a module of proofs

`PROJECT.json` lists every run, the lines each definition translates, the hazards
that the properties are aimed at, and for each property a plausible mistake in the
code (an operator marked "a mistake" in the module) that makes TLC reject it.

## 1. Inventory

### Firmware

| part | state it keeps | operations | hard about it |
|---|---|---|---|
| `DataSaver` | two LittleFS files: `buffer.dat` (Head, Tail, Count) and `readings.dat` (57600 slots); the current batch (two handles, a count) | `Begin`, `Read` (pops one), `Write` (pushes one) | `Read` and `Write` use different handles on the same files; a batch's handles stay open from one call to the next; two files are committed one after the other; power may go at any time |
| `Connection` | WiFi, one TCP socket, "the time is configured" | `Begin`, `Reconnect`, `IsConnected`, `Println` | everything changes behind its back; `Println` reports nothing |
| `NetworkTask` | the reading it works on, the last reconnect attempt | one loop: receive, save or send the backlog and the reading, reconnect | a test and the calls that rely on it are far apart; batches; reconnect delays |
| `Sensor` | FreeRTOS queue of 16 readings, running averages | `SensorTask`, `GetDisplayStats` | blocks for ever on a full queue; `loop()` reads averages that the task is changing |
| `Config` | NVS keys and three buffers | `Begin`, `Configure`, parsing a serial line | order of stores, field lengths, empty fields |
| `main.cpp` | - | `setup`, `loop`, `FatalError` | what may fail at boot, and what boot then never does again |
| `Display`, `Debug.hpp` | LCD | output only | - |

### Dashboard

| part | state it keeps | operations | hard about it |
|---|---|---|---|
| `Server` | acceptor, one client socket, timer, last packet time, string buffer, message queue, `m_Running` | handlers of accept, read and timeout; `Disconnect`; `Run`; `Stop` | three threads; handlers that are queued when an operation is cancelled; `Disconnect` is called twice for one client |
| `CVQueue` | queue, mutex, condition variable, done flag | `push`, `wait_and_pop`, `stop` | notifies after the mutex is released |
| `GraphDataProcessor` | the open file of a date and its unflushed rows; `m_Storage` | `SaveReading` (server thread), `LoadDateReadings` and `GetGraphPoints` (main thread) | rows in a stream, changes of date, files that do not open, crashes |
| `Backend` | selected date, averages, the server thread | callbacks of the server, handlers of the UI | callbacks run on another thread; empty graphs |
| `Parser`, `Protocol.hpp` | - | the lines' format, with a tag and a length | which damaged lines are noticed |
| `SerialHandler` | - | finds the port, sends the configuration line | no answer is read |
| `RangesHelper`, `RunningAvgHelper`, `Utilities` | sum and list of values | pure functions | boundaries |
| QML files, vendored libraries | - | - | out of scope |

### How they interact

    SensorTask --FreeRTOS queue--> NetworkTask --Println--> TCP --> Server (worker thread)
                                      |  ^                            | CVQueue
                                      v  |                            v
                                   DataSaver                 Run (server thread) --> Backend
                                                                                      | SaveReading
                                        UI handlers (main thread) <-- files <-- GraphDataProcessor

### What makes each part correct

* `DataSaver`: it is a bounded queue that drops its oldest reading when it is full;
  nothing else is lost, repeated, reordered or invented, over restarts.
* the firmware as a whole: a reading is in one place at a time and disappears only in
  the ways the code accepts; the sensor task is never stuck; the backlog is sent.
* `Server`: it serves one client or accepts the next, never both or neither; silent
  clients are given up; lines come out in order and whole; `Stop` ends all threads.
* `CVQueue`: no wakeup is lost; a stopped queue is emptied before its consumers leave.
* `GraphDataProcessor`: a load shows every saved row; a crash costs less than a batch.
* `Config` and `setup()`: what the user has sent is what the sensor uses after any
  restart; the flag "configured" never vouches for keys that are missing; a rejected line
  does not spoil the next.
* averages: the displayed value is the average of the last 5 (firmware) or 10 values, or
  one reading beside it when `loop()` reads while the sensor task pushes.
* `Parser`: a damaged line is rejected; what is accepted is what the sensor sent.

## 2. Modules

| module | models | variables and actions |
|---|---|---|
| `DropOldestQueue` | the abstract promise of the flash store: a queue and what its reader has got | `Put`, `Take`, `Forget` |
| `DataSaver` | `DataSaver.cpp` | a variable for each file as committed, for the batch, for what the batch handles see, for a Write that is half done, for `Read`'s result; one action for each way out of `Read`, two for `Write` (up to the first `close()` and the second), `SaverPowerLoss` |
| `Connection` | `Connection.cpp` and, as actions of their own, the WiFi driver and the TCP stack | `wifi`, `sock`, `timeConfigured`, and the frames on their way |
| `NetworkTask` | extends `DataSaver`, instantiates `Connection`, and adds `NetworkTask::Task`, `SensorTask`, the network part of `setup()` and power | `pc` says where `setup()` or the task is; each call that can be overtaken by the network, the other task or a power loss is an action |
| `MCNetworkTask` | symmetry for TLC | - |
| `SensorConfig` | `Config.cpp`, `setup()` as far as it configures the sensor, `SerialHandler::SendConfig` | `nvs`, `config`, `boot`, the lines in the serial port (`rx`); an action for each step of `setup()`, one for each NVS key that is put |
| `RunningAverage` | `CircularBuffer`, `RunningAvgHelper`, `GetDisplayStats` | `ring`, `sum`, `count`; `Push` store by store, `GetAvg` load by load |
| `Main` | composes these two: `setup()`, the sensor task and `loop()` on one device | `PowerLoss` clears the RAM of both |
| `Server` | `Server.cpp` on its three threads, the sensor as environment | the outstanding asynchronous operations (`accepting`, `reading`, `timer`), the queue `ready` of handlers, one action for each handler and each step of `Run` and `Stop` |
| `CVQueue` | `CVQueue.hpp` | one action for what a thread does under the mutex, one for each notification |
| `Cuts` | where a text is cut at a character: what `SplitString` and the server's read handler share | operators |
| `Parser` | `Protocol.hpp`, `FormatDataString`, `Parser.cpp`, `SplitString` | operators on texts, which are sequences of characters |
| `GraphDataProcessor` | `GraphDataProcessor.cpp` and the graph handlers of `Backend.cpp` | rows of each date in files, in the stream, and in `m_Storage` |
| `Backend` | extends `GraphDataProcessor` and `Parser`: `Backend.cpp` and its averages | `average`, `current`; the callback of a message parses, averages and saves in one step |
| `DataSaverProofs`, `NetworkTaskProofs`, `SensorConfigProofs`, `MainProofs`, `ServerProofs`, `CVQueueProofs`, `BackendProofs` | theorems about these modules and those they extend | - |
| `SequenceLemmas` | facts about sequences, cuts and folds that the proofs share | - |

Choices a reader should know:

* A reading is an identity that nothing else in the firmware holds. Its values do not
  matter to what is said of the store and the network; that it is lost, repeated or moved
  twice does.
* `DataSaver` has two flags for what the library and the hardware may do.
  `StaleHandles`: an open LittleFS handle does not see what another handle commits
  (littlefs 2 keeps a copy in each open file). `TornSaves`: power may go between the
  two `close()` of `Write`. Section 4 says which theorems hold with either value; the
  runs have both `FALSE`.
* The batch's `Count` is tested with `>` before it is incremented, so a batch has up to
  51 readings, and it is not reset when the ring runs empty. Both are in the model.
* A line for the serial port is the sequence of tokens `strtok` makes of it. The popup
  lets separators into the SSID and the password, so a field may be no token or two.
  Two such texts can add up to three tokens, which the code takes. A text is assumed to
  give at most two pieces. The serial port is taken to deliver whole lines: partial writes
  and the reset of the board when the port is opened are left out, and so are lines that
  arrive when `setup()` is past `Configure`, which nobody reads. The branch for a line
  that is too long cannot be reached with the lengths the popup allows.
* A value is "full" if it fills its buffer but for the terminating zero (an SSID of 32, a
  password of 63 or an address of 15 characters): `getString` is given one byte less and
  does not load it. `FullFields` says which fields the user fills in a run.
* Nothing guards `m_Sum` and `m_Count` of a firmware average. The compiler may order
  `Push`'s stores to different members as it likes, and use one load or two in `GetAvg`;
  the model has every order. Readings are 5 s apart, so at most one `Push` overlaps a
  `GetAvg`. Only the CO2 average is modelled: the others are of floats and differ in
  their rounding. `CircularBuffer::Newest()` returns the slot after the newest, but has
  no callers.
* In `Server`, a read that has completed and whose handler has not run yet is taken
  back by `cancel` where completion happens when the handler runs (reactors such as
  epoll); with `LateReads` it is not (IOCP on Windows). With `LateReads = TRUE` TLC shows
  that `OnlyAcceptCrashes` fails: the timeout's handler may reset `m_Socket` before the
  read's handler calls `ReceiveData` on it. `ClientIsWatched` fails too, for a read may be
  queued for the client before. The other safety properties hold in such builds too, until
  that read's handler ends the dashboard: the runs use `FALSE`, the theorems say which of them
  need it.
* `BadAccepts` lets accept fail or yield a socket that has been reset already;
  `remote_endpoint()` then throws and the dashboard ends (`AcceptThrows`). The run `server`
  allows both: `OnlyAcceptCrashes` says that nothing else ends it.
* `Disconnect` on the main thread (in `Stop`) runs between the worker's handlers or just
  before a read handler's `ReceiveData`. In the code it is a data race on `m_Socket`.
  The model says nothing of finer interleavings, and `OnlyAcceptCrashes` speaks of the time
  before `Stop`.
* `Run` never gets `nullopt` from the queue: `Disconnect` in `Stop` pushes an event after
  `m_Running` has become false, and that event ends the last wait. The branch for
  `nullopt` is therefore not in `Server`; `CVQueue` has it. Lines that are still queued
  then are discarded by the condition of `Run`'s loop.
* What the sensor does after `Stop` has begun is left out: it could have done it before.
* Time passes in `Server` (`Tick`) when the worker and the kernel have nothing to do: a
  handler takes much less than the 10.5 s timeout.
* A line in `Backend` is what an earlier client left of a line, often nothing, followed by
  one whole line: what `Server` hands on. Only if several connections in a row end in
  their first line can more than one leftover pile up; that is left out. A bare
  header that was left (`SRD26`), of the same length as the next line's, passes its own tag
  to that line; `SplicesRejected` allows this.
* The rows of `GraphDataProcessor` are counted, not named: `m_Storage` is a multiset, and
  what is at stake is whether a row is there once. `Points.back()` of an empty list is
  undefined behaviour, modelled as ending the process or going on.
* A date is `stamp \div DayLength`; the time zone is left out.
* The mutex of `GraphDataProcessor` makes `SaveReading` and `LoadDateReadings` single
  steps; `m_Storage` belongs to the main thread alone, the averages to the server thread.

## 3. Runs

| run | instance | what it shows |
|---|---|---|
| `store` | 3 slots, batches of 2, 3 readings | `IsDropOldestQueue` (refinement), `RingConsistent`, `ContentsWritten`, `BatchBounded` |
| `firmware` | 2 slots, batches of 2, 5 readings, queue of 1, 1 frame in flight | `HeldOnce`: no reading is in two places, so none is sent twice. `OnlyKnownLosses` lists every way a reading may disappear, and no step loses one otherwise |
| `firmware_live` | batches of 1, 3 readings | `SensorNeverStuck`, `Reconnects`, `BacklogDrains` |
| `firmware_accumulated` | as `firmware`, 3 readings | violated: `AccumulatedIsSent` (src/README.md: "it will send all accumulated data"). `Read` takes the reading out before the loop's `IsConnected`, and drops it when that is false |
| `main` | 2 lines with every mixture of whole, cut and missing fields, the SSID filled or not; averages of 2 of the values 1 and 2 | over power losses between any two keys: `ConfiguredMeansPresent`, `StoredInOrder`, `RestartKeepsConfig`; `WholeLineTaken`; for the averages `AverageExact`, `OldestGoesOut`, `NeverDividesByZero`, `OffByOne` |
| `config_survives` | 1 line, every field filled or not | violated: `ConfigurationSurvives`. A field that fills its buffer is used until the restart and then not loaded |
| `server` | timeout of 2 ticks, failing accepts, lines of up to 2 pieces, 2 pieces unread | `ServesOrAccepts`, `ClientIsWatched`, `SilenceBounded`, `StatusIsRight`, `LinesInOrder`, `LinesIntact`, `OnlyAcceptCrashes` |
| `server_live` | timeout of 1 tick, whole lines, sound accepts | `SilentClientGoes`, `ReconnectIsServed`, `StopEnds` |
| `server_leftover` | connections that end in mid-line | violated: `IncomingIsQueued` (src/README.md: "All incoming data is saved"). `m_StringBuffer` is not cleared, and spoils the first line of the next connection; `LinesIntact` shows that no more is spoiled |
| `cvqueue` | 2 producers, 2 consumers, 3 items | `NoItemForgotten`, `NoStopForgotten`, `ItemsAreTaken`, `ConsumersFinish` |
| `dashboard` | 2 dates, 4 rows each, batches of 3, 2 tags, 2 stamps, 2 values, averages of 2 | `SplicesRejected`, `CurrentIsAverage`, `LoadShowsAll`, `FewAtRisk` |
| `files_graph` | 2 dates, 4 rows each, batches of 3 | violated: `GraphCanBeViewed`. `UpdateGraphPoints` takes the last point of an empty list, for instance in `Start` on a new day |

Each module's type invariant is checked in the passing run that uses it (`CVQueue`'s is
proved instead).

### Why the bounds are enough

* Ring: 3 slots have an empty, a partly filled, a full and a wrapped ring; 2 slots
  suffice where the ring is one part of the firmware. The proofs cover every size.
* Batches of 1 or 2 (`MaxBatch` 0 or 1) end inside, at and after the end of a backlog.
* Readings: there are more places (sample, queue, task, 2 slots, in flight) than the
  live run has readings, but an idle task holds at most 3 with one on its way, which
  arrives; the safety run has 5. Readings are interchangeable, hence the symmetry.
* One frame in flight is enough for a connection to end with a frame that arrives, one
  that does not, and a print that finds the window full.
* Configuration: a mixture of stored fields needs an old and a new line, so 2 lines; the
  receive buffer holds 2. The SSID alone is filled in `main`, for the fields are
  loaded alike, and every field in `config_survives`. The proofs cover all numbers.
* Averages: a ring of 2 fills and wraps like one of 5, and two values tell which went out.
* `Server`: one client and one in the backlog are all the code can tell apart. Line
  numbers modulo 3 tell a lost line from a swapped one. Two pieces to a line are enough
  to cut it, and the bounds on unread pieces, queued messages and buffered pieces
  limit only how far the sensor runs ahead. Two ticks of timeout tell a silence of
  one tick from the timeout and from twice the timeout.
* `CVQueue`: two producers and two consumers are needed for a notification to wake the
  consumer that another producer's item was meant for. The proofs cover all numbers.
  When every consumer has gone and the queue is full nothing more happens: this run
  does not check for deadlock.
* `Backend`: the two values have a different number of digits, so that lengths differ and
  agree; every prefix of every line is tried as a leftover.
* `GraphDataProcessor`: a batch of 3 has a first, a middle and a flushing row; a second
  date suffices to leave a date and come back.

### Fairness

* `NetworkTask!Fairness`: FreeRTOS runs both tasks (each on its own core), and every call
  returns: `connect` and `print` have timeouts, so a print that finds no room fails in
  the end. Measurements and time go on. The server does not refuse every attempt
  (strong fairness of a successful reconnect) and the file system does not refuse every
  open (strong fairness of a pop). Nothing is assumed of WiFi, of a server that does not
  read, or of power; `Reconnects` and `BacklogDrains` state what they need as hypotheses.
* `ConfigSpec` and `MainSpec`: weak fairness of `Setup`, for `setup()` is a program that
  runs on while there is power. Nobody has to send a line or press the button.
* `Server!Fairness`: operations that can complete do, the worker, the server thread and,
  once `Stop` has begun, the main thread go on, and time passes. Nothing is assumed of
  the sensor.
* `CVQueue!LiveSpec`: notifications that are due happen and consumers that are awake go
  on. Nobody has to push or stop, and nothing relies on spurious wakeups.

## 4. Proofs

`DataSaverProofs` (every `Size > 0`, `MaxBatch`, set of readings):

* `TypeCorrect`, `RingAlwaysConsistent`: with any value of `StaleHandles` and `TornSaves`.
  The inductive invariant `RingInv` is `SaverTypeOK` with `RingConsistent` for the committed
  file **and** for what the batch handles remember; the second half is needed because a
  `Read` through old handles commits what they remember. Stale handles and torn Writes
  can cost readings, never the ring. `ModAtMostOnce`, `AfterIs` and `SlotPlus` do the
  arithmetic of `%`; `PushIsConsistent` and `PopIsConsistent` carry it to the actions.
* `BatchAlwaysBounded`: no batch exceeds the maximum by more than one.
* `ContentsAlwaysWritten`, `ImplementsDropOldestQueue`: assuming `~StaleHandles` and
  `~TornSaves`. `QueueInv` adds that a half-done Write is the newest entry of the ring
  and that all counted slots are written. `PushAppends` and `PopTakesHead` say what a
  push and a pop do to `Contents`, seen as a sequence through the wrapped slots.
  Both assumptions are needed. With `TornSaves`, TLC finds a counted slot that was never
  written; with `StaleHandles`, an interrupted batch whose next `Read` writes an old
  buffer state over newer ones.

`NetworkTaskProofs` (every size of the ring, the batches, the queue and the window):

* `FirmwareTypeCorrect`, `FirmwareUsesTheStore`: with any value of the flags. Every step of
  the firmware is a step of `DataSaver` or leaves its variables alone
  (`StepsOfTheStore`), because the task holds a reading whenever it comes to a `Write`
  (`HoldsReading`). So `FirmwareStoreIsQueue` follows from `ImplementsDropOldestQueue`.
* `NoReadingTwice`: assuming `~StaleHandles` and `~TornSaves`. The places a reading can be
  in are a family of sequences, `Rows`, and `HeldInv` says that no reading occurs twice
  in them. `Moves` is about one step: one reading at most changes its row, the others stay
  where they are. `ConcatOnce` brings this to `Places`, the concatenation that `HeldOnce`
  is stated with.
* `NoOtherLosses`: under the same assumptions, with the fact that a task that is waiting
  has nothing in its hands (`HandsFree`).

`SensorConfigProofs` (any number of lines, any buffer, any filled fields): `ConfigTypeCorrect`,
`ConfiguredAlwaysPresent`, `AlwaysStoredInOrder`, `RestartAlwaysKeepsConfig`. The
invariant `ConfigInv` has three parts besides the types: which keys are there after each
number of stores (`KeysInv`), that the lines waiting at the port are newer than all that is
stored (`OrderInv`), and which fields are of the accepted line (`KeptInv`).

`MainProofs` (every `Size > 1`, any values). About the averages alone: `DivisorIsNeverZero`,
`AverageOffByOne`, from what the stores left to do say about `sum`'s terms and `count`;
`OldestAlwaysGoesOut`, from `WindowInv`: slot by slot, the ring is the window; and
`AverageStaysExact`. `AverageExact` speaks of the time between two `Push`es only; the
invariant `SumInv` says at any time that `m_Sum`, with what the stores left to do will add and
take off, is the total of the window. This is also why the unsigned `m_Sum` never wraps:
what is taken off is a member of the window that was added before.

The module carries this and the theorems of `SensorConfigProofs` to the composed device
(`MainKeepsConfig`, `MainKeepsAverages`, `MainKeepsTypes`): a step of one leaves the other
alone, and a power loss brings the averages back to their initial state.

`ServerProofs` (every timeout and bound, any failing accepts): `AlwaysServesOrAccepts`,
`SilenceAlwaysBounded`, `StatusAlwaysRight`, with `LateReads` or without; `ClientAlwaysWatched` and
`OnlyAcceptEverCrashes` assuming `~LateReads`, without which both are false. The three-part `ServerInv` lists which
handlers can be queued, and in which order, while there is a client and while there is
none, and bounds `age` by the timer; none of the properties is inductive without it,
because `Disconnect` relies on what an earlier `Disconnect` has left in the queue. With
`LateReads` this may be the handler of a completed read (`Gone`), and then the worker is
`Lost` between that handler and its `ReceiveData`.
`StatusInv` adds what the last event in the queue is.

In the same module, for every build: `ServerKeepsTypes`, `LinesAlwaysInOrder` and
`LinesQueuedIntact`. The pieces in `m_StringBuffer` and those the socket holds
unread are one stream: `StreamInv` says that each of its pieces follows the one
before it within a line or from the end of one to the start of the next, and that no piece in the buffer
ends a line. Only what an earlier connection left, at the front of the buffer, is exempt,
while `carried` says it is there. `OrderInv` adds that the stream goes on where the queue's
last line or event stops. `Splits` says how a read handler divides what it finds in
the buffer, and `Grows` what the queue is afterwards, for any number of pieces.

`CVQueueProofs` (any producers, consumers and bound): `QueueTypeCorrect`,
`NoItemIsForgotten`, `NoStopIsForgotten`. The two properties are inductive together
with the types.

`BackendProofs` has four parts.

* The lines' texts (any time stamps and CO2 values). `DecimalWritten`: the digits written for a
  number are digits, start with no zero and read back as the number. `ParseFinds`: what
  the parser makes of a line. `LeftoverHarmless`: behind a leftover of one or two characters
  there is no tag, behind three no length; behind a longer one the parser reads the
  leftover's own length, as far as the next character that is no digit, and it agrees with
  the data only if the leftover is a whole header with the line's own length: the reading
  is unharmed, under the leftover's tag. `SplicesAlwaysRejected` follows.
* `GraphDataProcessor` alone (any dates, batch size and bound): `GraphTypeCorrect`,
  `FewAlwaysAtRisk`, `LoadAlwaysShowsAll`.
* `DashboardSavesReadings`: `BackendSpec` implements the specification of
  `GraphDataProcessor`, step by step. It needs the first part: what is saved is a reading of the
  sensor, so its date is one of `Dates`. `DashboardFewAtRisk` and `DashboardShowsAll` are
  the second part's results, inside the dashboard.
* The average shown (every `MaxValues > 0`): `CurrentIsAlwaysAverage` and `BackendTypeCorrect`.
  `AverageInv` ties the list and the sum that the code keeps to the last readings told.

The assumptions are those of `Backend`: a day has a positive length, an average is of at
least one value, and the readings are natural numbers whose dates are in `Dates`
(`ReadingsAssumption`).

`SequenceLemmas` makes induction available where the library's theorems, which take an
operator as a parameter, cannot be instantiated by the provers. `SetInduction` is about a
set of numbers that has 0 and the successor of each of its members; it is drawn from
`NatLessThanWellFounded` and `WFMin`. What is to be shown of every `n` becomes such a
set. A recursive function (`Nth`, `Decimal`, a `FoldLeft`) is a `CHOOSE` of some function that meets its
defining equation, so that the equation holds only if there is one: the
lemmas build it from its solutions up to `n` (`ByPrefix`, `SameSteps`, `SameUpTo`). From there on
`Nth` (the n-th cut of a text), the order of the cuts and `Total` (the sum along a sequence, as it grows
at one end and is cut at the other) are facts like any other.

Only model-checked: liveness, for fairness and ENABLED are out of the prover's reach:
`SensorNeverStuck`, `Reconnects`, `BacklogDrains`, `WholeLineTaken`, `SilentClientGoes`,
`ReconnectIsServed`, `StopEnds`, `ItemsAreTaken` and `ConsumersFinish`. Every other property of a
passing run is stated by a theorem.

## 5. What is not modelled, and the plan

Not modelled: QML, the display, logging, formatting of times and floats; `RangesHelper`, a
table from ppm to a text that a model would only repeat; and the vendored libraries (asio,
fmt, serial), which make up nearly all lines of the repository and enter only as the
program uses them. `front`, `back`, `size` and `empty` of `CVQueue`, `Print` and `Terminate` of
`Connection` have no callers.

Behaviour met on the way that no run states: a reading that is being sent when the
connection ends is neither sent nor saved (`OnlyKnownLosses` allows it by name); only
`Connection::Begin` sets the clock, so a sensor that boots without WiFi or NTP saves no
reading until it restarts (the code logs this); when the file of a new date does not
open, the stream stays closed under the old date, and further rows of the old date go
nowhere (`SaveToClosedFile`); `GetLocalIP` throws for an empty address when the computer
is offline; lines that are queued when `Stop` begins are not handled.

Left to do: an end-to-end composition of `NetworkTask`'s promise and `Server`'s, that each
reading is handed to the dashboard at most once and in order within a connection.
