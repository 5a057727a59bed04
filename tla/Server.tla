------------------------------- MODULE Server -------------------------------
(***************************************************************************)
(* The dashboard's TCP server (Dashboard/Source/Server/Server).            *)
(*                                                                         *)
(* Three threads: the worker runs io_context, one completion handler after *)
(* the other (accept, read, timeout); the server thread takes messages off *)
(* a queue in Run and hands them to the callbacks; the main thread calls   *)
(* Stop.  One asynchronous operation of each kind is outstanding at a time,*)
(* and what completes, fails or is cancelled becomes a handler in "ready". *)
(*                                                                         *)
(* The sensor is the environment.  It sends lines, cut anywhere: a piece   *)
(* either ends its line or does not.  Its lines are numbered modulo 3 in   *)
(* each connection, so that a lost or swapped one shows.  (What a print    *)
(* that gave up has sent is, to the server, the beginning of its next      *)
(* line; Backend has what is made of such lines.)                          *)
(***************************************************************************)
EXTENDS Naturals, Sequences, FiniteSets, Cuts

CONSTANTS
    TimeoutTicks,   \* TIMEOUT_TIME (1.5 sensor periods), in ticks of the clock
    BadAccepts,     \* how accept may go wrong: "error", it fails; "reset", it
                    \* yields a socket whose peer has reset the connection
    CutLines,       \* TRUE: a connection may end in the middle of a line
    MaxInbox,       \* bound: pieces received by the kernel and not read
    MaxQueue,       \* bound: messages in the queue for which the sensor goes on
    MaxBuffer       \* bound: pieces in m_StringBuffer for which it cuts a line

ASSUME TimeoutAssumption == TimeoutTicks \in Nat \ {0}
ASSUME FlagsAssumption ==
    CutLines \in BOOLEAN /\ BadAccepts \subseteq {"error", "reset"}
ASSUME BoundsAssumption == {MaxInbox, MaxQueue, MaxBuffer} \subseteq Nat \ {0}

VARIABLES
    client,         \* the connection in m_Socket; none: what a read has
                    \* brought from the last one that its handler has not seen
    backlog,        \* a connection that waits to be accepted, or NoConn
    accepting,      \* async_accept is outstanding
    reading,        \* async_read_some is outstanding
    timer,          \* ticks until the timeout timer expires; 0: not armed
    ready,          \* the handlers the worker has still to run
    rearm,          \* the read handler is about to call ReceiveData again
    stringBuffer,   \* m_StringBuffer, as pieces of lines
    age,            \* ticks since m_LastPacket
    queue,          \* m_MessageQueue: lines and connect events
    running,        \* m_Running
    runner,         \* the server thread: in Run's loop, waiting, or gone
    status,         \* the connect event shown last
    stopper,        \* where the main thread is in Stop
    crashed,        \* an exception nobody catches, or a null dereference
    carried         \* auxiliary: stringBuffer has bytes of an earlier connection

ioVars == <<client, backlog, accepting, reading, timer, ready, rearm, age>>
bufferVars == <<stringBuffer, carried>>
vars == <<ioVars, bufferVars, queue, running, runner, status, stopper, crashed>>

Numbers == 0 .. 2
Pieces == [line : Numbers, starts : BOOLEAN, ends : BOOLEAN]
Peers == {"up", "closed", "reset", "silent"}
Conns == [inbox : Seq(Pieces), peer : Peers, line : Numbers, midLine : BOOLEAN]
Absent(inbox) == [inbox |-> inbox, peer |-> "none", line |-> 0, midLine |-> FALSE]
NoConn == Absent(<<>>)
NewConn == [inbox |-> <<>>, peer |-> "up", line |-> 0, midLine |-> FALSE]
Handlers == {"accept", "acceptError", "read", "readError", "readAborted", "timer"}

\* What goes through the queue: a line, as the pieces it was put together
\* from, or an event.
Line(pieces) == [kind |-> "line", pieces |-> pieces]
Event(type) == [kind |-> type, pieces |-> <<>>]
Messages == [kind : {"line"}, pieces : Seq(Pieces)]
            \cup [kind : {"Connected", "Disconnected"}, pieces : {<<>>}]

Present == client.peer # "none"
QueuedHandlers(h) == {i \in DOMAIN ready : ready[i] = h}

TypeOK ==
    /\ client \in Conns \/ (client.inbox \in Seq(Pieces) /\ client = Absent(client.inbox))
    /\ backlog \in Conns \cup {NoConn}
    /\ accepting \in BOOLEAN /\ reading \in BOOLEAN /\ rearm \in BOOLEAN
    /\ timer \in 0 .. TimeoutTicks
    /\ age \in Nat
    /\ ready \in Seq(Handlers)
    /\ stringBuffer \in Seq(Pieces) /\ carried \in BOOLEAN
    /\ queue \in Seq(Messages)
    /\ running \in BOOLEAN /\ crashed \in BOOLEAN
    /\ runner \in {"loop", "wait", "gone"}
    /\ status \in {"Connected", "Disconnected"}
    /\ stopper \in {"no", "disconnect", "context", "queue", "join", "stopped"}

\* After the constructor and Start; Run is entered at once.
Init ==
    /\ client = NoConn
    /\ backlog = NoConn
    /\ accepting = TRUE
    /\ reading = FALSE
    /\ timer = 0
    /\ ready = <<>>
    /\ rearm = FALSE
    /\ stringBuffer = <<>>
    /\ carried = FALSE
    /\ age = 0
    /\ queue = <<>>
    /\ running = TRUE
    /\ runner = "loop"
    /\ status = "Disconnected"
    /\ stopper = "no"
    /\ crashed = FALSE

-----------------------------------------------------------------------------
(***************************************************************************)
(* The sensor and the network.  What the sensor does after Stop has begun  *)
(* is left out: it could have done it before, and completed later.         *)
(***************************************************************************)

EnvUnchanged == UNCHANGED <<accepting, reading, timer, ready, rearm, age, bufferVars,
                            queue, running, runner, status, stopper, crashed>>

\* The connection after its end sends one more piece of the current line.
Sent(conn, ends) ==
    [conn EXCEPT !.inbox = Append(@, [line   |-> conn.line,
                                      starts |-> ~conn.midLine,
                                      ends   |-> ends]),
                 !.line = IF ends THEN (@ + 1) % 3 ELSE @,
                 !.midLine = ~ends]

SensorMayAct == stopper = "no" /\ Len(queue) < MaxQueue

CanSend(conn, ends) ==
    /\ conn.peer = "up"
    /\ Len(conn.inbox) < MaxInbox
    /\ ~ends => ~conn.midLine /\ Len(stringBuffer) < MaxBuffer

SensorSends ==
    /\ SensorMayAct
    /\ \E ends \in BOOLEAN :
        \/ /\ CanSend(client, ends)
           /\ client' = Sent(client, ends)
           /\ UNCHANGED backlog
        \/ /\ CanSend(backlog, ends)
           /\ backlog' = Sent(backlog, ends)
           /\ UNCHANGED client
    /\ EnvUnchanged

\* The sensor opens a connection; it has one at a time.
SensorConnects ==
    /\ SensorMayAct
    /\ backlog = NoConn
    /\ client.peer # "up"
    /\ backlog' = NewConn
    /\ UNCHANGED client
    /\ EnvUnchanged

\* It ends one: with a FIN or a reset, or without the server hearing of it.
SensorLeaves ==
    /\ stopper = "no"
    /\ \E peer \in {"closed", "silent"} \cup (BadAccepts \cap {"reset"}) :
        \/ /\ client.peer = "up"
           /\ CutLines \/ ~client.midLine
           /\ client' = [client EXCEPT !.peer = peer]
           /\ UNCHANGED backlog
        \/ /\ backlog.peer = "up"
           /\ CutLines \/ ~backlog.midLine
           /\ backlog' = [backlog EXCEPT !.peer = peer]
           /\ UNCHANGED client
    /\ EnvUnchanged

-----------------------------------------------------------------------------
(***************************************************************************)
(* The io_context: operations complete, time passes.                       *)
(***************************************************************************)

\* io_context still runs handlers until Stop stops it.
Polling == ~crashed /\ stopper \in {"no", "disconnect", "context"}

IoUnchanged == UNCHANGED <<client, backlog, rearm, age, bufferVars, queue,
                           running, runner, status, stopper, crashed>>

AcceptCompletes ==
    /\ Polling
    /\ accepting
    /\ \/ backlog # NoConn /\ ready' = Append(ready, "accept")
       \/ "error" \in BadAccepts /\ ready' = Append(ready, "acceptError")
    /\ accepting' = FALSE
    /\ UNCHANGED <<reading, timer>>
    /\ IoUnchanged

\* Data first, also when the peer has closed; a reset discards it.
HasData == client.inbox # <<>> /\ client.peer # "reset"
HasEnded == client.peer \in {"closed", "reset"} /\ ~HasData

ReadCompletes ==
    /\ Polling
    /\ reading
    /\ \/ HasData /\ ready' = Append(ready, "read")
       \/ HasEnded /\ ready' = Append(ready, "readError")
    /\ reading' = FALSE
    /\ UNCHANGED <<accepting, timer>>
    /\ IoUnchanged

\* The kernel and the worker are quick: time passes when they have nothing to do.
Tick ==
    /\ Polling
    /\ ready = <<>> /\ ~rearm
    /\ ~(reading /\ (HasData \/ HasEnded))
    /\ ~(accepting /\ backlog # NoConn)
    /\ age' = IF age > 2 * TimeoutTicks THEN age ELSE age + 1
    /\ timer' = IF timer = 0 THEN 0 ELSE timer - 1
    /\ ready' = IF timer = 1 THEN <<"timer">> ELSE <<>>
    /\ UNCHANGED <<client, backlog, accepting, reading, rearm, bufferVars, queue,
                   running, runner, status, stopper, crashed>>

-----------------------------------------------------------------------------
(***************************************************************************)
(* The worker's handlers.  Each is the first of "ready" and leaves it.     *)
(***************************************************************************)

Runs(handler) ==
    /\ Polling
    /\ ~rearm
    /\ ready # <<>>
    /\ Head(ready) = handler

HandlerUnchanged == UNCHANGED <<running, runner, status, stopper>>

ReadEnds == {"read", "readError"}

\* A read has completed whose handler is among "rest".
Completed(rest) == \E i \in DOMAIN rest : rest[i] \in ReadEnds

\* Is accept outstanding after Disconnect?  Not a second time when there was no
\* socket, and not again when the server stops.
AlwaysAccepts == accepting \/ running      \* a mistake: no early return
NeverAccepts == accepting                   \* a mistake: accept is forgotten
AcceptsAgain == accepting \/ (Present /\ running)

WithoutRead(rest) ==
    LET taken == CHOOSE i \in DOMAIN rest : rest[i] \in ReadEnds
    IN  SubSeq(rest, 1, taken - 1) \o SubSeq(rest, taken + 1, Len(rest))

\* Closing the socket aborts its read.  epoll aborts a completed one too when the
\* handler has still to fetch the data.
AbortsRead(rest) ==
    /\ reading \/ Completed(rest)
    /\ ready' = Append(IF Completed(rest) THEN WithoutRead(rest) ELSE rest, "readAborted")
    /\ client' = NoConn

\* Or it comes too late: no read is outstanding, or the one that has completed has
\* its data (always with IOCP), and its handler is called as if nothing had been.
MissesRead(rest) ==
    /\ ~reading
    /\ ready' = rest
    /\ IF \E i \in DOMAIN rest : rest[i] = "read"
       THEN \E n \in 1 .. Len(client.inbox) : client' = Absent(SubSeq(client.inbox, 1, n))
       ELSE client' = NoConn

\* Disconnect, called while "rest" is what the worker has still to run: the
\* event, then, if there is a socket, its operations end: the read, the timer
\* (an expired one does not), and accept starts again.
Disconnect(rest) ==
    /\ queue' = Append(queue, Event("Disconnected"))
    /\ IF Present THEN AbortsRead(rest) \/ MissesRead(rest)
                  ELSE ready' = rest /\ UNCHANGED client
    /\ reading' = FALSE
    /\ timer' = IF Present THEN 0 ELSE timer
    /\ accepting' = AcceptsAgain

\* A connection with a peer: keep it, read, start the timeout, tell the UI.
AcceptHandler ==
    /\ Runs("accept")
    /\ backlog.peer # "reset"
    /\ client' = backlog
    /\ backlog' = NoConn
    /\ reading' = TRUE
    /\ age' = 0
    /\ timer' = TimeoutTicks
    /\ ready' = Tail(ready)
    /\ queue' = Append(queue, Event("Connected"))
    /\ carried' = (stringBuffer # <<>>)
    /\ UNCHANGED <<accepting, rearm, stringBuffer, crashed>>
    /\ HandlerUnchanged

\* remote_endpoint() throws when the peer has reset the connection, and in the
\* error branch, where the socket is not connected at all.
AcceptThrows ==
    /\ \/ Runs("accept") /\ backlog.peer = "reset"
       \/ Runs("acceptError")
    /\ crashed' = TRUE
    /\ ready' = Tail(ready)
    /\ UNCHANGED <<client, backlog, accepting, reading, timer, rearm, age, bufferVars, queue>>
    /\ HandlerUnchanged

\* The whole lines in a sequence of pieces, in order, and what is left.
Ends(pieces) == {i \in DOMAIN pieces : pieces[i].ends}

Lines(pieces) ==
    [k \in 1 .. Cardinality(Ends(pieces)) |->
        Line(SubSeq(pieces, Nth(Ends(pieces), k - 1) + 1, Nth(Ends(pieces), k)))]

KeepsAll(pieces) == pieces      \* a mistake: nothing is erased
KeepsNothing(pieces) == <<>>    \* a mistake: all is erased
Rest(pieces) ==
    SubSeq(pieces, Nth(Ends(pieces), Cardinality(Ends(pieces))) + 1, Len(pieces))

\* Append what was read, queue every line that is complete now; the packet is
\* the newest one.  A read that was missed has brought what is left.
ReadHandler ==
    /\ Runs("read")
    /\ \E n \in 1 .. Len(client.inbox) :
        LET pieces == stringBuffer \o SubSeq(client.inbox, 1, n)
        IN  /\ Present \/ n = Len(client.inbox)
            /\ stringBuffer' = Rest(pieces)
            /\ queue' = queue \o Lines(pieces)
            /\ carried' = (carried /\ Lines(pieces) = <<>>)
            /\ client' = [client EXCEPT !.inbox = SubSeq(@, n + 1, Len(@))]
    /\ age' = 0
    /\ rearm' = TRUE
    /\ ready' = Tail(ready)
    /\ UNCHANGED <<backlog, accepting, reading, timer, crashed>>
    /\ HandlerUnchanged

\* ReceiveData at the end of the read handler: m_Socket may be gone by now.
ReadAgain ==
    /\ ~crashed
    /\ rearm
    /\ rearm' = FALSE
    /\ reading' = Present
    /\ crashed' = ~Present
    /\ UNCHANGED <<client, backlog, accepting, timer, ready, age, bufferVars, queue>>
    /\ HandlerUnchanged

\* The read failed, or Disconnect aborted it: Disconnect, once more.
FailedReadEnds(again) ==
    /\ Runs("readError") \/ Runs("readAborted")
    /\ Disconnect(Tail(ready))
    /\ rearm' = again
    /\ UNCHANGED <<backlog, age, bufferVars, crashed>>
    /\ HandlerUnchanged

ReadsOnAfterErrors == FailedReadEnds(TRUE)  \* a mistake: ReceiveData is called
ReadErrorHandler == FailedReadEnds(rearm)

\* More than TIMEOUT_TIME since the last packet: give the client up.  (The
\* expiry is a little later than its tick: after exactly TimeoutTicks ticks the
\* comparison can go either way.)
TimeoutDisconnects ==
    /\ Runs("timer")
    /\ age >= TimeoutTicks
    /\ Disconnect(Tail(ready))
    /\ UNCHANGED <<backlog, rearm, age, bufferVars, crashed>>
    /\ HandlerUnchanged

\* Otherwise check again, TIMEOUT_TIME from now.
Arms(ticks) ==
    /\ Runs("timer")
    /\ timer' = ticks
    /\ ready' = Tail(ready)
    /\ UNCHANGED <<client, backlog, accepting, reading, rearm, age, bufferVars, queue, crashed>>
    /\ HandlerUnchanged

AlwaysRearms == Arms(TimeoutTicks)      \* a mistake: the age is not looked at
NeverRearms == age <= TimeoutTicks /\ Arms(0)   \* a mistake: the timer fires once
RearmsTwice == age <= TimeoutTicks /\ Arms(2 * TimeoutTicks)    \* a mistake
TimeoutRearms == age <= TimeoutTicks /\ Arms(TimeoutTicks)

Worker ==
    \/ AcceptHandler
    \/ AcceptThrows
    \/ ReadHandler
    \/ ReadAgain
    \/ ReadErrorHandler
    \/ TimeoutDisconnects
    \/ TimeoutRearms

-----------------------------------------------------------------------------
(***************************************************************************)
(* Run, on the server thread.                                              *)
(***************************************************************************)

RunUnchanged == UNCHANGED <<ioVars, bufferVars, running, stopper, crashed>>

\* while (m_Running)
RunLoops ==
    /\ ~crashed
    /\ runner = "loop"
    /\ runner' = IF running THEN "wait" ELSE "gone"
    /\ UNCHANGED <<queue, status>>
    /\ RunUnchanged

\* wait_and_pop returns a message, and leaves "others"; its callback runs.  It
\* never returns nothing: when Stop stops the queue, the event of the Disconnect
\* before has ended every wait, and m_Running the loop.
Handles(message, others) ==
    /\ ~crashed
    /\ runner = "wait"
    /\ queue' = others
    /\ status' = IF message.kind = "line" THEN status ELSE message.kind
    /\ runner' = "loop"
    /\ RunUnchanged

\* A mistake: the newest message is taken.
RunHandlesNewest ==
    queue # <<>> /\ Handles(queue[Len(queue)], SubSeq(queue, 1, Len(queue) - 1))

RunHandles == queue # <<>> /\ Handles(Head(queue), Tail(queue))

-----------------------------------------------------------------------------
(***************************************************************************)
(* Stop, on the main thread (Backend's destructor).                        *)
(***************************************************************************)

StopUnchanged == UNCHANGED <<backlog, rearm, age, bufferVars, runner, status, crashed>>
StopLeavesIO == UNCHANGED <<client, accepting, reading, timer, ready>>

StopBegins ==
    /\ ~crashed
    /\ stopper = "no"
    /\ running' = FALSE
    /\ stopper' = "disconnect"
    /\ UNCHANGED queue
    /\ StopLeavesIO /\ StopUnchanged

StopDisconnects ==
    /\ ~crashed
    /\ stopper = "disconnect"
    /\ Disconnect(ready)
    /\ stopper' = "context"
    /\ UNCHANGED running
    /\ StopUnchanged

\* m_Context.stop(): handlers that have not run never will.
StopStopsContext ==
    /\ ~crashed
    /\ stopper = "context"
    /\ stopper' = "queue"
    /\ UNCHANGED <<queue, running>>
    /\ StopLeavesIO /\ StopUnchanged

\* m_MessageQueue.stop(): nothing waits on the empty queue any more.
StopStopsQueue ==
    /\ ~crashed
    /\ stopper = "queue"
    /\ stopper' = "join"
    /\ UNCHANGED <<queue, running>>
    /\ StopLeavesIO /\ StopUnchanged

\* The worker is out of io_context::run once its last handler ends; the
\* destructor joins the server thread after it.
Joins(condition) ==
    /\ ~crashed
    /\ stopper = "join"
    /\ condition
    /\ stopper' = "stopped"
    /\ UNCHANGED <<queue, running>>
    /\ StopLeavesIO /\ StopUnchanged

StopDrains == Joins(~rearm /\ queue = <<>>)    \* a mistake: wait for the queue
StopJoins == Joins(~rearm /\ runner = "gone")

Stop ==
    \/ StopBegins
    \/ StopDisconnects
    \/ StopStopsContext
    \/ StopStopsQueue
    \/ StopJoins

Ended ==
    /\ crashed \/ stopper = "stopped"
    /\ UNCHANGED vars

Next ==
    \/ SensorSends
    \/ SensorConnects
    \/ SensorLeaves
    \/ AcceptCompletes
    \/ ReadCompletes
    \/ Tick
    \/ Worker
    \/ RunLoops
    \/ RunHandles
    \/ Stop
    \/ Ended

Spec == Init /\ [][Next]_vars

\* Every thread is scheduled, operations that can complete do, the clock runs.
\* Nothing is assumed of the sensor, nor that Stop is ever called.
Fairness ==
    /\ WF_vars(AcceptCompletes) /\ WF_vars(ReadCompletes)
    /\ WF_vars(Tick)
    /\ WF_vars(Worker)
    /\ WF_vars(RunLoops \/ RunHandles)
    /\ WF_vars(StopDisconnects \/ StopStopsContext \/ StopStopsQueue \/ StopJoins)

LiveSpec == Spec /\ Fairness

-----------------------------------------------------------------------------
(***************************************************************************)
(* Properties.                                                             *)
(***************************************************************************)

One(condition) == IF condition THEN 1 ELSE 0
Count(handlers) == Cardinality({i \in DOMAIN ready : ready[i] \in handlers})

\* Until it stops, the server either serves a client or accepts the next one,
\* never both and never neither, though Disconnect runs from three handlers
\* and often twice for one client.
ServesOrAccepts ==
    stopper = "no" /\ ~crashed =>
        One(Present) + One(accepting) + Count({"accept", "acceptError"}) = 1

\* A client is read from by exactly one operation, and watched by the timer.  Of
\* one that is gone no read is outstanding, and at most one is still to be
\* handled.
ClientIsWatched ==
    stopper = "no" /\ ~crashed =>
        /\ One(reading) + One(rearm) + Count(ReadEnds) \in {One(Present), 1}
        /\ IF Present THEN (timer > 0) # (QueuedHandlers("timer") # {})
                      ELSE ~reading

\* A client is never kept once it has been silent for two timeouts: the timer
\* is re-armed for a whole TIMEOUT_TIME however old the last packet is.
SilenceBounded == Present => age <= 2 * TimeoutTicks

\* Once all is quiet, the UI shows whether there is a client, whatever order
\* the Connected and the duplicated Disconnected events went through.
StatusIsRight ==
    runner = "wait" /\ queue = <<>> /\ ready = <<>> /\ running =>
        (status = "Connected") = Present

Number(message) == message.pieces[Len(message.pieces)].line

\* A read handler has run, or will, for a client that is gone.
Orphaned == ~Present /\ (rearm \/ QueuedHandlers("read") # {})

InOrder(messages) ==
    \A i \in 1 .. Len(messages) - 1 :
        messages[i + 1].kind = "line" =>
            Number(messages[i + 1]) = IF messages[i].kind = "line"
                                      THEN (Number(messages[i]) + 1) % 3
                                      ELSE 0

\* The lines of a connection are queued in the order they were sent, from the
\* first on, none twice and none left out, however reads cut them up.  (An
\* orphaned read's come after the event; its handler then ends the dashboard.)
LinesInOrder == ~crashed /\ (rearm => Present) => InOrder(queue)

Intact(message) ==
    \A i \in DOMAIN message.pieces :
        message.pieces[i] = [line   |-> Number(message),
                             starts |-> i = 1,
                             ends   |-> i = Len(message.pieces)]

NewLines == {i \in Len(queue) + 1 .. Len(queue') : queue'[i].kind = "line"}

\* A line is queued as it was sent, except the first one after a connection
\* that ended in the middle of a line: no damage goes further.
LinesIntact ==
    [][\A i \in NewLines :
        Intact(queue'[i]) \/ (carried /\ i = Len(queue) + 1)]_vars

\* While the server serves clients, only two things end the dashboard: the
\* exception of remote_endpoint(), and a read handler whose client is gone when
\* it reads on.  That takes a timeout that overtakes a completed read: no other
\* handler leaves a read behind.
OnlyKnownCrashes ==
    [][/\ stopper = "no" /\ crashed' # crashed => AcceptThrows \/ Orphaned
       /\ stopper' = "no" /\ Orphaned' /\ ~Orphaned => TimeoutDisconnects]_vars

\* A sensor that is gone without a word is disconnected in the end.
SilentClientGoes == client.peer = "silent" ~> client.peer # "silent" \/ stopper # "no"

\* A sensor that connects is accepted in the end, though the server may still
\* hold its last connection.
ReconnectIsServed == backlog # NoConn ~> backlog = NoConn \/ stopper # "no" \/ crashed

\* Stop ends: no thread waits for ever for the queue or for another thread.
StopEnds == stopper = "disconnect" ~> stopper = "stopped" \/ crashed

\* "All incoming data is saved to files" (README): a line that arrives whole
\* is queued, for the callback that saves it, as it was sent.
IncomingIsQueued == [][\A i \in NewLines : Intact(queue'[i])]_vars
=============================================================================
