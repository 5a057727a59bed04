---------------------------- MODULE ServerProofs ----------------------------
(***************************************************************************)
(* Proofs about Server, for every TIMEOUT_TIME and every bound.            *)
(*                                                                         *)
(* The heart is ServerInv: which handlers can be queued, and in which      *)
(* order, while there is a client and while there is none.  The queue      *)
(* never holds more than two; what an earlier client has left (an expired  *)
(* timer, a read) runs before the next accept.  A completed read that is   *)
(* not aborted finds no client and ends the dashboard: what is said here   *)
(* holds until then.                                                       *)
(***************************************************************************)
EXTENDS Server, SequenceLemmas

Accepts == {"accept", "acceptError"}

\* One of "some" is queued.
Has(handlers, some) == \E i \in DOMAIN handlers : handlers[i] \in some
\* The worker runs handlers (Polling, without what it is made of).
Polls == ~crashed /\ stopper \in {"no", "disconnect", "context"}

\* What the worker may have still to run while there is a client, ...
Serving ==
    {<<>>, <<"timer">>} \cup {<<h>> : h \in ReadEnds} \cup {<<"timer", h>> : h \in ReadEnds}

\* ... and while there is none: what an earlier client has left comes first.
Gone == {"readAborted"} \cup ReadEnds
Leftover == {<<>>, <<"timer">>} \cup {<<g>> : g \in Gone}
TimedOut == {<<"timer", g>> : g \in Gone}
Accepted == {<<h>> : h \in Accepts} \cup (({"timer"} \cup Gone) \X Accepts)

\* A client is read from once, and its timer is armed or has expired.
ServingInv ==
    Present =>
        /\ ~accepting
        /\ ready \in Serving
        /\ reading => ~rearm /\ ~Has(ready, ReadEnds)
        /\ rearm => ~Has(ready, ReadEnds)
        /\ reading \/ rearm \/ Has(ready, ReadEnds)
        /\ timer > 0 <=> ~Has(ready, {"timer"})

\* The handler of a missed read leaves nothing of its client in the queue.
\* Stop's Disconnect may also run between the read handler and its ReceiveData,
\* and behind an expired timer.
IdleInv ==
    ~Present =>
        /\ ~reading
        /\ \/ /\ ready \in Leftover
              /\ rearm => (stopper = "context" /\ ~accepting) \/ ready = <<>>
              /\ stopper = "no" => accepting
           \/ /\ ready \in Accepted /\ ~accepting
              /\ rearm => ready \in {<<h>> : h \in Accepts}
           \/ ready \in TimedOut /\ stopper = "context" /\ ~accepting

\* An accept that has completed has its connection.
ControlInv ==
    Polls =>
        /\ running <=> stopper = "no"
        /\ ServingInv
        /\ IdleInv
        /\ Has(ready, {"accept"}) => backlog # NoConn

\* The timer expires before the last packet is two timeouts old.
BoundInv == Present => age + timer <= 2 * TimeoutTicks

\* A connection, or what a missed read has brought from one.
IsClient(conn) ==
    conn \in Conns \/ (conn.inbox \in Seq(Pieces) /\ conn = Absent(conn.inbox))

\* The types that the steps need.
IoTypeOK ==
    /\ IsClient(client)
    /\ backlog \in Conns \cup {NoConn}
    /\ timer \in 0 .. TimeoutTicks
    /\ age \in Nat
    /\ crashed \in BOOLEAN

ServerInv ==
    /\ IoTypeOK
    /\ ControlInv
    /\ BoundInv

-----------------------------------------------------------------------------

\* What the operators on sequences do to one and two handlers, ...
LEMMA ShortSequences ==
    ASSUME NEW g, NEW h
    PROVE  /\ Head(<<g>>) = g /\ Head(<<g, h>>) = g
           /\ Tail(<<g>>) = <<>> /\ Tail(<<g, h>>) = <<h>>
           /\ Append(<<>>, h) = <<h>> /\ Append(<<g>>, h) = <<g, h>>
           /\ <<g>> # <<>> /\ <<g, h>> # <<>> /\ <<g, h>> # <<g>>
           /\ <<g>>[1] = g /\ <<g, h>>[1] = g /\ <<g, h>>[2] = h
           /\ DOMAIN <<>> = {} /\ DOMAIN <<g>> = {1} /\ DOMAIN <<g, h>> = {1, 2}
<1>1. Append(<<g>>, h) = <<g, h>>
  <2> DEFINE S == {g, h}
  <2>1. <<g>> \in Seq(S) /\ <<g, h>> \in Seq(S) /\ h \in S
    OBVIOUS
  <2> DEFINE s == Append(<<g>>, h)
  <2>2. s \in Seq(S) /\ Len(s) = 2 /\ s[1] = g /\ s[2] = h
    <3>1. Len(<<g>>) = 1 /\ <<g>>[1] = g
      OBVIOUS
    <3> HIDE DEF S
    <3>2. QED
      BY <2>1, <3>1, AppendProperties
  <2>3. Len(<<g, h>>) = 2 /\ <<g, h>>[1] = g /\ <<g, h>>[2] = h
    OBVIOUS
  <2> HIDE DEF S, s
  <2>4. \A i \in 1 .. 2 : s[i] = <<g, h>>[i]
    BY <2>2, <2>3
  <2>5. s = <<g, h>>
    BY <2>1, <2>2, <2>3, <2>4, SeqEqual
  <2>6. QED
    BY <2>5 DEF s
<1>2. /\ Head(<<g>>) = g /\ Head(<<g, h>>) = g
      /\ <<g>>[1] = g /\ <<g, h>>[1] = g /\ <<g, h>>[2] = h
  OBVIOUS
<1>3. Tail(<<g>>) = <<>> /\ Tail(<<g, h>>) = <<h>>
  OBVIOUS
<1>4. <<g>> # <<>> /\ <<g, h>> # <<>> /\ <<g, h>> # <<g>>
  OBVIOUS
<1>5. Append(<<>>, h) = <<h>>
  OBVIOUS
<1>6. DOMAIN <<>> = {} /\ DOMAIN <<g>> = {1} /\ DOMAIN <<g, h>> = {1, 2}
  OBVIOUS
<1>7. QED
  BY <1>1, <1>2, <1>3, <1>4, <1>5, <1>6

\* ... what is left of them without the last one, ...
LEMMA ShortSubSeqs ==
    ASSUME NEW g, NEW h
    PROVE  /\ SubSeq(<<g>>, 1, 0) \o SubSeq(<<g>>, 2, 1) = <<>>
           /\ SubSeq(<<g, h>>, 1, 1) \o SubSeq(<<g, h>>, 3, 2) = <<g>>
<1>1. SubSeq(<<g>>, 1, 0) = <<>> /\ SubSeq(<<g>>, 2, 1) = <<>> /\ SubSeq(<<g, h>>, 3, 2) = <<>>
  BY SubSeqEmpty
<1>2. SubSeq(<<g, h>>, 1, 1) = <<g>>
  <2> DEFINE S == {g, h}
  <2>1. <<g, h>> \in Seq(S) /\ Len(<<g, h>>) = 2 /\ <<g, h>>[1] = g
    OBVIOUS
  <2>2. SubSeq(<<g, h>>, 2, 1) = <<>>
    BY SubSeqEmpty
  <2> DEFINE s == <<g, h>>
  <2>6. s[1] = g /\ SubSeq(s, 2, 1) = <<>>
    BY <2>1, <2>2
  <2> HIDE DEF S, s
  <2>3. SubSeq(s, 1, 1) = <<s[1]>> \o SubSeq(s, 1 + 1, 1)
    <3>1. s \in Seq(S) /\ Len(s) = 2
      BY <2>1 DEF s
    <3>2. 1 \in 1 .. Len(s) /\ 1 \in 1 .. 1
      BY <3>1
    <3>3. QED
      BY <3>1, <3>2, SubSeqRecursiveFirst
  <2>4. <<g>> \o <<>> = <<g>>
    OBVIOUS
  <2>7. SubSeq(s, 1, 1) = <<g>>
    <3>1. 1 + 1 = 2
      OBVIOUS
    <3>2. QED
      BY <2>3, <2>4, <2>6, <3>1, Zenon
  <2>8. QED
    BY <2>7 DEF s
<1>3. <<>> \o <<>> = <<>> /\ <<g>> \o <<>> = <<g>>
  OBVIOUS
<1>4. QED
  BY <1>1, <1>2, <1>3

\* ... and which of them they hold.
LEMMA OneHandler ==
    ASSUME NEW g
    PROVE  Head(<<g>>) = g /\ Tail(<<g>>) = <<>> /\ Append(<<>>, g) = <<g>> /\ <<g>> # <<>>
  BY ShortSequences

LEMMA TwoHandlers ==
    ASSUME NEW g, NEW h
    PROVE  /\ Head(<<g, h>>) = g /\ Tail(<<g, h>>) = <<h>> /\ Append(<<g>>, h) = <<g, h>>
           /\ <<g, h>> # <<>>
  BY ShortSequences

LEMMA HasNone == ASSUME NEW some PROVE ~Has(<<>>, some)
  BY ShortSequences DEF Has

LEMMA HasOne == ASSUME NEW g, NEW some PROVE Has(<<g>>, some) <=> g \in some
  BY ShortSequences DEF Has

LEMMA HasTwo ==
    ASSUME NEW g, NEW h, NEW some
    PROVE  Has(<<g, h>>, some) <=> g \in some \/ h \in some
  BY ShortSequences DEF Has

\* A connection has a peer; NoConn, and what is left of a client, has none.
LEMMA ConnIsReal ==
    /\ \A conn \in Conns : conn # NoConn /\ conn.peer # "none" /\ conn.inbox \in Seq(Pieces)
    /\ \A conn \in Conns \cup {NoConn} : conn # NoConn => conn \in Conns
    /\ \A conn \in Conns \cup {NoConn} : conn.peer = "up" => conn \in Conns
    /\ NewConn \in Conns /\ NoConn \notin Conns
<1>1. NoConn.peer = "none"
  BY DEF NoConn, Absent
<1>2. \A conn \in Conns : conn.peer \in Peers /\ conn.inbox \in Seq(Pieces)
  BY DEF Conns
<1>3. "none" \notin Peers
  BY DEF Peers
<1>4. NewConn \in Conns
  BY DEF NewConn, Conns, Peers, Numbers, Pieces
<1>5. NoConn.peer # "up"
  BY <1>1
<1>6. QED
  BY <1>1, <1>2, <1>3, <1>4, <1>5

LEMMA ClientIsReal ==
    /\ IsClient(client) /\ Present => client \in Conns
    /\ IsClient(client) /\ client.peer = "up" => client \in Conns
    /\ IsClient(client) => client.inbox \in Seq(Pieces)
<1>1. ASSUME client = Absent(client.inbox) PROVE client.peer = "none"
  <2>1. \A s : Absent(s).peer = "none"
    BY DEF Absent
  <2>2. QED
    BY <1>1, <2>1
<1>2. QED
  BY <1>1, ConnIsReal DEF IsClient, Present

\* What a missed read has brought is no connection.
LEMMA AbsentIsClient ==
    ASSUME NEW inbox \in Seq(Pieces)
    PROVE  IsClient(Absent(inbox)) /\ Absent(inbox).peer = "none" /\ Absent(inbox).inbox = inbox
  BY DEF IsClient, Absent

\* ServerInv holds when the constructor has started accepting.
THEOREM ServerStarts == Init => ServerInv
<1>1. ASSUME Init PROVE ServerInv
  <2>1. IoTypeOK
    <3>1. crashed \in BOOLEAN
      BY <1>1 DEF Init
    <3>2. /\ IsClient(client) /\ backlog \in Conns \cup {NoConn}
          /\ timer \in 0 .. TimeoutTicks /\ age \in Nat
      <4>1. client = NoConn /\ backlog = NoConn /\ timer = 0 /\ age = 0
        BY <1>1 DEF Init
      <4>2. IsClient(NoConn)
        BY AbsentIsClient, EmptySeq DEF NoConn
      <4>3. QED
        BY <4>1, <4>2, TimeoutAssumption
    <3>3. QED
      BY <3>1, <3>2 DEF IoTypeOK
  <2>2. ~Present
    BY <1>1, AbsentIsClient, EmptySeq DEF Init, Present, NoConn
  <2>3. ~Has(ready, {"accept"})
    BY <1>1, HasNone, HasOne, HasTwo DEF Init
  <2>4. ControlInv
    BY <1>1, <2>2, <2>3 DEF Init, ControlInv, Polls, ServingInv, IdleInv, Leftover
  <2>5. QED
    BY <2>1, <2>2, <2>4 DEF ServerInv, BoundInv
<1>2. QED
  BY <1>1

\* The sensor leaves the presence of the client and the worker alone.
LEMMA Env ==
    ASSUME IoTypeOK, SensorSends \/ SensorConnects \/ SensorLeaves
    PROVE  /\ IsClient(client') /\ backlog' \in Conns \cup {NoConn}
           /\ Present' = Present
           /\ backlog # NoConn => backlog' # NoConn
           /\ UNCHANGED <<accepting, reading, timer, ready, rearm, age, running, crashed>>
           /\ UNCHANGED stopper
<1>1. CASE SensorSends
  <2>1. ASSUME NEW conn \in Conns, NEW ends \in BOOLEAN
        PROVE  Sent(conn, ends) \in Conns
    <3> DEFINE piece == [line |-> conn.line, starts |-> ~conn.midLine, ends |-> ends]
               inbox == Append(conn.inbox, piece)
               line == IF ends THEN (conn.line + 1) % 3 ELSE conn.line
    <3>1. conn.line \in Numbers /\ conn.inbox \in Seq(Pieces) /\ conn.midLine \in BOOLEAN
      BY DEF Conns
    <3>2. piece \in Pieces
      BY <3>1 DEF Pieces
    <3>3. inbox \in Seq(Pieces)
      BY <3>1, <3>2, AppendProperties
    <3>4. line \in Numbers
      BY <3>1 DEF Numbers
    <3>5. Sent(conn, ends) = [conn EXCEPT !.inbox = inbox, !.line = line, !.midLine = ~ends]
      BY DEF Sent, Conns
    <3>6. (~ends) \in BOOLEAN
      OBVIOUS
    <3> HIDE DEF piece, inbox, line
    <3>7. QED
      BY <3>3, <3>4, <3>5, <3>6 DEF Conns
  <2>2. /\ EnvUnchanged
        /\ \E ends \in BOOLEAN :
              \/ client.peer = "up" /\ client' = Sent(client, ends) /\ UNCHANGED backlog
              \/ backlog.peer = "up" /\ backlog' = Sent(backlog, ends) /\ UNCHANGED client
    BY <1>1 DEF SensorSends, CanSend
  <2>3. /\ client' = client \/ (client \in Conns /\ client' \in Conns)
        /\ backlog' = backlog \/ backlog' \in Conns
    BY <2>1, <2>2, ConnIsReal, ClientIsReal DEF IoTypeOK
  <2>4. QED
    BY <2>2, <2>3, ConnIsReal DEF EnvUnchanged, IoTypeOK, IsClient, Present
<1>2. CASE SensorConnects
  BY <1>2, ConnIsReal DEF SensorConnects, EnvUnchanged, IoTypeOK, Present
<1>3. CASE SensorLeaves
  <2>1. \A conn \in Conns : \A peer \in Peers : [conn EXCEPT !.peer = peer] \in Conns
    BY DEF Conns
  <2>2. {"closed", "silent"} \cup (BadAccepts \cap {"reset"}) \subseteq Peers
    BY DEF Peers
  <2>3. PICK peer \in Peers :
            \/ client.peer = "up" /\ client' = [client EXCEPT !.peer = peer] /\ UNCHANGED backlog
            \/ backlog.peer = "up" /\ backlog' = [backlog EXCEPT !.peer = peer] /\ UNCHANGED client
    BY <1>3, <2>2 DEF SensorLeaves
  <2>4. EnvUnchanged
    BY <1>3 DEF SensorLeaves
  <2>5. /\ client' = client \/ (client \in Conns /\ client' \in Conns)
        /\ backlog' = backlog \/ backlog' \in Conns
    BY <2>1, <2>3, ConnIsReal, ClientIsReal DEF IoTypeOK
  <2>6. backlog' # NoConn \/ backlog' = backlog
    BY <2>5, ConnIsReal
  <2>7. QED
    BY <2>4, <2>5, <2>6, ConnIsReal DEF EnvUnchanged, IoTypeOK, IsClient, Present
<1>4. QED
  BY <1>1, <1>2, <1>3

\* Nothing that the worker looks at changes.
LEMMA ControlStays ==
    ASSUME ControlInv, BoundInv,
           UNCHANGED <<accepting, reading, timer, ready, rearm, age, running>>,
           Present' = Present, Polls' => Polls,
           stopper' = stopper \/ (~Present /\ stopper = "context" /\ ~Polls') \/ ~Polls',
           backlog # NoConn => backlog' # NoConn
    PROVE  ControlInv' /\ BoundInv'
  BY DEF ControlInv, BoundInv, ServingInv, IdleInv, Polls, Has

\* Taking a completed read back leaves the expired timer, if any.
LEMMA ShortWithoutRead ==
    ASSUME NEW h \in ReadEnds
    PROVE  WithoutRead(<<h>>) = <<>> /\ WithoutRead(<<"timer", h>>) = <<"timer">>
<1>1. "timer" \notin ReadEnds
  BY DEF ReadEnds
<1>2. (CHOOSE i \in DOMAIN <<h>> : <<h>>[i] \in ReadEnds) = 1
  BY ShortSequences
<1>3. (CHOOSE i \in DOMAIN <<"timer", h>> : <<"timer", h>>[i] \in ReadEnds) = 2
  BY <1>1, ShortSequences
<1>4. Len(<<h>>) = 1 /\ Len(<<"timer", h>>) = 2
  OBVIOUS
<1>5. 1 - 1 = 0 /\ 1 + 1 = 2 /\ 2 - 1 = 1 /\ 2 + 1 = 3
  OBVIOUS
<1>6. QED
  BY <1>2, <1>3, <1>4, <1>5, ShortSubSeqs, Zenon DEF WithoutRead

\* What the worker may have to run of a client that is gone.
LEMMA GoneHandlers ==
    /\ "readAborted" \in Gone /\ ReadEnds \subseteq Gone
    /\ \A g \in Gone : g # "timer" /\ g \notin Accepts
  BY DEF Gone, ReadEnds, Accepts

\* There is no client after Disconnect, ...
LEMMA DisconnectEnds == ASSUME NEW rest, Disconnect(rest) PROVE ~Present'
<1>1. \A s : Absent(s).peer = "none"
  BY DEF Absent
<1>2. (\E s : client' = Absent(s)) \/ (~Present /\ client' = client)
  BY DEF Disconnect, AbortsRead, MissesRead, NoConn
<1>3. QED
  BY <1>1, <1>2 DEF Present

\* ... whose read is aborted, or its handler stays in the queue, behind an
\* expired timer if there is one.
LEMMA DisconnectServing ==
    ASSUME NEW rest \in Serving, Disconnect(rest), Present, reading => ~Has(rest, ReadEnds)
    PROVE  /\ ~Present' /\ ~reading' /\ timer' = 0
           /\ accepting' <=> accepting \/ running
           /\ ~(reading \/ Has(rest, ReadEnds)) => ready' = rest /\ rest \in {<<>>, <<"timer">>}
           /\ reading \/ Has(rest, ReadEnds) =>
                \E g \in Gone :
                    ready' = IF Has(rest, {"timer"}) THEN <<"timer", g>> ELSE <<g>>
<1>1. Completed(rest) <=> Has(rest, ReadEnds)
  BY DEF Completed, Has
<1>2. "timer" \notin ReadEnds
  BY DEF ReadEnds
<1>3. ~Present' /\ ~reading' /\ timer' = 0 /\ (accepting' <=> accepting \/ running)
  BY DisconnectEnds DEF Disconnect, AcceptsAgain
<1>4. \/ /\ reading \/ Has(rest, ReadEnds)
         /\ ready' = Append(IF Has(rest, ReadEnds) THEN WithoutRead(rest) ELSE rest, "readAborted")
      \/ ~reading /\ ready' = rest
  BY <1>1 DEF Disconnect, AbortsRead, MissesRead
<1>5. CASE rest \in {<<>>, <<"timer">>}
  <2>1. ~Has(rest, ReadEnds)
    BY <1>2, <1>5, HasNone, HasOne, HasTwo
  <2>2. ready' = IF reading THEN Append(rest, "readAborted") ELSE rest
    BY <1>4, <2>1
  <2>3. CASE rest = <<>>
    BY <1>3, <2>1, <2>2, <2>3, HasNone, OneHandler, GoneHandlers
  <2>4. CASE rest = <<"timer">>
    BY <1>3, <2>1, <2>2, <2>4, HasOne, TwoHandlers, GoneHandlers
  <2>5. QED
    BY <1>5, <2>3, <2>4
<1>6. CASE \E h \in ReadEnds : rest \in {<<h>>, <<"timer", h>>}
  <2>1. PICK h \in ReadEnds : rest \in {<<h>>, <<"timer", h>>}
    BY <1>6
  <2>2. Has(rest, ReadEnds) /\ (Has(rest, {"timer"}) <=> rest = <<"timer", h>>)
    BY <1>2, <2>1, HasNone, HasOne, HasTwo, OneHandler, TwoHandlers
  <2>3. WithoutRead(rest) = IF rest = <<h>> THEN <<>> ELSE <<"timer">>
    BY <2>1, ShortWithoutRead, ShortSequences
  <2>4. CASE ready' = rest
    <3>1. h \in Gone
      BY GoneHandlers
    <3>2. QED
      BY <1>3, <2>1, <2>2, <2>4, <3>1, ShortSequences
  <2>5. CASE ready' = Append(WithoutRead(rest), "readAborted")
    <3>1. ready' = Append(IF rest = <<h>> THEN <<>> ELSE <<"timer">>, "readAborted")
      BY <2>3, <2>5
    <3>2. ready' = IF rest = <<"timer", h>> THEN <<"timer", "readAborted">> ELSE <<"readAborted">>
      BY <2>1, <3>1, OneHandler, TwoHandlers, ShortSequences
    <3>3. QED
      BY <1>3, <2>2, <3>2, GoneHandlers
  <2>6. QED
    BY <1>4, <2>2, <2>4, <2>5
<1>7. QED
  BY <1>5, <1>6 DEF Serving

\* A second Disconnect does nothing but tell the UI again.
LEMMA DisconnectIdle ==
    ASSUME NEW rest, Disconnect(rest), ~Present
    PROVE  /\ ~Present' /\ ~reading' /\ UNCHANGED <<client, timer>> /\ ready' = rest
           /\ accepting' <=> accepting
  BY DEF Disconnect, AcceptsAgain, Present

\* What is left when the worker takes the first handler.
LEMMA TailOfServing ==
    ASSUME ready \in Serving, ready # <<>>
    PROVE  /\ Tail(ready) \in Serving
           /\ ~Has(Tail(ready), {"timer"}) /\ ~Has(Tail(ready), {"accept"})
           /\ Head(ready) \in ReadEnds =>
                Tail(ready) = <<>> /\ Has(ready, ReadEnds) /\ ~Has(ready, {"timer"})
           /\ Head(ready) \in ReadEnds \cup {"timer"}
           /\ Head(ready) = "timer" =>
                Has(ready, {"timer"}) /\ (Has(Tail(ready), ReadEnds) <=> Has(ready, ReadEnds))
<1>1. "timer" \notin ReadEnds /\ "accept" \notin ReadEnds
  BY DEF ReadEnds
<1>2. CASE ready = <<"timer">>
  BY <1>1, <1>2, HasNone, HasOne, HasTwo, OneHandler, TwoHandlers DEF Serving
<1>3. CASE \E h \in ReadEnds : ready = <<h>>
  BY <1>1, <1>3, HasNone, HasOne, HasTwo, OneHandler, TwoHandlers DEF Serving
<1>4. CASE \E h \in ReadEnds : ready = <<"timer", h>>
  BY <1>1, <1>4, HasNone, HasOne, HasTwo, OneHandler, TwoHandlers DEF Serving
<1>5. QED
  BY <1>2, <1>3, <1>4 DEF Serving

\* Leftovers of a client, ...
LEMMA TailOfLeftover ==
    ASSUME ready \in Leftover, ready # <<>>
    PROVE  Tail(ready) = <<>> /\ Head(ready) \in {"timer"} \cup Gone
<1>1. PICK g \in {"timer"} \cup Gone : ready = <<g>>
  BY DEF Leftover
<1>2. QED
  BY <1>1, OneHandler

LEMMA TailOfTimedOut ==
    ASSUME ready \in TimedOut
    PROVE  /\ ready # <<>> /\ Head(ready) = "timer" /\ Tail(ready) \in Leftover
           /\ ~Has(Tail(ready), {"accept"})
<1>1. PICK g \in Gone : ready = <<"timer", g>>
  BY DEF TimedOut
<1>2. Head(ready) = "timer" /\ Tail(ready) = <<g>> /\ ready # <<>>
  BY <1>1, TwoHandlers
<1>3. g # "accept"
  BY GoneHandlers DEF Accepts
<1>4. QED
  BY <1>2, <1>3, HasOne DEF Leftover

\* ... and an accept that has completed is the last one queued.
LEMMA TailOfAccepted ==
    ASSUME ready \in Accepted
    PROVE  /\ ready # <<>>
           /\ Head(ready) \in Accepts => Tail(ready) = <<>>
           /\ Head(ready) \in Accepts \cup {"timer"} \cup Gone
           /\ Head(ready) \notin Accepts =>
                Tail(ready) \in Accepted /\ Tail(ready) \in {<<h>> : h \in Accepts}
           /\ Has(Tail(ready), {"accept"}) => Has(ready, {"accept"})
           /\ Head(ready) = "accept" => Has(ready, {"accept"})
<1>1. CASE \E h \in Accepts : ready = <<h>>
  BY <1>1, HasNone, HasOne, HasTwo, OneHandler, TwoHandlers DEF Accepted, Accepts
<1>2. CASE \E g \in {"timer"} \cup Gone, h \in Accepts : ready = <<g, h>>
  <2>1. PICK g \in {"timer"} \cup Gone, h \in Accepts : ready = <<g, h>>
    BY <1>2
  <2>2. g \notin Accepts /\ g # "accept"
    BY GoneHandlers DEF Accepts
  <2>3. Head(ready) = g /\ Tail(ready) = <<h>> /\ ready # <<>>
    BY <2>1, TwoHandlers
  <2>4. Has(Tail(ready), {"accept"}) => Has(ready, {"accept"})
    BY <2>1, <2>3, HasOne, HasTwo
  <2>5. Tail(ready) \in Accepted /\ Tail(ready) \in {<<f>> : f \in Accepts}
    BY <2>3 DEF Accepted
  <2>6. QED
    BY <2>1, <2>2, <2>3, <2>4, <2>5
<1>3. CASE ready \in ({"timer"} \cup Gone) \X Accepts
  <2> DEFINE S == {"timer"} \cup Gone
  <2>1. ready \in S \X Accepts
    BY <1>3
  <2> HIDE DEF S
  <2>2. \E g \in S, h \in Accepts : ready = <<g, h>>
    BY <2>1
  <2>3. QED
    BY <1>2, <2>2 DEF S
<1>4. QED
  BY <1>1, <1>3 DEF Accepted

-----------------------------------------------------------------------------

\* An accept completes while there is no client, behind at most one leftover.
LEMMA AcceptCompletesKeeps ==
    ASSUME ServerInv, AcceptCompletes
    PROVE  ControlInv' /\ BoundInv'
<1>1. /\ Polls /\ accepting /\ ~accepting'
      /\ UNCHANGED <<reading, timer, client, backlog, rearm, age, running, stopper, crashed>>
  BY DEF AcceptCompletes, Polling, Polls, IoUnchanged
<1>2. PICK h \in Accepts : ready' = Append(ready, h) /\ (h = "accept" => backlog # NoConn)
  BY DEF AcceptCompletes, Accepts
<1>3. /\ ~Present /\ ready \in Leftover /\ (running <=> stopper = "no")
      /\ rearm => ready = <<>>
  <2>1. ~Present
    BY <1>1 DEF ServerInv, ControlInv, ServingInv
  <2>2. QED
    BY <1>1, <2>1 DEF ServerInv, ControlInv, IdleInv
<1>4. /\ ready' \in Accepted /\ (Has(ready', {"accept"}) <=> h = "accept")
      /\ ready = <<>> => ready' \in {<<f>> : f \in Accepts}
  <2>1. CASE ready = <<>>
    BY <1>2, <2>1, OneHandler, HasOne DEF Accepted
  <2>2. CASE ready \in {<<g>> : g \in {"timer"} \cup Gone}
    <3>1. PICK g \in {"timer"} \cup Gone : ready = <<g>> /\ g # "accept" /\ ready # <<>>
      BY <2>2, GoneHandlers, OneHandler DEF Accepts
    <3>2. ready' = <<g, h>>
      BY <1>2, <3>1, TwoHandlers
    <3>3. ready' \in Accepted
      BY <3>1, <3>2 DEF Accepted
    <3>4. QED
      BY <3>1, <3>2, <3>3, HasTwo
  <2>4. QED
    BY <1>3, <2>1, <2>2 DEF Leftover
<1>5. ~Present'
  BY <1>1, <1>3 DEF Present
<1>6. ~reading
  BY <1>1, <1>3 DEF ServerInv, ControlInv, IdleInv
<1>7. ControlInv'
  BY <1>1, <1>2, <1>3, <1>4, <1>5, <1>6 DEF ControlInv, ServingInv, IdleInv
<1>8. QED
  BY <1>5, <1>7 DEF BoundInv

\* A read completes behind nothing but an expired timer.
LEMMA ReadCompletesKeeps ==
    ASSUME ServerInv, ReadCompletes
    PROVE  ControlInv' /\ BoundInv'
<1>1. /\ Polls /\ reading /\ ~reading'
      /\ UNCHANGED <<accepting, timer, client, backlog, rearm, age, running, stopper, crashed>>
  BY DEF ReadCompletes, Polling, Polls, IoUnchanged
<1>2. PICK h \in ReadEnds : ready' = Append(ready, h)
  BY DEF ReadCompletes, ReadEnds
<1>3. Present
  BY <1>1 DEF ServerInv, ControlInv, IdleInv
<1>4. /\ ~accepting /\ ~rearm /\ ready \in Serving /\ ~Has(ready, ReadEnds)
      /\ timer > 0 <=> ~Has(ready, {"timer"})
      /\ running <=> stopper = "no"
  BY <1>1, <1>3 DEF ServerInv, ControlInv, ServingInv
<1>5. ready \in {<<>>, <<"timer">>}
  BY <1>4, HasOne, HasTwo DEF Serving
<1>6. h # "timer" /\ h # "accept"
  BY DEF ReadEnds
<1>7. /\ ready' \in Serving /\ Has(ready', ReadEnds) /\ ~Has(ready', {"accept"})
      /\ Has(ready', {"timer"}) <=> Has(ready, {"timer"})
  <2>1. CASE ready = <<>>
    BY <1>2, <1>6, <2>1, OneHandler, HasNone, HasOne DEF Serving
  <2>2. CASE ready = <<"timer">>
    <3>1. ready' = <<"timer", h>>
      BY <1>2, <2>2, TwoHandlers
    <3>2. ready' \in Serving
      BY <3>1 DEF Serving
    <3>3. QED
      BY <1>6, <2>2, <3>1, <3>2, HasOne, HasTwo
  <2>3. QED
    BY <1>5, <2>1, <2>2
<1>8. Present'
  BY <1>1, <1>3 DEF Present
<1>9. ControlInv'
  BY <1>1, <1>4, <1>7, <1>8 DEF ControlInv, ServingInv, IdleInv
<1>10. QED
  BY <1>1, <1>3, <1>9 DEF ServerInv, BoundInv

\* The timer that expires is queued alone, and shortens no deadline.
LEMMA TickKeeps ==
    ASSUME ServerInv, Tick
    PROVE  ControlInv' /\ BoundInv' /\ timer' \in 0 .. TimeoutTicks /\ age' \in Nat
<1>1. /\ Polls /\ ready = <<>> /\ ~rearm
      /\ UNCHANGED <<client, backlog, accepting, reading, rearm, running, stopper, crashed>>
  BY DEF Tick, Polling, Polls
<1>2. /\ age \in Nat /\ timer \in Nat /\ timer <= TimeoutTicks /\ TimeoutTicks \in Nat
      /\ age' = IF age > 2 * TimeoutTicks THEN age ELSE age + 1
      /\ timer' = IF timer = 0 THEN 0 ELSE timer - 1
      /\ ready' = IF timer = 1 THEN <<"timer">> ELSE <<>>
  BY TimeoutAssumption DEF ServerInv, IoTypeOK, Tick
<1>3. Present' = Present
  BY <1>1 DEF Present
<1>4. CASE Present
  <2>1. /\ ~accepting /\ (timer > 0 <=> ~Has(ready, {"timer"})) /\ (reading \/ Has(ready, ReadEnds))
        /\ running <=> stopper = "no"
    BY <1>1, <1>4 DEF ServerInv, ControlInv, ServingInv
  <2>2. timer > 0 /\ reading
    BY <1>1, <2>1, HasNone
  <2>3. "timer" \notin ReadEnds
    BY DEF ReadEnds
  <2>4. /\ ready' \in Serving /\ ~Has(ready', ReadEnds) /\ ~Has(ready', {"accept"})
        /\ timer' > 0 <=> ~Has(ready', {"timer"})
    <3>1. CASE timer = 1
      <4>1. ready' = <<"timer">> /\ timer' = 0
        BY <1>2, <3>1
      <4>2. QED
        BY <2>3, <4>1, HasOne DEF Serving
    <3>2. CASE timer # 1
      <4>1. ready' = <<>> /\ timer' > 0
        BY <1>2, <2>2, <3>2
      <4>2. QED
        BY <4>1, HasNone DEF Serving
    <3>3. QED
      BY <3>1, <3>2
  <2>5. ControlInv'
    BY <1>1, <1>3, <1>4, <2>1, <2>2, <2>4 DEF ControlInv, ServingInv, IdleInv
  <2>6. age + timer <= 2 * TimeoutTicks
    BY <1>4 DEF ServerInv, BoundInv
  <2>7. age' + timer' <= 2 * TimeoutTicks
    BY <1>2, <2>2, <2>6
  <2>8. QED
    BY <1>2, <2>5, <2>7 DEF BoundInv
<1>5. CASE ~Present
  <2>1. ~reading /\ (stopper = "no" => accepting) /\ (running <=> stopper = "no")
    <3>1. ready \notin Accepted /\ ready \notin TimedOut
      BY <1>1, TailOfAccepted, TailOfTimedOut
    <3>2. QED
      BY <1>1, <1>5, <3>1 DEF ServerInv, ControlInv, IdleInv
  <2>2. ready' \in Leftover /\ ~Has(ready', {"accept"})
    BY <1>2, HasNone, HasOne DEF Leftover
  <2>3. ControlInv'
    BY <1>1, <1>3, <1>5, <2>1, <2>2 DEF ControlInv, ServingInv, IdleInv
  <2>4. QED
    BY <1>2, <1>3, <1>5, <2>3 DEF BoundInv
<1>6. QED
  BY <1>4, <1>5

\* A new client starts with a read, a full timer and nothing queued.
LEMMA AcceptHandlerKeeps ==
    ASSUME ServerInv, AcceptHandler
    PROVE  ControlInv' /\ BoundInv'
<1>1. /\ Polls /\ ~rearm /\ ready # <<>> /\ Head(ready) = "accept"
      /\ client' = backlog /\ reading' /\ age' = 0 /\ timer' = TimeoutTicks /\ ready' = Tail(ready)
      /\ UNCHANGED <<accepting, rearm, crashed, running, stopper>>
  BY DEF AcceptHandler, Runs, Polling, Polls, HandlerUnchanged
<1>2. "accept" \notin ReadEnds \cup {"timer"} \cup Gone /\ "accept" \in Accepts
  BY GoneHandlers DEF ReadEnds, Accepts
<1>3. ~Present
  BY <1>1, <1>2, TailOfServing DEF ServerInv, ControlInv, ServingInv
<1>4. ready \in Accepted /\ ~accepting /\ (running <=> stopper = "no")
  BY <1>1, <1>2, <1>3, TailOfLeftover, TailOfTimedOut DEF ServerInv, ControlInv, IdleInv
<1>5. ready' = <<>> /\ Has(ready, {"accept"})
  BY <1>1, <1>2, <1>4, TailOfAccepted
<1>6. Present'
  BY <1>1, <1>5, ConnIsReal DEF ServerInv, IoTypeOK, ControlInv, Present
<1>7. ready' \in Serving /\ (\A some : ~Has(ready', some))
  BY <1>5, HasNone DEF Serving
<1>8. timer' > 0 /\ age' + timer' <= 2 * TimeoutTicks
  BY <1>1, TimeoutAssumption
<1>9. QED
  BY <1>1, <1>4, <1>6, <1>7, <1>8 DEF ControlInv, ServingInv, IdleInv, BoundInv

\* A read that has completed and finds its client leaves it re-arming; one that
\* comes late finds none, nor will its ReceiveData.
LEMMA ReadHandlerKeeps ==
    ASSUME ServerInv, ReadHandler
    PROVE  /\ ControlInv' /\ BoundInv' /\ IsClient(client')
           /\ Present' = Present
<1>0. PICK n \in 1 .. Len(client.inbox) :
          client' = [client EXCEPT !.inbox = SubSeq(@, n + 1, Len(@))]
  BY DEF ReadHandler
<1>1. /\ Polls /\ ~rearm /\ ready # <<>> /\ Head(ready) = "read"
      /\ age' = 0 /\ rearm' /\ ready' = Tail(ready)
      /\ UNCHANGED <<accepting, reading, timer, crashed, running, stopper, backlog>>
  BY DEF ReadHandler, Runs, Polling, Polls, HandlerUnchanged
<1>2. "read" \in ReadEnds /\ "read" \notin Accepts \cup {"timer", "readAborted"}
  BY DEF ReadEnds, Accepts
<1>3. CASE Present
  <2>1. /\ ~accepting /\ ready \in Serving
        /\ reading => ~Has(ready, ReadEnds)
        /\ timer > 0 <=> ~Has(ready, {"timer"})
        /\ running <=> stopper = "no"
    BY <1>1, <1>3 DEF ServerInv, ControlInv, ServingInv
  <2>2. ready' = <<>> /\ ~reading /\ timer > 0
    BY <1>1, <1>2, <2>1, TailOfServing
  <2>3. client' \in Conns
    <3>1. client \in Conns
      BY <1>3, ClientIsReal DEF ServerInv, IoTypeOK
    <3>3. client.inbox \in Seq(Pieces)
      BY <3>1 DEF Conns
    <3> DEFINE inbox == SubSeq(client.inbox, n + 1, Len(client.inbox))
    <3>4. inbox \in Seq(Pieces)
      BY <1>0, <3>3
    <3>5. client' = [client EXCEPT !.inbox = inbox]
      BY <1>0
    <3> HIDE DEF inbox
    <3>6. QED
      BY <3>1, <3>4, <3>5 DEF Conns
  <2>4. Present'
    BY <2>3, ConnIsReal DEF Present
  <2>5. ready' \in Serving /\ (\A some : ~Has(ready', some))
    BY <2>2, HasNone DEF Serving
  <2>6. age' + timer' <= 2 * TimeoutTicks
    BY <1>1, TimeoutAssumption DEF ServerInv, IoTypeOK
  <2>7. ControlInv' /\ BoundInv'
    BY <1>1, <2>1, <2>2, <2>4, <2>5, <2>6 DEF ControlInv, ServingInv, IdleInv, BoundInv
  <2>8. QED
    BY <1>3, <2>3, <2>4, <2>7 DEF Present, IsClient
<1>4. CASE ~Present
  <2>1. IsClient(client') /\ ~Present'
    <3> DEFINE inbox == SubSeq(client.inbox, n + 1, Len(client.inbox))
    <3>1. client.inbox \in Seq(Pieces) /\ client = Absent(client.inbox)
      BY <1>4, ConnIsReal DEF ServerInv, IoTypeOK, IsClient, Present
    <3>2. inbox \in Seq(Pieces)
      BY <1>0, <3>1
    <3>3. client' = [client EXCEPT !.inbox = inbox]
      BY <1>0
    <3> HIDE DEF inbox
    <3>4. client' = Absent(inbox)
      <4>0. \A s \in Seq(Pieces) :
                Absent(s) \in [inbox : Seq(Pieces), peer : {"none"}, line : {0}, midLine : {FALSE}]
        BY DEF Absent
      <4>1. client \in [inbox : Seq(Pieces), peer : {"none"}, line : {0}, midLine : {FALSE}]
        BY <3>1, <4>0
      <4>2. /\ client' \in [inbox : Seq(Pieces), peer : {"none"}, line : {0}, midLine : {FALSE}]
            /\ client'.inbox = inbox
        BY <3>2, <3>3, <4>1
      <4>3. QED
        BY <4>2 DEF Absent
    <3>5. QED
      BY <3>2, <3>4, AbsentIsClient DEF Present
  <2>2. /\ ~reading /\ (running <=> stopper = "no")
        /\ Has(ready, {"accept"}) => backlog # NoConn
    BY <1>1, <1>4 DEF ServerInv, ControlInv, IdleInv
  <2>3. CASE ready \in Leftover /\ (stopper = "no" => accepting)
    <3>1. ready' = <<>> /\ ~Has(ready', {"accept"})
      BY <1>1, <2>3, TailOfLeftover, HasNone
    <3>2. ready' \in Leftover
      BY <3>1 DEF Leftover
    <3>3. QED
      BY <1>1, <1>4, <2>1, <2>2, <2>3, <3>1, <3>2
        DEF ControlInv, ServingInv, IdleInv, BoundInv, Present
  <2>4. CASE ready \in Accepted /\ ~accepting
    <3>1. /\ ready' \in Accepted /\ ready' \in {<<h>> : h \in Accepts}
          /\ Has(ready', {"accept"}) => Has(ready, {"accept"})
      BY <1>1, <1>2, <2>4, TailOfAccepted
    <3>2. QED
      BY <1>1, <1>4, <2>1, <2>2, <2>4, <3>1
        DEF ControlInv, ServingInv, IdleInv, BoundInv, Present
  <2>5. QED
    <3>1. ready \notin TimedOut
      BY <1>1, <1>2, TailOfTimedOut
    <3>2. QED
      BY <1>1, <1>4, <2>3, <2>4, <3>1 DEF ServerInv, ControlInv, IdleInv
<1>5. QED
  BY <1>3, <1>4

\* ReceiveData reads once more, or crashes without a socket.
LEMMA ReadAgainKeeps ==
    ASSUME ServerInv, ReadAgain
    PROVE  ControlInv' /\ BoundInv'
<1>1. /\ ~crashed /\ rearm /\ ~rearm' /\ (reading' <=> Present) /\ (crashed' <=> ~Present)
      /\ UNCHANGED <<client, backlog, accepting, timer, ready, age, running, stopper>>
  BY DEF ReadAgain, HandlerUnchanged, Present
<1>2. Present' = Present
  BY <1>1 DEF Present
<1>3. BoundInv'
  BY <1>1, <1>2 DEF ServerInv, BoundInv
<1>4. CASE Present /\ Polls
  BY <1>1, <1>2, <1>3, <1>4 DEF ServerInv, ControlInv, ServingInv, IdleInv
<1>5. CASE ~Present \/ ~Polls
  BY <1>1, <1>2, <1>3, <1>5 DEF ControlInv, Polls
<1>6. QED
  BY <1>4, <1>5

\* A handler that the worker takes while there is no client leaves the state
\* idle, whether it disconnects once more or arms the timer.
LEMMA IdleHandler ==
    ASSUME ServerInv, Polls, ~Present, ~rearm, ready # <<>>,
           Head(ready) \in {"timer"} \cup Gone,
           ready' = Tail(ready), accepting' <=> accepting, ~reading',
           UNCHANGED <<client, backlog, rearm, crashed, running, stopper>>
    PROVE  ControlInv' /\ BoundInv'
<1>1. ~Present'
  BY DEF Present
<1>2. Head(ready) \notin Accepts
  BY GoneHandlers DEF Accepts
<1>3. running <=> stopper = "no"
  BY DEF ServerInv, ControlInv
<1>4. CASE ready \in Leftover /\ (stopper = "no" => accepting)
  <2>1. ready' = <<>> /\ ~Has(ready', {"accept"})
    BY <1>4, TailOfLeftover, HasNone
  <2>2. ready' \in Leftover
    BY <2>1 DEF Leftover
  <2>3. QED
    BY <1>1, <1>3, <1>4, <2>1, <2>2 DEF ControlInv, ServingInv, IdleInv, BoundInv
<1>5. CASE ready \in Accepted /\ ~accepting
  <2>1. ready' \in Accepted /\ (Has(ready', {"accept"}) => Has(ready, {"accept"}))
    BY <1>2, <1>5, TailOfAccepted
  <2>2. QED
    BY <1>1, <1>3, <1>5, <2>1 DEF ServerInv, ControlInv, ServingInv, IdleInv, BoundInv
<1>6. CASE ready \in TimedOut /\ stopper = "context" /\ ~accepting
  <2>1. ready' \in Leftover /\ ~Has(ready', {"accept"})
    BY <1>6, TailOfTimedOut
  <2>2. QED
    BY <1>1, <1>3, <1>6, <2>1 DEF ControlInv, ServingInv, IdleInv, BoundInv
<1>7. QED
  BY <1>4, <1>5, <1>6 DEF ServerInv, ControlInv, IdleInv

\* A read that failed or was aborted disconnects, once or again.
LEMMA ReadErrorHandlerKeeps ==
    ASSUME ServerInv, ReadErrorHandler
    PROVE  ControlInv' /\ BoundInv'
<1>1. /\ Polls /\ ~rearm /\ ready # <<>> /\ Head(ready) \in {"readError", "readAborted"}
      /\ Disconnect(Tail(ready))
      /\ UNCHANGED <<backlog, rearm, age, crashed, running, stopper>>
  BY DEF ReadErrorHandler, FailedReadEnds, Runs, Polling, Polls, HandlerUnchanged
<1>2. CASE Present
  <2>1. /\ ready \in Serving /\ ~accepting /\ (running <=> stopper = "no")
        /\ reading => ~Has(ready, ReadEnds)
    BY <1>1, <1>2 DEF ServerInv, ControlInv, ServingInv
  <2>2. "readAborted" \notin ReadEnds \cup {"timer"}
    BY DEF ReadEnds
  <2>3. Head(ready) \in ReadEnds
    BY <1>1, <2>1, <2>2, TailOfServing DEF ReadEnds
  <2>4. Tail(ready) = <<>> /\ ~reading
    BY <1>1, <2>1, <2>3, TailOfServing
  <2>5. /\ ~Present' /\ ~reading' /\ (accepting' <=> running) /\ ready' = <<>>
        /\ ~Has(ready', {"accept"})
    <3>1. Tail(ready) \in Serving /\ ~Has(Tail(ready), ReadEnds)
      BY <2>4, HasNone DEF Serving
    <3>2. QED
      BY <1>1, <1>2, <2>1, <2>4, <3>1, DisconnectServing, HasNone
  <2>6. ready' \in Leftover
    BY <2>5 DEF Leftover
  <2>7. QED
    BY <1>1, <2>1, <2>5, <2>6 DEF ControlInv, ServingInv, IdleInv, BoundInv
<1>3. CASE ~Present
  <2>1. Head(ready) \notin Accepts \cup {"timer"}
    BY <1>1 DEF Accepts
  <2>2. Head(ready) \in Gone
    BY <1>1, <1>3, <2>1, TailOfLeftover, TailOfAccepted, TailOfTimedOut
      DEF ServerInv, ControlInv, IdleInv
  <2>3. ready' = Tail(ready) /\ ~reading' /\ (accepting' <=> accepting) /\ UNCHANGED client
    BY <1>1, <1>3, DisconnectIdle
  <2>4. QED
    BY <1>1, <1>3, <2>2, <2>3, IdleHandler
<1>4. QED
  BY <1>2, <1>3

\* So does a timer that finds the packet too old.
LEMMA TimeoutDisconnectsKeeps ==
    ASSUME ServerInv, TimeoutDisconnects
    PROVE  ControlInv' /\ BoundInv'
<1>1. /\ Polls /\ ~rearm /\ ready # <<>> /\ Head(ready) = "timer"
      /\ Disconnect(Tail(ready))
      /\ UNCHANGED <<backlog, rearm, age, crashed, running, stopper>>
  BY DEF TimeoutDisconnects, Runs, Polling, Polls, HandlerUnchanged
<1>2. CASE Present
  <2>1. /\ ready \in Serving /\ ~accepting /\ (running <=> stopper = "no")
        /\ reading \/ Has(ready, ReadEnds)
        /\ reading => ~Has(ready, ReadEnds)
    BY <1>1, <1>2 DEF ServerInv, ControlInv, ServingInv
  <2>2. /\ Tail(ready) \in Serving /\ ~Has(Tail(ready), {"timer"})
        /\ reading \/ Has(Tail(ready), ReadEnds)
        /\ reading => ~Has(Tail(ready), ReadEnds)
    BY <1>1, <2>1, TailOfServing
  <2>3. /\ ~Present' /\ ~reading' /\ (accepting' <=> running)
        /\ \E g \in Gone : ready' = <<g>>
    BY <1>1, <1>2, <2>1, <2>2, DisconnectServing
  <2>4. ready' \in Leftover /\ ~Has(ready', {"accept"})
    <3>1. PICK g \in Gone : ready' = <<g>> /\ g # "accept"
      BY <2>3, GoneHandlers DEF Accepts
    <3>2. QED
      BY <3>1, HasOne DEF Leftover
  <2>5. QED
    BY <1>1, <2>1, <2>3, <2>4 DEF ControlInv, ServingInv, IdleInv, BoundInv
<1>3. CASE ~Present
  <2>1. ready' = Tail(ready) /\ ~reading' /\ (accepting' <=> accepting) /\ UNCHANGED client
    BY <1>1, <1>3, DisconnectIdle
  <2>2. QED
    BY <1>1, <1>3, <2>1, IdleHandler
<1>4. QED
  BY <1>2, <1>3

\* Any other timer is armed again for the client, or for nobody.
LEMMA TimeoutRearmsKeeps ==
    ASSUME ServerInv, TimeoutRearms
    PROVE  ControlInv' /\ BoundInv'
<1>1. /\ Polls /\ ~rearm /\ ready # <<>> /\ Head(ready) = "timer"
      /\ age <= TimeoutTicks /\ timer' = TimeoutTicks /\ ready' = Tail(ready)
      /\ UNCHANGED <<client, backlog, accepting, reading, rearm, age, crashed, running, stopper>>
  BY DEF TimeoutRearms, Arms, Runs, Polling, Polls, HandlerUnchanged
<1>2. CASE Present
  <2>1. /\ ready \in Serving /\ ~accepting /\ (running <=> stopper = "no")
        /\ reading => ~Has(ready, ReadEnds)
        /\ reading \/ Has(ready, ReadEnds)
    BY <1>1, <1>2 DEF ServerInv, ControlInv, ServingInv
  <2>2. /\ ready' \in Serving /\ ~Has(ready', {"timer"}) /\ ~Has(ready', {"accept"})
        /\ Has(ready', ReadEnds) <=> Has(ready, ReadEnds)
    BY <1>1, <2>1, TailOfServing
  <2>3. timer' > 0 /\ age' + timer' <= 2 * TimeoutTicks
    BY <1>1, TimeoutAssumption DEF ServerInv, IoTypeOK
  <2>4. Present'
    BY <1>1, <1>2 DEF Present
  <2>5. QED
    BY <1>1, <2>1, <2>2, <2>3, <2>4 DEF ControlInv, ServingInv, IdleInv, BoundInv
<1>3. CASE ~Present
  <2>1. ~reading
    BY <1>1, <1>3 DEF ServerInv, ControlInv, IdleInv
  <2>2. QED
    BY <1>1, <1>3, <2>1, IdleHandler
<1>4. QED
  BY <1>2, <1>3

\* Stop's Disconnect comes between any two handlers, or before a ReceiveData.
LEMMA StopDisconnectsKeeps ==
    ASSUME ServerInv, StopDisconnects
    PROVE  ControlInv' /\ BoundInv'
<1>1. /\ Polls /\ stopper = "disconnect" /\ stopper' = "context"
      /\ Disconnect(ready)
      /\ UNCHANGED <<backlog, rearm, age, crashed, running>>
  BY DEF StopDisconnects, StopUnchanged, Polls
<1>2. ~running
  BY <1>1 DEF ServerInv, ControlInv
<1>3. CASE Present
  <2>1. /\ ready \in Serving /\ ~accepting
        /\ reading \/ rearm \/ Has(ready, ReadEnds)
        /\ reading => ~rearm /\ ~Has(ready, ReadEnds)
        /\ rearm => ~Has(ready, ReadEnds)
    BY <1>1, <1>3 DEF ServerInv, ControlInv, ServingInv
  <2>2. /\ ~Present' /\ ~reading' /\ ~accepting'
        /\ ~(reading \/ Has(ready, ReadEnds)) =>
                ready' = ready /\ ready \in {<<>>, <<"timer">>}
        /\ reading \/ Has(ready, ReadEnds) =>
                \E g \in Gone :
                    ready' = IF Has(ready, {"timer"}) THEN <<"timer", g>> ELSE <<g>>
    BY <1>1, <1>2, <1>3, <2>1, DisconnectServing
  <2>3. CASE reading \/ Has(ready, ReadEnds)
    <3>1. PICK g \in Gone :
              g # "accept" /\ ready' = IF Has(ready, {"timer"}) THEN <<"timer", g>> ELSE <<g>>
      BY <2>2, <2>3, GoneHandlers DEF Accepts
    <3>2. (ready' \in Leftover \/ ready' \in TimedOut) /\ ~Has(ready', {"accept"})
      BY <3>1, HasOne, HasTwo DEF Leftover, TimedOut
    <3>3. ~rearm'
      BY <1>1, <2>1, <2>3
    <3>4. QED
      BY <1>1, <1>2, <2>2, <3>2, <3>3 DEF ControlInv, ServingInv, IdleInv, BoundInv
  <2>4. CASE ~(reading \/ Has(ready, ReadEnds))
    <3>1. ready' \in Leftover /\ ~Has(ready', {"accept"})
      BY <2>2, <2>4, HasNone, HasOne DEF Leftover
    <3>2. QED
      BY <1>1, <1>2, <2>2, <3>1 DEF ControlInv, ServingInv, IdleInv, BoundInv
  <2>5. QED
    BY <2>3, <2>4
<1>4. CASE ~Present
  <2>1. /\ ~Present' /\ ~reading' /\ ready' = ready /\ (accepting' <=> accepting)
    BY <1>1, <1>4, DisconnectIdle
  <2>2. /\ \/ ready \in Leftover /\ (rearm => ready = <<>>)
           \/ /\ ready \in Accepted /\ ~accepting
              /\ rearm => ready \in {<<h>> : h \in Accepts}
        /\ Has(ready, {"accept"}) => backlog # NoConn
    BY <1>1, <1>4 DEF ServerInv, ControlInv, IdleInv
  <2>3. QED
    BY <1>1, <1>2, <2>1, <2>2 DEF ControlInv, ServingInv, IdleInv, BoundInv
<1>5. QED
  BY <1>3, <1>4

\* Disconnect keeps the types.
LEMMA DisconnectsClient ==
    ASSUME NEW rest, Disconnect(rest), IsClient(client)
    PROVE  IsClient(client')
<1>1. CASE client' = client
  BY <1>1
<1>2. CASE client' = NoConn
  BY <1>2, AbsentIsClient, EmptySeq DEF NoConn
<1>3. ASSUME NEW n \in 1 .. Len(client.inbox), client' = Absent(SubSeq(client.inbox, 1, n))
      PROVE  IsClient(client')
  <2>1. client.inbox \in Seq(Pieces)
    BY ClientIsReal
  <2>2. SubSeq(client.inbox, 1, n) \in Seq(Pieces)
    BY <2>1
  <2>3. QED
    BY <1>3, <2>2, AbsentIsClient
<1>4. QED
  BY <1>1, <1>2, <1>3 DEF Disconnect, AbortsRead, MissesRead

LEMMA DisconnectTypes ==
    ASSUME NEW rest, Disconnect(rest), IoTypeOK, UNCHANGED <<backlog, age, crashed>>
    PROVE  IoTypeOK'
<1>1. timer' = (IF Present THEN 0 ELSE timer)
  BY DEF Disconnect
<1>2. timer' \in 0 .. TimeoutTicks
  BY <1>1, TimeoutAssumption DEF IoTypeOK
<1>3. IsClient(client')
  BY DisconnectsClient DEF IoTypeOK
<1>4. QED
  BY <1>2, <1>3 DEF IoTypeOK, IsClient

\* All that the invariant is about, step by step.
THEOREM ServerSteps ==
    ASSUME ServerInv, [Next]_vars
    PROVE  ServerInv'
<1>1. ASSUME IoTypeOK', ControlInv', BoundInv' PROVE ServerInv'
  BY <1>1 DEF ServerInv
<1>2. IoTypeOK
  BY DEF ServerInv
<1>3. CASE SensorSends \/ SensorConnects \/ SensorLeaves
  BY <1>1, <1>2, <1>3, Env, ControlStays DEF ServerInv, IoTypeOK, Polls
<1>4. CASE AcceptCompletes
  BY <1>1, <1>2, <1>4, AcceptCompletesKeeps DEF IoTypeOK, AcceptCompletes, IoUnchanged
<1>5. CASE ReadCompletes
  BY <1>1, <1>2, <1>5, ReadCompletesKeeps DEF IoTypeOK, ReadCompletes, IoUnchanged
<1>6. CASE Tick
  BY <1>1, <1>2, <1>6, TickKeeps DEF IoTypeOK, Tick
<1>7. CASE AcceptHandler
  <2>1. /\ client' = backlog /\ backlog' = NoConn /\ timer' = TimeoutTicks /\ age' = 0
        /\ UNCHANGED crashed
    BY <1>7 DEF AcceptHandler
  <2>2. IsClient(backlog)
    BY <1>2, AbsentIsClient, EmptySeq DEF IoTypeOK, IsClient, NoConn
  <2>3. IoTypeOK'
    BY <1>2, <2>1, <2>2, TimeoutAssumption DEF IoTypeOK, IsClient
  <2>4. QED
    BY <1>1, <1>7, <2>3, AcceptHandlerKeeps
<1>8. CASE AcceptThrows
  <2>1. /\ crashed' /\ UNCHANGED <<client, backlog, timer, age>>
    BY <1>8 DEF AcceptThrows
  <2>2. ControlInv'
    BY <2>1 DEF ControlInv, Polls
  <2>3. QED
    BY <1>1, <1>2, <2>1, <2>2 DEF ServerInv, IoTypeOK, BoundInv, Present
<1>9. CASE ReadHandler
  BY <1>1, <1>2, <1>9, ReadHandlerKeeps DEF IoTypeOK, ReadHandler
<1>10. CASE ReadAgain
  BY <1>1, <1>2, <1>10, ReadAgainKeeps DEF IoTypeOK, ReadAgain
<1>11. CASE ReadErrorHandler
  BY <1>1, <1>2, <1>11, DisconnectTypes, ReadErrorHandlerKeeps DEF ReadErrorHandler, FailedReadEnds
<1>12. CASE TimeoutDisconnects
  BY <1>1, <1>2, <1>12, DisconnectTypes, TimeoutDisconnectsKeeps DEF TimeoutDisconnects
<1>13. CASE TimeoutRearms
  BY <1>1, <1>2, <1>13, TimeoutAssumption, TimeoutRearmsKeeps DEF IoTypeOK, TimeoutRearms, Arms
<1>14. CASE RunLoops \/ RunHandles
  <2>1. UNCHANGED <<ioVars, running, stopper, crashed>>
    BY <1>14 DEF RunLoops, RunHandles, Handles, RunUnchanged
  <2>2. QED
    BY <1>1, <1>2, <2>1, ControlStays DEF ServerInv, ioVars, IoTypeOK, Present, Polls
<1>15. CASE StopBegins
  <2>1. /\ Polls /\ stopper = "no" /\ stopper' = "disconnect" /\ ~running'
        /\ UNCHANGED <<client, backlog, accepting, reading, timer, ready, rearm, age, crashed>>
    BY <1>15 DEF StopBegins, StopUnchanged, StopLeavesIO, Polls
  <2>2. Present' = Present
    BY <2>1 DEF Present
  <2>3. ControlInv'
    BY <2>1, <2>2 DEF ServerInv, ControlInv, ServingInv, IdleInv
  <2>4. QED
    BY <1>1, <1>2, <2>1, <2>2, <2>3 DEF ServerInv, IoTypeOK, BoundInv
<1>16. CASE StopDisconnects
  BY <1>1, <1>2, <1>16, DisconnectTypes, StopDisconnectsKeeps DEF StopDisconnects, StopUnchanged
<1>17. CASE StopStopsContext \/ StopStopsQueue \/ StopJoins
  <2>1. /\ UNCHANGED <<client, backlog, timer, age, crashed>>
        /\ stopper' \notin {"no", "disconnect", "context"}
    BY <1>17 DEF StopStopsContext, StopStopsQueue, StopJoins, Joins, StopUnchanged, StopLeavesIO
  <2>2. ControlInv'
    BY <2>1 DEF ControlInv, Polls
  <2>3. QED
    BY <1>1, <1>2, <2>1, <2>2 DEF ServerInv, IoTypeOK, BoundInv, Present
<1>18. CASE UNCHANGED vars
  <2>1. UNCHANGED <<ioVars, running, stopper, crashed>>
    BY <1>18 DEF vars
  <2>2. QED
    BY <1>1, <1>2, <2>1, ControlStays DEF ServerInv, ioVars, IoTypeOK, Present, Polls
<1>19. QED
  BY <1>3, <1>4, <1>5, <1>6, <1>7, <1>8, <1>9, <1>10, <1>11, <1>12, <1>13, <1>14, <1>15,
     <1>16, <1>17, <1>18 DEF Next, Worker, Stop, Ended

-----------------------------------------------------------------------------

\* Where "some" are queued.
Marked(handlers, some) == {i \in DOMAIN handlers : handlers[i] \in some}

\* How many of "some" are queued: as the queue is short, one at most.
LEMMA MarkedNone == ASSUME NEW some PROVE Marked(<<>>, some) = {}
  BY ShortSequences DEF Marked

LEMMA MarkedOne == ASSUME NEW g, NEW some PROVE Marked(<<g>>, some) = IF g \in some THEN {1} ELSE {}
  BY ShortSequences DEF Marked

LEMMA MarkedTwo ==
    ASSUME NEW g, NEW h, NEW some
    PROVE  /\ g \notin some => Marked(<<g, h>>, some) = IF h \in some THEN {2} ELSE {}
           /\ h \notin some => Marked(<<g, h>>, some) = IF g \in some THEN {1} ELSE {}
  BY ShortSequences DEF Marked

\* So counting them is asking for one, ...
LEMMA CountIsHas ==
    ASSUME NEW some,
           \/ ready = <<>>
           \/ \E g : ready = <<g>>
           \/ \E g, h : ready = <<g, h>> /\ (g \notin some \/ h \notin some)
    PROVE  Count(some) = One(Has(ready, some))
<1>1. Count(some) = Cardinality(Marked(ready, some))
  BY DEF Count, Marked
<1>2. Cardinality({}) = 0 /\ Cardinality({1}) = 1 /\ Cardinality({2}) = 1
  BY FS_EmptySet, FS_Singleton
<1>3. CASE ready = <<>>
  BY <1>1, <1>2, <1>3, MarkedNone, HasNone DEF One
<1>4. CASE \E g : ready = <<g>>
  <2>1. PICK g : ready = <<g>>
    BY <1>4
  <2>2. QED
    BY <1>1, <1>2, <2>1, MarkedOne, HasOne DEF One
<1>5. CASE \E g, h : ready = <<g, h>> /\ (g \notin some \/ h \notin some)
  <2>1. PICK g, h : ready = <<g, h>> /\ (g \notin some \/ h \notin some)
    BY <1>5
  <2>2. Has(ready, some) <=> g \in some \/ h \in some
    BY <2>1, HasTwo
  <2>3. Marked(ready, some) \in {{}, {1}, {2}} /\ (Marked(ready, some) = {} <=> ~Has(ready, some))
    <3>1. CASE g \notin some
      BY <2>1, <2>2, <3>1, MarkedTwo
    <3>2. CASE h \notin some
      BY <2>1, <2>2, <3>2, MarkedTwo
    <3>3. QED
      BY <2>1, <3>1, <3>2
  <2>4. QED
    BY <1>1, <1>2, <2>3 DEF One
<1>6. QED
  BY <1>3, <1>4, <1>5

\* ... for the handlers that ServesOrAccepts and ClientIsWatched count.
LEMMA CountsOfInv ==
    ASSUME ControlInv, Polls
    PROVE  /\ Count({"accept", "acceptError"}) = One(Has(ready, Accepts))
           /\ Count(ReadEnds) = One(Has(ready, ReadEnds))
<1>1. ReadEnds = {"read", "readError"} /\ Accepts = {"accept", "acceptError"}
  BY DEF ReadEnds, Accepts
<1>2. ready \in Serving \cup Leftover \cup Accepted \cup TimedOut
  BY DEF ControlInv, ServingInv, IdleInv
<1>3. CASE ready \in {<<"timer", h>> : h \in ReadEnds \cup Gone}
  <2>1. "timer" \notin ReadEnds \cup Accepts /\ \E h : ready = <<"timer", h>>
    BY <1>1, <1>3
  <2>2. QED
    BY <1>1, <2>1, CountIsHas
<1>4. CASE ready \in ({"timer"} \cup Gone) \X Accepts
  <2> DEFINE S == {"timer"} \cup Gone
  <2>1. ready \in S \X Accepts
    BY <1>4
  <2>2. \A g \in S : g \notin Accepts
    BY GoneHandlers DEF Accepts
  <2>3. \A h \in Accepts : h \notin ReadEnds
    BY <1>1
  <2> HIDE DEF S
  <2>4. PICK g \in S, h \in Accepts : ready = <<g, h>>
    BY <2>1
  <2>5. QED
    BY <1>1, <2>2, <2>3, <2>4, CountIsHas
<1>5. CASE ready = <<>> \/ \E g : ready = <<g>>
  BY <1>1, <1>5, CountIsHas
<1>6. QED
  BY <1>2, <1>3, <1>4, <1>5 DEF Serving, Leftover, Accepted, TimedOut

LEMMA AcceptedHas ==
    ASSUME ready \in Accepted
    PROVE  Has(ready, Accepts) /\ (ready \in {<<h>> : h \in Accepts} => ~Has(ready, ReadEnds))
<1>1. \A h \in Accepts : h \notin ReadEnds
  BY DEF Accepts, ReadEnds
<1>2. CASE ready \in {<<h>> : h \in Accepts}
  BY <1>1, <1>2, HasOne
<1>3. CASE ready \in ({"timer"} \cup Gone) \X Accepts
  <2> DEFINE S == {"timer"} \cup Gone
  <2>1. ready \in S \X Accepts
    BY <1>3
  <2> HIDE DEF S
  <2>2. PICK g \in S, h \in Accepts : ready = <<g, h>>
    BY <2>1
  <2>3. \A f : <<g, h>> # <<f>>
    OBVIOUS
  <2>4. QED
    BY <2>2, <2>3, HasTwo
<1>4. QED
  BY <1>2, <1>3 DEF Accepted

\* ServerInv implies three of the state properties.
LEMMA ServerInvImplies ==
    ASSUME ServerInv
    PROVE  ServesOrAccepts /\ SilenceBounded /\ ClientIsWatched
<1>1. SilenceBounded
  BY TimeoutAssumption DEF ServerInv, BoundInv, IoTypeOK, SilenceBounded
<1>2. ASSUME stopper = "no", ~crashed
      PROVE  /\ One(Present) + One(accepting) + Count({"accept", "acceptError"}) = 1
             /\ One(reading) + One(rearm) + Count(ReadEnds) \in {One(Present), 1}
             /\ IF Present THEN (timer > 0) # (QueuedHandlers("timer") # {})
                           ELSE ~reading
  <2>1. Polls
    BY <1>2 DEF Polls
  <2>2. /\ Count({"accept", "acceptError"}) = One(Has(ready, Accepts))
        /\ Count(ReadEnds) = One(Has(ready, ReadEnds))
    BY <2>1, CountsOfInv DEF ServerInv
  <2>3. (QueuedHandlers("timer") # {}) <=> Has(ready, {"timer"})
    BY DEF QueuedHandlers, Has
  <2>4. CASE Present
    <3>1. /\ ~accepting /\ ready \in Serving
          /\ reading => ~rearm /\ ~Has(ready, ReadEnds)
          /\ rearm => ~Has(ready, ReadEnds)
          /\ reading \/ rearm \/ Has(ready, ReadEnds)
          /\ timer > 0 <=> ~Has(ready, {"timer"})
      BY <2>1, <2>4 DEF ServerInv, ControlInv, ServingInv
    <3>2. ~Has(ready, Accepts)
      BY <3>1, HasNone, HasOne, HasTwo DEF Serving, Accepts, ReadEnds
    <3>3. QED
      BY <2>2, <2>3, <2>4, <3>1, <3>2 DEF One
  <2>5. CASE ~Present
    <3>1. /\ ~reading
          /\ \/ ready \in Leftover /\ accepting /\ (rearm => ready = <<>>)
             \/ /\ ready \in Accepted /\ ~accepting
                /\ rearm => ready \in {<<h>> : h \in Accepts}
      BY <1>2, <2>1, <2>5 DEF ServerInv, ControlInv, IdleInv
    <3>2. CASE ready \in Leftover /\ accepting /\ (rearm => ready = <<>>)
      <4>1. ~Has(ready, Accepts) /\ (rearm => ~Has(ready, ReadEnds))
        BY <3>2, GoneHandlers, HasNone, HasOne DEF Leftover, Accepts
      <4>2. QED
        BY <2>2, <2>5, <3>1, <3>2, <4>1 DEF One
    <3>3. CASE ready \in Accepted /\ ~accepting /\ (rearm => ready \in {<<h>> : h \in Accepts})
      <4>1. Has(ready, Accepts) /\ (rearm => ~Has(ready, ReadEnds))
        BY <3>3, AcceptedHas
      <4>2. QED
        BY <2>2, <2>5, <3>1, <3>3, <4>1 DEF One
    <3>4. QED
      BY <3>1, <3>2, <3>3
  <2>6. QED
    BY <2>4, <2>5
<1>3. QED
  BY <1>1, <1>2 DEF ServesOrAccepts, ClientIsWatched

\* The accept that has completed has its connection.
LEMMA AcceptHasPeer ==
    ASSUME ServerInv, AcceptHandler
    PROVE  backlog # NoConn
<1>1. Has(ready, {"accept"}) /\ Polls
  <2>1. Polls /\ ~rearm /\ ready # <<>> /\ Head(ready) = "accept"
    BY DEF AcceptHandler, Runs, Polling, Polls
  <2>2. ready \in Serving \cup Leftover \cup Accepted \cup TimedOut
    BY <2>1 DEF ServerInv, ControlInv, ServingInv, IdleInv
  <2>3. "accept" \notin ReadEnds \cup {"timer"} \cup Gone
    BY GoneHandlers DEF ReadEnds, Accepts
  <2>4. ready \in Accepted
    BY <2>1, <2>2, <2>3, TailOfServing, TailOfLeftover, TailOfTimedOut
  <2>5. QED
    BY <2>1, <2>4, TailOfAccepted
<1>2. QED
  BY <1>1 DEF ServerInv, ControlInv

\* Without a client, no handler leaves a read that was not there.
LEMMA OrphanIsOld ==
    ASSUME ServerInv, [Next]_vars, ~Present, ~Present', stopper = "no", ~crashed, ~Orphaned
    PROVE  ~Orphaned'
<1>1. QueuedHandlers("read") # {} <=> Has(ready, {"read"})
  BY DEF QueuedHandlers, Has
<1>2. QueuedHandlers("read")' # {} <=> Has(ready', {"read"})
  BY DEF QueuedHandlers, Has
<1>3. /\ ~reading /\ ~rearm /\ ~Has(ready, {"read"}) /\ ready \in Leftover \cup Accepted
  BY <1>1 DEF ServerInv, ControlInv, IdleInv, Polls, Orphaned
<1>4. CASE ready' = ready /\ rearm' = rearm
  BY <1>2, <1>3, <1>4 DEF Orphaned
<1>5. CASE AcceptCompletes \/ Tick
  <2>1. rearm' = rearm /\ (Tick => ready' \in {<<>>, <<"timer">>})
    BY <1>5 DEF AcceptCompletes, Tick, IoUnchanged
  <2>2. ASSUME AcceptCompletes PROVE ~Has(ready', {"read"})
    <3>1. PICK h \in Accepts : ready' = Append(ready, h)
      BY <2>2 DEF AcceptCompletes, Accepts
    <3>2. h # "read"
      BY DEF Accepts
    <3>3. ready \in Leftover
      BY <1>3, <2>2, TailOfAccepted DEF AcceptCompletes, ServerInv, ControlInv, IdleInv, Polling, Polls
    <3>4. CASE ready = <<>>
      BY <3>1, <3>2, <3>4, OneHandler, HasOne
    <3>5. CASE \E g : ready = <<g>>
      <4>1. PICK g : ready = <<g>>
        BY <3>5
      <4>2. g # "read" /\ ready' = <<g, h>>
        BY <1>3, <3>1, <4>1, HasOne, TwoHandlers
      <4>3. QED
        BY <3>2, <4>2, HasTwo
    <3>6. QED
      BY <3>3, <3>4, <3>5 DEF Leftover
  <2>3. ~Has(ready', {"read"})
    BY <1>5, <2>1, <2>2, HasNone, HasOne
  <2>4. QED
    BY <1>2, <1>3, <2>1, <2>3 DEF Orphaned
<1>6. CASE AcceptThrows \/ ReadErrorHandler \/ TimeoutDisconnects \/ TimeoutRearms
  <2>1. ready # <<>> /\ ready' = Tail(ready) /\ rearm' = rearm
    BY <1>6 DEF AcceptThrows, ReadErrorHandler, FailedReadEnds, TimeoutDisconnects, TimeoutRearms,
       Arms, Disconnect, Runs, Present
  <2>2. ~Has(ready', {"read"})
    <3>1. CASE ready \in Leftover
      BY <2>1, <3>1, TailOfLeftover, HasNone
    <3>2. CASE ready \in Accepted
      <4>1. Tail(ready) = <<>> \/ \E h \in Accepts : Tail(ready) = <<h>>
        BY <3>2, TailOfAccepted
      <4>2. QED
        <5>1. "read" \notin Accepts
          BY DEF Accepts
        <5>2. QED
          BY <2>1, <4>1, <5>1, HasNone, HasOne
    <3>3. QED
      BY <1>3, <3>1, <3>2
  <2>3. QED
    BY <1>2, <1>3, <2>1, <2>2 DEF Orphaned
<1>7. CASE ReadHandler
  <2>1. Has(ready, {"read"})
    <3>1. ready # <<>> /\ Head(ready) = "read"
      BY <1>7 DEF ReadHandler, Runs
    <3>2. CASE ready \in Leftover
      <4>1. PICK g : ready = <<g>>
        BY <3>1, <3>2 DEF Leftover
      <4>2. QED
        BY <3>1, <4>1, OneHandler, HasOne
    <3>3. CASE ready \in Accepted
      <4>1. "read" \notin Accepts
        BY DEF Accepts
      <4>2. CASE \E h \in Accepts : ready = <<h>>
        BY <3>1, <4>1, <4>2, OneHandler
      <4>3. CASE ready \in ({"timer"} \cup Gone) \X Accepts
        <5> DEFINE S == {"timer"} \cup Gone
        <5>1. ready \in S \X Accepts
          BY <4>3
        <5> HIDE DEF S
        <5>2. PICK g \in S, h \in Accepts : ready = <<g, h>>
          BY <5>1
        <5>3. QED
          BY <3>1, <5>2, TwoHandlers, HasTwo
      <4>4. QED
        BY <3>3, <4>2, <4>3 DEF Accepted
    <3>4. QED
      BY <1>3, <3>2, <3>3
  <2>2. QED
    BY <1>3, <2>1
<1>8. CASE AcceptHandler
  <2>1. client' = backlog /\ backlog # NoConn
    BY <1>8, AcceptHasPeer DEF AcceptHandler
  <2>2. QED
    BY <2>1, ConnIsReal DEF ServerInv, IoTypeOK, Present
<1>9. QED
  BY <1>3, <1>4, <1>5, <1>6, <1>7, <1>8 DEF Next, Worker, Stop, Ended, vars, ioVars, SensorSends,
     SensorConnects, SensorLeaves, EnvUnchanged, ReadCompletes, ReadAgain, RunLoops, RunHandles,
     Handles, RunUnchanged, StopBegins, StopDisconnects, Disconnect, StopStopsContext,
     StopStopsQueue, StopJoins, Joins, StopUnchanged, StopLeavesIO

\* A read's own handler and its ReceiveData find the socket, unless a timeout has
\* come between.
LEMMA KnownCrashesStep ==
    ASSUME ServerInv, [Next]_vars
    PROVE  /\ stopper = "no" /\ crashed' # crashed => AcceptThrows \/ Orphaned
           /\ stopper' = "no" /\ Orphaned' /\ ~Orphaned => TimeoutDisconnects
<1>1. crashed' # crashed => AcceptThrows \/ (ReadAgain /\ rearm /\ crashed' = ~Present /\ ~crashed)
  BY DEF Next, Worker, Stop, Ended, vars, SensorSends, SensorConnects, SensorLeaves, EnvUnchanged,
     AcceptCompletes, ReadCompletes, IoUnchanged, Tick, AcceptHandler, ReadHandler, ReadErrorHandler,
     FailedReadEnds, ReadAgain, TimeoutDisconnects, TimeoutRearms, Arms, RunLoops, RunHandles,
     Handles, RunUnchanged, StopBegins, StopDisconnects, StopStopsContext, StopStopsQueue, StopJoins,
     Joins, StopUnchanged
<1>2. crashed' # crashed => AcceptThrows \/ Orphaned
  BY <1>1 DEF ServerInv, IoTypeOK, Orphaned
<1>3. ASSUME stopper' = "no", Orphaned', ~Orphaned PROVE TimeoutDisconnects
  <2>1. stopper = "no"
    BY <1>3 DEF Next, Worker, Stop, Ended, vars, SensorSends, SensorConnects, SensorLeaves,
       EnvUnchanged, AcceptCompletes, ReadCompletes, IoUnchanged, Tick, AcceptHandler, AcceptThrows,
       ReadHandler, ReadErrorHandler, FailedReadEnds, ReadAgain, TimeoutDisconnects, TimeoutRearms,
       Arms, HandlerUnchanged, RunLoops, RunHandles, Handles, RunUnchanged, StopBegins,
       StopDisconnects, StopStopsContext, StopStopsQueue, StopJoins, Joins
  <2>2. ~Present'
    BY <1>3 DEF Orphaned
  <2>3. ~crashed
    \* Nothing but the sensor and Stop moves in a server that has ended.
    <3>1. ASSUME crashed PROVE UNCHANGED <<ready, rearm>> /\ Present' = Present
      <4>1. CASE SensorSends \/ SensorConnects \/ SensorLeaves
        BY <4>1, Env DEF ServerInv
      <4>2. CASE ~(SensorSends \/ SensorConnects \/ SensorLeaves)
        <5>1. UNCHANGED vars
          BY <3>1, <4>2 DEF Next, Worker, Stop, Ended, AcceptCompletes, ReadCompletes,
             Tick, Polling, Runs, AcceptHandler, AcceptThrows, ReadHandler, ReadErrorHandler,
             FailedReadEnds, ReadAgain, TimeoutDisconnects, TimeoutRearms, Arms, RunLoops,
             RunHandles, Handles, StopBegins, StopDisconnects, StopStopsContext, StopStopsQueue,
             StopJoins, Joins
        <5>2. QED
          BY <5>1 DEF Present, vars, ioVars
      <4>3. QED
        BY <4>1, <4>2
    <3>2. QED
      BY <1>3, <3>1 DEF Orphaned, QueuedHandlers
  <2>4. Present
    BY <1>3, <2>1, <2>2, <2>3, OrphanIsOld
  <2>5. ReadErrorHandler \/ TimeoutDisconnects
    <3>1. CASE SensorSends \/ SensorConnects \/ SensorLeaves
      BY <2>2, <2>4, <3>1, Env DEF ServerInv
    <3>2. CASE AcceptHandler
      <4>1. client' = backlog /\ backlog # NoConn
        BY <3>2, AcceptHasPeer DEF AcceptHandler
      <4>2. QED
        BY <2>2, <4>1, ConnIsReal DEF ServerInv, IoTypeOK, Present
    <3>3. CASE ReadHandler
      BY <2>2, <2>4, <3>3, ReadHandlerKeeps
    <3>4. CASE UNCHANGED client
      BY <2>2, <2>4, <3>4 DEF Present
    <3>5. CASE StopDisconnects
      BY <1>3, <3>5 DEF StopDisconnects
    <3>6. QED
      BY <3>1, <3>2, <3>3, <3>4, <3>5 DEF Next, Worker, Stop, Ended, vars, ioVars, AcceptCompletes,
         ReadCompletes, IoUnchanged, Tick, AcceptThrows, ReadAgain, TimeoutRearms, Arms, RunLoops,
         RunHandles, Handles, RunUnchanged, StopBegins, StopStopsContext, StopStopsQueue, StopJoins,
         Joins, StopLeavesIO
  <2>6. ASSUME ReadErrorHandler PROVE FALSE
    <3>1. /\ ~rearm /\ ready # <<>> /\ Head(ready) \in {"readError", "readAborted"}
          /\ Disconnect(Tail(ready)) /\ rearm' = rearm
      BY <2>6 DEF ReadErrorHandler, FailedReadEnds, Runs
    <3>2. /\ ready \in Serving /\ (reading => ~Has(ready, ReadEnds))
      BY <2>1, <2>3, <2>4 DEF ServerInv, ControlInv, ServingInv, Polls
    <3>3. Head(ready) \in ReadEnds
      BY <3>1, <3>2, TailOfServing DEF ReadEnds
    <3>4. Tail(ready) = <<>> /\ Tail(ready) \in Serving /\ ~reading /\ ~Has(Tail(ready), ReadEnds)
      BY <3>1, <3>2, <3>3, TailOfServing, HasNone
    <3>5. ready' = <<>>
      BY <2>4, <3>1, <3>4, DisconnectServing
    <3>6. QED
      BY <1>3, <3>1, <3>5, HasNone DEF Orphaned, QueuedHandlers, Has
  <2>7. QED
    BY <2>5, <2>6
<1>4. QED
  BY <1>2, <1>3

-----------------------------------------------------------------------------
(***************************************************************************)
(* The lines in a buffer.                                                  *)
(***************************************************************************)

Whole(pieces) == Cardinality(Ends(pieces))
End(pieces, k) == Nth(Ends(pieces), k)

\* The ends of the lines, in order, with nothing but unended pieces between.
LEMMA EndsInOrder ==
    ASSUME NEW pieces \in Seq(Pieces)
    PROVE  /\ Whole(pieces) \in Nat /\ Len(pieces) \in Nat
           /\ End(pieces, 0) = 0
           /\ \A k \in 0 .. Whole(pieces) : End(pieces, k) \in 0 .. Len(pieces)
           /\ \A k \in 1 .. Whole(pieces) :
                  /\ End(pieces, k) \in 1 .. Len(pieces) /\ pieces[End(pieces, k)].ends
                  /\ End(pieces, k - 1) \in 0 .. End(pieces, k) - 1
                  /\ \A j \in End(pieces, k - 1) + 1 .. End(pieces, k) - 1 : ~pieces[j].ends
           /\ \A j \in End(pieces, Whole(pieces)) + 1 .. Len(pieces) : ~pieces[j].ends
<1> DEFINE cuts == Ends(pieces)
           n == Len(pieces)
<1>1. n \in Nat /\ cuts \in SUBSET (1 .. n)
      /\ \A j \in 1 .. n : j \in cuts <=> pieces[j].ends
  <2>1. DOMAIN pieces = 1 .. Len(pieces) /\ Len(pieces) \in Nat
    BY LenProperties
  <2>2. QED
    BY <2>1 DEF Ends
<1> HIDE DEF cuts, n
<1>2. /\ Cardinality(cuts) \in Nat
      /\ Nth(cuts, 0) = 0
      /\ \A k \in 1 .. Cardinality(cuts) :
             /\ Nth(cuts, k) \in cuts
             /\ Nth(cuts, k - 1) \in 0 .. Nth(cuts, k) - 1
             /\ \A j \in cuts : ~(Nth(cuts, k - 1) < j /\ j < Nth(cuts, k))
      /\ Nth(cuts, Cardinality(cuts)) \in 0 .. n
      /\ \A j \in cuts : j <= Nth(cuts, Cardinality(cuts))
  BY <1>1, NthProperties
<1>3. ASSUME NEW k \in 1 .. Cardinality(cuts)
      PROVE  /\ Nth(cuts, k) \in 1 .. n /\ pieces[Nth(cuts, k)].ends
             /\ Nth(cuts, k - 1) \in 0 .. Nth(cuts, k) - 1
             /\ \A j \in Nth(cuts, k - 1) + 1 .. Nth(cuts, k) - 1 : ~pieces[j].ends
  <2>1. /\ Nth(cuts, k) \in cuts /\ Nth(cuts, k - 1) \in 0 .. Nth(cuts, k) - 1
        /\ \A j \in cuts : ~(Nth(cuts, k - 1) < j /\ j < Nth(cuts, k))
    BY <1>2
  <2>2. Nth(cuts, k) \in 1 .. n /\ pieces[Nth(cuts, k)].ends
    BY <1>1, <2>1
  <2>3. ASSUME NEW j \in Nth(cuts, k - 1) + 1 .. Nth(cuts, k) - 1 PROVE ~pieces[j].ends
    <3>1. j \in 1 .. n /\ Nth(cuts, k - 1) < j /\ j < Nth(cuts, k)
      BY <1>1, <2>1, <2>2
    <3>2. QED
      BY <1>1, <2>1, <3>1
  <2>4. QED
    BY <2>1, <2>2, <2>3
<1>4. ASSUME NEW j \in Nth(cuts, Cardinality(cuts)) + 1 .. n PROVE ~pieces[j].ends
  <2>1. j \in 1 .. n /\ ~(j <= Nth(cuts, Cardinality(cuts)))
    BY <1>1, <1>2
  <2>2. QED
    BY <1>1, <1>2, <2>1
<1>5. \A k \in 0 .. Cardinality(cuts) : Nth(cuts, k) \in 0 .. n
  <2> SUFFICES ASSUME NEW k \in 0 .. Cardinality(cuts) PROVE Nth(cuts, k) \in 0 .. n
    OBVIOUS
  <2>1. CASE k = 0
    BY <1>1, <1>2, <2>1
  <2>2. CASE k # 0
    <3>1. k \in 1 .. Cardinality(cuts)
      BY <2>2
    <3>2. Nth(cuts, k) \in 1 .. n
      BY <1>3, <3>1
    <3>3. QED
      BY <1>1, <3>2
  <2>3. QED
    BY <2>1, <2>2
<1>6. QED
  BY <1>1, <1>2, <1>3, <1>4, <1>5 DEF Whole, End, cuts, n

\* The k-th whole line is made of the pieces up to the k-th end.
LEMMA LinesAreLines ==
    ASSUME NEW pieces \in Seq(Pieces)
    PROVE  /\ Lines(pieces) \in Seq(Messages) /\ Len(Lines(pieces)) = Whole(pieces)
           /\ \A k \in 1 .. Whole(pieces) :
                  LET line == Lines(pieces)[k]
                      before == End(pieces, k - 1)
                  IN  /\ line.kind = "line"
                      /\ Len(line.pieces) = End(pieces, k) - before
                      /\ \A i \in 1 .. End(pieces, k) - before :
                             line.pieces[i] = pieces[before + i]
                      /\ Number(line) = pieces[End(pieces, k)].line
<1> DEFINE lines == Lines(pieces)
           m == Whole(pieces)
           end(k) == End(pieces, k)
<1>1. lines = [k \in 1 .. m |-> Line(SubSeq(pieces, end(k - 1) + 1, end(k)))]
  BY DEF Lines, Whole, End
<1>2. ASSUME NEW k \in 1 .. m
      PROVE  /\ lines[k] \in Messages /\ lines[k].kind = "line"
             /\ Len(lines[k].pieces) = end(k) - end(k - 1)
             /\ \A i \in 1 .. end(k) - end(k - 1) : lines[k].pieces[i] = pieces[end(k - 1) + i]
             /\ Number(lines[k]) = pieces[end(k)].line
  <2> DEFINE from == end(k - 1)
             to == end(k)
             part == SubSeq(pieces, from + 1, to)
  <2>1. from \in Nat /\ to \in 1 .. Len(pieces) /\ from < to
    BY EndsInOrder
  <2>2. lines[k] = Line(part)
    BY <1>1
  <2> HIDE DEF from, to, lines
  <2>3. /\ part \in Seq(Pieces) /\ Len(part) = to - from
        /\ \A i \in 1 .. to - from : part[i] = pieces[from + i]
    <3>1. \A i \in from + 1 .. to : pieces[i] \in Pieces
      BY <2>1, ElementOfSeq
    <3>2. /\ part \in Seq(Pieces)
          /\ Len(part) = IF from + 1 <= to THEN (to - (from + 1)) + 1 ELSE 0
          /\ \A i \in 1 .. (to - (from + 1)) + 1 : part[i] = pieces[((from + 1) + i) - 1]
      BY <2>1, <3>1, SubSeqProperties
    <3>3. (to - (from + 1)) + 1 = to - from
          /\ \A i \in 1 .. to - from : ((from + 1) + i) - 1 = from + i
      BY <2>1
    <3>4. QED
      BY <2>1, <3>2, <3>3
  <2> HIDE DEF part
  <2>4. Number(lines[k]) = pieces[to].line
    <3>1. to - from \in 1 .. to - from /\ from + (to - from) = to
      BY <2>1
    <3>2. part[Len(part)] = pieces[to]
      BY <2>3, <3>1
    <3>3. QED
      BY <2>2, <3>2 DEF Number, Line
  <2>5. QED
    BY <2>2, <2>3, <2>4 DEF Line, Messages, from, to
<1> HIDE DEF lines, m, end
<1>3. m \in Nat
  BY EndsInOrder DEF m
<1>4. lines \in Seq(Messages) /\ Len(lines) = m
  <2>1. lines \in [1 .. m -> Messages]
    BY <1>1, <1>2
  <2>2. lines \in Seq(Messages)
    BY <1>3, <2>1, SeqDef
  <2>3. DOMAIN lines = 1 .. m
    BY <2>1
  <2>4. QED
    BY <1>3, <2>2, <2>3, LenProperties
<1>5. QED
  BY <1>2, <1>4 DEF lines, m, end

\* What is left has no end.
LEMMA RestIsUnended ==
    ASSUME NEW pieces \in Seq(Pieces)
    PROVE  /\ Rest(pieces) \in Seq(Pieces)
           /\ Len(Rest(pieces)) = Len(pieces) - End(pieces, Whole(pieces))
           /\ \A i \in 1 .. Len(Rest(pieces)) :
                  /\ Rest(pieces)[i] = pieces[End(pieces, Whole(pieces)) + i]
                  /\ ~Rest(pieces)[i].ends
<1> DEFINE last == End(pieces, Whole(pieces))
           n == Len(pieces)
           rest == Rest(pieces)
<1>1. n \in Nat /\ last \in 0 .. n /\ \A j \in last + 1 .. n : ~pieces[j].ends
  <2>1. Whole(pieces) \in 0 .. Whole(pieces)
    BY EndsInOrder
  <2>2. QED
    BY <2>1, EndsInOrder
<1>2. rest = SubSeq(pieces, last + 1, n)
  BY DEF Rest, End, Whole
<1>3. \A i \in last + 1 .. n : pieces[i] \in Pieces
  BY <1>1, ElementOfSeq
<1> HIDE DEF last, n, rest
<1>4. /\ rest \in Seq(Pieces)
      /\ Len(rest) = IF last + 1 <= n THEN (n - (last + 1)) + 1 ELSE 0
      /\ \A i \in 1 .. (n - (last + 1)) + 1 : rest[i] = pieces[((last + 1) + i) - 1]
  BY <1>1, <1>2, <1>3, SubSeqProperties
<1>5. Len(rest) = n - last
  BY <1>1, <1>4
<1>6. ASSUME NEW i \in 1 .. n - last PROVE rest[i] = pieces[last + i] /\ ~rest[i].ends
  <2>1. i \in 1 .. (n - (last + 1)) + 1 /\ ((last + 1) + i) - 1 = last + i /\ last + i \in last + 1 .. n
    BY <1>1
  <2>2. QED
    BY <1>1, <1>4, <2>1
<1>7. QED
  BY <1>4, <1>5, <1>6 DEF last, n, rest

-----------------------------------------------------------------------------
(***************************************************************************)
(* The types.                                                              *)
(***************************************************************************)

\* Part of a sequence is one of the same elements.
LEMMA PartOf ==
    ASSUME NEW S, NEW s \in Seq(S), NEW from \in 1 .. Len(s) + 1, NEW to \in 0 .. Len(s)
    PROVE  /\ SubSeq(s, from, to) \in Seq(S)
           /\ Len(SubSeq(s, from, to)) = IF from <= to THEN (to - from) + 1 ELSE 0
           /\ \A i \in 1 .. (to - from) + 1 : SubSeq(s, from, to)[i] = s[(from + i) - 1]
<1>1. Len(s) \in Nat /\ from \in Int /\ to \in Int
  BY LenProperties
<1>2. \A i \in from .. to : s[i] \in S
  BY <1>1, ElementOfSeq
<1>3. QED
  BY <1>1, <1>2, SubSeqProperties

LEMMA WholeSeq ==
    ASSUME NEW S, NEW s \in Seq(S)
    PROVE  SubSeq(s, 1, Len(s)) = s
<1>1. Len(s) \in Nat
  BY LenProperties
<1>2. 1 \in 1 .. Len(s) + 1 /\ Len(s) \in 0 .. Len(s)
  BY <1>1
<1> DEFINE part == SubSeq(s, 1, Len(s))
<1>3. /\ part \in Seq(S)
      /\ Len(part) = IF 1 <= Len(s) THEN (Len(s) - 1) + 1 ELSE 0
      /\ \A i \in 1 .. (Len(s) - 1) + 1 : part[i] = s[(1 + i) - 1]
  BY <1>2, PartOf
<1> HIDE DEF part
<1>4. Len(part) = Len(s) /\ \A i \in 1 .. Len(s) : part[i] = s[i]
  <2>1. /\ (IF 1 <= Len(s) THEN (Len(s) - 1) + 1 ELSE 0) = Len(s)
        /\ (Len(s) - 1) + 1 = Len(s) /\ \A i \in 1 .. Len(s) : (1 + i) - 1 = i
    BY <1>1
  <2>2. QED
    BY <1>3, <2>1
<1>5. part = s
  BY <1>3, <1>4, SeqEqual
<1>6. QED
  BY <1>5 DEF part

LEMMA NoneLeft ==
    ASSUME NEW S, NEW s \in Seq(S)
    PROVE  SubSeq(s, Len(s) + 1, Len(s)) = <<>>
<1>1. Len(s) \in Nat
  BY LenProperties
<1>2. Len(s) + 1 \in 1 .. Len(s) + 1 /\ Len(s) \in 0 .. Len(s) /\ ~(Len(s) + 1 <= Len(s))
  BY <1>1
<1>3. SubSeq(s, Len(s) + 1, Len(s)) \in Seq(S) /\ Len(SubSeq(s, Len(s) + 1, Len(s))) = 0
  BY <1>2, PartOf
<1>4. QED
  BY <1>3, EmptySeq

\* What a read that gets n pieces has in the buffer, and what it makes of it.
Buffered(n) == stringBuffer \o SubSeq(client.inbox, 1, n)

ReadsPieces(n) ==
    /\ stringBuffer' = Rest(Buffered(n))
    /\ queue' = queue \o Lines(Buffered(n))
    /\ carried' = (carried /\ Lines(Buffered(n)) = <<>>)
    /\ client' = [client EXCEPT !.inbox = SubSeq(@, n + 1, Len(@))]

LEMMA ReadPieces ==
    ASSUME IsClient(client), stringBuffer \in Seq(Pieces), ReadHandler
    PROVE  \E n \in 1 .. Len(client.inbox) :
               /\ ReadsPieces(n)
               /\ Buffered(n) \in Seq(Pieces)
               /\ Present \/ n = Len(client.inbox)
<1>1. PICK n \in 1 .. Len(client.inbox) : ReadsPieces(n) /\ (Present \/ n = Len(client.inbox))
  BY DEF ReadHandler, ReadsPieces, Buffered
<1>2. client.inbox \in Seq(Pieces) /\ Len(client.inbox) \in Nat
  BY ClientIsReal, LenProperties
<1>3. SubSeq(client.inbox, 1, n) \in Seq(Pieces)
  <2>1. 1 \in 1 .. Len(client.inbox) + 1 /\ n \in 0 .. Len(client.inbox)
    BY <1>1, <1>2
  <2>2. QED
    BY <1>2, <2>1, PartOf
<1>4. Buffered(n) \in Seq(Pieces)
  BY <1>3, ConcatProperties DEF Buffered
<1>5. QED
  BY <1>1, <1>4

LEMMA ReadTypes ==
    ASSUME TypeOK, ReadHandler, IsClient(client)
    PROVE  /\ stringBuffer' \in Seq(Pieces)
           /\ carried' \in BOOLEAN /\ queue' \in Seq(Messages)
<1>1. stringBuffer \in Seq(Pieces) /\ queue \in Seq(Messages) /\ carried \in BOOLEAN
  BY DEF TypeOK
<1>2. PICK n \in 1 .. Len(client.inbox) : ReadsPieces(n) /\ Buffered(n) \in Seq(Pieces)
  BY <1>1, ReadPieces
<1> DEFINE pieces == Buffered(n)
<1>3. /\ pieces \in Seq(Pieces) /\ stringBuffer' = Rest(pieces)
      /\ queue' = queue \o Lines(pieces) /\ carried' = (carried /\ Lines(pieces) = <<>>)
  BY <1>2 DEF ReadsPieces
<1> HIDE DEF pieces
<1>4. Rest(pieces) \in Seq(Pieces) /\ Lines(pieces) \in Seq(Messages)
  BY <1>3, LinesAreLines, RestIsUnended
<1>5. queue' \in Seq(Messages)
  BY <1>1, <1>3, <1>4, ConcatProperties
<1>6. carried' \in BOOLEAN
  BY <1>1, <1>3
<1>7. QED
  BY <1>3, <1>4, <1>5, <1>6

\* Disconnect appends an event, and a handler at most.
LEMMA DisconnectTypesOK ==
    ASSUME TypeOK, NEW rest \in Seq(Handlers), Disconnect(rest)
    PROVE  /\ timer' \in 0 .. TimeoutTicks
           /\ queue' \in Seq(Messages) /\ ready' \in Seq(Handlers)
           /\ reading' \in BOOLEAN /\ accepting' \in BOOLEAN
<1>1. queue \in Seq(Messages) /\ timer \in 0 .. TimeoutTicks /\ accepting \in BOOLEAN
      /\ running \in BOOLEAN
  BY DEF TypeOK
<1>2. Event("Disconnected") \in Messages
  BY DEF Event, Messages
<1>3. queue' \in Seq(Messages)
  BY <1>1, <1>2, AppendProperties DEF Disconnect
<1>4. ready' \in Seq(Handlers)
  <2>1. "readAborted" \in Handlers
    BY DEF Handlers
  <2>2. ASSUME Completed(rest) PROVE WithoutRead(rest) \in Seq(Handlers)
    <3> DEFINE taken == CHOOSE i \in DOMAIN rest : rest[i] \in ReadEnds
    <3>1. taken \in DOMAIN rest
      BY <2>2 DEF Completed
    <3>2. taken \in 1 .. Len(rest) /\ Len(rest) \in Nat
      BY <3>1, LenProperties
    <3>3. WithoutRead(rest) = SubSeq(rest, 1, taken - 1) \o SubSeq(rest, taken + 1, Len(rest))
      BY DEF WithoutRead
    <3> HIDE DEF taken
    <3>4. /\ 1 \in 1 .. Len(rest) + 1 /\ taken - 1 \in 0 .. Len(rest)
          /\ taken + 1 \in 1 .. Len(rest) + 1 /\ Len(rest) \in 0 .. Len(rest)
      BY <3>2
    <3>5. SubSeq(rest, 1, taken - 1) \in Seq(Handlers)
          /\ SubSeq(rest, taken + 1, Len(rest)) \in Seq(Handlers)
      BY <3>4, PartOf
    <3>6. QED
      BY <3>3, <3>5, ConcatProperties
  <2>3. \/ ready' = rest \/ ready' = Append(rest, "readAborted")
        \/ Completed(rest) /\ ready' = Append(WithoutRead(rest), "readAborted")
    BY DEF Disconnect, AbortsRead, MissesRead
  <2>4. \A handlers \in Seq(Handlers) : Append(handlers, "readAborted") \in Seq(Handlers)
    BY <2>1, AppendProperties
  <2>5. ASSUME Completed(rest), ready' = Append(WithoutRead(rest), "readAborted")
        PROVE  ready' \in Seq(Handlers)
    BY <2>2, <2>4, <2>5
  <2>6. ASSUME ready' = Append(rest, "readAborted") PROVE ready' \in Seq(Handlers)
    BY <2>4, <2>6
  <2>7. QED
    BY <2>3, <2>5, <2>6
<1>5. reading' = FALSE /\ timer' = (IF Present THEN 0 ELSE timer)
      /\ accepting' = AcceptsAgain
  BY DEF Disconnect
<1>6. timer' \in 0 .. TimeoutTicks /\ accepting' \in BOOLEAN
  BY <1>1, <1>5, TimeoutAssumption DEF AcceptsAgain
<1>7. QED
  BY <1>3, <1>4, <1>5, <1>6

LEMMA TypesAtFirst == Init => TypeOK
<1> SUFFICES ASSUME Init PROVE TypeOK
  OBVIOUS
<1>1. <<>> \in Seq(Handlers) /\ <<>> \in Seq(Pieces) /\ <<>> \in Seq(Messages)
  BY EmptySeq
<1>2. 0 \in 0 .. TimeoutTicks
  BY TimeoutAssumption
<1>3. IsClient(client)
  BY <1>1, AbsentIsClient DEF Init, NoConn
<1>4. QED
  BY <1>1, <1>2, <1>3 DEF Init, TypeOK, IsClient

\* A worker's handler: the rest of "ready" is left.
LEMMA HandlerRest ==
    ASSUME TypeOK, NEW handler, Runs(handler)
    PROVE  Tail(ready) \in Seq(Handlers)
<1>1. ready \in Seq(Handlers) /\ ready # <<>>
  BY DEF TypeOK, Runs
<1>2. QED
  BY <1>1, HeadTailProperties

LEMMA TypesStay == TypeOK /\ ServerInv /\ [Next]_vars => TypeOK'
<1> SUFFICES ASSUME TypeOK, ServerInv, [Next]_vars PROVE TypeOK'
  OBVIOUS
\* ServerInv has the client's type, and the backlog's.
<1>a. IsClient(client) /\ IsClient(client') /\ backlog' \in Conns \cup {NoConn}
  BY ServerSteps DEF ServerInv, IoTypeOK, IsClient
<1>0. /\ IsClient(client) /\ backlog \in Conns \cup {NoConn}
      /\ accepting \in BOOLEAN /\ reading \in BOOLEAN /\ rearm \in BOOLEAN
      /\ timer \in 0 .. TimeoutTicks /\ age \in Nat /\ ready \in Seq(Handlers)
      /\ stringBuffer \in Seq(Pieces) /\ carried \in BOOLEAN /\ queue \in Seq(Messages)
      /\ running \in BOOLEAN /\ crashed \in BOOLEAN /\ TimeoutTicks \in Nat \ {0}
  BY <1>a, TimeoutAssumption DEF TypeOK
<1>1. CASE SensorSends \/ SensorConnects \/ SensorLeaves
  <2>1. EnvUnchanged
    BY <1>1 DEF SensorSends, SensorConnects, SensorLeaves
  <2>2. QED
    BY <1>a, <2>1 DEF TypeOK, IsClient, EnvUnchanged, bufferVars
<1>2. CASE AcceptCompletes \/ ReadCompletes
  <2>1. PICK handler \in Handlers : ready' = Append(ready, handler)
    BY <1>2 DEF AcceptCompletes, ReadCompletes, Handlers
  <2>2. ready' \in Seq(Handlers)
    BY <1>0, <2>1, AppendProperties
  <2>3. accepting' \in BOOLEAN /\ reading' \in BOOLEAN /\ UNCHANGED timer /\ IoUnchanged
    BY <1>0, <1>2 DEF AcceptCompletes, ReadCompletes
  <2>4. QED
    BY <1>a, <2>2, <2>3 DEF TypeOK, IsClient, IoUnchanged, bufferVars
<1>3. CASE Tick
  <2>1. age' \in Nat /\ timer' \in 0 .. TimeoutTicks
    BY <1>0, <1>3 DEF Tick
  <2>2. ready' \in Seq(Handlers)
    <3>1. "timer" \in Handlers
      BY DEF Handlers
    <3>2. <<"timer">> \in Seq(Handlers) /\ <<>> \in Seq(Handlers)
      BY <3>1
    <3>3. QED
      BY <1>3, <3>2 DEF Tick
  <2>3. QED
    BY <1>a, <1>3, <2>1, <2>2 DEF TypeOK, IsClient, Tick, bufferVars
<1>4. CASE AcceptHandler
  <2>1. Tail(ready) \in Seq(Handlers)
    BY <1>4, HandlerRest DEF AcceptHandler
  <2>2. Event("Connected") \in Messages
    BY DEF Event, Messages
  <2>3. queue' \in Seq(Messages)
    BY <1>0, <1>4, <2>2, AppendProperties DEF AcceptHandler
  <2>4. carried' \in BOOLEAN /\ timer' \in 0 .. TimeoutTicks /\ age' \in Nat
    BY <1>0, <1>4 DEF AcceptHandler
  <2>5. reading' = TRUE /\ ready' = Tail(ready) /\ UNCHANGED <<accepting, rearm, stringBuffer, crashed>>
        /\ HandlerUnchanged
    BY <1>4 DEF AcceptHandler
  <2>6. QED
    BY <1>a, <2>1, <2>3, <2>4, <2>5 DEF TypeOK, IsClient, HandlerUnchanged
<1>5. CASE AcceptThrows
  <2>1. Tail(ready) \in Seq(Handlers)
    BY <1>5, HandlerRest DEF AcceptThrows
  <2>2. QED
    BY <1>a, <1>5, <2>1 DEF TypeOK, IsClient, AcceptThrows, HandlerUnchanged, bufferVars
<1>6. CASE ReadHandler
  <2>1. Tail(ready) \in Seq(Handlers)
    BY <1>6, HandlerRest DEF ReadHandler
  <2>2. stringBuffer' \in Seq(Pieces) /\ carried' \in BOOLEAN /\ queue' \in Seq(Messages)
    BY <1>a, <1>6, ReadTypes
  <2>3. age' = 0 /\ rearm' = TRUE /\ ready' = Tail(ready)
        /\ UNCHANGED <<backlog, accepting, reading, timer, crashed>> /\ HandlerUnchanged
    BY <1>6 DEF ReadHandler
  <2>4. QED
    BY <1>a, <2>1, <2>2, <2>3 DEF TypeOK, IsClient, HandlerUnchanged
<1>7. CASE ReadAgain
  <2>1. Present \in BOOLEAN /\ (~Present) \in BOOLEAN
    BY DEF Present
  <2>2. QED
    BY <1>a, <1>7, <2>1 DEF TypeOK, IsClient, ReadAgain, HandlerUnchanged, bufferVars
<1>8. CASE ReadErrorHandler \/ TimeoutDisconnects
  <2>1. Tail(ready) \in Seq(Handlers)
    BY <1>8, HandlerRest DEF ReadErrorHandler, FailedReadEnds, TimeoutDisconnects
  <2>2. Disconnect(Tail(ready)) /\ UNCHANGED <<backlog, rearm, age, bufferVars, crashed>>
        /\ HandlerUnchanged
    BY <1>8 DEF ReadErrorHandler, FailedReadEnds, TimeoutDisconnects
  <2>3. QED
    BY <1>a, <2>1, <2>2, DisconnectTypesOK DEF TypeOK, IsClient, HandlerUnchanged, bufferVars
<1>9. CASE TimeoutRearms
  <2>1. Tail(ready) \in Seq(Handlers)
    BY <1>9, HandlerRest DEF TimeoutRearms, Arms
  <2>2. timer' \in 0 .. TimeoutTicks
    BY <1>0, <1>9 DEF TimeoutRearms, Arms
  <2>3. QED
    BY <1>a, <1>9, <2>1, <2>2 DEF TypeOK, IsClient, TimeoutRearms, Arms, HandlerUnchanged, bufferVars
<1>10. CASE RunLoops
  BY <1>a, <1>10 DEF TypeOK, IsClient, RunLoops, RunUnchanged, ioVars, bufferVars
<1>11. CASE RunHandles
  <2>1. queue # <<>> /\ queue' = Tail(queue) /\ runner' = "loop" /\ RunUnchanged
        /\ status' = (IF Head(queue).kind = "line" THEN status ELSE Head(queue).kind)
    BY <1>11 DEF RunHandles, Handles
  <2>2. queue' \in Seq(Messages) /\ Head(queue) \in Messages
    BY <1>0, <2>1, HeadTailProperties
  <2>3. status' \in {"Connected", "Disconnected"}
    BY <2>1, <2>2 DEF Messages, TypeOK
  <2>4. QED
    BY <1>a, <2>1, <2>2, <2>3 DEF TypeOK, IsClient, RunUnchanged, ioVars, bufferVars
<1>12. CASE StopBegins \/ StopStopsContext \/ StopStopsQueue \/ StopJoins
  <2>1. /\ running' \in BOOLEAN /\ UNCHANGED queue /\ StopLeavesIO /\ StopUnchanged
        /\ stopper' \in {"disconnect", "queue", "join", "stopped"}
    BY <1>0, <1>12 DEF StopBegins, StopStopsContext, StopStopsQueue, StopJoins, Joins
  <2>2. QED
    BY <1>a, <2>1 DEF TypeOK, IsClient, StopLeavesIO, StopUnchanged, bufferVars
<1>13. CASE StopDisconnects
  <2>1. Disconnect(ready) /\ stopper' = "context" /\ UNCHANGED running /\ StopUnchanged
    BY <1>13 DEF StopDisconnects
  <2>2. QED
    BY <1>a, <1>0, <2>1, DisconnectTypesOK DEF TypeOK, IsClient, StopUnchanged, bufferVars
<1>14. CASE UNCHANGED vars
  BY <1>a, <1>14 DEF TypeOK, IsClient, vars, ioVars, bufferVars
<1>15. QED
  BY <1>1, <1>2, <1>3, <1>4, <1>5, <1>6, <1>7, <1>8, <1>9, <1>10, <1>11, <1>12, <1>13, <1>14
     DEF Next, Worker, Stop, Ended

-----------------------------------------------------------------------------
(***************************************************************************)
(* What the UI shows.  Present changes only in AcceptHandler and           *)
(* Disconnect, each with an event; lines in between decide nothing.        *)
(***************************************************************************)

\* What the UI shows once it has handled all that is queued: the last event of
\* the queue, or, behind lines only, what it shows now.
ShowsConnected(messages, shown) ==
    \/ \E i \in DOMAIN messages :
            /\ messages[i].kind = "Connected"
            /\ \A j \in DOMAIN messages : j > i => messages[j].kind = "line"
    \/ shown = "Connected" /\ \A i \in DOMAIN messages : messages[i].kind = "line"

StatusInv ==
    /\ \E S : queue \in Seq(S)
    /\ stringBuffer \in Seq(Pieces)
    /\ running => (ShowsConnected(queue, status) <=> Present)

\* An event decides what is shown after it, ...
LEMMA EventShows ==
    ASSUME NEW S, NEW messages \in Seq(S), NEW event \in S, event.kind # "line", NEW shown
    PROVE  ShowsConnected(Append(messages, event), shown) <=> event.kind = "Connected"
<1> DEFINE after == Append(messages, event)
           n == Len(messages)
<1>1. /\ n \in Nat /\ DOMAIN after = 1 .. n + 1
      /\ after[n + 1] = event
  BY AppendProperties, LenProperties
<1> HIDE DEF after, n
<1>2. n + 1 \in DOMAIN after /\ \A j \in DOMAIN after : ~(j > n + 1) /\ (j # n + 1 => n + 1 > j)
  BY <1>1
<1>3. ShowsConnected(after, shown) <=> event.kind = "Connected"
  BY <1>1, <1>2 DEF ShowsConnected
<1>4. QED
  BY <1>3 DEF after

\* ... lines decide nothing, ...
LEMMA LinesShowNothing ==
    ASSUME NEW S, NEW messages \in Seq(S), NEW lines \in Seq(S), NEW shown,
           \A i \in DOMAIN lines : lines[i].kind = "line"
    PROVE  ShowsConnected(messages \o lines, shown) <=> ShowsConnected(messages, shown)
<1> DEFINE after == messages \o lines
           m == Len(messages)
           n == Len(lines)
<1>1. /\ m \in Nat /\ n \in Nat /\ DOMAIN after = 1 .. m + n
      /\ DOMAIN messages = 1 .. m /\ DOMAIN lines = 1 .. n
      /\ \A i \in 1 .. m + n : after[i] = IF i <= m THEN messages[i] ELSE lines[i - m]
  <2>1. messages \o lines \in Seq(S) /\ Len(messages \o lines) = m + n
    BY ConcatProperties
  <2>2. QED
    BY <2>1, ConcatProperties, LenProperties
<1> HIDE DEF after, m, n
<1>2. \A i \in 1 .. m : i \in DOMAIN after /\ after[i] = messages[i]
  BY <1>1
<1>3. \A i \in DOMAIN after : i > m => after[i].kind = "line"
  <2>1. \A i \in DOMAIN after : i > m => i - m \in DOMAIN lines /\ after[i] = lines[i - m]
    BY <1>1
  <2>2. QED
    BY <2>1
<1>4. \A i \in DOMAIN after : i \in 1 .. m \/ i > m
  BY <1>1
<1>5. "Connected" # "line"
  OBVIOUS
<1>6. ShowsConnected(after, shown) <=> ShowsConnected(messages, shown)
  <2>1. ASSUME NEW i \in 1 .. m
        PROVE  (\A j \in DOMAIN after : j > i => after[j].kind = "line")
               <=> (\A j \in DOMAIN messages : j > i => messages[j].kind = "line")
    BY <1>1, <1>2, <1>3, <1>4
  <2>2. (\A j \in DOMAIN after : after[j].kind = "line")
        <=> (\A j \in DOMAIN messages : messages[j].kind = "line")
    BY <1>1, <1>2, <1>3, <1>4
  <2>3. \A i \in DOMAIN after : after[i].kind = "Connected" => i \in 1 .. m /\ messages[i].kind = "Connected"
    BY <1>2, <1>3, <1>4, <1>5
  <2>4. \A i \in 1 .. m : messages[i].kind = "Connected" => i \in DOMAIN after /\ after[i].kind = "Connected"
    BY <1>2
  <2>5. QED
    BY <1>1, <2>1, <2>2, <2>3, <2>4 DEF ShowsConnected
<1>7. QED
  BY <1>6 DEF after

\* ... and handling the oldest message changes nothing either.
LEMMA HandlingShows ==
    ASSUME NEW S, NEW messages \in Seq(S), messages # <<>>, NEW shown,
           NEW later, later = IF Head(messages).kind = "line" THEN shown ELSE Head(messages).kind
    PROVE  ShowsConnected(Tail(messages), later) <=> ShowsConnected(messages, shown)
<1> DEFINE first == Head(messages)
           after == Tail(messages)
           n == Len(messages)
<1>1. /\ n \in Nat \ {0} /\ DOMAIN messages = 1 .. n /\ DOMAIN after = 1 .. n - 1
      /\ messages[1] = first
      /\ \A i \in 1 .. n - 1 : after[i] = messages[i + 1]
  <2>1. Tail(messages) \in Seq(S) /\ Len(Tail(messages)) = n - 1
    BY HeadTailProperties
  <2>2. Head(messages) = messages[1]
    OBVIOUS
  <2>3. QED
    BY <2>1, <2>2, HeadTailProperties, LenProperties, EmptySeq
<1>2. later = IF first.kind = "line" THEN shown ELSE first.kind
  OBVIOUS
<1> HIDE DEF first, after, n
<1>3. \A i \in DOMAIN after : i + 1 \in DOMAIN messages /\ after[i] = messages[i + 1] /\ i + 1 > 1
  BY <1>1
<1>4. \A i \in DOMAIN messages : i = 1 \/ (i - 1 \in DOMAIN after /\ after[i - 1] = messages[i] /\ i > 1)
  BY <1>1
<1>5. 1 \in DOMAIN messages
  BY <1>1
<1>6. (\A j \in DOMAIN after : after[j].kind = "line")
      <=> (\A j \in DOMAIN messages : j > 1 => messages[j].kind = "line")
  <2>1. \A j \in DOMAIN messages : j > 1 => j - 1 \in DOMAIN after /\ after[j - 1] = messages[j]
    BY <1>1
  <2>2. QED
    BY <1>3, <2>1
<1>7. ASSUME NEW i \in DOMAIN after
      PROVE  (\A j \in DOMAIN after : j > i => after[j].kind = "line")
             <=> (\A j \in DOMAIN messages : j > i + 1 => messages[j].kind = "line")
  <2>1. \A j \in DOMAIN messages : j > i + 1 => j - 1 \in DOMAIN after /\ after[j - 1] = messages[j] /\ j - 1 > i
    BY <1>1
  <2>2. \A j \in DOMAIN after : j > i => j + 1 \in DOMAIN messages /\ after[j] = messages[j + 1] /\ j + 1 > i + 1
    BY <1>1
  <2>3. QED
    BY <2>1, <2>2
<1>8. (\E i \in DOMAIN messages :
            /\ i # 1 /\ messages[i].kind = "Connected"
            /\ \A j \in DOMAIN messages : j > i => messages[j].kind = "line")
      <=> (\E i \in DOMAIN after :
            /\ after[i].kind = "Connected"
            /\ \A j \in DOMAIN after : j > i => after[j].kind = "line")
  <2>1. \A i \in DOMAIN messages : i # 1 => i - 1 \in DOMAIN after /\ after[i - 1] = messages[i] /\ (i - 1) + 1 = i
    BY <1>1
  <2>2. \A i \in DOMAIN after : i + 1 # 1
    BY <1>1
  <2>3. QED
    BY <1>3, <1>7, <2>1, <2>2
<1>9. (\A j \in DOMAIN messages : messages[j].kind = "line")
      <=> first.kind = "line" /\ (\A j \in DOMAIN messages : j > 1 => messages[j].kind = "line")
  BY <1>1, <1>4, <1>5
<1>10. ShowsConnected(after, later) <=> ShowsConnected(messages, shown)
  <2> DEFINE Behind(i) == \A j \in DOMAIN messages : j > i => messages[j].kind = "line"
  <2>1. (\E i \in DOMAIN messages : messages[i].kind = "Connected" /\ Behind(i))
        <=> \/ first.kind = "Connected" /\ Behind(1)
            \/ \E i \in DOMAIN messages : i # 1 /\ messages[i].kind = "Connected" /\ Behind(i)
    BY <1>1, <1>5
  <2>2. (later = "Connected" /\ Behind(1))
        <=> \/ first.kind = "Connected" /\ Behind(1)
            \/ first.kind = "line" /\ shown = "Connected" /\ Behind(1)
    BY <1>2
  <2>3. QED
    BY <1>6, <1>8, <1>9, <2>1, <2>2 DEF ShowsConnected
<1>11. QED
  BY <1>10 DEF after

\* The three ways the queue changes keep StatusInv: an event, ...
LEMMA EventKeepsStatus ==
    ASSUME StatusInv, NEW type, type # "line",
           queue' = Append(queue, Event(type)), UNCHANGED <<status, stringBuffer>>,
           running' => (Present' <=> type = "Connected")
    PROVE  StatusInv'
<1> DEFINE event == Event(type)
<1>1. event.kind = type
  BY DEF Event
<1> HIDE DEF event
<1>2. PICK S : queue \in Seq(S)
  BY DEF StatusInv
<1>3. queue \in Seq(S \cup {event}) /\ event \in S \cup {event}
  BY <1>2, SeqMonotonic
<1>4. queue' = Append(queue, event)
  BY DEF event
<1>5. queue' \in Seq(S \cup {event})
  BY <1>3, <1>4, AppendProperties
<1>6. ShowsConnected(queue', status') <=> type = "Connected"
  <2>1. ShowsConnected(Append(queue, event), status) <=> event.kind = "Connected"
    BY <1>1, <1>3, EventShows
  <2>2. QED
    BY <1>1, <1>4, <2>1
<1>7. QED
  BY <1>5, <1>6 DEF StatusInv

\* ... the lines of a read, ...
LEMMA ReadKeepsStatus ==
    ASSUME StatusInv, ReadHandler, IsClient(client), Present' = Present
    PROVE  StatusInv'
<1>0. PICK n \in 1 .. Len(client.inbox) : ReadsPieces(n) /\ Buffered(n) \in Seq(Pieces)
  BY ReadPieces DEF StatusInv
<1> DEFINE pieces == Buffered(n)
           lines == Lines(pieces)
<1>1. /\ stringBuffer' = Rest(pieces) /\ queue' = queue \o lines
      /\ UNCHANGED <<status, running>>
  BY <1>0 DEF ReadHandler, HandlerUnchanged, ReadsPieces
<1>2. pieces \in Seq(Pieces)
  BY <1>0
<1>3. PICK S : queue \in Seq(S)
  BY DEF StatusInv
<1>4. lines \in Seq(Messages) /\ Rest(pieces) \in Seq(Pieces)
  BY <1>2, LinesAreLines, RestIsUnended
<1>5. \A i \in DOMAIN lines : lines[i].kind = "line"
  <2>1. DOMAIN lines = 1 .. Whole(pieces)
    BY <1>2, LinesAreLines, LenProperties
  <2>2. QED
    BY <1>2, <2>1, LinesAreLines
<1>6. queue' = queue \o lines /\ stringBuffer' = Rest(pieces)
  BY <1>1
<1> HIDE DEF lines, pieces
<1>7. queue \in Seq(S \cup Messages) /\ lines \in Seq(S \cup Messages)
  BY <1>3, <1>4, SeqMonotonic
<1>8. queue' \in Seq(S \cup Messages)
  BY <1>6, <1>7, ConcatProperties
<1>9. ShowsConnected(queue', status') <=> ShowsConnected(queue, status)
  BY <1>1, <1>5, <1>6, <1>7, LinesShowNothing
<1>10. QED
  BY <1>1, <1>4, <1>6, <1>8, <1>9 DEF StatusInv

\* ... and Run, which takes the oldest message off.
LEMMA RunKeepsStatus ==
    ASSUME StatusInv, RunHandles
    PROVE  StatusInv'
<1>1. /\ queue # <<>> /\ queue' = Tail(queue)
      /\ status' = IF Head(queue).kind = "line" THEN status ELSE Head(queue).kind
      /\ UNCHANGED <<stringBuffer, running, client>>
  BY DEF RunHandles, Handles, RunUnchanged, ioVars, bufferVars
<1>2. PICK S : queue \in Seq(S)
  BY DEF StatusInv
<1>3. queue' \in Seq(S)
  BY <1>1, <1>2, HeadTailProperties
<1>4. ShowsConnected(queue', status') <=> ShowsConnected(queue, status)
  BY <1>1, <1>2, HandlingShows
<1>5. QED
  BY <1>1, <1>3, <1>4 DEF StatusInv, Present

\* Every client gets its Connected event with the socket, and every Disconnect
\* its event with the end of the socket.
LEMMA StatusStep ==
    ASSUME ServerInv, StatusInv, [Next]_vars
    PROVE  StatusInv'
<1>1. CASE SensorSends \/ SensorConnects \/ SensorLeaves
  <2>1. Present' = Present
    BY <1>1, Env DEF ServerInv
  <2>2. UNCHANGED <<queue, status, stringBuffer, running>>
    BY <1>1 DEF SensorSends, SensorConnects, SensorLeaves, EnvUnchanged, bufferVars
  <2>3. QED
    BY <2>1, <2>2 DEF StatusInv
<1>2. CASE AcceptCompletes \/ ReadCompletes \/ Tick \/ AcceptThrows \/ ReadAgain \/ TimeoutRearms
           \/ RunLoops \/ StopStopsContext \/ StopStopsQueue \/ StopJoins \/ UNCHANGED vars
  <2>1. UNCHANGED <<client, queue, status, stringBuffer, running>>
    BY <1>2 DEF AcceptCompletes, ReadCompletes, IoUnchanged, Tick, AcceptThrows, ReadAgain,
       TimeoutRearms, Arms, RunLoops, RunUnchanged, StopStopsContext, StopStopsQueue, StopJoins,
       Joins, StopUnchanged, StopLeavesIO, HandlerUnchanged, vars, ioVars, bufferVars
  <2>2. QED
    BY <2>1 DEF StatusInv, Present
<1>3. CASE AcceptHandler
  <2>1. /\ queue' = Append(queue, Event("Connected"))
        /\ UNCHANGED <<status, stringBuffer>>
        /\ client' = backlog
    BY <1>3 DEF AcceptHandler, HandlerUnchanged
  <2>2. Present'
    BY <1>3, <2>1, AcceptHasPeer, ConnIsReal DEF ServerInv, IoTypeOK, Present
  <2>3. QED
    BY <2>1, <2>2, EventKeepsStatus
<1>4. CASE ReadHandler
  <2>1. Present' = Present
    BY <1>4, ReadHandlerKeeps
  <2>2. IsClient(client)
    BY DEF ServerInv, IoTypeOK
  <2>3. QED
    BY <1>4, <2>1, <2>2, ReadKeepsStatus
<1>5. CASE ReadErrorHandler \/ TimeoutDisconnects \/ StopDisconnects
  <2>1. PICK rest : Disconnect(rest) /\ UNCHANGED <<status, stringBuffer>>
    BY <1>5 DEF ReadErrorHandler, FailedReadEnds, TimeoutDisconnects, StopDisconnects, HandlerUnchanged,
       StopUnchanged, bufferVars
  <2>2. queue' = Append(queue, Event("Disconnected")) /\ ~Present'
    BY <2>1, DisconnectEnds DEF Disconnect
  <2>3. QED
    BY <2>1, <2>2, EventKeepsStatus
<1>6. CASE RunHandles
  BY <1>6, RunKeepsStatus
<1>7. CASE StopBegins
  <2>1. ~running' /\ UNCHANGED <<queue, stringBuffer>>
    BY <1>7 DEF StopBegins, StopUnchanged, bufferVars
  <2>2. QED
    BY <2>1 DEF StatusInv
<1>8. QED
  BY <1>1, <1>2, <1>3, <1>4, <1>5, <1>6, <1>7 DEF Next, Worker, Stop, Ended

-----------------------------------------------------------------------------
(***************************************************************************)
(* What the sensor sent, and what of it is queued.  A connection is one    *)
(* chain of pieces: some were queued as lines, some wait in m_StringBuffer,*)
(* some in the kernel, and the sensor sends the next.  StreamInv says so   *)
(* of all but the queue, OrderInv of its last message and what follows it. *)
(***************************************************************************)

Follows(piece, next) ==
    IF piece.ends THEN next.starts /\ next.line = (piece.line + 1) % 3
                  ELSE ~next.starts /\ next.line = piece.line

Chained(pieces, from) ==
    \A i \in from .. Len(pieces) - 1 : Follows(pieces[i], pieces[i + 1])

\* What the kernel has of a connection, and the piece that the sensor sends next.
Unread(conn) ==
    Append(conn.inbox, [line |-> conn.line, starts |-> ~conn.midLine, ends |-> FALSE])
Stream(buffer, conn) == buffer \o Unread(conn)

\* The first piece of the client's connection among those in m_StringBuffer and
\* behind.  When an earlier connection has left some, it is the first behind.
First == IF carried THEN Len(stringBuffer) + 1 ELSE 1

\* A connection goes on where the pieces in m_StringBuffer stop.
Continues(conn) ==
    /\ Chained(Stream(stringBuffer, conn), First)
    /\ ~carried => Stream(stringBuffer, conn)[1].starts

\* What a missed read has brought is the first the kernel had of a connection.
Missed(conn) ==
    \E n \in 1 .. Len(conn.inbox) : client.inbox = SubSeq(conn.inbox, 1, n)

StreamInv ==
    /\ \A i \in DOMAIN stringBuffer : ~stringBuffer[i].ends
    /\ Present => Continues(client)
    /\ ~Present /\ client.inbox # <<>> => \E conn \in Conns : Missed(conn) /\ Continues(conn)
    /\ backlog # NoConn =>
           /\ Chained(Unread(backlog), 1)
           /\ Unread(backlog)[1].starts /\ Unread(backlog)[1].line = 0

\* The line of a connection that is queued next fits the last message.
LastFits(messages, conn) ==
    messages # <<>> =>
        LET last == messages[Len(messages)]
            next == Unread(conn)[1].line
        IN  /\ last.kind = "line" => next = (Number(last) + 1) % 3
            /\ last.kind = "Connected" => next = 0
            /\ last.kind # "Disconnected"

QueueInOrder == InOrder(queue)

\* No missed read has had its say.
Sound == ~crashed /\ (rearm => Present)

OrderInv ==
    /\ Sound => QueueInOrder
    /\ Present => LastFits(queue, client)

\* Up to its end a line is one line: by induction along a chain without ends.
LEMMA OneLine ==
    ASSUME NEW s, NEW a \in Nat, NEW b \in Nat, a <= b,
           \A i \in a .. b - 1 : Follows(s[i], s[i + 1]) /\ ~s[i].ends
    PROVE  /\ \A i \in a .. b : s[i].line = s[a].line
           /\ \A i \in a + 1 .. b : ~s[i].starts
<1> DEFINE T == {d \in Nat : a + d <= b => /\ s[a + d].line = s[a].line
                                           /\ d # 0 => ~s[a + d].starts}
<1>1. 0 \in T
  <2>1. a + 0 = a
    OBVIOUS
  <2>2. QED
    BY <2>1
<1>2. ASSUME NEW d \in Nat, d \in T PROVE d + 1 \in T
  <2>1. CASE a + (d + 1) <= b
    <3>1. a + d \in a .. b - 1 /\ a + (d + 1) = (a + d) + 1 /\ a + d <= b
      BY <2>1
    <3>2. Follows(s[a + d], s[(a + d) + 1]) /\ ~s[a + d].ends
      BY <3>1
    <3>3. ~s[a + (d + 1)].starts /\ s[a + (d + 1)].line = s[a + d].line
      BY <3>1, <3>2 DEF Follows
    <3>4. QED
      BY <1>2, <3>1, <3>3
  <2>2. QED
    BY <2>1
<1>3. Nat \subseteq T
  <2> HIDE DEF T
  <2>1. QED
    BY <1>1, <1>2, SetInduction
<1>4. \A i \in a .. b : i - a \in Nat /\ a + (i - a) = i /\ i - a \in T
  BY <1>3
<1>5. \A i \in a + 1 .. b : i - a # 0 /\ i \in a .. b
  OBVIOUS
<1>6. QED
  BY <1>4, <1>5

\* A stream, piece by piece.
LEMMA StreamPieces ==
    ASSUME NEW buffer \in Seq(Pieces), NEW conn \in Conns
    PROVE  /\ Unread(conn) \in Seq(Pieces) /\ Len(Unread(conn)) = Len(conn.inbox) + 1
           /\ Len(conn.inbox) \in Nat /\ Len(buffer) \in Nat
           /\ Stream(buffer, conn) \in Seq(Pieces)
           /\ Len(Stream(buffer, conn)) = Len(buffer) + (Len(conn.inbox) + 1)
           /\ \A i \in 1 .. Len(buffer) : Stream(buffer, conn)[i] = buffer[i]
           /\ \A i \in 1 .. Len(conn.inbox) + 1 :
                  Stream(buffer, conn)[Len(buffer) + i] = Unread(conn)[i]
           /\ \A i \in 1 .. Len(conn.inbox) : Unread(conn)[i] = conn.inbox[i]
           /\ Unread(conn)[Len(conn.inbox) + 1] =
                  [line |-> conn.line, starts |-> ~conn.midLine, ends |-> FALSE]
<1> DEFINE next == [line |-> conn.line, starts |-> ~conn.midLine, ends |-> FALSE]
           inbox == conn.inbox
           u == Unread(conn)
           t == Stream(buffer, conn)
           b == Len(buffer)
           n == Len(inbox)
<1>1. inbox \in Seq(Pieces) /\ next \in Pieces
  BY DEF Conns, Pieces
<1>2. u = Append(inbox, next) /\ t = buffer \o u
  BY DEF Unread, Stream
<1> HIDE DEF next, inbox, u, t
<1>3. /\ u \in Seq(Pieces) /\ Len(u) = n + 1 /\ n \in Nat /\ b \in Nat
      /\ \A i \in 1 .. n : u[i] = inbox[i]
      /\ u[n + 1] = next
  BY <1>1, <1>2, AppendProperties, LenProperties
<1>4. /\ t \in Seq(Pieces) /\ Len(t) = b + Len(u)
      /\ \A i \in 1 .. b + Len(u) : t[i] = IF i <= b THEN buffer[i] ELSE u[i - b]
  BY <1>2, <1>3, ConcatProperties
<1> HIDE DEF b, n
<1>5. \A i \in 1 .. b : t[i] = buffer[i]
  BY <1>3, <1>4
<1>6. ASSUME NEW i \in 1 .. n + 1 PROVE t[b + i] = u[i]
  <2>1. b + i \in 1 .. b + Len(u) /\ ~(b + i <= b) /\ (b + i) - b = i
    BY <1>3
  <2>2. QED
    BY <1>4, <2>1
<1>7. QED
  BY <1>3, <1>4, <1>5, <1>6 DEF next, inbox, u, t, b, n

\* What the last lemma says, in one word.
IsStream(buffer, conn) ==
    /\ Len(Stream(buffer, conn)) = Len(buffer) + (Len(conn.inbox) + 1)
    /\ \A i \in 1 .. Len(buffer) : Stream(buffer, conn)[i] = buffer[i]
    /\ \A i \in 1 .. Len(conn.inbox) + 1 :
           Stream(buffer, conn)[Len(buffer) + i] = Unread(conn)[i]
    /\ \A i \in 1 .. Len(conn.inbox) : Unread(conn)[i] = conn.inbox[i]
    /\ Unread(conn)[Len(conn.inbox) + 1] =
           [line |-> conn.line, starts |-> ~conn.midLine, ends |-> FALSE]

LEMMA StreamOf == \A buffer \in Seq(Pieces), conn \in Conns : IsStream(buffer, conn)
<1> SUFFICES ASSUME NEW buffer \in Seq(Pieces), NEW conn \in Conns PROVE IsStream(buffer, conn)
  OBVIOUS
<1> QED
  BY StreamPieces DEF IsStream

\* The sensor makes its chain longer.
LEMMA SentChain ==
    ASSUME NEW buffer \in Seq(Pieces), NEW conn \in Conns, NEW ends \in BOOLEAN,
           NEW later, later = Sent(conn, ends), later \in Conns,
           NEW from \in Nat \ {0}, Chained(Stream(buffer, conn), from)
    PROVE  /\ Chained(Stream(buffer, later), from)
           /\ Stream(buffer, later)[1].starts = Stream(buffer, conn)[1].starts
           /\ Unread(later)[1].starts = Unread(conn)[1].starts
           /\ Unread(later)[1].line = Unread(conn)[1].line
<1> DEFINE t == Stream(buffer, conn)
           w == Stream(buffer, later)
           b == Len(buffer)
           n == Len(conn.inbox)
           piece == [line |-> conn.line, starts |-> ~conn.midLine, ends |-> ends]
           line == IF ends THEN (conn.line + 1) % 3 ELSE conn.line
<1>1. conn.inbox \in Seq(Pieces) /\ piece \in Pieces /\ conn.line \in Numbers
  BY DEF Conns, Pieces
<1>2. later.inbox = Append(conn.inbox, piece) /\ later.line = line /\ later.midLine = ~ends
  BY DEF Sent, Conns
<1>3. /\ Len(later.inbox) = n + 1 /\ n \in Nat /\ b \in Nat
      /\ \A i \in 1 .. n : later.inbox[i] = conn.inbox[i]
      /\ later.inbox[n + 1] = piece
  BY <1>1, <1>2, AppendProperties, LenProperties
<1>4. /\ Len(t) = b + (n + 1) /\ \A i \in 1 .. b : t[i] = buffer[i]
      /\ \A i \in 1 .. n + 1 : t[b + i] = Unread(conn)[i]
      /\ \A i \in 1 .. n : Unread(conn)[i] = conn.inbox[i]
      /\ Unread(conn)[n + 1] = [line |-> conn.line, starts |-> ~conn.midLine, ends |-> FALSE]
  BY StreamPieces
<1>5. /\ Len(w) = b + ((n + 1) + 1) /\ \A i \in 1 .. b : w[i] = buffer[i]
      /\ \A i \in 1 .. (n + 1) + 1 : w[b + i] = Unread(later)[i]
      /\ \A i \in 1 .. n + 1 : Unread(later)[i] = later.inbox[i]
      /\ Unread(later)[(n + 1) + 1] = [line |-> line, starts |-> ~later.midLine, ends |-> FALSE]
  <2>1. /\ Len(w) = b + (Len(later.inbox) + 1) /\ \A i \in 1 .. b : w[i] = buffer[i]
        /\ \A i \in 1 .. Len(later.inbox) + 1 : w[b + i] = Unread(later)[i]
        /\ \A i \in 1 .. Len(later.inbox) : Unread(later)[i] = later.inbox[i]
        /\ Unread(later)[Len(later.inbox) + 1]
               = [line |-> later.line, starts |-> ~later.midLine, ends |-> FALSE]
    <3>1. buffer \in Seq(Pieces) /\ later \in Conns
      BY <1>2
    <3>2. IsStream(buffer, later)
      BY ONLY <3>1, StreamOf
    <3>3. QED
      BY ONLY <3>2 DEF IsStream, w, b
  <2>2. QED
    BY <1>2, <1>3, <2>1
<1> HIDE DEF t, w, b, n, line
<1>6. \A i \in 1 .. n : Unread(later)[i] = Unread(conn)[i]
  BY <1>3, <1>4, <1>5
<1>7. Unread(later)[n + 1] = piece /\ n + 1 \in 1 .. n + 1
  BY <1>3, <1>5
<1>8. \A i \in 1 .. b + n : w[i] = t[i]
  <2> SUFFICES ASSUME NEW i \in 1 .. b + n PROVE w[i] = t[i]
    OBVIOUS
  <2>1. CASE i \in 1 .. b
    BY <1>4, <1>5, <2>1
  <2>2. CASE i \notin 1 .. b
    <3>1. i - b \in 1 .. n /\ i - b \in 1 .. n + 1 /\ i - b \in 1 .. (n + 1) + 1 /\ b + (i - b) = i
      BY <1>3, <2>2
    <3>2. QED
      BY <1>4, <1>5, <1>6, <3>1
  <2>3. QED
    BY <2>1, <2>2
<1>9. /\ w[b + (n + 1)] = piece /\ w[b + (n + 1)].line = t[b + (n + 1)].line
      /\ w[b + (n + 1)].starts = t[b + (n + 1)].starts
  <2>1. n + 1 \in 1 .. n + 1 /\ n + 1 \in 1 .. (n + 1) + 1
    BY <1>3
  <2>2. w[b + (n + 1)] = piece
    BY <1>5, <1>7, <2>1
  <2>3. t[b + (n + 1)] = [line |-> conn.line, starts |-> ~conn.midLine, ends |-> FALSE]
    BY <1>4, <2>1
  <2>4. QED
    BY <2>2, <2>3
<1>10. Follows(w[b + (n + 1)], w[b + ((n + 1) + 1)])
  <2>1. (n + 1) + 1 \in 1 .. (n + 1) + 1
    BY <1>3
  <2>2. w[b + ((n + 1) + 1)] = [line |-> line, starts |-> ~later.midLine, ends |-> FALSE]
    BY <1>5, <2>1
  <2>3. /\ w[b + ((n + 1) + 1)].line = line /\ (w[b + ((n + 1) + 1)].starts <=> ends)
        /\ piece.line = conn.line /\ piece.ends = ends
    BY <1>2, <2>2
  <2>4. QED
    BY <1>9, <2>3 DEF Follows, line
<1>11. Chained(w, from)
  <2> SUFFICES ASSUME NEW i \in from .. Len(w) - 1 PROVE Follows(w[i], w[i + 1])
    BY DEF Chained
  <2>0. i \in Nat /\ 1 <= i /\ i <= b + (n + 1)
    BY <1>3, <1>5
  <2>1. CASE i = b + (n + 1)
    <3>1. i + 1 = b + ((n + 1) + 1)
      BY <1>3, <2>1
    <3>2. QED
      BY <1>10, <2>1, <3>1
  <2>2. CASE i # b + (n + 1)
    <3>1. i \in from .. Len(t) - 1
      BY <1>3, <1>4, <2>0, <2>2
    <3>2. Follows(t[i], t[i + 1])
      BY <3>1 DEF Chained, t
    <3>3. i \in 1 .. b + n /\ (i + 1 \in 1 .. b + n \/ i + 1 = b + (n + 1))
      <4>1. b \in Nat /\ n \in Nat
        BY <1>3
      <4>2. i < b + (n + 1)
        BY <2>0, <2>2, <4>1
      <4>3. QED
        BY <2>0, <4>1, <4>2
    <3>4. w[i] = t[i] /\ w[i + 1].line = t[i + 1].line /\ w[i + 1].starts = t[i + 1].starts
      BY <1>8, <1>9, <3>3
    <3>5. QED
      BY <3>2, <3>4 DEF Follows
  <2>3. QED
    BY <2>1, <2>2
<1>12. w[1].starts = t[1].starts
  <2>1. 1 \in 1 .. b + n \/ 1 = b + (n + 1)
    BY <1>3
  <2>2. QED
    BY <1>8, <1>9, <2>1
<1>13. Unread(later)[1].starts = Unread(conn)[1].starts /\ Unread(later)[1].line = Unread(conn)[1].line
  <2>1. CASE n = 0
    <3>1. n + 1 = 1
      BY <2>1
    <3>2. Unread(later)[1] = piece
          /\ Unread(conn)[1] = [line |-> conn.line, starts |-> ~conn.midLine, ends |-> FALSE]
      BY <1>4, <1>7, <3>1
    <3>3. QED
      BY <3>2
  <2>2. CASE n # 0
    <3>1. 1 \in 1 .. n
      BY <1>3, <2>2
    <3>2. QED
      BY <1>6, <3>1
  <2>3. QED
    BY <2>1, <2>2
<1>14. QED
  BY <1>11, <1>12, <1>13 DEF t, w

\* A read takes n pieces from the kernel: the buffer has more of the stream, and
\* what is left of it behind the last end is a stream still.
Splits(buffer, conn, n, pieces, later) ==
    /\ later \in Conns /\ pieces \in Seq(Pieces) /\ Len(pieces) = Len(buffer) + n
    /\ \A i \in 1 .. Len(buffer) + n : pieces[i] = Stream(buffer, conn)[i]
    /\ Len(Stream(Rest(pieces), later))
           = Len(Stream(buffer, conn)) - End(pieces, Whole(pieces))
    /\ \A i \in 1 .. Len(Stream(Rest(pieces), later)) :
           Stream(Rest(pieces), later)[i] = Stream(buffer, conn)[End(pieces, Whole(pieces)) + i]
    /\ Unread(later)[1] = Stream(buffer, conn)[Len(buffer) + n + 1]

LEMMA ReadSplits ==
    ASSUME NEW buffer \in Seq(Pieces), NEW conn \in Conns, NEW n \in 1 .. Len(conn.inbox),
           NEW pieces, pieces = buffer \o SubSeq(conn.inbox, 1, n),
           NEW later, later = [conn EXCEPT !.inbox = SubSeq(@, n + 1, Len(@))]
    PROVE  Splits(buffer, conn, n, pieces, later)
<1> DEFINE b == Len(buffer)
           l == Len(conn.inbox)
           chunk == SubSeq(conn.inbox, 1, n)
           inbox == SubSeq(conn.inbox, n + 1, l)
           s == Stream(buffer, conn)
           e == End(pieces, Whole(pieces))
           rest == Rest(pieces)
           t == Stream(rest, later)
<1>0. conn.inbox \in Seq(Pieces)
  BY DEF Conns
<1>1. l \in Nat /\ b \in Nat /\ n \in Nat /\ 1 <= n /\ n <= l
  BY <1>0, LenProperties
<1>2. chunk \in Seq(Pieces) /\ Len(chunk) = n /\ \A i \in 1 .. n : chunk[i] = conn.inbox[i]
  <2>1. 1 \in 1 .. l + 1 /\ n \in 0 .. l /\ (n - 1) + 1 = n /\ \A i \in 1 .. n : (1 + i) - 1 = i
    BY <1>1
  <2>2. /\ chunk \in Seq(Pieces) /\ Len(chunk) = IF 1 <= n THEN (n - 1) + 1 ELSE 0
        /\ \A i \in 1 .. (n - 1) + 1 : chunk[i] = conn.inbox[(1 + i) - 1]
    BY <1>0, <2>1, PartOf
  <2>3. QED
    BY <1>1, <2>1, <2>2
<1>3. inbox \in Seq(Pieces) /\ Len(inbox) = l - n /\ \A i \in 1 .. l - n : inbox[i] = conn.inbox[n + i]
  <2> HIDE DEF l
  <2>1. n + 1 \in 1 .. l + 1 /\ l \in 0 .. l /\ (l - (n + 1)) + 1 = l - n
    BY <1>1
  <2>2. /\ inbox \in Seq(Pieces) /\ Len(inbox) = IF n + 1 <= l THEN (l - (n + 1)) + 1 ELSE 0
        /\ \A i \in 1 .. (l - (n + 1)) + 1 : inbox[i] = conn.inbox[((n + 1) + i) - 1]
    BY <1>0, <2>1, PartOf DEF l
  <2>3. Len(inbox) = l - n
    BY <1>1, <2>1, <2>2
  <2>4. ASSUME NEW i \in 1 .. l - n PROVE inbox[i] = conn.inbox[n + i]
    <3>1. i \in 1 .. (l - (n + 1)) + 1 /\ ((n + 1) + i) - 1 = n + i
      <4>1. i \in 1 .. (l - (n + 1)) + 1
        BY <2>1
      <4>2. ((n + 1) + i) - 1 = n + i
        BY <1>1
      <4>3. QED
        BY <4>1, <4>2
    <3>2. inbox[i] = conn.inbox[((n + 1) + i) - 1]
      BY <2>2, <3>1
    <3>3. QED
      BY <3>1, <3>2
  <2>5. QED
    BY <2>2, <2>3, <2>4
<1>4. later = [conn EXCEPT !.inbox = inbox]
  OBVIOUS
<1>5. pieces = buffer \o chunk
  OBVIOUS
<1> HIDE DEF chunk, inbox
<1>6. /\ later \in Conns /\ later.inbox = inbox
      /\ later.line = conn.line /\ later.midLine = conn.midLine
  BY <1>3, <1>4 DEF Conns
<1>7. /\ pieces \in Seq(Pieces) /\ Len(pieces) = b + n
      /\ \A i \in 1 .. b + n : pieces[i] = IF i <= b THEN buffer[i] ELSE chunk[i - b]
  BY <1>2, <1>5, ConcatProperties
<1>8. /\ Len(s) = b + (l + 1) /\ \A i \in 1 .. b : s[i] = buffer[i]
      /\ \A i \in 1 .. l + 1 : s[b + i] = Unread(conn)[i]
      /\ \A i \in 1 .. l : Unread(conn)[i] = conn.inbox[i]
      /\ Unread(conn)[l + 1] = [line |-> conn.line, starts |-> ~conn.midLine, ends |-> FALSE]
  BY StreamPieces
<1>9. /\ rest \in Seq(Pieces) /\ Len(rest) = (b + n) - e
      /\ \A i \in 1 .. Len(rest) : rest[i] = pieces[e + i]
  BY <1>7, RestIsUnended
<1>10. e \in 0 .. b + n
  <2>1. pieces \in Seq(Pieces) /\ Len(pieces) = b + n
    BY <1>7
  <2> HIDE DEF b
  <2>2. Whole(pieces) \in Nat /\ \A k \in 0 .. Whole(pieces) : End(pieces, k) \in 0 .. Len(pieces)
    BY <2>1, EndsInOrder
  <2>3. Whole(pieces) \in 0 .. Whole(pieces)
    BY <2>2
  <2>4. QED
    BY <2>1, <2>2, <2>3
<1>11. /\ Len(t) = Len(rest) + ((l - n) + 1) /\ \A i \in 1 .. Len(rest) : t[i] = rest[i]
       /\ \A i \in 1 .. (l - n) + 1 : t[Len(rest) + i] = Unread(later)[i]
       /\ \A i \in 1 .. l - n : Unread(later)[i] = inbox[i]
       /\ Unread(later)[(l - n) + 1] = [line |-> conn.line, starts |-> ~conn.midLine, ends |-> FALSE]
  <2>1. rest \in Seq(Pieces) /\ later \in Conns
    BY <1>6, <1>9
  <2> DEFINE k == Len(later.inbox)
             w == Unread(later)
             r == Len(rest)
  <2>2. k = l - n /\ t = Stream(rest, later)
    BY <1>3, <1>6
  <2> HIDE DEF s, t, rest, e, b, l
  <2>3. /\ Len(t) = r + (k + 1) /\ \A i \in 1 .. r : t[i] = rest[i]
        /\ \A i \in 1 .. k + 1 : t[r + i] = w[i]
        /\ \A i \in 1 .. k : w[i] = later.inbox[i]
        /\ w[k + 1] = [line |-> later.line, starts |-> ~later.midLine, ends |-> FALSE]
    <3>1. IsStream(rest, later)
      BY ONLY <2>1, StreamOf
    <3>2. QED
      BY ONLY <3>1, <2>2 DEF IsStream, k, w, r
  <2>4. later.inbox = inbox /\ later.line = conn.line /\ later.midLine = conn.midLine
    BY <1>6
  <2> HIDE DEF k
  <2>5. \A m : m = k =>
            /\ Len(t) = r + (m + 1) /\ \A i \in 1 .. r : t[i] = rest[i]
            /\ \A i \in 1 .. m + 1 : t[r + i] = w[i]
            /\ \A i \in 1 .. m : w[i] = inbox[i]
            /\ w[m + 1] = [line |-> conn.line, starts |-> ~conn.midLine, ends |-> FALSE]
    BY ONLY <2>3, <2>4
  <2>6. QED
    BY ONLY <2>2, <2>5 DEF r, w
<1> HIDE DEF s, t, rest, e, b, l
<1>12. ASSUME NEW i \in 1 .. b + n PROVE pieces[i] = s[i]
  <2>1. CASE i <= b
    BY <1>7, <1>8, <2>1
  <2>2. CASE ~(i <= b)
    <3>1. i - b \in 1 .. n /\ i - b \in 1 .. l + 1 /\ i - b \in 1 .. l /\ b + (i - b) = i
      BY <1>1, <2>2
    <3>2. pieces[i] = conn.inbox[i - b]
      BY <1>2, <1>7, <2>2, <3>1
    <3>3. s[i] = conn.inbox[i - b]
      BY <1>8, <3>1
    <3>4. QED
      BY <3>2, <3>3
  <2>3. QED
    BY <2>1, <2>2
<1>13. ASSUME NEW i \in 1 .. (l - n) + 1 PROVE Unread(later)[i] = s[(b + n) + i]
  <2>1. n + i \in 1 .. l + 1 /\ b + (n + i) = (b + n) + i
    BY <1>1
  <2>2. s[(b + n) + i] = Unread(conn)[n + i]
    BY <1>8, <2>1
  <2>3. CASE i \in 1 .. l - n
    <3>1. n + i \in 1 .. l
      BY <1>1, <2>3
    <3>2. QED
      BY <1>3, <1>8, <1>11, <2>2, <2>3, <3>1
  <2>4. CASE i = (l - n) + 1
    <3>1. n + i = l + 1
      BY <1>1, <2>4
    <3>2. QED
      BY <1>8, <1>11, <2>2, <2>4, <3>1
  <2>5. QED
    BY <1>1, <2>3, <2>4
<1>14. Len(t) = Len(s) - e
  BY <1>1, <1>8, <1>9, <1>10, <1>11
<1>15. ASSUME NEW i \in 1 .. Len(t) PROVE t[i] = s[e + i]
  <2> DEFINE r == Len(rest)
             j == i - r
  <2>0. r = (b + n) - e /\ Len(t) = r + ((l - n) + 1) /\ e \in 0 .. b + n /\ b + n \in Nat
        /\ l - n \in Nat /\ i \in 1 .. Len(t)
    <3>1. b + n \in Nat /\ l - n \in Nat
      BY <1>1
    <3>2. r = (b + n) - e /\ Len(t) = r + ((l - n) + 1)
      BY <1>9, <1>11
    <3>3. QED
      BY <1>10, <3>1, <3>2
  <2> HIDE DEF r
  <2>1. CASE i \in 1 .. r
    <3>1. e + i \in 1 .. b + n
      BY <2>0, <2>1
    <3>2. t[i] = pieces[e + i]
      BY <1>9, <1>11, <2>1 DEF r
    <3>3. QED
      BY <1>12, <3>1, <3>2
  <2>2. CASE i \notin 1 .. r
    <3>1. j \in 1 .. (l - n) + 1 /\ r + j = i /\ (b + n) + j = e + i
      BY <2>0, <2>2
    <3> HIDE DEF j
    <3>2. t[r + j] = Unread(later)[j] /\ Unread(later)[j] = s[(b + n) + j]
      BY <1>11, <1>13, <3>1 DEF r
    <3>3. QED
      BY <3>1, <3>2
  <2>3. QED
    BY <2>1, <2>2
<1>16. Unread(later)[1] = s[(b + n) + 1]
  <2>1. 1 \in 1 .. (l - n) + 1
    BY <1>1
  <2>2. QED
    BY <1>13, <2>1
<1>17. QED
  BY <1>6, <1>7, <1>12, <1>14, <1>15, <1>16 DEF Splits, s, t, rest, e, b

\* From the k-th end to the next, or to the piece that is read next, a stream has
\* one line.
OneLineFrom(buffer, conn, n, pieces, k, from, to) ==
    /\ from \in Len(buffer) + 1 .. Len(buffer) + n + 1
    /\ to \in from .. Len(buffer) + n + 1
    /\ Stream(buffer, conn)[to].line = Stream(buffer, conn)[from].line
    /\ k > 0 => /\ End(pieces, k) \in Len(buffer) + 1 .. Len(buffer) + n
                /\ Stream(buffer, conn)[from].starts
                /\ Stream(buffer, conn)[from].line
                       = (Stream(buffer, conn)[End(pieces, k)].line + 1) % 3

LEMMA StreamRuns ==
    ASSUME NEW buffer \in Seq(Pieces), NEW conn \in Conns, NEW n \in 1 .. Len(conn.inbox),
           NEW pieces \in Seq(Pieces), Len(pieces) = Len(buffer) + n,
           \A i \in 1 .. Len(buffer) + n : pieces[i] = Stream(buffer, conn)[i],
           \A i \in DOMAIN buffer : ~buffer[i].ends,
           Chained(Stream(buffer, conn), Len(buffer) + 1),
           NEW k \in 0 .. Whole(pieces),
           NEW from, from = IF k = 0 THEN Len(buffer) + 1 ELSE End(pieces, k) + 1,
           NEW to, to = IF k < Whole(pieces) THEN End(pieces, k + 1) ELSE Len(buffer) + n + 1
    PROVE  OneLineFrom(buffer, conn, n, pieces, k, from, to)
<1> DEFINE b == Len(buffer)
           l == Len(conn.inbox)
           s == Stream(buffer, conn)
           m == Whole(pieces)
           e(j) == End(pieces, j)
<1>1. /\ l \in Nat /\ b \in Nat /\ n \in Nat /\ 1 <= n /\ n <= l
      /\ Len(s) = b + (l + 1) /\ \A i \in 1 .. b : s[i] = buffer[i]
  <2>1. l \in Nat /\ b \in Nat /\ Len(s) = b + (l + 1) /\ \A i \in 1 .. b : s[i] = buffer[i]
    BY StreamPieces
  <2>2. n \in 1 .. l
    OBVIOUS
  <2> HIDE DEF l, b, s
  <2>3. QED
    BY <2>1, <2>2
<1>2. /\ m \in Nat /\ e(0) = 0
      /\ \A j \in 1 .. m : /\ e(j) \in 1 .. b + n /\ pieces[e(j)].ends
                           /\ e(j - 1) \in 0 .. e(j) - 1
                           /\ \A i \in e(j - 1) + 1 .. e(j) - 1 : ~pieces[i].ends
      /\ \A i \in e(m) + 1 .. b + n : ~pieces[i].ends
  BY EndsInOrder
<1>3. \A i \in 1 .. b + n : pieces[i] = s[i]
  OBVIOUS
<1>4. \A i \in 1 .. b : ~buffer[i].ends
  BY LenProperties
<1>5. \A i \in b + 1 .. b + l : Follows(s[i], s[i + 1])
  <2>1. Len(s) - 1 = b + l
    BY <1>1
  <2>2. QED
    BY <2>1 DEF Chained
<1>6. /\ from = (IF k = 0 THEN b + 1 ELSE e(k) + 1)
      /\ to = (IF k < m THEN e(k + 1) ELSE (b + n) + 1)
      /\ k \in 0 .. m
  OBVIOUS
<1> HIDE DEF b, l, s, m, e
<1>7. ASSUME NEW j \in 1 .. m PROVE e(j) \in b + 1 .. b + n /\ s[e(j)].ends
  <2>1. e(j) \in 1 .. b + n /\ s[e(j)].ends
    BY <1>2, <1>3
  <2>2. e(j) \notin 1 .. b
    BY <1>1, <1>4, <2>1
  <2>3. QED
    BY <1>1, <2>1, <2>2
<1>8. from \in b + 1 .. (b + n) + 1
  <2>1. CASE k = 0
    BY <1>1, <1>6, <2>1
  <2>2. CASE k # 0
    <3>1. k \in 1 .. m /\ from = e(k) + 1
      BY <1>2, <1>6, <2>2
    <3>2. QED
      BY <1>1, <1>7, <3>1
  <2>3. QED
    BY <2>1, <2>2
<1>9. to \in from .. (b + n) + 1 /\ \A i \in from .. to - 1 : i \in 1 .. b + n /\ ~pieces[i].ends
  <2>1. CASE k < m
    <3>1. k + 1 \in 1 .. m /\ (k + 1) - 1 = k /\ to = e(k + 1)
      BY <1>2, <1>6, <2>1
    <3>2. e(k + 1) \in b + 1 .. b + n /\ e(k) \in 0 .. e(k + 1) - 1
          /\ \A i \in e(k) + 1 .. e(k + 1) - 1 : ~pieces[i].ends
      BY <1>2, <1>7, <3>1
    <3>3. from \in e(k) + 1 .. to
      <4>1. CASE k = 0
        BY <1>1, <1>2, <1>6, <3>1, <3>2, <4>1
      <4>2. CASE k # 0
        BY <1>6, <3>1, <3>2, <4>2
      <4>3. QED
        BY <4>1, <4>2
    <3>4. e(k) \in Nat /\ e(k + 1) \in 1 .. b + n /\ b \in Nat /\ b + n \in Nat
      <4>1. b \in Nat /\ n \in Nat
        BY <1>1
      <4>2. e(k + 1) \in b + 1 .. b + n /\ e(k) \in 0 .. e(k + 1) - 1
        BY <3>2
      <4>3. QED
        BY ONLY <4>1, <4>2
    <3>5. from \in Nat /\ e(k) + 1 <= from /\ from <= to /\ to <= b + n
      BY <3>1, <3>3, <3>4
    <3>6. ASSUME NEW i \in from .. to - 1 PROVE i \in 1 .. b + n /\ ~pieces[i].ends
      <4>1. i \in e(k) + 1 .. e(k + 1) - 1 /\ i \in 1 .. b + n
        BY <3>1, <3>4, <3>5
      <4>2. QED
        BY <3>2, <4>1
    <3>7. to \in from .. (b + n) + 1
      BY <3>1, <3>4, <3>5
    <3>8. QED
      BY <3>6, <3>7
  <2>2. CASE ~(k < m)
    <3>1. k = m /\ to = (b + n) + 1
      BY <1>2, <1>6, <2>2
    <3>2. e(m) \in 0 .. b + n
      <4>1. CASE m = 0
        BY <1>1, <1>2, <4>1
      <4>2. CASE m # 0
        <5>1. m \in 1 .. m
          BY <1>2, <4>2
        <5>2. QED
          BY <1>1, <1>7, <5>1
      <4>3. QED
        BY <4>1, <4>2
    <3>3. from >= e(m) + 1
      <4>1. CASE k = 0
        BY <1>1, <1>2, <1>6, <3>1, <4>1
      <4>2. CASE k # 0
        BY <1>6, <3>1, <3>2, <4>2
      <4>3. QED
        BY <4>1, <4>2
    <3>4. \A i \in from .. to - 1 : i \in e(m) + 1 .. b + n /\ i \in 1 .. b + n
      BY <1>1, <1>8, <3>1, <3>2, <3>3
    <3>5. QED
      BY <1>1, <1>2, <1>8, <3>1, <3>4
  <2>3. QED
    BY <2>1, <2>2
<1>10. \A i \in from .. to - 1 : Follows(s[i], s[i + 1]) /\ ~s[i].ends
  <2>1. \A i \in from .. to - 1 : i \in b + 1 .. b + l /\ i \in 1 .. b + n
    BY <1>1, <1>8, <1>9
  <2>2. QED
    BY <1>3, <1>5, <1>9, <2>1
<1>11. s[to].line = s[from].line
  <2>1. from \in Nat /\ to \in Nat /\ from <= to /\ to \in from .. to
    BY <1>1, <1>8, <1>9
  <2>2. QED
    BY <1>10, <2>1, OneLine
<1>12. ASSUME k > 0
       PROVE  e(k) \in b + 1 .. b + n /\ s[from].starts /\ s[from].line = (s[e(k)].line + 1) % 3
  <2>1. k \in 1 .. m /\ from = e(k) + 1
    BY <1>2, <1>6, <1>12
  <2>2. e(k) \in b + 1 .. b + n /\ s[e(k)].ends
    BY <1>7, <2>1
  <2>3. e(k) \in b + 1 .. b + l
    BY <1>1, <2>2
  <2>4. Follows(s[e(k)], s[e(k) + 1])
    BY <1>5, <2>3
  <2>5. QED
    BY <2>1, <2>2, <2>4 DEF Follows
<1>13. QED
  BY <1>1, <1>8, <1>9, <1>11, <1>12 DEF OneLineFrom, s, b, e

\* The queue stays in order when lines in order come behind a fitting last
\* message, ...
LEMMA LinesKeepOrder ==
    ASSUME queue \in Seq(Messages), NEW lines \in Seq(Messages), queue' = queue \o lines,
           QueueInOrder, \A k \in 1 .. Len(lines) : lines[k].kind = "line",
           \A k \in 1 .. Len(lines) - 1 : Number(lines[k + 1]) = (Number(lines[k]) + 1) % 3,
           queue # <<>> /\ lines # <<>> =>
               /\ queue[Len(queue)].kind = "line"
                      => Number(lines[1]) = (Number(queue[Len(queue)]) + 1) % 3
               /\ queue[Len(queue)].kind = "Connected" => Number(lines[1]) = 0
               /\ queue[Len(queue)].kind # "Disconnected"
    PROVE  QueueInOrder'
<1> DEFINE q == Len(queue)
           m == Len(lines)
           after == queue'
<1>1. /\ q \in Nat /\ m \in Nat /\ Len(after) = q + m
      /\ \A i \in 1 .. q + m : after[i] = IF i <= q THEN queue[i] ELSE lines[i - q]
  BY ConcatProperties, LenProperties
<1>2. \A i \in 1 .. q : queue[i] \in Messages
  BY ElementOfSeq
<1>3. \A i \in 1 .. q - 1 : queue[i + 1].kind = "line" =>
          Number(queue[i + 1]) = IF queue[i].kind = "line" THEN (Number(queue[i]) + 1) % 3 ELSE 0
  BY DEF QueueInOrder, InOrder
<1>4. q > 0 /\ m > 0 =>
          /\ queue[q].kind = "line" => Number(lines[1]) = (Number(queue[q]) + 1) % 3
          /\ queue[q].kind = "Connected" => Number(lines[1]) = 0
          /\ queue[q].kind # "Disconnected"
  <2>1. q > 0 /\ m > 0 => queue # <<>> /\ lines # <<>>
    BY EmptySeq
  <2>2. QED
    BY <2>1
<1>5. \A k \in 1 .. m : lines[k].kind = "line"
  OBVIOUS
<1>6. \A k \in 1 .. m - 1 : Number(lines[k + 1]) = (Number(lines[k]) + 1) % 3
  OBVIOUS
<1> HIDE DEF q, m, after
<1>7. ASSUME NEW i \in 1 .. (q + m) - 1, after[i + 1].kind = "line"
      PROVE  Number(after[i + 1]) = IF after[i].kind = "line" THEN (Number(after[i]) + 1) % 3 ELSE 0
  <2>0. i \in 1 .. q + m /\ i + 1 \in 1 .. q + m
    BY <1>1
  <2>1. CASE i + 1 <= q
    <3>1. i \in 1 .. q - 1 /\ after[i] = queue[i] /\ after[i + 1] = queue[i + 1]
      BY <1>1, <2>0, <2>1
    <3>2. QED
      BY <1>3, <1>7, <3>1
  <2>2. CASE i = q
    <3>1. /\ q > 0 /\ m > 0 /\ ~(i + 1 <= q) /\ (i + 1) - q = 1 /\ i <= q /\ q \in 1 .. q
      BY <1>1, <2>0, <2>2
    <3>2. after[i] = queue[q] /\ after[i + 1] = lines[1]
      BY <1>1, <2>0, <2>2, <3>1
    <3>3. queue[q].kind \in {"line", "Connected", "Disconnected"}
      BY <1>2, <3>1 DEF Messages
    <3>4. QED
      BY <1>4, <3>1, <3>2, <3>3
  <2>3. CASE i > q
    <3>1. /\ ~(i <= q) /\ ~(i + 1 <= q) /\ i - q \in 1 .. m - 1 /\ i - q \in 1 .. m
          /\ (i + 1) - q = (i - q) + 1
      BY <1>1, <2>0, <2>3
    <3>2. after[i] = lines[i - q] /\ after[i + 1] = lines[(i - q) + 1]
      BY <1>1, <2>0, <3>1
    <3>3. QED
      BY <1>5, <1>6, <3>1, <3>2
  <2>4. QED
    BY <1>1, <2>0, <2>1, <2>2, <2>3
<1>8. QED
  BY <1>1, <1>7 DEF QueueInOrder, InOrder, after

\* ... when an event comes, ...
LEMMA EventKeepsOrder ==
    ASSUME queue \in Seq(Messages),
           NEW type \in {"Connected", "Disconnected"}, queue' = Append(queue, Event(type))
    PROVE  (QueueInOrder => QueueInOrder') /\ queue'[Len(queue')].kind = type
<1> DEFINE q == Len(queue)
           after == queue'
           event == Event(type)
<1>1. event \in Messages /\ event.kind = type /\ type # "line"
  BY DEF Event, Messages
<1> HIDE DEF event
<1>2. /\ Len(after) = q + 1 /\ q \in Nat /\ \A i \in 1 .. q : after[i] = queue[i]
      /\ after[q + 1] = event
  BY <1>1, AppendProperties, LenProperties DEF event
<1>3. QueueInOrder => \A i \in 1 .. q - 1 : queue[i + 1].kind = "line" =>
          Number(queue[i + 1]) = IF queue[i].kind = "line" THEN (Number(queue[i]) + 1) % 3 ELSE 0
  BY DEF QueueInOrder, InOrder
<1> HIDE DEF q, after
<1>4. ASSUME QueueInOrder, NEW i \in 1 .. (q + 1) - 1, after[i + 1].kind = "line"
      PROVE  Number(after[i + 1]) = IF after[i].kind = "line" THEN (Number(after[i]) + 1) % 3 ELSE 0
  <2>1. i # q
    BY <1>1, <1>2, <1>4
  <2>2. i \in 1 .. q - 1 /\ i \in 1 .. q /\ i + 1 \in 1 .. q
    BY <1>2, <2>1
  <2>3. QED
    BY <1>2, <1>3, <1>4, <2>2
<1>5. QED
  BY <1>1, <1>2, <1>4 DEF QueueInOrder, InOrder, after

\* ... and when Run takes the oldest message.
LEMMA RunKeepsOrder ==
    ASSUME queue \in Seq(Messages), queue # <<>>, queue' = Tail(queue), OrderInv,
           UNCHANGED client, Sound' => Sound
    PROVE  OrderInv'
<1> DEFINE q == Len(queue)
           after == queue'
<1>1. /\ q \in Nat /\ q # 0 /\ Len(after) = q - 1 /\ after \in Seq(Messages)
      /\ \A i \in 1 .. q - 1 : after[i] = queue[i + 1]
  BY HeadTailProperties, LenProperties, EmptySeq
<1> HIDE DEF q, after
<1>2. ASSUME QueueInOrder PROVE QueueInOrder'
  <2>1. \A i \in 1 .. q - 1 : queue[i + 1].kind = "line" =>
            Number(queue[i + 1]) = IF queue[i].kind = "line" THEN (Number(queue[i]) + 1) % 3 ELSE 0
    BY <1>2 DEF QueueInOrder, InOrder, q
  <2>2. ASSUME NEW i \in 1 .. (q - 1) - 1, after[i + 1].kind = "line"
        PROVE  Number(after[i + 1])
                   = IF after[i].kind = "line" THEN (Number(after[i]) + 1) % 3 ELSE 0
    <3>1. i \in 1 .. q - 1 /\ i + 1 \in 1 .. q - 1
      BY <1>1
    <3>2. after[i] = queue[i + 1] /\ after[i + 1] = queue[(i + 1) + 1]
      BY <1>1, <3>1
    <3>3. QED
      BY <2>1, <2>2, <3>1, <3>2
  <2>3. QED
    BY <1>1, <2>2 DEF QueueInOrder, InOrder, after
<1>3. after # <<>> => after[Len(after)] = queue[q]
  <2>1. after # <<>> => q - 1 # 0
    BY <1>1, EmptySeq
  <2>2. q - 1 # 0 => q - 1 \in 1 .. q - 1 /\ (q - 1) + 1 = q
    BY <1>1
  <2>3. QED
    BY <1>1, <2>1, <2>2
<1>4. ASSUME LastFits(queue, client) PROVE LastFits(queue, client)'
  BY <1>3, <1>4 DEF LastFits, q, after
<1>5. Present' = Present
  BY DEF Present
<1>6. QED
  BY <1>2, <1>4, <1>5 DEF OrderInv

LEMMA PieceIs ==
    ASSUME NEW piece \in Pieces, NEW line, piece.line = line,
           NEW starts \in BOOLEAN, piece.starts <=> starts, NEW ends \in BOOLEAN, piece.ends <=> ends
    PROVE  piece = [line |-> line, starts |-> starts, ends |-> ends]
<1>1. piece = [line |-> piece.line, starts |-> piece.starts, ends |-> piece.ends]
      /\ piece.starts \in BOOLEAN /\ piece.ends \in BOOLEAN
  BY DEF Pieces
<1>2. piece.starts = starts /\ piece.ends = ends
  BY <1>1
<1>3. QED
  BY <1>1, <1>2

\* What a read takes from a connection is next in the stream, and queued line by
\* line: the connection goes on where it stops.
ReadsOn(later) ==
    /\ \A i \in DOMAIN stringBuffer' : ~stringBuffer'[i].ends
    /\ Continues(later)'
    /\ \A i \in NewLines : Intact(queue'[i]) \/ (carried /\ i = Len(queue) + 1)

ReadsFrom(conn, n, pieces, later) ==
    /\ stringBuffer \in Seq(Pieces) /\ queue \in Seq(Messages) /\ carried \in BOOLEAN
    /\ \A i \in DOMAIN stringBuffer : ~stringBuffer[i].ends
    /\ conn \in Conns /\ Continues(conn) /\ n \in 1 .. Len(conn.inbox)
    /\ pieces = stringBuffer \o SubSeq(conn.inbox, 1, n)
    /\ later = [conn EXCEPT !.inbox = SubSeq(@, n + 1, Len(@))]
    /\ stringBuffer' = Rest(pieces) /\ queue' = queue \o Lines(pieces)
    /\ carried' = (carried /\ Lines(pieces) = <<>>)

LEMMA ReadKeepsChain ==
    ASSUME NEW conn, NEW n, NEW pieces, NEW later, ReadsFrom(conn, n, pieces, later)
    PROVE  /\ ReadsOn(later)
           /\ LastFits(queue, conn) => /\ QueueInOrder => QueueInOrder'
                                       /\ LastFits(queue', later)
<1> DEFINE b == Len(stringBuffer)
           s == Stream(stringBuffer, conn)
           t == Stream(stringBuffer', later)
           m == Whole(pieces)
           e(k) == End(pieces, k)
           lines == Lines(pieces)
           q == Len(queue)
<1>1. /\ conn \in Conns /\ stringBuffer \in Seq(Pieces) /\ queue \in Seq(Messages)
      /\ carried \in BOOLEAN
  BY DEF ReadsFrom
<1>2. /\ pieces = stringBuffer \o SubSeq(conn.inbox, 1, n)
      /\ later = [conn EXCEPT !.inbox = SubSeq(@, n + 1, Len(@))]
      /\ Continues(conn) /\ \A i \in DOMAIN stringBuffer : ~stringBuffer[i].ends
  BY DEF ReadsFrom
<1>3. /\ n \in 1 .. Len(conn.inbox)
      /\ stringBuffer' = Rest(pieces)
      /\ queue' = queue \o lines
      /\ carried' = (carried /\ lines = <<>>)
  BY DEF ReadsFrom
<1>4. /\ later \in Conns /\ pieces \in Seq(Pieces) /\ Len(pieces) = b + n
      /\ \A i \in 1 .. b + n : pieces[i] = s[i]
      /\ Len(t) = Len(s) - e(m)
      /\ \A i \in 1 .. Len(t) : t[i] = s[e(m) + i]
      /\ Unread(later)[1] = s[b + n + 1]
  <2> HIDE DEF s, b, t, m, e, lines, q
  <2>1. Splits(stringBuffer, conn, n, pieces, later)
    BY <1>1, <1>2, <1>3, ReadSplits
  <2>2. /\ later \in Conns /\ pieces \in Seq(Pieces) /\ Len(pieces) = Len(stringBuffer) + n
        /\ \A i \in 1 .. Len(stringBuffer) + n : pieces[i] = Stream(stringBuffer, conn)[i]
        /\ Len(Stream(Rest(pieces), later))
               = Len(Stream(stringBuffer, conn)) - End(pieces, Whole(pieces))
        /\ \A i \in 1 .. Len(Stream(Rest(pieces), later)) :
               Stream(Rest(pieces), later)[i]
                   = Stream(stringBuffer, conn)[End(pieces, Whole(pieces)) + i]
        /\ Unread(later)[1] = Stream(stringBuffer, conn)[Len(stringBuffer) + n + 1]
    BY ONLY <2>1 DEF Splits
  <2>3. Stream(Rest(pieces), later) = t
    BY <1>3 DEF t
  <2>4. QED
    BY ONLY <2>2, <2>3 DEF b, s, e, m
<1>5. /\ s \in Seq(Pieces) /\ Len(s) = b + (Len(conn.inbox) + 1) /\ b \in Nat
      /\ Len(conn.inbox) \in Nat /\ s[b + 1] = Unread(conn)[1]
  <2>1. /\ s \in Seq(Pieces) /\ Len(s) = b + (Len(conn.inbox) + 1) /\ b \in Nat
        /\ Len(conn.inbox) \in Nat
        /\ \A i \in 1 .. Len(conn.inbox) + 1 : s[b + i] = Unread(conn)[i]
    BY <1>1, StreamPieces
  <2>2. 1 \in 1 .. Len(conn.inbox) + 1
    BY <2>1
  <2>3. QED
    BY <2>1, <2>2
<1>6. /\ Chained(s, First) /\ First \in 1 .. b + 1 /\ (~carried => First = 1 /\ s[1].starts)
      /\ (carried => First = b + 1) /\ \A i \in DOMAIN stringBuffer : ~stringBuffer[i].ends
  BY <1>1, <1>2, <1>5 DEF Continues, First
<1>7. Chained(s, b + 1)
  <2>1. \A i \in b + 1 .. Len(s) - 1 : i \in First .. Len(s) - 1
    BY <1>5, <1>6
  <2>2. QED
    BY <1>6, <2>1 DEF Chained
<1>8. ASSUME NEW k \in 0 .. m
      PROVE  LET from == IF k = 0 THEN b + 1 ELSE e(k) + 1
                 to == IF k < m THEN e(k + 1) ELSE b + n + 1
             IN  /\ s[to].line = s[from].line
                 /\ k > 0 => /\ e(k) \in b + 1 .. b + n
                             /\ s[from].starts
                             /\ s[from].line = (s[e(k)].line + 1) % 3
  <2>1. /\ conn \in Conns /\ stringBuffer \in Seq(Pieces) /\ n \in 1 .. Len(conn.inbox)
        /\ pieces \in Seq(Pieces) /\ Len(pieces) = Len(stringBuffer) + n
        /\ \A i \in 1 .. Len(stringBuffer) + n : pieces[i] = Stream(stringBuffer, conn)[i]
        /\ \A i \in DOMAIN stringBuffer : ~stringBuffer[i].ends
        /\ Chained(Stream(stringBuffer, conn), Len(stringBuffer) + 1)
        /\ k \in 0 .. Whole(pieces)
    BY <1>1, <1>3, <1>4, <1>6, <1>7
  <2> DEFINE from == IF k = 0 THEN Len(stringBuffer) + 1 ELSE End(pieces, k) + 1
             to == IF k < Whole(pieces) THEN End(pieces, k + 1) ELSE Len(stringBuffer) + n + 1
  <2>2. /\ from = (IF k = 0 THEN Len(stringBuffer) + 1 ELSE End(pieces, k) + 1)
        /\ to = (IF k < Whole(pieces) THEN End(pieces, k + 1) ELSE Len(stringBuffer) + n + 1)
    OBVIOUS
  <2> HIDE DEF from, to, s, b, t, m, e, lines, q
  <2>3. /\ Stream(stringBuffer, conn)[to].line = Stream(stringBuffer, conn)[from].line
        /\ k > 0 => /\ End(pieces, k) \in Len(stringBuffer) + 1 .. Len(stringBuffer) + n
                    /\ Stream(stringBuffer, conn)[from].starts
                    /\ Stream(stringBuffer, conn)[from].line
                           = (Stream(stringBuffer, conn)[End(pieces, k)].line + 1) % 3
    <3>1. OneLineFrom(stringBuffer, conn, n, pieces, k, from, to)
      BY ONLY <2>1, <2>2, StreamRuns
    <3>2. QED
      BY ONLY <3>1 DEF OneLineFrom
  <2>4. QED
    BY ONLY <2>3 DEF b, s, e, m, from, to
<1>9. /\ m \in Nat /\ e(0) = 0
      /\ \A k \in 1 .. m : /\ e(k) \in 1 .. b + n /\ pieces[e(k)].ends
                           /\ e(k - 1) \in 0 .. e(k) - 1
                           /\ \A j \in e(k - 1) + 1 .. e(k) - 1 : ~pieces[j].ends
  BY <1>4, EndsInOrder
<1>10. /\ lines \in Seq(Messages) /\ Len(lines) = m
       /\ \A k \in 1 .. m : /\ lines[k].kind = "line"
                            /\ Len(lines[k].pieces) = e(k) - e(k - 1)
                            /\ \A i \in 1 .. e(k) - e(k - 1) :
                                   lines[k].pieces[i] = pieces[e(k - 1) + i]
                            /\ Number(lines[k]) = pieces[e(k)].line
  BY <1>4, LinesAreLines
<1>11. /\ q \in Nat /\ queue' \in Seq(Messages) /\ Len(queue') = q + m
       /\ \A i \in 1 .. q + m : queue'[i] = IF i <= q THEN queue[i] ELSE lines[i - q]
  <2>1. lines \in Seq(Messages) /\ Len(lines) = m /\ queue' = queue \o lines
    BY <1>3, <1>10
  <2> HIDE DEF lines, m
  <2>2. q \in Nat
    BY <1>1, LenProperties
  <2>3. \A more \in Seq(Messages) :
            /\ queue \o more \in Seq(Messages) /\ Len(queue \o more) = q + Len(more)
            /\ \A i \in 1 .. q + Len(more) :
                   (queue \o more)[i] = IF i <= q THEN queue[i] ELSE more[i - q]
    BY <1>1, ConcatProperties
  <2>4. QED
    BY <2>1, <2>2, <2>3
<1>12. n \in Nat \ {0} /\ n <= Len(conn.inbox)
  BY <1>3, <1>5
<1> HIDE DEF b, s, t, m, e, lines, q
<1>13. Unread(later)[1].line = s[b + n + 1].line /\ Unread(conn)[1].line = s[b + 1].line
  BY <1>4, <1>5
<1>14. \A k \in 1 .. m : Number(lines[k]) = s[e(k)].line
  BY <1>4, <1>9, <1>10
<1>15. ASSUME LastFits(queue, conn)
       PROVE  (QueueInOrder => QueueInOrder') /\ LastFits(queue', later)
  <2>1. m > 0 => Number(lines[1]) = Unread(conn)[1].line
    <3>1. m > 0 => 0 \in 0 .. m /\ 1 \in 1 .. m /\ 0 + 1 = 1 /\ 0 < m
      BY <1>9
    <3>2. m > 0 => s[e(0 + 1)].line = s[b + 1].line
      BY <1>8, <3>1
    <3>3. QED
      BY <1>13, <1>14, <3>1, <3>2
  <2>2. \A k \in 1 .. m - 1 : Number(lines[k + 1]) = (Number(lines[k]) + 1) % 3
    <3> SUFFICES ASSUME NEW k \in 1 .. m - 1
                 PROVE  Number(lines[k + 1]) = (Number(lines[k]) + 1) % 3
      OBVIOUS
    <3>1. k \in 0 .. m /\ k > 0 /\ k < m /\ k # 0 /\ k \in 1 .. m /\ k + 1 \in 1 .. m
      BY <1>9
    <3>2. s[e(k + 1)].line = s[e(k) + 1].line /\ s[e(k) + 1].line = (s[e(k)].line + 1) % 3
      BY <1>8, <3>1
    <3>3. QED
      BY <1>14, <3>1, <3>2
  <2>3. lines # <<>> => m > 0
    BY <1>9, <1>10, EmptySeq
  <2>4. ASSUME QueueInOrder PROVE QueueInOrder'
    <3>1. queue # <<>> /\ lines # <<>> =>
               /\ queue[Len(queue)].kind = "line"
                      => Number(lines[1]) = (Number(queue[Len(queue)]) + 1) % 3
               /\ queue[Len(queue)].kind = "Connected" => Number(lines[1]) = 0
               /\ queue[Len(queue)].kind # "Disconnected"
      BY <1>15, <2>1, <2>3 DEF LastFits
    <3>2. /\ \A k \in 1 .. Len(lines) : lines[k].kind = "line"
          /\ \A k \in 1 .. Len(lines) - 1 : Number(lines[k + 1]) = (Number(lines[k]) + 1) % 3
      BY <1>10, <2>2
    <3>3. queue' = queue \o lines
      BY <1>3
    <3>4. QED
      BY <1>1, <1>10, <2>4, <3>1, <3>2, <3>3, LinesKeepOrder
  <2>5. CASE m = 0
    <3>1. 0 \in 0 .. m /\ ~(0 < m)
      BY <2>5
    <3>2. Unread(later)[1].line = Unread(conn)[1].line
      BY <1>8, <1>13, <3>1
    <3>3. q + m = q
      BY <1>11, <2>5
    <3>4. queue # <<>> /\ queue' # <<>> => queue'[Len(queue')] = queue[Len(queue)]
      <4>1. queue # <<>> => q \in 1 .. q + m /\ q <= q
        BY <1>1, <1>11, <3>3, EmptySeq DEF q
      <4>2. QED
        BY <1>11, <3>3, <4>1 DEF q
    <3>5. queue' # <<>> => queue # <<>>
      BY <1>1, <1>11, <3>3, EmptySeq DEF q
    <3>6. QED
      BY <1>15, <2>4, <3>2, <3>4, <3>5 DEF LastFits
  <2>6. CASE m > 0
    <3>1. m \in 1 .. m /\ m \in 0 .. m /\ ~(m < m) /\ m # 0 /\ q + m \in 1 .. q + m
          /\ ~(q + m <= q) /\ (q + m) - q = m
      BY <1>9, <1>11, <2>6
    <3>2. queue'[Len(queue')] = lines[m] /\ lines[m].kind = "line"
      BY <1>10, <1>11, <3>1
    <3>3. Unread(later)[1].line = (Number(lines[m]) + 1) % 3
      BY <1>8, <1>13, <1>14, <2>6, <3>1
    <3>4. QED
      BY <2>4, <3>2, <3>3 DEF LastFits
  <2>7. QED
    BY <1>9, <2>5, <2>6
<1>16. (\A i \in DOMAIN stringBuffer' : ~stringBuffer'[i].ends) /\ Continues(later)'
  <2>1. \A i \in DOMAIN stringBuffer' : ~stringBuffer'[i].ends
    <3>1. /\ stringBuffer' \in Seq(Pieces)
          /\ \A i \in 1 .. Len(stringBuffer') : ~stringBuffer'[i].ends
      BY <1>3, <1>4, RestIsUnended
    <3>2. QED
      BY <3>1, LenProperties
  <2>2. e(m) \in 0 .. b + n /\ (m > 0 => e(m) \in b + 1 .. b + n) /\ (m = 0 => e(m) = 0)
    <3>1. m > 0 => m \in 0 .. m
      BY <1>9
    <3>2. m > 0 => e(m) \in b + 1 .. b + n
      BY <1>8, <3>1
    <3>3. QED
      BY <1>5, <1>9, <1>12, <3>2
  <2>3. lines = <<>> <=> m = 0
    BY <1>10, EmptySeq
  <2>4. First' \in Nat /\ First' >= 1 /\ e(m) + First' >= First
    <3>1. CASE m > 0
      <4>1. carried' = FALSE
        <5>1. lines # <<>> /\ carried' = (carried /\ lines = <<>>)
          BY <1>3, <2>3, <3>1
        <5> HIDE DEF lines
        <5>2. QED
          BY ONLY <5>1
      <4>2. First' = 1
        BY <4>1 DEF First
      <4>3. First \in 1 .. b + 1 /\ e(m) \in b + 1 .. b + n /\ b \in Nat
        BY <1>5, <1>6, <2>2, <3>1
      <4>4. QED
        BY <4>2, <4>3
    <3>2. CASE m = 0
      <4>1. carried' = carried /\ e(m) = 0
        BY <1>1, <1>3, <2>2, <2>3, <3>2
      <4>2. Len(stringBuffer') = b + n
        <5>1. Len(stringBuffer') = Len(pieces) - End(pieces, Whole(pieces))
          BY <1>3, <1>4, RestIsUnended
        <5>2. QED
          BY <1>4, <1>5, <1>12, <4>1, <5>1 DEF e, m
      <4>3. QED
        BY <1>5, <1>6, <1>12, <4>1, <4>2 DEF First
    <3>3. QED
      BY <1>9, <3>1, <3>2
  <2>5. Chained(t, First')
    <3> SUFFICES ASSUME NEW i \in First' .. Len(t) - 1 PROVE Follows(t[i], t[i + 1])
      BY DEF Chained
    <3>1. i \in 1 .. Len(t) /\ i + 1 \in 1 .. Len(t) /\ e(m) + i \in First .. Len(s) - 1
          /\ e(m) + (i + 1) = (e(m) + i) + 1
      <4> DEFINE first == First'
      <4>1. i \in Nat /\ first >= 1 /\ e(m) + first >= First /\ first <= i /\ i <= Len(t) - 1
        BY <2>4
      <4>2. Len(t) = Len(s) - e(m) /\ e(m) \in 0 .. b + n /\ First \in 1 .. b + 1
            /\ b \in Nat /\ Len(s) \in Nat
        BY <1>4, <1>5, <1>6, <2>2
      <4>3. first \in Nat
        BY <2>4
      <4> HIDE DEF first
      <4>4. QED
        BY <4>1, <4>2, <4>3
    <3>2. QED
      BY <1>4, <1>6, <3>1 DEF Chained
  <2>6. ASSUME ~carried' PROVE t[1].starts
    <3>0. 1 \in 1 .. Len(t)
      BY <1>4, <1>5, <1>12, <2>2
    <3>1. CASE m = 0
      <4>1. ~carried /\ e(m) + 1 = 1
        BY <1>1, <1>3, <2>2, <2>3, <2>6, <3>1
      <4>2. QED
        BY <1>4, <1>6, <3>0, <4>1
    <3>2. CASE m > 0
      <4>1. m \in 0 .. m /\ m # 0
        BY <1>9, <3>2
      <4>2. s[e(m) + 1].starts
        BY <1>8, <3>2, <4>1
      <4>3. QED
        BY <1>4, <3>0, <4>2
    <3>3. QED
      BY <1>9, <3>1, <3>2
  <2>7. QED
    BY <2>1, <2>5, <2>6 DEF Continues, t
<1>17. ASSUME NEW i \in NewLines PROVE Intact(queue'[i]) \/ (carried /\ i = Len(queue) + 1)
  <2> SUFFICES ASSUME ~(carried /\ i = q + 1) PROVE Intact(queue'[i])
    BY DEF q
  <2> DEFINE k == i - q
             message == lines[k]
             before == e(k - 1)
             to == e(k)
  <2>1. k \in 1 .. m /\ queue'[i] = message
    <3>1. i \in q + 1 .. q + m
      BY <1>11 DEF NewLines, q
    <3>2. i \in 1 .. q + m /\ ~(i <= q) /\ i - q \in 1 .. m
      BY <1>9, <1>11, <3>1
    <3>3. QED
      BY <1>11, <3>2
  <2>2. i = q + 1 <=> k = 1
    BY <1>11 DEF NewLines
  <2> HIDE DEF k
  <2>3. /\ to \in 1 .. b + n /\ pieces[to].ends /\ before \in 0 .. to - 1
        /\ \A j \in before + 1 .. to - 1 : ~pieces[j].ends
        /\ Len(message.pieces) = to - before
        /\ \A j \in 1 .. to - before : message.pieces[j] = pieces[before + j]
        /\ Number(message) = pieces[to].line
    BY <1>9, <1>10, <2>1
  <2>4. First <= before + 1 /\ s[before + 1].starts
    <3>1. CASE k = 1
      <4>1. before = 0 /\ ~carried /\ before + 1 = 1
        BY <1>9, <2>2, <3>1
      <4>2. QED
        BY <1>6, <4>1
    <3>2. CASE k # 1
      <4>1. k - 1 \in 0 .. m /\ k - 1 > 0 /\ k - 1 # 0
        BY <1>9, <2>1, <3>2
      <4>2. before \in b + 1 .. b + n /\ s[before + 1].starts
        BY <1>8, <4>1
      <4>3. QED
        BY <1>5, <1>6, <4>2
    <3>3. QED
      BY <3>1, <3>2
  <2> HIDE DEF before, to, message
  <2>5. b + n \in Nat /\ b + n <= Len(s) - 1 /\ First \in Nat /\ 1 <= First
    BY <1>5, <1>6, <1>12
  <2>6. \A j \in before + 1 .. to - 1 : Follows(s[j], s[j + 1]) /\ ~s[j].ends
    <3> SUFFICES ASSUME NEW j \in before + 1 .. to - 1 PROVE Follows(s[j], s[j + 1]) /\ ~s[j].ends
      OBVIOUS
    <3>1. j \in First .. Len(s) - 1 /\ j \in 1 .. b + n
      <4>1. before \in Nat /\ to \in 1 .. b + n /\ First <= before + 1 /\ b + n \in Nat
            /\ Len(s) \in Nat /\ First \in Nat /\ 1 <= First /\ b + n <= Len(s) - 1
        BY <1>5, <2>3, <2>4, <2>5
      <4> HIDE DEF s, b
      <4>2. QED
        BY <4>1
    <3>2. QED
      BY <1>4, <1>6, <2>3, <3>1 DEF Chained
  <2>7. /\ \A j \in before + 1 .. to : s[j].line = s[before + 1].line
        /\ \A j \in (before + 1) + 1 .. to : ~s[j].starts
    <3>1. before + 1 \in Nat /\ to \in Nat /\ before + 1 <= to
      BY <2>3, <2>5
    <3>2. QED
      BY <2>6, <3>1, OneLine
  <2>8. Number(message) = s[before + 1].line
    <3>1. to \in before + 1 .. to /\ pieces[to] = s[to]
      BY <1>4, <2>3, <2>5
    <3>2. QED
      BY <2>3, <2>7, <3>1
  <2>9. ASSUME NEW j \in 1 .. to - before
        PROVE  message.pieces[j] = [line |-> Number(message), starts |-> j = 1,
                                    ends |-> j = Len(message.pieces)]
    <3> DEFINE piece == message.pieces[j]
    <3>1. before + j \in before + 1 .. to /\ before + j \in 1 .. b + n
      BY <2>3, <2>5
    <3>2. piece = s[before + j] /\ piece = pieces[before + j] /\ piece \in Pieces
      BY <1>4, <2>3, <3>1, ElementOfSeq
    <3>3. piece.line = Number(message)
      BY <2>7, <2>8, <3>1, <3>2
    <3>4. piece.starts <=> j = 1
      <4>1. CASE j = 1
        BY <2>4, <3>2, <4>1
      <4>2. CASE j # 1
        <5>1. before + j \in (before + 1) + 1 .. to
          BY <2>3, <2>5, <3>1, <4>2
        <5>2. QED
          BY <2>7, <3>2, <4>2, <5>1
      <4>3. QED
        BY <4>1, <4>2
    <3>5. piece.ends <=> j = Len(message.pieces)
      <4>1. CASE j = to - before
        <5>1. before + j = to
          BY <2>3, <4>1
        <5>2. QED
          BY <2>3, <3>2, <4>1, <5>1
      <4>2. CASE j # to - before
        <5>1. before + j \in before + 1 .. to - 1
          BY <2>3, <2>5, <3>1, <4>2
        <5>2. QED
          BY <2>3, <3>2, <4>2, <5>1
      <4>3. QED
        BY <4>1, <4>2
    <3> HIDE DEF piece
    <3>6. (j = 1) \in BOOLEAN /\ (j = Len(message.pieces)) \in BOOLEAN
      OBVIOUS
    <3>7. piece = [line |-> Number(message), starts |-> j = 1, ends |-> j = Len(message.pieces)]
      BY <3>2, <3>3, <3>4, <3>5, <3>6, PieceIs
    <3>8. QED
      BY <3>7 DEF piece
  <2>10. DOMAIN message.pieces = 1 .. to - before
    <3>1. message \in Messages
      BY <1>10, <2>1, ElementOfSeq DEF message
    <3>2. message.pieces \in Seq(Pieces)
      BY <3>1, EmptySeq DEF Messages
    <3>3. QED
      BY <2>3, <3>2, LenProperties
  <2>11. Intact(message)
    BY <2>9, <2>10 DEF Intact
  <2>12. QED
    BY <2>1, <2>11 DEF message
<1>18. QED
  BY <1>15, <1>16, <1>17 DEF ReadsOn

\* What the sensor does to a connection keeps what is chained, and where it begins.
Grows(buffer, from, conn, later) ==
    /\ conn \in Conns /\ later \in Conns
    /\ Chained(Stream(buffer, conn), from) => Chained(Stream(buffer, later), from)
    /\ Stream(buffer, later)[1].starts = Stream(buffer, conn)[1].starts
    /\ Unread(later)[1].starts = Unread(conn)[1].starts
    /\ Unread(later)[1].line = Unread(conn)[1].line

LEMMA SentIsConn ==
    ASSUME NEW conn \in Conns, NEW ends \in BOOLEAN
    PROVE  Sent(conn, ends) \in Conns
<1> DEFINE piece == [line |-> conn.line, starts |-> ~conn.midLine, ends |-> ends]
           inbox == Append(conn.inbox, piece)
           line == IF ends THEN (conn.line + 1) % 3 ELSE conn.line
<1>1. /\ conn.inbox \in Seq(Pieces) /\ piece \in Pieces /\ conn.line \in Numbers
      /\ conn.peer \in Peers
  BY DEF Conns, Pieces
<1>2. inbox \in Seq(Pieces)
  BY <1>1, AppendProperties
<1>3. line \in Numbers
  BY <1>1 DEF Numbers
<1>4. Sent(conn, ends) = [inbox |-> inbox, peer |-> conn.peer, line |-> line, midLine |-> ~ends]
  <2>1. Sent(conn, ends) = [conn EXCEPT !.inbox = inbox, !.line = line, !.midLine = ~ends]
    BY DEF Sent
  <2>2. conn = [inbox |-> conn.inbox, peer |-> conn.peer, line |-> conn.line,
                midLine |-> conn.midLine]
    BY DEF Conns
  <2> HIDE DEF inbox, line
  <2>3. QED
    BY <2>1, <2>2
<1> HIDE DEF inbox, line
<1>5. QED
  BY <1>1, <1>2, <1>3, <1>4 DEF Conns

LEMMA SendingGrows ==
    ASSUME NEW buffer \in Seq(Pieces), NEW from \in Nat \ {0}, NEW conn \in Conns,
           NEW ends \in BOOLEAN, NEW later, later = Sent(conn, ends)
    PROVE  Grows(buffer, from, conn, later)
<1>1. later \in Conns
  BY SentIsConn
<1>2. ASSUME Chained(Stream(buffer, conn), from) PROVE Chained(Stream(buffer, later), from)
  BY <1>1, <1>2, SentChain
<1>3. /\ Stream(buffer, later)[1].starts = Stream(buffer, conn)[1].starts
      /\ Unread(later)[1].starts = Unread(conn)[1].starts
      /\ Unread(later)[1].line = Unread(conn)[1].line
  <2> DEFINE far == Len(Stream(buffer, conn)) + 1
  <2>1. far \in Nat \ {0} /\ \A i \in far .. Len(Stream(buffer, conn)) - 1 : FALSE
    BY StreamPieces
  <2>2. Chained(Stream(buffer, conn), far)
    BY <2>1 DEF Chained
  <2> HIDE DEF far
  <2>3. QED
    BY <1>1, <2>1, <2>2, SentChain
<1>4. QED
  BY <1>1, <1>2, <1>3 DEF Grows

LEMMA LeavingGrows ==
    ASSUME NEW buffer \in Seq(Pieces), NEW from \in Nat \ {0}, NEW conn \in Conns,
           NEW peer \in Peers, NEW later, later = [conn EXCEPT !.peer = peer]
    PROVE  Grows(buffer, from, conn, later)
<1>1. /\ later \in Conns /\ later.inbox = conn.inbox /\ later.line = conn.line
      /\ later.midLine = conn.midLine
  BY DEF Conns
<1>2. Unread(later) = Unread(conn)
  BY <1>1 DEF Unread
<1>3. Stream(buffer, later) = Stream(buffer, conn)
  BY <1>2 DEF Stream
<1>4. QED
  BY <1>1, <1>2, <1>3 DEF Grows

LEMMA SensorGrows ==
    ASSUME TypeOK, SensorSends \/ SensorLeaves, NEW buffer \in Seq(Pieces), NEW from \in Nat \ {0}
    PROVE  /\ client' = client \/ Grows(buffer, from, client, client')
           /\ backlog' = backlog \/ Grows(<<>>, 1, backlog, backlog')
<1>1. IsClient(client) /\ backlog \in Conns \cup {NoConn}
      /\ <<>> \in Seq(Pieces) /\ 1 \in Nat \ {0}
  BY EmptySeq DEF TypeOK, IsClient
<1>2. CASE SensorSends
  <2>1. PICK ends \in BOOLEAN :
            \/ client.peer = "up" /\ client' = Sent(client, ends) /\ UNCHANGED backlog
            \/ backlog.peer = "up" /\ backlog' = Sent(backlog, ends) /\ UNCHANGED client
    BY <1>2 DEF SensorSends, CanSend
  <2>2. CASE client.peer = "up" /\ client' = Sent(client, ends) /\ UNCHANGED backlog
    <3>1. client \in Conns
      BY <1>1, <2>2, ClientIsReal
    <3>2. Grows(buffer, from, client, client')
      BY <2>2, <3>1, SendingGrows
    <3>3. QED
      BY <2>2, <3>2
  <2>3. CASE backlog.peer = "up" /\ backlog' = Sent(backlog, ends) /\ UNCHANGED client
    <3>1. backlog \in Conns
      BY <1>1, <2>3, ConnIsReal
    <3>2. Grows(<<>>, 1, backlog, backlog')
      BY <1>1, <2>3, <3>1, SendingGrows
    <3>3. QED
      BY <2>3, <3>2
  <2>4. QED
    BY <2>1, <2>2, <2>3
<1>3. CASE SensorLeaves
  <2>1. PICK peer \in Peers :
            \/ client.peer = "up" /\ client' = [client EXCEPT !.peer = peer] /\ UNCHANGED backlog
            \/ backlog.peer = "up" /\ backlog' = [backlog EXCEPT !.peer = peer] /\ UNCHANGED client
    BY <1>3 DEF SensorLeaves, Peers
  <2>2. CASE client.peer = "up" /\ client' = [client EXCEPT !.peer = peer] /\ UNCHANGED backlog
    <3>1. client \in Conns
      BY <1>1, <2>2, ClientIsReal
    <3>2. Grows(buffer, from, client, client')
      BY <2>2, <3>1, LeavingGrows
    <3>3. QED
      BY <2>2, <3>2
  <2>3. CASE backlog.peer = "up" /\ backlog' = [backlog EXCEPT !.peer = peer] /\ UNCHANGED client
    <3>1. backlog \in Conns
      BY <1>1, <2>3, ConnIsReal
    <3>2. Grows(<<>>, 1, backlog, backlog')
      BY <1>1, <2>3, <3>1, LeavingGrows
    <3>3. QED
      BY <2>3, <3>2
  <2>4. QED
    BY <2>1, <2>2, <2>3
<1>4. QED
  BY <1>2, <1>3

\* Without a buffer, a stream is what is unread.
LEMMA StreamOfNothing ==
    ASSUME NEW conn \in Conns
    PROVE  Stream(<<>>, conn) = Unread(conn)
<1>1. Unread(conn) \in Seq(Pieces) /\ <<>> \in Seq(Pieces)
  BY StreamPieces, EmptySeq
<1>2. QED
  BY <1>1, ConcatEmptySeq DEF Stream

\* What is not the client's change keeps what is known of it.
LEMMA SameStream ==
    ASSUME StreamInv, UNCHANGED <<client, stringBuffer, carried>>,
           backlog' # NoConn =>
               /\ Chained(Unread(backlog'), 1)
               /\ Unread(backlog')[1].starts /\ Unread(backlog')[1].line = 0
    PROVE  StreamInv'
<1>1. Present' = Present /\ First' = First
  BY DEF Present, First
<1>2. \A conn : Missed(conn)' = Missed(conn) /\ Continues(conn)' = Continues(conn)
  BY <1>1 DEF Missed, Continues
<1>3. Continues(client)' = Continues(client)
  BY <1>1 DEF Continues
<1>4. ~Present /\ client.inbox # <<>> => \E conn \in Conns : Missed(conn)' /\ Continues(conn)'
  BY <1>2 DEF StreamInv
<1>5. QED
  BY <1>1, <1>3, <1>4 DEF StreamInv

LEMMA SensorKeepsStream ==
    ASSUME TypeOK, StreamInv, OrderInv, SensorSends \/ SensorLeaves
    PROVE  StreamInv' /\ OrderInv'
<1>1. UNCHANGED <<stringBuffer, carried, queue, crashed, rearm>>
  BY DEF SensorSends, SensorLeaves, EnvUnchanged, bufferVars
<1>2. stringBuffer \in Seq(Pieces) /\ First \in Nat \ {0}
      /\ IsClient(client) /\ backlog \in Conns \cup {NoConn}
  <2>1. stringBuffer \in Seq(Pieces) /\ IsClient(client)
        /\ backlog \in Conns \cup {NoConn}
    BY DEF TypeOK, IsClient
  <2>2. QED
    BY <2>1, LenProperties DEF First
<1>3. First' = First /\ QueueInOrder' = QueueInOrder
  BY <1>1 DEF First, QueueInOrder, InOrder
<1> HIDE DEF First
<1>4. /\ client' = client \/ Grows(stringBuffer, First, client, client')
      /\ backlog' = backlog \/ Grows(<<>>, 1, backlog, backlog')
  BY <1>2, SensorGrows
<1>5. Present' <=> Present
  BY <1>4, ConnIsReal DEF Grows, Present
<1>6. ASSUME backlog' # NoConn
      PROVE  /\ Chained(Unread(backlog'), 1)
             /\ Unread(backlog')[1].starts /\ Unread(backlog')[1].line = 0
  <2>1. CASE backlog' = backlog
    BY <1>6, <2>1 DEF StreamInv
  <2>2. CASE Grows(<<>>, 1, backlog, backlog')
    <3>1. backlog \in Conns /\ backlog' \in Conns /\ backlog # NoConn
      BY <2>2, ConnIsReal DEF Grows
    <3>2. /\ Chained(Unread(backlog), 1)
          /\ Unread(backlog)[1].starts /\ Unread(backlog)[1].line = 0
      BY <3>1 DEF StreamInv
    <3>3. Stream(<<>>, backlog) = Unread(backlog) /\ Stream(<<>>, backlog') = Unread(backlog')
      BY <3>1, StreamOfNothing
    <3>4. QED
      BY <2>2, <3>2, <3>3 DEF Grows
  <2>3. QED
    BY <1>4, <2>1, <2>2
<1>7. StreamInv'
  <2>1. CASE client' = client
    BY <1>1, <1>6, <2>1, SameStream
  <2>2. CASE Grows(stringBuffer, First, client, client')
    <3>1. Present /\ Present'
      BY <2>2, ConnIsReal DEF Grows, Present
    <3>2. /\ Chained(Stream(stringBuffer, client), First)
          /\ ~carried => Stream(stringBuffer, client)[1].starts
      BY <3>1 DEF StreamInv, Continues
    <3>3. /\ Chained(Stream(stringBuffer, client'), First)
          /\ ~carried => Stream(stringBuffer, client')[1].starts
      BY <2>2, <3>2 DEF Grows
    <3>4. Continues(client)'
      BY <1>1, <1>3, <3>3 DEF Continues
    <3>5. \A i \in DOMAIN stringBuffer : ~stringBuffer[i].ends
      BY DEF StreamInv
    <3>6. QED
      BY <1>1, <1>6, <3>1, <3>4, <3>5 DEF StreamInv
  <2>3. QED
    BY <1>4, <2>1, <2>2
<1>8. Unread(client')[1].line = Unread(client)[1].line
  BY <1>4 DEF Grows
<1>9. LastFits(queue, client)' = LastFits(queue, client)
  BY <1>1, <1>8 DEF LastFits
<1>10. Sound' = Sound
  BY <1>1, <1>5 DEF Sound
<1>11. QED
  BY <1>3, <1>5, <1>7, <1>9, <1>10 DEF OrderInv

LEMMA ConnectKeepsStream ==
    ASSUME StreamInv, OrderInv, SensorConnects
    PROVE  StreamInv' /\ OrderInv'
<1>1. UNCHANGED <<stringBuffer, carried, queue, client, crashed, rearm>> /\ backlog' = NewConn
  BY DEF SensorConnects, EnvUnchanged, bufferVars
<1>2. /\ Len(Unread(NewConn)) = 1
      /\ Unread(NewConn)[1] = [line |-> 0, starts |-> TRUE, ends |-> FALSE]
  <2>1. NewConn.inbox = <<>> /\ NewConn.line = 0 /\ NewConn.midLine = FALSE
    BY DEF NewConn
  <2>2. Unread(NewConn) = <<[line |-> 0, starts |-> TRUE, ends |-> FALSE]>>
    BY <2>1, ShortSequences DEF Unread
  <2>3. QED
    BY <2>2
<1>3. Chained(Unread(NewConn), 1)
  BY <1>2 DEF Chained
<1>4. StreamInv'
  BY <1>1, <1>2, <1>3, SameStream
<1>5. OrderInv'
  BY <1>1 DEF OrderInv, Present, LastFits, QueueInOrder, InOrder, Sound
<1>6. QED
  BY <1>4, <1>5

\* The buffer may hold what an earlier connection left: the chain of the new one
\* begins behind it.
LEMMA AcceptKeepsStream ==
    ASSUME TypeOK, StreamInv, OrderInv, AcceptHandler, backlog \in Conns, Sound' => Sound
    PROVE  StreamInv' /\ OrderInv'
<1>1. /\ client' = backlog /\ backlog' = NoConn /\ stringBuffer' = stringBuffer
      /\ carried' = (stringBuffer # <<>>) /\ queue' = Append(queue, Event("Connected"))
  BY DEF AcceptHandler
<1>2. stringBuffer \in Seq(Pieces) /\ queue \in Seq(Messages)
  BY DEF TypeOK
<1>3. /\ Chained(Unread(backlog), 1)
      /\ Unread(backlog)[1].starts /\ Unread(backlog)[1].line = 0
      /\ \A i \in DOMAIN stringBuffer : ~stringBuffer[i].ends
  BY ConnIsReal DEF StreamInv
<1> DEFINE b == Len(stringBuffer)
           u == Unread(backlog)
           n == Len(backlog.inbox)
           s == Stream(stringBuffer, backlog)
<1>4. /\ b \in Nat /\ n \in Nat /\ Len(u) = n + 1 /\ Len(s) = b + (n + 1)
      /\ \A i \in 1 .. n + 1 : s[b + i] = u[i]
  BY <1>2, StreamPieces
<1>5. stringBuffer = <<>> => b = 0
  BY EmptySeq
<1> HIDE DEF b, u, n, s
<1>6. First' = b + 1
  <2>1. CASE stringBuffer = <<>>
    <3>1. carried' = FALSE
      BY <1>1, <2>1
    <3>2. First' = 1
      BY <3>1 DEF First
    <3>3. QED
      BY <1>5, <2>1, <3>2
  <2>2. CASE stringBuffer # <<>>
    <3>1. carried' = TRUE
      BY <1>1, <2>2
    <3>2. First' = Len(stringBuffer') + 1
      BY <3>1 DEF First
    <3>3. QED
      BY <1>1, <3>2 DEF b
  <2>3. QED
    BY <2>1, <2>2
<1>7. Chained(s, b + 1)
  <2> SUFFICES ASSUME NEW i \in b + 1 .. Len(s) - 1 PROVE Follows(s[i], s[i + 1])
    BY DEF Chained
  <2>1. /\ i - b \in 1 .. Len(u) - 1 /\ i - b \in 1 .. n + 1 /\ (i - b) + 1 \in 1 .. n + 1
        /\ b + (i - b) = i /\ b + ((i - b) + 1) = i + 1
    BY <1>4
  <2>2. Follows(u[i - b], u[(i - b) + 1])
    BY <1>3, <2>1 DEF Chained, u
  <2>3. s[i] = u[i - b] /\ s[i + 1] = u[(i - b) + 1]
    <3>1. s[b + (i - b)] = u[i - b]
      BY <1>4, <2>1
    <3>2. s[b + ((i - b) + 1)] = u[(i - b) + 1]
      BY <1>4, <2>1
    <3>3. b + (i - b) = i /\ b + ((i - b) + 1) = i + 1
      BY <2>1
    <3>4. QED
      BY <3>1, <3>2, <3>3
  <2>4. QED
    BY <2>2, <2>3
<1>8. ASSUME ~carried' PROVE s[1].starts
  <2>1. b = 0
    BY <1>1, <1>5, <1>8
  <2>2. 1 \in 1 .. n + 1 /\ b + 1 = 1
    BY <1>4, <2>1
  <2>3. QED
    BY <1>3, <1>4, <2>2 DEF u
<1>9. StreamInv'
  <2>1. Continues(client)' /\ Present'
    BY <1>1, <1>6, <1>7, <1>8, ConnIsReal DEF Continues, Present, s
  <2>2. QED
    BY <1>1, <1>3, <2>1 DEF StreamInv
<1>10. queue'[Len(queue')].kind = "Connected" /\ (QueueInOrder => QueueInOrder')
  BY <1>1, <1>2, EventKeepsOrder
<1>11. LastFits(queue, client)'
  BY <1>1, <1>3, <1>10 DEF LastFits
<1>12. Sound => QueueInOrder'
  BY <1>10 DEF OrderInv
<1>13. QED
  BY <1>9, <1>11, <1>12 DEF OrderInv

\* What a disconnected client has sent is lost, but for what a missed read has.
LEMMA DisconnectKeepsStream ==
    ASSUME TypeOK, StreamInv, OrderInv, NEW rest, Disconnect(rest),
           UNCHANGED <<backlog, bufferVars>>, Sound' => Sound
    PROVE  StreamInv' /\ OrderInv'
<1>1. queue' = Append(queue, Event("Disconnected")) /\ ~Present'
      /\ UNCHANGED <<backlog, stringBuffer, carried>>
  BY DisconnectEnds DEF Disconnect, bufferVars
<1>2. QueueInOrder => QueueInOrder'
  <2>1. queue \in Seq(Messages)
    BY DEF TypeOK
  <2>2. QED
    BY <1>1, <2>1, EventKeepsOrder
<1>3. First' = First
  BY <1>1 DEF First
<1>4. \A conn : Continues(conn)' = Continues(conn)
  BY <1>1, <1>3 DEF Continues
<1>5. ASSUME client'.inbox # <<>> PROVE \E conn \in Conns : Missed(conn)' /\ Continues(conn)'
  <2>1. CASE ~Present
    <3>1. client' = client
      BY <2>1 DEF Disconnect
    <3>2. PICK conn \in Conns : Missed(conn) /\ Continues(conn)
      BY <1>5, <2>1, <3>1 DEF StreamInv
    <3>3. Missed(conn)'
      BY <3>1, <3>2 DEF Missed
    <3>4. QED
      BY <1>4, <3>2, <3>3
  <2>2. CASE Present
    <3>1. client \in Conns /\ Continues(client)
      BY <2>2, ClientIsReal DEF TypeOK, IsClient, StreamInv
    <3>2. NoConn.inbox = <<>> /\ \A s : Absent(s).inbox = s
      BY DEF NoConn, Absent
    <3>3. PICK n \in 1 .. Len(client.inbox) : client' = Absent(SubSeq(client.inbox, 1, n))
      BY <1>5, <2>2, <3>2 DEF Disconnect, AbortsRead, MissesRead
    <3>4. PICK conn \in Conns : conn = client
      BY <3>1
    <3>5. client'.inbox = SubSeq(conn.inbox, 1, n) /\ n \in 1 .. Len(conn.inbox)
      BY <3>2, <3>3, <3>4
    <3>6. Missed(conn)'
      BY <3>5 DEF Missed
    <3>7. Continues(conn)
      BY <3>1, <3>4
    <3>8. QED
      BY <1>4, <3>6, <3>7
  <2>3. QED
    BY <2>1, <2>2
<1>6. StreamInv'
  BY <1>1, <1>5 DEF StreamInv
<1>7. QED
  BY <1>1, <1>2, <1>6 DEF OrderInv

\* The read handler: the connection is the client, or the one that was missed.
LEMMA ReadKeepsStream ==
    ASSUME TypeOK, StreamInv, OrderInv, ReadHandler
    PROVE  /\ StreamInv' /\ OrderInv'
           /\ \A i \in NewLines : Intact(queue'[i]) \/ (carried /\ i = Len(queue) + 1)
<1>1. /\ IsClient(client) /\ stringBuffer \in Seq(Pieces) /\ queue \in Seq(Messages)
      /\ carried \in BOOLEAN /\ \A i \in DOMAIN stringBuffer : ~stringBuffer[i].ends
  BY DEF TypeOK, IsClient, StreamInv
<1>2. /\ UNCHANGED <<backlog, crashed>> /\ Sound /\ rearm'
  BY DEF ReadHandler, Runs, Polling, Sound
<1>3. PICK n \in 1 .. Len(client.inbox) : ReadsPieces(n) /\ (Present \/ n = Len(client.inbox))
  BY <1>1, ReadPieces
<1>4. client.inbox \in Seq(Pieces) /\ Len(client.inbox) \in Nat
  BY <1>1, ClientIsReal, LenProperties
<1>5. CASE Present
  <2>1. client \in Conns /\ Continues(client) /\ LastFits(queue, client) /\ QueueInOrder
    BY <1>1, <1>2, <1>5, ClientIsReal DEF StreamInv, OrderInv
  <2>2. PICK pieces, later :
            /\ pieces = stringBuffer \o SubSeq(client.inbox, 1, n)
            /\ later = [client EXCEPT !.inbox = SubSeq(@, n + 1, Len(@))] /\ later = client'
            /\ stringBuffer' = Rest(pieces) /\ queue' = queue \o Lines(pieces)
            /\ carried' = (carried /\ Lines(pieces) = <<>>)
    BY <1>3 DEF ReadsPieces, Buffered
  <2>3. ReadsOn(later) /\ QueueInOrder' /\ LastFits(queue', later)
    <3>1. ReadsFrom(client, n, pieces, later)
      BY <1>1, <1>3, <2>1, <2>2 DEF ReadsFrom
    <3>2. QED
      BY <2>1, <3>1, ReadKeepsChain
  <2>4. Continues(client)'
    BY <2>2, <2>3 DEF ReadsOn, Continues
  <2>5. later.peer = client.peer
    BY <2>1, <2>2 DEF Conns
  <2>6. Present'
    BY <1>5, <2>2, <2>5 DEF Present
  <2>7. StreamInv'
    BY <1>2, <2>3, <2>4, <2>6 DEF StreamInv, ReadsOn
  <2>8. OrderInv'
    BY <2>2, <2>3 DEF OrderInv, LastFits
  <2>9. QED
    BY <2>3, <2>7, <2>8 DEF ReadsOn
<1>6. CASE ~Present
  <2>1. client.inbox # <<>> /\ n = Len(client.inbox)
    BY <1>3, <1>4, <1>6, EmptySeq
  <2>2. PICK conn \in Conns : Missed(conn) /\ Continues(conn)
    BY <1>6, <2>1 DEF StreamInv
  <2>3. PICK k \in 1 .. Len(conn.inbox) : client.inbox = SubSeq(conn.inbox, 1, k)
    BY <2>2 DEF Missed
  <2>4. SubSeq(client.inbox, 1, n) = SubSeq(conn.inbox, 1, k)
    <3>1. SubSeq(client.inbox, 1, Len(client.inbox)) = client.inbox
      BY <1>4, WholeSeq
    <3>2. QED
      BY <2>1, <2>3, <3>1
  <2>5. PICK pieces, later :
            /\ pieces = stringBuffer \o SubSeq(conn.inbox, 1, k)
            /\ later = [conn EXCEPT !.inbox = SubSeq(@, k + 1, Len(@))]
            /\ stringBuffer' = Rest(pieces) /\ queue' = queue \o Lines(pieces)
            /\ carried' = (carried /\ Lines(pieces) = <<>>)
    BY <1>3, <2>4 DEF ReadsPieces, Buffered
  <2>6. ReadsOn(later)
    <3>1. ReadsFrom(conn, k, pieces, later)
      BY <1>1, <2>2, <2>3, <2>5 DEF ReadsFrom
    <3>2. QED
      BY <3>1, ReadKeepsChain
  <2>7. ~Present' /\ client'.inbox = <<>>
    <3>1. client = Absent(client.inbox)
      BY <1>1, <1>6, ConnIsReal DEF IsClient, Present
    <3>2. SubSeq(client.inbox, n + 1, Len(client.inbox)) = <<>>
      BY <1>4, <2>1, NoneLeft
    <3>3. client' = [client EXCEPT !.inbox = <<>>]
      BY <1>3, <3>2 DEF ReadsPieces
    <3>4. client \in [inbox : Seq(Pieces), peer : {"none"}, line : {0}, midLine : {FALSE}]
      <4>1. \A inbox \in Seq(Pieces) :
                Absent(inbox) \in [inbox : Seq(Pieces), peer : {"none"}, line : {0},
                                   midLine : {FALSE}]
        BY DEF Absent
      <4>2. QED
        BY <1>4, <3>1, <4>1
    <3>5. client'.peer = "none" /\ client'.inbox = <<>>
      BY <3>3, <3>4
    <3>6. QED
      BY <3>5 DEF Present
  <2>8. StreamInv'
    BY <1>2, <2>6, <2>7 DEF StreamInv, ReadsOn
  <2>9. OrderInv'
    BY <1>2, <2>7 DEF OrderInv, Sound
  <2>10. QED
    BY <2>6, <2>8, <2>9 DEF ReadsOn
<1>7. QED
  BY <1>5, <1>6

LEMMA StreamStarts == Init => StreamInv /\ OrderInv
<1> SUFFICES ASSUME Init PROVE StreamInv /\ OrderInv
  OBVIOUS
<1>1. queue = <<>> /\ stringBuffer = <<>> /\ ~Present /\ client.inbox = <<>> /\ backlog = NoConn
  BY DEF Init, Present, NoConn, Absent
<1>2. DOMAIN <<>> = {} /\ Len(<<>>) = 0
  BY EmptySeq, ShortSequences
<1>3. QueueInOrder
  BY <1>1, <1>2 DEF QueueInOrder, InOrder
<1>4. QED
  BY <1>1, <1>2, <1>3 DEF StreamInv, OrderInv

\* A server that has missed a read does not recover.
LEMMA SoundStays ==
    ASSUME ServerInv, [Next]_vars, Sound'
    PROVE  Sound
<1>1. ASSUME crashed PROVE crashed'
  BY <1>1 DEF Next, Worker, Stop, Ended, vars, SensorSends, SensorConnects, SensorLeaves,
     EnvUnchanged, AcceptCompletes, ReadCompletes, IoUnchanged, Tick, AcceptHandler, AcceptThrows,
     ReadHandler, ReadErrorHandler, FailedReadEnds, ReadAgain, TimeoutDisconnects, TimeoutRearms,
     Arms, RunLoops, RunHandles, Handles, RunUnchanged, StopBegins, StopDisconnects,
     StopStopsContext, StopStopsQueue, StopJoins, Joins, StopUnchanged
<1>2. ASSUME ~crashed, rearm, ~Present PROVE FALSE
  <2>1. crashed' \/ rearm'
    BY <1>2 DEF Next, Worker, Stop, Ended, vars, ioVars, SensorSends, SensorConnects, SensorLeaves,
       EnvUnchanged, AcceptCompletes, ReadCompletes, IoUnchanged, Tick, AcceptHandler, AcceptThrows,
       ReadHandler, ReadErrorHandler, FailedReadEnds, ReadAgain, TimeoutDisconnects, TimeoutRearms,
       Arms, RunLoops, RunHandles, Handles, RunUnchanged, StopBegins, StopDisconnects,
       StopStopsContext, StopStopsQueue, StopJoins, Joins, StopUnchanged, Runs
  <2>2. ~Present'
    <3>1. CASE SensorSends \/ SensorConnects \/ SensorLeaves
      BY <1>2, <3>1, Env DEF ServerInv
    <3>2. CASE UNCHANGED client
      BY <1>2, <3>2 DEF Present
    <3>3. CASE StopDisconnects
      BY <3>3, DisconnectEnds DEF StopDisconnects
    <3>4. QED
      BY <1>2, <3>1, <3>2, <3>3 DEF Next, Worker, Stop, Ended, vars, ioVars, AcceptCompletes,
         ReadCompletes, IoUnchanged, Tick, AcceptHandler, AcceptThrows, ReadHandler,
         ReadErrorHandler, FailedReadEnds, ReadAgain, TimeoutDisconnects, TimeoutRearms, Arms, Runs,
         RunLoops, RunHandles, Handles, RunUnchanged, StopBegins, StopStopsContext, StopStopsQueue,
         StopJoins, Joins, StopLeavesIO
  <2>3. QED
    BY <2>1, <2>2 DEF Sound
<1>3. QED
  BY <1>1, <1>2 DEF Sound, ServerInv, IoTypeOK

LEMMA StreamSteps ==
    ASSUME TypeOK, ServerInv, StreamInv, OrderInv, [Next]_vars
    PROVE  StreamInv' /\ OrderInv'
<1>0. Sound' => Sound
  BY SoundStays
<1>1. CASE SensorSends \/ SensorLeaves
  BY <1>1, SensorKeepsStream
<1>2. CASE SensorConnects
  BY <1>2, ConnectKeepsStream
<1>3. CASE AcceptCompletes \/ ReadCompletes \/ Tick \/ AcceptThrows \/ ReadAgain \/ TimeoutRearms
           \/ RunLoops \/ StopBegins \/ StopStopsContext \/ StopStopsQueue \/ StopJoins
           \/ UNCHANGED vars
  <2>1. UNCHANGED <<client, backlog, queue, stringBuffer, carried>>
    BY <1>3 DEF AcceptCompletes, ReadCompletes, IoUnchanged, Tick, AcceptThrows, ReadAgain,
       TimeoutRearms, Arms, RunLoops, RunUnchanged, StopBegins, StopStopsContext, StopStopsQueue,
       StopJoins, Joins, StopUnchanged, StopLeavesIO, HandlerUnchanged, vars, ioVars, bufferVars
  <2>2. StreamInv'
    BY <2>1, SameStream DEF StreamInv
  <2>3. Present' = Present /\ QueueInOrder' = QueueInOrder
        /\ LastFits(queue, client)' = LastFits(queue, client)
    BY <2>1 DEF Present, QueueInOrder, InOrder, LastFits
  <2>4. OrderInv'
    BY <1>0, <2>3 DEF OrderInv
  <2>5. QED
    BY <2>2, <2>4
<1>4. CASE AcceptHandler
  <2>1. backlog \in Conns
    BY <1>4, AcceptHasPeer, ConnIsReal DEF TypeOK
  <2>2. QED
    BY <1>0, <1>4, <2>1, AcceptKeepsStream
<1>5. CASE ReadHandler
  BY <1>5, ReadKeepsStream
<1>6. CASE ReadErrorHandler \/ TimeoutDisconnects \/ StopDisconnects
  <2>1. PICK rest : Disconnect(rest) /\ UNCHANGED <<backlog, bufferVars>>
    BY <1>6 DEF ReadErrorHandler, FailedReadEnds, TimeoutDisconnects, StopDisconnects, StopUnchanged
  <2>2. QED
    BY <1>0, <2>1, DisconnectKeepsStream
<1>7. CASE RunHandles
  <2>1. queue # <<>> /\ queue' = Tail(queue)
        /\ UNCHANGED <<client, backlog, stringBuffer, carried>>
    BY <1>7 DEF RunHandles, Handles, RunUnchanged, ioVars, bufferVars
  <2>2. OrderInv'
    BY <1>0, <2>1, RunKeepsOrder DEF TypeOK
  <2>3. StreamInv'
    BY <2>1, SameStream DEF StreamInv
  <2>4. QED
    BY <2>2, <2>3
<1>8. QED
  BY <1>1, <1>2, <1>3, <1>4, <1>5, <1>6, <1>7 DEF Next, Worker, Stop, Ended

\* Only the read handler queues lines.
LEMMA IntactSteps ==
    ASSUME TypeOK, ServerInv, StreamInv, OrderInv, [Next]_vars, NEW i \in NewLines
    PROVE  Intact(queue'[i]) \/ (carried /\ i = Len(queue) + 1)
<1>1. CASE ReadHandler
  BY <1>1, ReadKeepsStream
<1>2. CASE ~ReadHandler
  <2>0. queue \in Seq(Messages) /\ Len(queue) \in Nat /\ i \in Len(queue) + 1 .. Len(queue')
        /\ queue'[i].kind = "line"
    BY LenProperties DEF TypeOK, NewLines
  <2>1. \/ UNCHANGED queue
        \/ queue # <<>> /\ queue' = Tail(queue)
        \/ \E type \in {"Connected", "Disconnected"} : queue' = Append(queue, Event(type))
    <3>1. CASE AcceptHandler \/ ReadErrorHandler \/ TimeoutDisconnects \/ StopDisconnects
      BY <3>1 DEF AcceptHandler, ReadErrorHandler, FailedReadEnds, TimeoutDisconnects,
         StopDisconnects, Disconnect
    <3>2. CASE RunHandles
      BY <3>2 DEF RunHandles, Handles
    <3>3. CASE SensorSends \/ SensorConnects \/ SensorLeaves \/ AcceptCompletes \/ ReadCompletes
               \/ Tick \/ AcceptThrows \/ ReadAgain \/ TimeoutRearms \/ RunLoops \/ StopBegins
               \/ StopStopsContext \/ StopStopsQueue \/ StopJoins \/ UNCHANGED vars
      BY <3>3 DEF SensorSends, SensorConnects, SensorLeaves, EnvUnchanged, AcceptCompletes,
         ReadCompletes, IoUnchanged, Tick, AcceptThrows, ReadAgain, TimeoutRearms, Arms, RunLoops,
         StopBegins, StopStopsContext, StopStopsQueue, StopJoins, Joins, vars
    <3>4. QED
      BY <1>2, <3>1, <3>2, <3>3 DEF Next, Worker, Stop, Ended
  <2>2. CASE UNCHANGED queue
    BY <2>0, <2>2
  <2>3. CASE queue # <<>> /\ queue' = Tail(queue)
    <3>1. Len(queue') = Len(queue) - 1
      BY <2>0, <2>3, HeadTailProperties
    <3>2. QED
      BY <2>0, <3>1
  <2>4. ASSUME NEW type \in {"Connected", "Disconnected"}, queue' = Append(queue, Event(type))
        PROVE  FALSE
    <3>1. Event(type) \in Messages /\ Event(type).kind # "line"
      BY DEF Event, Messages
    <3>2. Len(queue') = Len(queue) + 1 /\ queue'[Len(queue) + 1] = Event(type)
      BY <2>0, <2>4, <3>1, AppendProperties
    <3>3. i = Len(queue) + 1
      BY <2>0, <3>2
    <3>4. QED
      BY <2>0, <3>1, <3>2, <3>3
  <2>5. QED
    BY <2>1, <2>2, <2>3, <2>4
<1>3. QED
  BY <1>1, <1>2

-----------------------------------------------------------------------------
(***************************************************************************)
(* The theorems.                                                           *)
(***************************************************************************)

\* Whatever the sensor, the timer and the other threads do, the server serves
\* one client or accepts the next, never both and never neither.
THEOREM AlwaysServesOrAccepts == Spec => []ServesOrAccepts
<1>1. ServerInv /\ [Next]_vars => ServerInv'
  BY ServerSteps
<1>2. ServerInv => ServesOrAccepts
  BY ServerInvImplies
<1>3. QED
  BY <1>1, <1>2, ServerStarts, PTL DEF Spec

\* One read and one timeout are always under way for a client; of one that is
\* gone, at most one read handler is left.
THEOREM ClientAlwaysWatched == Spec => []ClientIsWatched
<1>1. ServerInv /\ [Next]_vars => ServerInv'
  BY ServerSteps
<1>2. ServerInv => ClientIsWatched
  BY ServerInvImplies
<1>3. QED
  BY <1>1, <1>2, ServerStarts, PTL DEF Spec

\* No client outlives two timeouts of silence, for every TIMEOUT_TIME.
THEOREM SilenceAlwaysBounded == Spec => []SilenceBounded
<1>1. ServerInv /\ [Next]_vars => ServerInv'
  BY ServerSteps
<1>2. ServerInv => SilenceBounded
  BY ServerInvImplies
<1>3. QED
  BY <1>1, <1>2, ServerStarts, PTL DEF Spec

\* Only remote_endpoint() and a missed read end a serving server, and only a
\* timeout that overtakes a completed read makes it miss one.
THEOREM OnlyKnownEverCrashes == Spec => OnlyKnownCrashes
<1>1. ServerInv /\ [Next]_vars => ServerInv'
  BY ServerSteps
<1>2. ServerInv /\ [Next]_vars
          => [/\ stopper = "no" /\ crashed' # crashed => AcceptThrows \/ Orphaned
              /\ stopper' = "no" /\ Orphaned' /\ ~Orphaned => TimeoutDisconnects]_vars
  BY KnownCrashesStep
<1>3. QED
  BY <1>1, <1>2, ServerStarts, PTL DEF Spec, OnlyKnownCrashes

\* Once the queue is empty, the UI shows whether there is a client.
THEOREM StatusAlwaysRight == Spec => []StatusIsRight
<1>1. Init => StatusInv
  <2>1. ASSUME Init PROVE StatusInv
    <3>1. queue = <<>> /\ stringBuffer = <<>> /\ ~Present /\ status = "Disconnected"
      BY <2>1 DEF Init, Present, NoConn, Absent
    <3>2. <<>> \in Seq(Pieces) /\ DOMAIN <<>> = {}
      BY EmptySeq, ShortSequences
    <3>3. ~ShowsConnected(queue, status)
      BY <3>1, <3>2 DEF ShowsConnected
    <3>4. QED
      BY <3>1, <3>2, <3>3 DEF StatusInv
  <2>2. QED
    BY <2>1
<1>2. ServerInv /\ [Next]_vars => ServerInv'
  BY ServerSteps
<1>3. ServerInv /\ StatusInv /\ [Next]_vars => StatusInv'
  BY StatusStep
<1>4. StatusInv => StatusIsRight
  <2>1. ASSUME StatusInv, queue = <<>>, running
        PROVE  (status = "Connected") <=> Present
    <3>1. DOMAIN queue = {}
      BY <2>1, ShortSequences
    <3>2. ShowsConnected(queue, status) <=> status = "Connected"
      BY <3>1 DEF ShowsConnected
    <3>3. QED
      BY <2>1, <3>2 DEF StatusInv
  <2>2. Present \in BOOLEAN
    BY DEF Present
  <2>3. QED
    BY <2>1, <2>2 DEF StatusIsRight
<1>5. QED
  BY <1>1, <1>2, <1>3, <1>4, ServerStarts, PTL DEF Spec

\* The state of the server's threads is what it is meant to be, and what is
\* queued is a line or an event.
THEOREM ServerKeepsTypes == Spec => []TypeOK
<1>1. ServerInv /\ [Next]_vars => ServerInv'
  BY ServerSteps
<1>2. TypeOK /\ ServerInv /\ [Next]_vars => TypeOK'
  BY TypesStay
<1>3. QED
  BY <1>1, <1>2, ServerStarts, TypesAtFirst, PTL DEF Spec

\* However the reads cut up what the sensor sends, and however often connections
\* end in between: the lines of a connection are queued in the order they were
\* sent, from the first on, none twice and none left out.
THEOREM LinesAlwaysInOrder == Spec => []LinesInOrder
<1>1. ServerInv /\ [Next]_vars => ServerInv'
  BY ServerSteps
<1>2. TypeOK /\ ServerInv /\ StreamInv /\ OrderInv /\ [Next]_vars => StreamInv' /\ OrderInv'
  BY StreamSteps
<1>3. OrderInv => LinesInOrder
  BY DEF OrderInv, LinesInOrder, Sound, QueueInOrder
<1>4. QED
  BY <1>1, <1>2, <1>3, ServerStarts, StreamStarts, ServerKeepsTypes, PTL DEF Spec

\* Every line is queued exactly as it was sent, but for the first one after a
\* connection that ended in the middle of a line.
THEOREM LinesQueuedIntact == Spec => LinesIntact
<1>1. ServerInv /\ [Next]_vars => ServerInv'
  BY ServerSteps
<1>2. TypeOK /\ ServerInv /\ StreamInv /\ OrderInv /\ [Next]_vars => StreamInv' /\ OrderInv'
  BY StreamSteps
<1>3. TypeOK /\ ServerInv /\ StreamInv /\ OrderInv /\ [Next]_vars
          => [\A i \in NewLines :
                 Intact(queue'[i]) \/ (carried /\ i = Len(queue) + 1)]_vars
  BY IntactSteps
<1>4. QED
  BY <1>1, <1>2, <1>3, ServerStarts, StreamStarts, ServerKeepsTypes, PTL DEF Spec, LinesIntact
=============================================================================
