----------------------------- MODULE Connection -----------------------------
(***************************************************************************)
(* The sensor's link to the server (Firmware/src/Network/Connection): WiFi *)
(* association, one TCP client socket, and whether the clock was set.      *)
(*                                                                         *)
(* The network task calls it; the WiFi driver and the TCP stack change the *)
(* same state at any moment between two calls.  "tx" holds the frames the  *)
(* stack has accepted and the server has not received yet.                 *)
(***************************************************************************)
EXTENDS Naturals, Sequences

CONSTANTS
    Frames,         \* the lines that are printed
    Fragment,       \* a part of a line, of which the server makes nothing
    MaxInFlight     \* bound: frames the TCP stack holds before print blocks

VARIABLES
    wifi,           \* WiFi.isConnected()
    sock,           \* m_WiFiClient.connected()
    timeConfigured, \* m_IsTimeConfigured
    tx              \* frames on their way to the server

cvars == <<wifi, sock, timeConfigured, tx>>

LinkTypeOK ==
    /\ wifi \in BOOLEAN
    /\ sock \in BOOLEAN
    /\ timeConfigured \in BOOLEAN
    /\ tx \in Seq(Frames \cup {Fragment})
    /\ Len(tx) <= MaxInFlight

LinkInit ==
    /\ wifi = FALSE
    /\ sock = FALSE
    /\ timeConfigured = FALSE
    /\ tx = <<>>

IsConnected == wifi /\ sock

\* The end of a connection: the server gets some of the frames on their way,
\* in order, and never the others.
LoseTail == \E n \in 0 .. Len(tx) : tx' = SubSeq(tx, 1, n)

-----------------------------------------------------------------------------
(***************************************************************************)
(* Operations, called by setup() and by the network task.                  *)
(***************************************************************************)

\* Begin gives up on WiFi, or on NTP after it: it does not try the server.
BeginWithoutTime == UNCHANGED cvars

\* Begin sets the clock, then tries the server; ConnectServer may give up.
BeginWithTime ==
    /\ wifi
    /\ timeConfigured' = TRUE
    /\ sock' \in BOOLEAN
    /\ UNCHANGED <<wifi, tx>>

\* Reconnect opens a socket, which replaces the old one (if WiFi was back
\* before the stack noticed anything, the old one still worked).
ReconnectSucceeds ==
    /\ wifi
    /\ sock' = TRUE
    /\ IF sock THEN LoseTail ELSE UNCHANGED tx
    /\ UNCHANGED <<wifi, timeConfigured>>

\* The server cannot be reached: the client keeps the socket it has.  A
\* WiFi.begin that Reconnect may have issued shows as WifiUp, later or never.
ReconnectFails == UNCHANGED cvars

\* Println on a dead socket does nothing ...
PrintlnSkips ==
    /\ ~sock
    /\ UNCHANGED cvars

\* ... on a live one it hands the frame over, ...
PrintlnSends(frame) ==
    /\ sock
    /\ Len(tx) < MaxInFlight
    /\ tx' = Append(tx, frame)
    /\ UNCHANGED <<wifi, sock, timeConfigured>>

\* ... or one of its two writes (text, line end) fails and the client is
\* stopped; nobody is told.
PrintlnFails ==
    /\ sock
    /\ sock' = FALSE
    /\ UNCHANGED <<wifi, timeConfigured, tx>>

\* ... or the stack takes no more for so long that a write gives up: nothing of
\* the line goes out, or a part of it, and the connection goes on.
PrintlnTimesOut ==
    /\ sock
    /\ \/ UNCHANGED tx
       \/ Len(tx) < MaxInFlight /\ tx' = Append(tx, Fragment)
    /\ UNCHANGED <<wifi, sock, timeConfigured>>

Println(frame) ==
    \/ PrintlnSkips
    \/ PrintlnSends(frame)
    \/ PrintlnFails
    \/ PrintlnTimesOut

-----------------------------------------------------------------------------
(***************************************************************************)
(* The WiFi driver, the TCP stack and the network.                         *)
(***************************************************************************)

\* The access point is lost; the socket may outlive it.
WifiDown ==
    /\ wifi
    /\ wifi' = FALSE
    /\ UNCHANGED <<sock, timeConfigured, tx>>

WifiUp ==
    /\ ~wifi
    /\ wifi' = TRUE
    /\ UNCHANGED <<sock, timeConfigured, tx>>

\* The client learns that its connection is gone.
SockDrop ==
    /\ sock
    /\ sock' = FALSE
    /\ LoseTail
    /\ UNCHANGED <<wifi, timeConfigured>>

\* The server receives the oldest frame.
Deliver ==
    /\ tx # <<>>
    /\ tx' = Tail(tx)
    /\ UNCHANGED <<wifi, sock, timeConfigured>>

\* The device loses power.
LinkPowerLoss ==
    /\ wifi' = FALSE
    /\ sock' = FALSE
    /\ timeConfigured' = FALSE
    /\ LoseTail
=============================================================================
