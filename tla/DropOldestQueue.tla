--------------------------- MODULE DropOldestQueue ---------------------------
(***************************************************************************)
(* What the firmware's flash store promises to its one user, the network   *)
(* task: a bounded FIFO that accepts a new value at the price of its       *)
(* oldest one when it is full, and hands values back one at a time, oldest *)
(* first.  "got" is what the last take returned, until the user drops it.  *)
(*                                                                         *)
(* The promise has three exceptions, and no others.  The one value that is *)
(* being put is safe only when the put is over.  A reader that stays open  *)
(* goes on with the values it has seen: if something was put meanwhile it  *)
(* is "behind", and its next take costs that.  A take that is not recorded *)
(* leaves the value in the queue, and the reader behind too.               *)
(***************************************************************************)
EXTENDS Naturals, Sequences

CONSTANTS
    Capacity,   \* how many values the queue holds
    Values,     \* the values
    Nothing     \* no value

VARIABLES
    queue,      \* the values held, oldest first
    got,        \* the value taken last
    reader,     \* "closed", "open", or "behind": open, and the queue has changed
    view,       \* the values an open reader still has to take
    saving,     \* the value put last is not safe yet
    up          \* the device has power and the queue is in use

qvars == <<queue, got, reader, view, saving, up>>

Entries == Values \cup {Nothing}    \* Nothing: a place whose value was spoiled
Readers == {"closed", "open", "behind"}

QTypeOK ==
    /\ queue \in Seq(Entries)
    /\ Len(queue) <= Capacity
    /\ got \in Entries
    /\ reader \in Readers
    /\ view \in Seq(Entries)
    /\ saving \in BOOLEAN
    /\ up \in BOOLEAN

QInit ==
    /\ queue = <<>>
    /\ got = Nothing
    /\ reader = "closed"
    /\ view = <<>>
    /\ saving = FALSE
    /\ up = FALSE

-----------------------------------------------------------------------------
\* The queue is put to use, as it was or formatted.
Mount ==
    /\ ~up
    /\ up' = TRUE
    /\ queue' \in {queue, <<>>}
    /\ UNCHANGED <<got, reader, view, saving>>

\* An open reader may fall behind, or be level again.
Overtakes ==
    /\ reader' \in IF reader = "closed" THEN {"closed"} ELSE {"open", "behind"}
    /\ UNCHANGED <<got, view, up>>

\* A value comes with its place, or without: then a full queue has it in the
\* place of its oldest value, and another queue not at all.
Put(v) ==
    /\ up /\ ~saving
    /\ saving' = TRUE
    /\ \/ queue' = Append(IF Len(queue) = Capacity THEN Tail(queue) ELSE queue, v)
       \/ queue' = IF Len(queue) = Capacity THEN [queue EXCEPT ![1] = v] ELSE queue
    /\ Overtakes

\* The value does not get there: its place holds something older, or nothing.
Spoils ==
    \E i \in {1, Len(queue)} \cap DOMAIN queue, e \in Entries :
        queue' = [queue EXCEPT ![i] = e]

PutEnds ==
    /\ saving
    /\ saving' = FALSE
    /\ queue' = queue \/ Spoils
    /\ Overtakes

\* What taking an entry gives: a spoiled one gives nothing, or leaves the user
\* with what it had; so may any entry that a reader who is behind gets to.
Gives(entry) ==
    \/ got' = entry
    \/ entry = Nothing /\ got' = got
    \/ reader = "behind" /\ got' = Nothing

\* Hand out the oldest value.  A reader that is behind sets the queue back to
\* what it had seen, some places of which hold newer values by now.
Take ==
    LET seen == IF reader = "closed" THEN queue ELSE view
    IN  /\ up /\ ~saving
        /\ seen # <<>>
        /\ Gives(Head(seen))
        /\ view' = Tail(seen)
        /\ \/ /\ reader # "behind"
              /\ queue' = Tail(seen)
              /\ reader' = "open"
           \/ /\ reader = "behind"
              /\ Len(queue') = Len(seen) - 1
              /\ reader' \in {"open", "behind"}
           \/ /\ queue' = queue
              /\ reader' = "behind"
        /\ UNCHANGED <<saving, up>>

\* The user drops the value it took, and may close the reader.
Forget ==
    /\ got' = Nothing
    /\ <<reader', view'>> \in {<<reader, view>>, <<"closed", <<>>>>}
    /\ UNCHANGED <<queue, saving, up>>

\* The device loses power.
LosePower ==
    /\ queue' = queue \/ (saving /\ Spoils)
    /\ got' = Nothing
    /\ reader' = "closed"
    /\ view' = <<>>
    /\ saving' = FALSE
    /\ up' = FALSE

QNext ==
    \/ Mount
    \/ \E v \in Values : Put(v)
    \/ PutEnds
    \/ Take
    \/ Forget
    \/ LosePower

QSpec == QInit /\ [][QNext]_qvars
=============================================================================
