------------------------------ MODULE CVQueue ------------------------------
(***************************************************************************)
(* The queue between the dashboard's threads (Utilities/CVQueue.hpp): a    *)
(* std::queue, a mutex, a condition variable and a flag.                   *)
(*                                                                         *)
(* What a thread does while it holds the mutex is one step.  push and stop *)
(* notify after they have released it, so other threads may run between    *)
(* the change and the notification.  A consumer calls wait_and_pop until   *)
(* it returns nullopt, as Server::Run does while the server runs.          *)
(***************************************************************************)
EXTENDS Naturals, Sequences

CONSTANTS
    Producers,      \* the threads that push
    Consumers,      \* the threads that call wait_and_pop
    MaxItems        \* bound: producers push while the queue is shorter

ASSUME MaxItemsAssumption == MaxItems \in Nat \ {0}

VARIABLES
    items,          \* m_Queue; an item is the thread that pushed it
    isDone,         \* m_Done
    pushing,        \* producers between their push and their notify_one
    stopping,       \* stop() is between setting m_Done and notify_all
    consumer        \* each consumer: about to check, asleep on m_CV, or gone

vars == <<items, isDone, pushing, stopping, consumer>>

In(state) == {c \in Consumers : consumer[c] = state}

TypeOK ==
    /\ items \in Seq(Producers)
    /\ isDone \in BOOLEAN
    /\ pushing \subseteq Producers
    /\ stopping \in BOOLEAN
    /\ consumer \in [Consumers -> {"check", "asleep", "gone"}]

Init ==
    /\ items = <<>>
    /\ isDone = FALSE
    /\ pushing = {}
    /\ stopping = FALSE
    /\ consumer = [c \in Consumers |-> "check"]

-----------------------------------------------------------------------------
\* A mistake: push does not notify.
PushSilently(p) ==
    /\ Len(items) < MaxItems
    /\ items' = Append(items, p)
    /\ UNCHANGED <<isDone, pushing, stopping, consumer>>

\* push: append under the mutex, ...
Push(p) ==
    /\ p \notin pushing
    /\ Len(items) < MaxItems
    /\ items' = Append(items, p)
    /\ pushing' = pushing \cup {p}
    /\ UNCHANGED <<isDone, stopping, consumer>>

\* ... then notify_one: any one sleeper wakes up, if there is one.
NotifyOne(p) ==
    /\ p \in pushing
    /\ pushing' = pushing \ {p}
    /\ \/ /\ In("asleep") = {}
          /\ UNCHANGED consumer
       \/ \E c \in In("asleep") : consumer' = [consumer EXCEPT ![c] = "check"]
    /\ UNCHANGED <<items, isDone, stopping>>

\* stop: set the flag under the mutex, ...
SetDone ==
    /\ ~isDone
    /\ isDone' = TRUE
    /\ stopping' = TRUE
    /\ UNCHANGED <<items, pushing, consumer>>

\* A mistake: stop wakes one sleeper.
NotifiesOne ==
    /\ stopping
    /\ stopping' = FALSE
    /\ \/ In("asleep") = {} /\ UNCHANGED consumer
       \/ \E c \in In("asleep") : consumer' = [consumer EXCEPT ![c] = "check"]
    /\ UNCHANGED <<items, isDone, pushing>>

\* ... then notify_all.
NotifyAll ==
    /\ stopping
    /\ stopping' = FALSE
    /\ consumer' = [c \in Consumers |->
                        IF consumer[c] = "asleep" THEN "check" ELSE consumer[c]]
    /\ UNCHANGED <<items, isDone, pushing>>

\* A mistake: the condition does not mention m_Done.
SleepAlsoWhenDone(c) ==
    /\ consumer[c] = "check"
    /\ items = <<>>
    /\ consumer' = [consumer EXCEPT ![c] = "asleep"]
    /\ UNCHANGED <<items, isDone, pushing, stopping>>

\* wait_and_pop finds its condition false and goes to sleep: checking and
\* releasing the mutex are one step.
Sleep(c) ==
    /\ consumer[c] = "check"
    /\ items = <<>> /\ ~isDone
    /\ consumer' = [consumer EXCEPT ![c] = "asleep"]
    /\ UNCHANGED <<items, isDone, pushing, stopping>>

\* It returns the front, also of a stopped queue; the consumer comes again.
Pop(c) ==
    /\ consumer[c] = "check"
    /\ items # <<>>
    /\ items' = Tail(items)
    /\ UNCHANGED <<isDone, pushing, stopping, consumer>>

\* It returns nullopt; the consumer has finished.
ReturnNothing(c) ==
    /\ consumer[c] = "check"
    /\ items = <<>> /\ isDone
    /\ consumer' = [consumer EXCEPT ![c] = "gone"]
    /\ UNCHANGED <<items, isDone, pushing, stopping>>

\* A sleeper may wake up for no reason.
SpuriousWakeup(c) ==
    /\ consumer[c] = "asleep"
    /\ consumer' = [consumer EXCEPT ![c] = "check"]
    /\ UNCHANGED <<items, isDone, pushing, stopping>>

Consume(c) == Sleep(c) \/ Pop(c) \/ ReturnNothing(c)

Next ==
    \/ \E p \in Producers : Push(p) \/ NotifyOne(p)
    \/ SetDone
    \/ NotifyAll
    \/ \E c \in Consumers : Consume(c) \/ SpuriousWakeup(c)

Spec == Init /\ [][Next]_vars

\* Threads run on; nobody has to push or to stop, and no sleeper has to wake
\* up by itself.
LiveSpec ==
    /\ Spec
    /\ \A p \in Producers : WF_vars(NotifyOne(p))
    /\ WF_vars(NotifyAll)
    /\ \A c \in Consumers : WF_vars(Consume(c))

-----------------------------------------------------------------------------
\* No wakeup is lost although notifications come after the mutex is released:
\* when a consumer sleeps and there is an item to take, either a notify_one is
\* still to come or another consumer is awake and will look at the queue.
NoItemForgotten ==
    In("asleep") # {} /\ items # <<>> => pushing # {} \/ In("check") # {}

\* And when a consumer sleeps on a stopped queue, notify_all is still to come.
NoStopForgotten == In("asleep") # {} /\ isDone => stopping

\* While a consumer still comes, the items do not stay where they are: either
\* the queue runs empty again and again, or items are taken again and again.
ItemsAreTaken ==
    \/ <>(In("gone") # {})
    \/ []<>(items = <<>>)
    \/ []<><<Len(items') < Len(items)>>_items

\* After stop every consumer comes back with nothing, unless producers keep the
\* queue from running empty: a stopped queue is emptied first.
ConsumersFinish ==
    <>isDone => \/ <>(In("gone") = Consumers)
                \/ []<>(items # <<>>)
=============================================================================
