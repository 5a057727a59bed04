--------------------------- MODULE CVQueueProofs ---------------------------
(***************************************************************************)
(* No wakeup is lost, for any number of producers and consumers and any    *)
(* bound on the queue.                                                     *)
(***************************************************************************)
EXTENDS CVQueue, TLAPS

\* What the three fields say holds from the start and after every step.
LEMMA TypeOKInit == Init => TypeOK
<1> SUFFICES ASSUME Init PROVE TypeOK
  OBVIOUS
<1>1. items \in Seq(Producers)
  BY DEF Init
<1>2. consumer \in [Consumers -> {"check", "asleep", "gone"}]
  BY DEF Init
<1> QED
  BY <1>1, <1>2 DEF Init, TypeOK

LEMMA TypeOKNext == TypeOK /\ [Next]_vars => TypeOK'
<1> SUFFICES ASSUME TypeOK, [Next]_vars PROVE TypeOK'
  OBVIOUS
<1> USE DEF TypeOK
<1>1. ASSUME NEW p \in Producers, Push(p) PROVE TypeOK'
  BY <1>1 DEF Push
<1>2. ASSUME NEW p \in Producers, NotifyOne(p) PROVE TypeOK'
  BY <1>2 DEF NotifyOne, In
<1>3. CASE SetDone
  BY <1>3 DEF SetDone
<1>4. CASE NotifyAll
  BY <1>4 DEF NotifyAll
<1>5. ASSUME NEW c \in Consumers, Sleep(c) PROVE TypeOK'
  BY <1>5 DEF Sleep
<1>6. ASSUME NEW c \in Consumers, Pop(c) PROVE TypeOK'
  BY <1>6 DEF Pop
<1>7. ASSUME NEW c \in Consumers, ReturnNothing(c) PROVE TypeOK'
  BY <1>7 DEF ReturnNothing
<1>8. ASSUME NEW c \in Consumers, SpuriousWakeup(c) PROVE TypeOK'
  BY <1>8 DEF SpuriousWakeup
<1>9. CASE UNCHANGED vars
  BY <1>9 DEF vars
<1> QED
  BY <1>1, <1>2, <1>3, <1>4, <1>5, <1>6, <1>7, <1>8, <1>9 DEF Next, Consume

-----------------------------------------------------------------------------
\* The two properties are inductive together with the types: a consumer goes
\* to sleep only while it sees the queue empty and not stopped, and whoever
\* changes that has still to notify when it releases the mutex.
NoWakeupLost == NoItemForgotten /\ NoStopForgotten

LEMMA NoWakeupLostInit == Init => NoWakeupLost
  BY DEF Init, NoWakeupLost, NoItemForgotten, NoStopForgotten, In

LEMMA NoWakeupLostNext == TypeOK /\ NoWakeupLost /\ [Next]_vars => NoWakeupLost'
<1> SUFFICES ASSUME TypeOK, NoWakeupLost, [Next]_vars PROVE NoWakeupLost'
  OBVIOUS
<1> USE DEF TypeOK, NoWakeupLost, NoItemForgotten, NoStopForgotten, In
<1>1. ASSUME NEW p \in Producers, Push(p) PROVE NoWakeupLost'
  \* p has still to notify
  BY <1>1 DEF Push
<1>2. ASSUME NEW p \in Producers, NotifyOne(p) PROVE NoWakeupLost'
  <2>1. CASE In("asleep") = {} /\ UNCHANGED consumer
    BY <1>2, <2>1 DEF NotifyOne
  <2>2. ASSUME NEW c \in In("asleep"), consumer' = [consumer EXCEPT ![c] = "check"]
        PROVE  NoWakeupLost'
    \* c looks at the queue
    BY <1>2, <2>2 DEF NotifyOne
  <2> QED
    BY <1>2, <2>1, <2>2 DEF NotifyOne
<1>3. CASE SetDone
  BY <1>3 DEF SetDone
<1>4. CASE NotifyAll
  \* nobody sleeps any more
  BY <1>4 DEF NotifyAll
<1>5. ASSUME NEW c \in Consumers, Sleep(c) PROVE NoWakeupLost'
  \* the queue is empty and not stopped
  BY <1>5 DEF Sleep
<1>6. ASSUME NEW c \in Consumers, Pop(c) PROVE NoWakeupLost'
  \* c comes back to look again
  BY <1>6 DEF Pop
<1>7. ASSUME NEW c \in Consumers, ReturnNothing(c) PROVE NoWakeupLost'
  \* the queue is empty
  BY <1>7 DEF ReturnNothing
<1>8. ASSUME NEW c \in Consumers, SpuriousWakeup(c) PROVE NoWakeupLost'
  BY <1>8 DEF SpuriousWakeup
<1>9. CASE UNCHANGED vars
  BY <1>9 DEF vars
<1> QED
  BY <1>1, <1>2, <1>3, <1>4, <1>5, <1>6, <1>7, <1>8, <1>9 DEF Next, Consume

-----------------------------------------------------------------------------
\* The types hold always.
THEOREM QueueTypeCorrect == Spec => []TypeOK
  BY TypeOKInit, TypeOKNext, PTL DEF Spec

\* Producers notify after they have released the mutex, and still no item
\* lies in the queue while all consumers sleep and no notification is due.
THEOREM NoItemIsForgotten == Spec => []NoItemForgotten
<1>1. NoWakeupLost => NoItemForgotten
  BY DEF NoWakeupLost
<1> QED
  BY <1>1, QueueTypeCorrect, NoWakeupLostInit, NoWakeupLostNext, PTL DEF Spec

\* A consumer that sleeps on a stopped queue is going to be woken up.
THEOREM NoStopIsForgotten == Spec => []NoStopForgotten
<1>1. NoWakeupLost => NoStopForgotten
  BY DEF NoWakeupLost
<1> QED
  BY <1>1, QueueTypeCorrect, NoWakeupLostInit, NoWakeupLostNext, PTL DEF Spec
=============================================================================
