------------------------------- MODULE Mqueue -------------------------------
(***************************************************************************)
(* The POSIX message queue of the Windows port                             *)
(* (LwApiLib/LwApi/win32/posix/mqueue/mqueue.c): mq_maxmsg message headers  *)
(* in one block of memory, each on one of two singly linked lists: the     *)
(* waiting messages in order of priority, or the free ones.  One mutex     *)
(* guards everything, and one condition variable, mqh_wait, serves those   *)
(* who wait for a message and those who wait for room.                     *)
(*                                                                         *)
(* A step is one critical section: what a thread does between taking the   *)
(* mutex, at the call or on waking, and giving it back, at the return or   *)
(* in pthread_cond_wait.  The queue exists and every thread has it open.   *)
(***************************************************************************)
EXTENDS Integers, Sequences, FiniteSets

CONSTANTS
  Thread,
  Prio,    \* priorities
  Body,    \* contents of messages
  maxmsg,  \* mq_maxmsg
  Nothing  \* nothing received yet

ASSUME MqueueAssumption ==
  /\ IsFiniteSet(Thread) /\ Prio \subseteq Nat
  /\ maxmsg \in Nat \ {0}
  /\ Nothing \notin [prio : Prio, body : Body]

MqMessage == [prio : Prio, body : Body]
Index   == 1 .. maxmsg  \* of message headers; 0 ends a list

VARIABLES
  mqh_head, mqh_free,  \* the first waiting and the first free header
  msg_next,            \* the link of each header
  msg,                 \* what each header holds
  mq_curmsgs,          \* the number of waiting messages, kept by hand
  mqh_nwait,           \* the number of threads blocked in mq_receive
  pc,                  \* where each thread is
  toSend,              \* the message a thread in mq_send brings
  taken                \* the message received last

listVars == <<mqh_head, mqh_free, msg_next, msg, mq_curmsgs>>
mqVars == <<listVars, mqh_nwait, pc, toSend, taken>>

Places == {"idle", "sendAsleep", "sendAwake", "receiveAsleep", "receiveAwake"}

MqTypeOK ==
  /\ mqh_head \in Index \cup {0} /\ mqh_free \in Index \cup {0}
  /\ msg_next \in [Index -> Index \cup {0}]
  /\ msg \in [Index -> MqMessage \cup {Nothing}]
  /\ mq_curmsgs \in 0 .. maxmsg
  /\ mqh_nwait \in 0 .. Cardinality(Thread)
  /\ pc \in [Thread -> Places]
  /\ toSend \in [Thread -> MqMessage \cup {Nothing}]
  /\ taken \in MqMessage \cup {Nothing}

\* mq_open made the queue: every header is on the free list, in order.
MqInit ==
  /\ mqh_head = 0 /\ mqh_free = 1
  /\ msg_next = [i \in Index |-> IF i = maxmsg THEN 0 ELSE i + 1]
  /\ msg = [i \in Index |-> Nothing]
  /\ mq_curmsgs = 0 /\ mqh_nwait = 0
  /\ pc = [t \in Thread |-> "idle"]
  /\ toSend = [t \in Thread |-> Nothing]
  /\ taken = Nothing

-----------------------------------------------------------------------------
(* Lists.                                                                  *)

\* The headers on the list that starts with h, in order.  A list with a cycle
\* gives more headers than there are.
ListFrom(h) ==
  LET after(i) == IF i = 0 THEN 0 ELSE msg_next[i]
      nth[n \in 1 .. (maxmsg + 1)] == IF n = 1 THEN h ELSE after(nth[n - 1])
  IN [n \in 1 .. Cardinality({k \in DOMAIN nth : nth[k] # 0}) |-> nth[n]]

\* A slip: a message overtakes those of its own priority.
FaultLessUrgent(i, p) == msg[i].prio <= p

LessUrgent(i, p) == msg[i].prio < p

\* The place in the list of waiting messages where the search of mq_send for
\* a less urgent one stops.
StopAt(p) ==
  LET list == ListFrom(mqh_head)
  IN CHOOSE k \in 1 .. (Len(list) + 1) :
       /\ k <= Len(list) => LessUrgent(list[k], p)
       /\ \A j \in 1 .. (k - 1) : ~LessUrgent(list[j], p)

\* A slip: the header is linked in but stays on the free list.
FaultPutMessage(m) ==
  LET list == ListFrom(mqh_head)
      k    == StopAt(m.prio)
      new  == mqh_free
      behind == IF k <= Len(list) THEN list[k] ELSE 0
  IN /\ msg' = [msg EXCEPT ![new] = m]
     /\ UNCHANGED mqh_free
     /\ IF k = 1
        THEN mqh_head' = new /\ msg_next' = [msg_next EXCEPT ![new] = behind]
        ELSE /\ msg_next' = [msg_next EXCEPT ![new] = behind, ![list[k - 1]] = new]
             /\ UNCHANGED mqh_head
     /\ mq_curmsgs' = mq_curmsgs + 1

\* mq_send with room: the first free header takes the message and is linked
\* in before the first less urgent one.
PutMessage(m) ==
  LET list == ListFrom(mqh_head)
      k    == StopAt(m.prio)
      new  == mqh_free
      behind == IF k <= Len(list) THEN list[k] ELSE 0
  IN /\ msg' = [msg EXCEPT ![new] = m]
     /\ mqh_free' = msg_next[new]
     /\ IF k = 1
        THEN mqh_head' = new /\ msg_next' = [msg_next EXCEPT ![new] = behind]
        ELSE /\ msg_next' = [msg_next EXCEPT ![new] = behind, ![list[k - 1]] = new]
             /\ UNCHANGED mqh_head
     /\ mq_curmsgs' = mq_curmsgs + 1

\* mq_receive with a message there: the first header gives it up and becomes
\* the first free one.
TakeMessage ==
  /\ taken' = msg[mqh_head]
  /\ mqh_head' = msg_next[mqh_head]
  /\ msg_next' = [msg_next EXCEPT ![mqh_head] = mqh_free]
  /\ mqh_free' = mqh_head
  /\ mq_curmsgs' = mq_curmsgs - 1
  /\ UNCHANGED msg

-----------------------------------------------------------------------------
(* Waiting.                                                                *)

Full  == mq_curmsgs >= maxmsg
Empty == mq_curmsgs = 0

Asleep == {t \in Thread : pc[t] \in {"sendAsleep", "receiveAsleep"}}
Awoken(place) == IF place = "sendAsleep" THEN "sendAwake" ELSE "receiveAwake"

\* Thread t returns and, if signal holds, signals mqh_wait, which wakes one
\* of those asleep there, whatever it waits for.
Return(t, signal) ==
  IF signal /\ Asleep # {}
  THEN \E w \in Asleep : pc' = [pc EXCEPT ![t] = "idle", ![w] = Awoken(@)]
  ELSE pc' = [pc EXCEPT ![t] = "idle"]

\* pthread_cond_wait may also return without a signal.
SpuriousWakeup(t) ==
  /\ t \in Asleep
  /\ pc' = [pc EXCEPT ![t] = Awoken(@)]
  /\ UNCHANGED <<listVars, mqh_nwait, toSend, taken>>

-----------------------------------------------------------------------------
(* mq_send.                                                                *)

\* A full queue makes a sender wait, or fail if its descriptor has O_NONBLOCK.
\* The signal tells a receiver that the queue is no longer empty.
mq_send(t, m, nonblock) ==
  /\ pc[t] = "idle"
  /\ \/ /\ ~Full
        /\ PutMessage(m)
        /\ Return(t, Empty)
        /\ UNCHANGED toSend
     \/ /\ Full /\ ~nonblock
        /\ pc' = [pc EXCEPT ![t] = "sendAsleep"]
        /\ toSend' = [toSend EXCEPT ![t] = m]
        /\ UNCHANGED listVars
     \/ /\ Full /\ nonblock
        /\ UNCHANGED <<listVars, pc, toSend>>
  /\ UNCHANGED <<mqh_nwait, taken>>

SendWakes(t) ==
  /\ pc[t] = "sendAwake"
  /\ \/ /\ Full
        /\ pc' = [pc EXCEPT ![t] = "sendAsleep"]
        /\ UNCHANGED <<listVars, toSend>>
     \/ /\ ~Full
        /\ PutMessage(toSend[t])
        /\ Return(t, Empty)
        /\ toSend' = [toSend EXCEPT ![t] = Nothing]
  /\ UNCHANGED <<mqh_nwait, taken>>

-----------------------------------------------------------------------------
(* mq_receive.                                                             *)

\* An empty queue makes a receiver wait, or fail if its descriptor has
\* O_NONBLOCK.  The signal tells a sender that the queue is no longer full.
mq_receive(t, nonblock) ==
  /\ pc[t] = "idle"
  /\ \/ /\ ~Empty
        /\ TakeMessage
        /\ Return(t, Full)
        /\ UNCHANGED mqh_nwait
     \/ /\ Empty /\ ~nonblock
        /\ mqh_nwait' = mqh_nwait + 1
        /\ pc' = [pc EXCEPT ![t] = "receiveAsleep"]
        /\ UNCHANGED <<listVars, taken>>
     \/ /\ Empty /\ nonblock
        /\ UNCHANGED <<listVars, mqh_nwait, pc, taken>>
  /\ UNCHANGED toSend

\* A slip: the waiting receiver is counted in the loop, not before it.
FaultReceiveWakes(t) ==
  /\ pc[t] = "receiveAwake"
  /\ \/ /\ Empty
        /\ mqh_nwait' = mqh_nwait + 1
        /\ pc' = [pc EXCEPT ![t] = "receiveAsleep"]
        /\ UNCHANGED <<listVars, taken>>
     \/ /\ ~Empty
        /\ mqh_nwait' = mqh_nwait - 1
        /\ TakeMessage
        /\ Return(t, Full)
  /\ UNCHANGED toSend

ReceiveWakes(t) ==
  /\ pc[t] = "receiveAwake"
  /\ \/ /\ Empty
        /\ pc' = [pc EXCEPT ![t] = "receiveAsleep"]
        /\ UNCHANGED <<listVars, mqh_nwait, taken>>
     \/ /\ ~Empty
        /\ mqh_nwait' = mqh_nwait - 1
        /\ TakeMessage
        /\ Return(t, Full)
  /\ UNCHANGED toSend

-----------------------------------------------------------------------------
MqNext ==
  \E t \in Thread :
    \/ \E m \in MqMessage, nonblock \in BOOLEAN : mq_send(t, m, nonblock)
    \/ \E nonblock \in BOOLEAN : mq_receive(t, nonblock)
    \/ SendWakes(t)
    \/ ReceiveWakes(t)
    \/ SpuriousWakeup(t)

MqSpec == MqInit /\ [][MqNext]_mqVars

-----------------------------------------------------------------------------
(* Properties.                                                             *)

NodesOf(s) == {s[i] : i \in DOMAIN s}

\* The two lists share no header, lose none and have no cycle, and the
\* hand-kept count is the length of the list of messages.  This is what keeps
\* mq_receive from its abort() and mq_send from writing through index 0.
ListsSound ==
  LET used == ListFrom(mqh_head)
      free == ListFrom(mqh_free)
  IN /\ NodesOf(used) \cap NodesOf(free) = {}
     /\ NodesOf(used) \cup NodesOf(free) = Index
     /\ Len(used) + Len(free) = maxmsg
     /\ mq_curmsgs = Len(used)

\* mqh_nwait, which decides whether mq_notify's event is sent, is the number
\* of threads inside mq_receive that wait, asleep or just woken.
NwaitExact ==
  mqh_nwait = Cardinality({t \in Thread : pc[t] \in {"receiveAsleep", "receiveAwake"}})

MqWaiting == LET used == ListFrom(mqh_head) IN [i \in DOMAIN used |-> msg[used[i]]]

PQ == INSTANCE PrioQueue WITH
        Capacity <- maxmsg, waiting <- MqWaiting, None <- Nothing

\* The linked lists implement a bounded priority queue.
ImplementsPrioQueue == PQ!PrioSpec

\* mqueue.c:564 "wake up anyone blocked in mq_receive waiting for a message":
\* while there are messages, a receiver sleeps only if another one has been
\* woken and is about to look.
NoneLeftAsleep ==
  ~Empty /\ (\E t \in Thread : pc[t] = "receiveAsleep") =>
    \E t \in Thread : pc[t] = "receiveAwake"

=============================================================================
