-------------------------------- MODULE Fifo --------------------------------
(***************************************************************************)
(* What a message queue promises its two ends: messages come out once each *)
(* and in the order they went in, and never more than capacity of them are *)
(* waiting.  The promise ends with a receive that runs ahead of a send,    *)
(* and is made again with the next queue.  This is the specification MsgQ  *)
(* implements, not a translation of code.                                  *)
(***************************************************************************)
EXTENDS Integers, Sequences

CONSTANTS
  Message,
  MaxCapacity,  \* the largest capacity a queue is created with
  None          \* nothing received yet

VARIABLES
  capacity,   \* 0 while the queue does not exist
  queue,      \* the messages waiting
  taken,      \* the message taken last
  returning,  \* the last message is in the queue, its sender still in the call
  lapped      \* a receive has run ahead of a send: no promise any more

fifoVars == <<capacity, queue, taken, returning, lapped>>

FifoInit ==
  capacity = 0 /\ queue = <<>> /\ taken = None /\ returning = FALSE /\ lapped = FALSE

\* A queue starts empty, with its promise whole.
FifoCreate(n) ==
  /\ capacity = 0 /\ capacity' = n
  /\ queue' = <<>> /\ lapped' = FALSE
  /\ UNCHANGED <<taken, returning>>

\* Deleting a queue drops what is in it.
FifoDelete ==
  /\ capacity > 0 /\ capacity' = 0
  /\ queue' = <<>>
  /\ UNCHANGED <<taken, returning, lapped>>

Put(m) ==
  /\ Len(queue) < capacity
  /\ queue' = Append(queue, m)
  /\ ~returning /\ returning' = TRUE
  /\ UNCHANGED <<capacity, taken, lapped>>

PutReturns ==
  /\ returning /\ returning' = FALSE
  /\ UNCHANGED <<capacity, queue, taken, lapped>>

Take ==
  /\ queue # <<>>
  /\ taken' = Head(queue)
  /\ queue' = Tail(queue)
  /\ UNCHANGED <<capacity, returning, lapped>>

\* A receive runs ahead: the queue is empty and the send whose message was
\* taken last has not returned.
RunAhead ==
  /\ capacity > 0 /\ queue = <<>> /\ returning
  /\ lapped' = TRUE
  /\ UNCHANGED <<capacity, queue, taken, returning>>

\* From then on messages may be lost and old ones come again.
NoPromise ==
  /\ lapped
  /\ queue' \in Seq(Message \cup {None}) /\ taken' \in Message \cup {None}
  /\ returning' \in BOOLEAN
  /\ UNCHANGED <<capacity, lapped>>

FifoNext ==
  \/ \E n \in 1 .. MaxCapacity : FifoCreate(n)
  \/ FifoDelete
  \/ \E m \in Message : Put(m)
  \/ PutReturns
  \/ Take
  \/ RunAhead
  \/ NoPromise

FifoSpec == FifoInit /\ [][FifoNext]_fifoVars

=============================================================================
