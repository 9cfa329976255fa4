-------------------------------- MODULE MsgQ --------------------------------
(***************************************************************************)
(* The message queue of the Windows port of the VxWorks interface          *)
(* (LwApiLib/LwApi/win32/CsOsApi.cpp, msgQ...): a ring of MaxMsgNum slots   *)
(* with a write position and a read position and no lock.  Each end waits  *)
(* by asking canSend or canReceive once a tick.                            *)
(*                                                                         *)
(* One task sends, another one receives, as a queue without a lock allows  *)
(* at most; a third creates and deletes the queue while neither is inside  *)
(* a call.  A step is one access to the shared structure; they take effect  *)
(* in program order, as on x86.                                            *)
(*                                                                         *)
(* A position is advanced in two statements: add one, and set to 0 if that *)
(* was the end of the ring.  The position past the end is in memory between *)
(* the two, where the other end may read it.  The sender is not misled by  *)
(* it, but a receiver that stands at slot 0 takes an empty ring for a      *)
(* filled one and goes once round the ring too far.                        *)
(***************************************************************************)
EXTENDS Integers, Sequences

CONSTANTS
  Message,   \* contents of messages
  MaxMsgs,   \* bound: largest maxMsgs given to msgQCreate
  MaxTicks,  \* bound: largest finite timeout
  None       \* an empty slot or buffer

ASSUME MsgQAssumption ==
  /\ None \notin Message
  /\ MaxMsgs \in Nat \ {0} /\ MaxTicks \in Nat

VARIABLES
  MaxMsgNum,  \* slots of the ring, one more than the messages it may hold
  WritePos, ReadPos,
  slots,      \* what MsgQPtr points to
  open,       \* MsgQPtr # NULL
  sender,     \* [at, msg, ticks] of the sending task
  receiver,   \* [at, buf, ticks] of the receiving task
  received,   \* the message that left the ring last
  lapped      \* history: a receive has read this ring when it was empty

ringVars == <<MaxMsgNum, slots, open>>
vars == <<ringVars, WritePos, ReadPos, sender, receiver, received, lapped>>

Forever == -1
Timeout == {Forever} \cup 0 .. MaxTicks

TypeOK ==
  /\ MaxMsgNum \in 2 .. (MaxMsgs + 1)
  /\ WritePos \in 0 .. MaxMsgNum /\ ReadPos \in 0 .. MaxMsgNum
  /\ slots \in [0 .. MaxMsgs -> Message \cup {None}]
  /\ open \in BOOLEAN
  /\ sender \in [at : {"idle", "test", "copy", "advance", "wrap"},
                 msg : Message \cup {None}, ticks : Timeout]
  /\ receiver \in [at : {"idle", "test", "copy", "advance", "wrap"},
                   buf : Message \cup {None}, ticks : Timeout]
  /\ received \in Message \cup {None}
  /\ lapped \in BOOLEAN

Init ==
  /\ MaxMsgNum = 2 /\ WritePos = 0 /\ ReadPos = 0
  /\ slots = [i \in 0 .. MaxMsgs |-> None]
  /\ open = FALSE
  /\ sender = [at |-> "idle", msg |-> None, ticks |-> 0]
  /\ receiver = [at |-> "idle", buf |-> None, ticks |-> 0]
  /\ received = None
  /\ lapped = FALSE

\* What the ring holds, from the slot to be read next up to the slot to be
\* written next.  A position past the end stands for 0.
Wrapped(pos) == IF pos = MaxMsgNum THEN 0 ELSE pos
Count == LET w == Wrapped(WritePos)
             r == Wrapped(ReadPos)
         IN IF w >= r THEN w - r ELSE w - r + MaxMsgNum

-----------------------------------------------------------------------------
(* The owner.                                                              *)

Quiet == sender.at = "idle" /\ receiver.at = "idle"

\* A bug: no slot is left over to tell a full ring from an empty one.
FaultCreate(maxMsgs) ==
  /\ ~open /\ Quiet
  /\ MaxMsgNum' = maxMsgs
  /\ ReadPos' = 0 /\ WritePos' = 0
  /\ slots' = [i \in 0 .. MaxMsgs |-> None]
  /\ open' = TRUE
  /\ lapped' = FALSE
  /\ UNCHANGED <<sender, receiver, received>>

msgQCreate(maxMsgs) ==
  /\ ~open /\ Quiet
  /\ MaxMsgNum' = maxMsgs + 1
  /\ ReadPos' = 0 /\ WritePos' = 0
  /\ slots' = [i \in 0 .. MaxMsgs |-> None]
  /\ open' = TRUE
  /\ lapped' = FALSE
  /\ UNCHANGED <<sender, receiver, received>>

msgQDelete ==
  /\ open /\ Quiet
  /\ open' = FALSE
  /\ UNCHANGED <<MaxMsgNum, slots, WritePos, ReadPos, sender, receiver, received, lapped>>

-----------------------------------------------------------------------------
(* The sender.                                                             *)

\* A bug: the ring whose next position is 0 is never full.
FaultCanSend == WritePos + 1 # ReadPos

canSend ==
  ~(WritePos + 1 = ReadPos \/ (WritePos = MaxMsgNum - 1 /\ ReadPos = 0))

\* Calls on a queue that does not exist return at once.
msgQSend(m, timeout) ==
  /\ open /\ sender.at = "idle"
  /\ sender' = [at |-> "test", msg |-> m, ticks |-> timeout]
  /\ UNCHANGED <<ringVars, WritePos, ReadPos, receiver, received, lapped>>

\* One round of the wait.  NO_WAIT (a timeout of 0) asks once; n ticks ask n
\* times, the last of them before the last delay.
SenderTest ==
  /\ sender.at = "test"
  /\ sender' = IF canSend THEN [sender EXCEPT !.at = "copy"]
               ELSE IF sender.ticks = Forever THEN sender
               ELSE IF sender.ticks <= 1 THEN [sender EXCEPT !.at = "idle"]
               ELSE [sender EXCEPT !.ticks = @ - 1]
  /\ UNCHANGED <<ringVars, WritePos, ReadPos, receiver, received, lapped>>

SenderCopy ==
  /\ sender.at = "copy"
  /\ slots' = [slots EXCEPT ![WritePos] = sender.msg]
  /\ sender' = [sender EXCEPT !.at = "advance"]
  /\ UNCHANGED <<MaxMsgNum, open, WritePos, ReadPos, receiver, received, lapped>>

SenderAdvance ==
  /\ sender.at = "advance"
  /\ WritePos' = WritePos + 1
  /\ sender' = [sender EXCEPT !.at = "wrap"]
  /\ UNCHANGED <<ringVars, ReadPos, receiver, received, lapped>>

SenderWrap ==
  /\ sender.at = "wrap"
  /\ WritePos' = Wrapped(WritePos)
  /\ sender' = [sender EXCEPT !.at = "idle"]
  /\ UNCHANGED <<ringVars, ReadPos, receiver, received, lapped>>

-----------------------------------------------------------------------------
(* The receiver.                                                           *)

\* A bug: an empty ring is read.
FaultCanReceive == TRUE

canReceive == ReadPos # WritePos

msgQReceive(timeout) ==
  /\ open /\ receiver.at = "idle"
  /\ receiver' = [at |-> "test", buf |-> None, ticks |-> timeout]
  /\ UNCHANGED <<ringVars, WritePos, ReadPos, sender, received, lapped>>

ReceiverTest ==
  /\ receiver.at = "test"
  /\ receiver' = IF canReceive THEN [receiver EXCEPT !.at = "copy"]
                 ELSE IF receiver.ticks = Forever THEN receiver
                 ELSE IF receiver.ticks <= 1 THEN [receiver EXCEPT !.at = "idle"]
                 ELSE [receiver EXCEPT !.ticks = @ - 1]
  /\ lapped' = (lapped \/ (canReceive /\ Count = 0))
  /\ UNCHANGED <<ringVars, WritePos, ReadPos, sender, received>>

\* A message longer than the receiver's buffer is reported as an error, but
\* it leaves the ring as any other does.
ReceiverCopy ==
  /\ receiver.at = "copy"
  /\ receiver' = [receiver EXCEPT !.at = "advance", !.buf = slots[ReadPos]]
  /\ UNCHANGED <<ringVars, WritePos, ReadPos, sender, received, lapped>>

ReceiverAdvance ==
  /\ receiver.at = "advance"
  /\ ReadPos' = ReadPos + 1
  /\ received' = receiver.buf
  /\ receiver' = [receiver EXCEPT !.at = "wrap"]
  /\ UNCHANGED <<ringVars, WritePos, sender, lapped>>

ReceiverWrap ==
  /\ receiver.at = "wrap"
  /\ ReadPos' = Wrapped(ReadPos)
  /\ receiver' = [receiver EXCEPT !.at = "idle"]
  /\ UNCHANGED <<ringVars, WritePos, sender, received, lapped>>

-----------------------------------------------------------------------------
SenderStep == SenderTest \/ SenderCopy \/ SenderAdvance \/ SenderWrap
ReceiverStep == ReceiverTest \/ ReceiverCopy \/ ReceiverAdvance \/ ReceiverWrap

Next ==
  \/ \E maxMsgs \in 1 .. MaxMsgs : msgQCreate(maxMsgs)
  \/ msgQDelete
  \/ \E m \in Message, timeout \in Timeout : msgQSend(m, timeout)
  \/ \E timeout \in Timeout : msgQReceive(timeout)
  \/ SenderTest \/ SenderCopy \/ SenderAdvance \/ SenderWrap
  \/ ReceiverTest \/ ReceiverCopy \/ ReceiverAdvance \/ ReceiverWrap

Spec == Init /\ [][Next]_vars

\* A task inside a call runs on, and the receiving task calls again and again.
FairSpec ==
  /\ Spec
  /\ WF_vars(SenderStep) /\ WF_vars(ReceiverStep)
  /\ WF_vars(\E timeout \in Timeout : msgQReceive(timeout))

-----------------------------------------------------------------------------
(* Properties.                                                             *)

Slot(i) == LET p == Wrapped(ReadPos) + i - 1
           IN IF p < MaxMsgNum THEN p ELSE p - MaxMsgNum
Waiting == IF open THEN [i \in 1 .. Count |-> slots[Slot(i)]] ELSE <<>>

Fifo == INSTANCE Fifo WITH
          capacity <- IF open THEN MaxMsgNum - 1 ELSE 0,
          queue <- Waiting,
          taken <- received,
          returning <- sender.at = "wrap",
          MaxCapacity <- MaxMsgs

\* The unlocked ring is a queue: what msgQReceive takes is what msgQSend put
\* in, once each, in order, and a queue created for n messages holds n, up to
\* the first receive that reads an empty ring.  Such a receive starts only
\* before the send that filled the last slot has returned (lines 940-944).
ImplementsFifo == Fifo!FifoSpec

\* The two ends never copy in and out of the same slot at once, although
\* neither takes a lock (lines 932-936 and 1005-1020), up to a receive that
\* reads an empty ring.
SlotExclusive ==
  sender.at = "copy" /\ receiver.at = "copy" /\ WritePos = ReadPos => lapped

\* While somebody keeps receiving, a call of msgQSend returns, even one that
\* waits for ever.
SendReturns == sender.at # "idle" ~> sender.at = "idle"

=============================================================================
