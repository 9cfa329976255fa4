----------------------------- MODULE QueueProofs ----------------------------
(***************************************************************************)
(* The two message queues of the Windows port.                             *)
(*                                                                         *)
(* The unlocked ring of MsgQ implements the queue of Fifo, for every set   *)
(* of messages, every size and every timeout: up to a receive that runs    *)
(* ahead of a send it is a bounded first-in first-out queue.               *)
(*                                                                         *)
(* The linked lists of the POSIX queue, Mqueue, implement a queue in order *)
(* of priority, for every set of threads, priorities and bodies and every  *)
(* size.  They come second: the lists keep every header once, which is why *)
(* no index read from them is 0.                                           *)
(***************************************************************************)
EXTENDS MsgQ, Mqueue, FiniteSetTheorems, SequenceTheorems, WellFoundedInduction, TLAPS

(***************************************************************************)
(* The inductive invariant.  Each end has looked at the other's position   *)
(* before it touches a slot; what makes that enough is that the other end  *)
(* can only have made more room, or more messages, since.  The receiver's  *)
(* half ends with the first receive that read an empty ring, and so does   *)
(* the sender's, since that receive takes room away.                       *)
(***************************************************************************)
Sender == [at : {"idle", "test", "copy", "advance", "wrap"},
           msg : Message \cup {None}, ticks : Timeout]
Receiver == [at : {"idle", "test", "copy", "advance", "wrap"},
             buf : Message \cup {None}, ticks : Timeout]

\* A position past the end is there only until its owner resets it.
PositionsInRing ==
  /\ WritePos = MaxMsgNum => sender.at = "wrap"
  /\ ReadPos = MaxMsgNum => receiver.at = "wrap"

\* Nobody is inside a call of a queue that does not exist.
ClosedQuiet == ~open => Quiet

\* The sender writes only where there is room, and what it announces is there.
SenderSound ==
  /\ sender.at # "idle" => sender.msg \in Message
  /\ sender.at \in {"copy", "advance"} => lapped \/ Count < MaxMsgNum - 1
  /\ sender.at = "advance" => slots[WritePos] = sender.msg

\* The receiver reads only what is there, and it is still there when the
\* receiver gives the slot back.
ReceiverSound ==
  /\ receiver.at \in {"copy", "advance"} => lapped \/ Count # 0
  /\ receiver.at = "advance" => lapped \/ receiver.buf = slots[ReadPos]

Sound == PositionsInRing /\ ClosedQuiet /\ SenderSound /\ ReceiverSound
IInv == TypeOK /\ Sound

\* The first state satisfies the invariant.
LEMMA InitInv == Init => IInv
<1> SUFFICES ASSUME Init PROVE IInv
  OBVIOUS
<1>1. sender \in Sender /\ receiver \in Receiver
  BY MsgQAssumption DEF Init, Timeout, Sender, Receiver
<1>2. slots \in [0 .. MaxMsgs -> Message \cup {None}]
  BY DEF Init
<1>3. MaxMsgNum \in 2 .. (MaxMsgs + 1) /\ WritePos \in 0 .. MaxMsgNum
        /\ ReadPos \in 0 .. MaxMsgNum
  BY MsgQAssumption DEF Init
<1>4. TypeOK
  BY <1>1, <1>2, <1>3 DEF Init, TypeOK, Sender, Receiver
<1> QED
  BY <1>4, MsgQAssumption
  DEF Init, IInv, Sound, PositionsInRing, ClosedQuiet, Quiet, SenderSound, ReceiverSound

\* The numbers of a ring, without Wrapped.
LEMMA CountFacts ==
  ASSUME TypeOK
  PROVE  /\ MaxMsgs \in Nat /\ MaxMsgNum \in Nat /\ MaxMsgNum >= 2
         /\ MaxMsgNum <= MaxMsgs + 1
         /\ Wrapped(WritePos) \in 0 .. MaxMsgNum - 1
         /\ Wrapped(ReadPos) \in 0 .. MaxMsgNum - 1
         /\ Count \in 0 .. MaxMsgNum - 1
         /\ Count = 0 <=> Wrapped(WritePos) = Wrapped(ReadPos)
  BY MsgQAssumption DEF TypeOK, Wrapped, Count

\* The two looks: a sender that may go on finds room, and a receiver that
\* may go on finds a message unless it has read an empty ring.
LEMMA LookFacts ==
  ASSUME TypeOK, WritePos < MaxMsgNum, canSend
  PROVE  Count < MaxMsgNum - 1
<1>1. /\ MaxMsgNum \in Nat /\ MaxMsgNum >= 2
      /\ WritePos \in 0 .. MaxMsgNum - 1 /\ ReadPos \in 0 .. MaxMsgNum
  BY MsgQAssumption DEF TypeOK
<1>2. Wrapped(WritePos) = WritePos
  BY <1>1 DEF Wrapped
<1>3. CASE ReadPos = MaxMsgNum
  BY <1>1, <1>2, <1>3 DEF canSend, Count, Wrapped
<1>4. CASE ReadPos < MaxMsgNum
  BY <1>1, <1>2, <1>4 DEF canSend, Count, Wrapped
<1> QED
  BY <1>1, <1>3, <1>4

\* The sender's step past a slot makes one message more.
LEMMA CountUp ==
  ASSUME TypeOK, WritePos < MaxMsgNum, Count < MaxMsgNum - 1,
         WritePos' = WritePos + 1, UNCHANGED <<MaxMsgNum, ReadPos>>
  PROVE  Count' = Count + 1
<1>1. /\ MaxMsgNum \in Nat /\ MaxMsgNum >= 2
      /\ WritePos \in 0 .. MaxMsgNum - 1 /\ ReadPos \in 0 .. MaxMsgNum
  BY MsgQAssumption DEF TypeOK
<1>2. PICK r \in 0 .. MaxMsgNum - 1 : r = Wrapped(ReadPos) /\ Wrapped(ReadPos)' = r
  BY <1>1 DEF Wrapped
<1>3. Count = IF WritePos >= r THEN WritePos - r ELSE WritePos - r + MaxMsgNum
  BY <1>1, <1>2 DEF Count, Wrapped
<1>4. Count' = LET w == IF WritePos + 1 = MaxMsgNum THEN 0 ELSE WritePos + 1
               IN IF w >= r THEN w - r ELSE w - r + MaxMsgNum
  BY <1>2 DEF Count, Wrapped
<1> QED
  BY <1>1, <1>2, <1>3, <1>4

\* The receiver's step past a slot makes one message less.
LEMMA CountDown ==
  ASSUME TypeOK, ReadPos < MaxMsgNum, Count # 0,
         ReadPos' = ReadPos + 1, UNCHANGED <<MaxMsgNum, WritePos>>
  PROVE  Count' = Count - 1
<1>1. /\ MaxMsgNum \in Nat /\ MaxMsgNum >= 2
      /\ ReadPos \in 0 .. MaxMsgNum - 1 /\ WritePos \in 0 .. MaxMsgNum
  BY MsgQAssumption DEF TypeOK
<1>2. PICK w \in 0 .. MaxMsgNum - 1 : w = Wrapped(WritePos) /\ Wrapped(WritePos)' = w
  BY <1>1 DEF Wrapped
<1>3. Count = IF w >= ReadPos THEN w - ReadPos ELSE w - ReadPos + MaxMsgNum
  BY <1>1, <1>2 DEF Count, Wrapped
<1>4. Count' = LET r == IF ReadPos + 1 = MaxMsgNum THEN 0 ELSE ReadPos + 1
               IN IF w >= r THEN w - r ELSE w - r + MaxMsgNum
  BY <1>2 DEF Count, Wrapped
<1> QED
  BY <1>1, <1>2, <1>3, <1>4

\* Resetting a position that is past the end moves nothing.
LEMMA CountKept ==
  ASSUME TypeOK, UNCHANGED MaxMsgNum,
         WritePos' \in {WritePos, Wrapped(WritePos)},
         ReadPos' \in {ReadPos, Wrapped(ReadPos)}
  PROVE  /\ Count' = Count
         /\ Wrapped(ReadPos)' = Wrapped(ReadPos)
         /\ Wrapped(WritePos)' = Wrapped(WritePos)
<1>1. MaxMsgNum # 0
  BY MsgQAssumption DEF TypeOK
<1>2. Wrapped(ReadPos)' = Wrapped(ReadPos) /\ Wrapped(WritePos)' = Wrapped(WritePos)
  BY <1>1 DEF Wrapped
<1> QED
  BY <1>2 DEF Count

\* Every step keeps the invariant.
LEMMA StepInv == ASSUME IInv, [Next]_vars PROVE IInv'
<1> USE MsgQAssumption DEF Sender, Receiver
<1>0. /\ TypeOK /\ sender \in Sender /\ receiver \in Receiver
      /\ MaxMsgNum \in 2 .. (MaxMsgs + 1) /\ MaxMsgNum \in Nat
      /\ WritePos \in 0 .. MaxMsgNum /\ ReadPos \in 0 .. MaxMsgNum
      /\ slots \in [0 .. MaxMsgs -> Message \cup {None}]
      /\ received \in Message \cup {None} /\ open \in BOOLEAN /\ lapped \in BOOLEAN
  BY DEF IInv, TypeOK
<1>1. ASSUME NEW maxMsgs \in 1 .. MaxMsgs, msgQCreate(maxMsgs) PROVE IInv'
  <2>1. /\ sender.at = "idle" /\ receiver.at = "idle"
        /\ UNCHANGED <<sender, receiver, received>>
        /\ MaxMsgNum' \in 2 .. (MaxMsgs + 1) /\ WritePos' = 0 /\ ReadPos' = 0
        /\ slots' \in [0 .. MaxMsgs -> Message \cup {None}]
        /\ open' = TRUE /\ lapped' = FALSE
    BY <1>1 DEF msgQCreate, Quiet
  <2>2. TypeOK'
    <3>1. sender' \in Sender /\ receiver' \in Receiver /\ received' \in Message \cup {None}
      BY <1>0, <2>1
    <3>2. WritePos' \in 0 .. MaxMsgNum' /\ ReadPos' \in 0 .. MaxMsgNum'
      BY <2>1
    <3> QED
      BY <2>1, <3>1, <3>2 DEF TypeOK
  <2>3. Sound'
    BY <2>1 DEF Sound, PositionsInRing, ClosedQuiet, SenderSound, ReceiverSound
  <2> QED
    BY <2>2, <2>3 DEF IInv
<1>2. CASE msgQDelete
  <2>1. /\ sender.at = "idle" /\ receiver.at = "idle" /\ open' = FALSE
        /\ UNCHANGED <<sender, receiver, received, MaxMsgNum, WritePos, ReadPos, slots, lapped>>
    BY <1>2 DEF msgQDelete, Quiet
  <2> QED
    BY <1>0, <2>1 DEF IInv, TypeOK, Sound, PositionsInRing, ClosedQuiet, Quiet,
                      SenderSound, ReceiverSound
<1>3. ASSUME NEW m \in Message, NEW timeout \in Timeout, msgQSend(m, timeout)
      PROVE  IInv'
  <2>1. /\ sender' \in Sender /\ sender'.at = "test" /\ sender'.msg = m
        /\ open /\ sender.at = "idle"
        /\ UNCHANGED <<open, MaxMsgNum, WritePos, ReadPos, slots, receiver, received, lapped>>
    BY <1>3 DEF msgQSend, ringVars
  <2>2. TypeOK' /\ Count' = Count
    BY <1>0, <2>1 DEF TypeOK, Count, Wrapped
  <2> QED
    BY <2>1, <2>2 DEF IInv, Sound, PositionsInRing, ClosedQuiet, SenderSound, ReceiverSound
<1>4. ASSUME NEW timeout \in Timeout, msgQReceive(timeout) PROVE IInv'
  <2>1. /\ receiver' \in Receiver /\ receiver'.at = "test" /\ open /\ receiver.at = "idle"
        /\ UNCHANGED <<open, MaxMsgNum, WritePos, ReadPos, slots, sender, received, lapped>>
    BY <1>4 DEF msgQReceive, ringVars
  <2>2. TypeOK' /\ Count' = Count
    BY <1>0, <2>1 DEF TypeOK, Count, Wrapped
  <2> QED
    BY <2>1, <2>2 DEF IInv, Sound, PositionsInRing, ClosedQuiet, SenderSound, ReceiverSound
<1>5. CASE SenderTest
  <2>1. /\ sender.at = "test"
        /\ UNCHANGED <<open, MaxMsgNum, WritePos, ReadPos, slots, receiver, received, lapped>>
    BY <1>5 DEF SenderTest, ringVars
  <2>2. /\ sender' \in Sender /\ sender'.msg = sender.msg
        /\ sender'.at \in {"idle", "test", "copy"}
        /\ sender'.at = "copy" => canSend
    <3>1. CASE canSend
      BY <1>0, <1>5, <3>1 DEF SenderTest
    <3>2. CASE ~canSend /\ (sender.ticks = Forever \/ sender.ticks <= 1)
      BY <1>0, <1>5, <3>2 DEF SenderTest
    <3>3. CASE ~canSend /\ ~(sender.ticks = Forever \/ sender.ticks <= 1)
      <4>1. sender.ticks - 1 \in Timeout
        BY <1>0, <3>3 DEF Timeout, Forever
      <4>2. sender' = [sender EXCEPT !.ticks = sender.ticks - 1]
        BY <1>5, <3>3 DEF SenderTest
      <4> QED
        BY <1>0, <2>1, <4>1, <4>2
    <3> QED
      BY <3>1, <3>2, <3>3
  <2>3. TypeOK' /\ Count' = Count
    BY <1>0, <2>1, <2>2 DEF TypeOK, Count, Wrapped
  <2>4. WritePos < MaxMsgNum
    BY <1>0, <2>1 DEF IInv, Sound, PositionsInRing
  <2>5. sender'.at = "copy" => Count < MaxMsgNum - 1
    BY <1>0, <2>2, <2>4, LookFacts
  <2> QED
    BY <2>1, <2>2, <2>3, <2>4, <2>5, <1>0
    DEF IInv, Sound, PositionsInRing, ClosedQuiet, Quiet, SenderSound, ReceiverSound
<1>6. CASE SenderCopy
  <2>1. /\ sender.at = "copy" /\ sender' \in Sender
        /\ sender'.at = "advance" /\ sender'.msg = sender.msg
        /\ slots' = [slots EXCEPT ![WritePos] = sender.msg]
        /\ UNCHANGED <<open, MaxMsgNum, WritePos, ReadPos, receiver, received, lapped>>
    BY <1>0, <1>6 DEF SenderCopy
  <2>2. TypeOK' /\ Count' = Count
    BY <1>0, <2>1 DEF TypeOK, Count, Wrapped
  <2>3. WritePos \in 0 .. MaxMsgs /\ slots'[WritePos] = sender.msg /\ sender.msg \in Message
    BY <1>0, <2>1 DEF IInv, Sound, PositionsInRing, SenderSound
  <2>4. receiver.at = "advance" => lapped \/ slots'[ReadPos] = slots[ReadPos]
    <3>1. receiver.at = "advance" /\ ~lapped => Wrapped(WritePos) # Wrapped(ReadPos)
      BY <1>0, CountFacts DEF IInv, Sound, ReceiverSound
    <3>2. receiver.at = "advance" /\ ~lapped => WritePos # ReadPos
      BY <3>1
    <3>3. receiver.at = "advance" => ReadPos \in 0 .. MaxMsgs
      BY <1>0 DEF IInv, Sound, PositionsInRing
    <3> QED
      BY <1>0, <2>1, <3>2, <3>3
  <2> QED
    BY <2>1, <2>2, <2>3, <2>4
    DEF IInv, Sound, PositionsInRing, ClosedQuiet, Quiet, SenderSound, ReceiverSound
<1>7. CASE SenderAdvance
  <2>1. /\ sender.at = "advance" /\ sender' \in Sender
        /\ sender'.at = "wrap" /\ sender'.msg = sender.msg
        /\ WritePos' = WritePos + 1
        /\ UNCHANGED <<open, MaxMsgNum, ReadPos, slots, receiver, received, lapped>>
    BY <1>0, <1>7 DEF SenderAdvance, ringVars
  <2>2. WritePos < MaxMsgNum
    BY <1>0, <2>1 DEF IInv, Sound, PositionsInRing
  <2>3. TypeOK'
    BY <1>0, <2>1, <2>2 DEF TypeOK
  <2>4. lapped \/ Count' = Count + 1
    BY <1>0, <2>1, <2>2, CountUp DEF IInv, Sound, SenderSound
  <2>5. Count \in Nat
    BY <1>0, CountFacts
  <2> QED
    BY <2>1, <2>3, <2>4, <2>5
    DEF IInv, Sound, PositionsInRing, ClosedQuiet, Quiet, SenderSound, ReceiverSound
<1>8. CASE SenderWrap
  <2>1. /\ sender.at = "wrap" /\ sender' \in Sender
        /\ sender'.at = "idle" /\ WritePos' = Wrapped(WritePos)
        /\ UNCHANGED <<open, MaxMsgNum, ReadPos, slots, receiver, received, lapped>>
    BY <1>0, <1>8 DEF SenderWrap, ringVars
  <2>2. Count' = Count /\ WritePos' \in 0 .. MaxMsgNum - 1
    BY <1>0, <2>1, CountKept, CountFacts
  <2>3. TypeOK'
    BY <1>0, <2>1, <2>2 DEF TypeOK
  <2> QED
    BY <1>0, <2>1, <2>2, <2>3
    DEF IInv, Sound, PositionsInRing, ClosedQuiet, Quiet, SenderSound, ReceiverSound
<1>9. CASE ReceiverTest
  <2>1. /\ receiver.at = "test" /\ lapped' = (lapped \/ (canReceive /\ Count = 0))
        /\ UNCHANGED <<open, MaxMsgNum, WritePos, ReadPos, slots, sender, received>>
    BY <1>9 DEF ReceiverTest, ringVars
  <2>2. /\ receiver' \in Receiver
        /\ receiver'.at \in {"idle", "test", "copy"}
        /\ receiver'.at = "copy" => canReceive
    <3>1. CASE canReceive
      BY <1>0, <1>9, <3>1 DEF ReceiverTest
    <3>2. CASE ~canReceive /\ (receiver.ticks = Forever \/ receiver.ticks <= 1)
      BY <1>0, <1>9, <3>2 DEF ReceiverTest
    <3>3. CASE ~canReceive /\ ~(receiver.ticks = Forever \/ receiver.ticks <= 1)
      <4>1. receiver.ticks - 1 \in Timeout
        BY <1>0, <3>3 DEF Timeout, Forever
      <4>2. receiver' = [receiver EXCEPT !.ticks = receiver.ticks - 1]
        BY <1>9, <3>3 DEF ReceiverTest
      <4> QED
        BY <1>0, <2>1, <4>1, <4>2
    <3> QED
      BY <3>1, <3>2, <3>3
  <2>3. TypeOK' /\ Count' = Count
    BY <1>0, <2>1, <2>2 DEF TypeOK, Count, Wrapped
  <2>4. lapped => lapped'
    BY <2>1
  <2>5. receiver'.at = "copy" => lapped' \/ Count # 0
    BY <2>1, <2>2
  <2> QED
    BY <2>1, <2>2, <2>3, <2>4, <2>5
    DEF IInv, Sound, PositionsInRing, ClosedQuiet, Quiet, SenderSound, ReceiverSound
<1>10. CASE ReceiverCopy
  <2>1. slots[ReadPos] \in Message \cup {None}
    BY <1>0, <1>10 DEF ReceiverCopy, IInv, Sound, PositionsInRing
  <2>2. /\ receiver.at = "copy" /\ receiver' \in Receiver
        /\ receiver'.at = "advance" /\ receiver'.buf = slots[ReadPos]
        /\ UNCHANGED <<open, MaxMsgNum, WritePos, ReadPos, slots, sender, received, lapped>>
    BY <1>0, <1>10, <2>1 DEF ReceiverCopy, ringVars
  <2>3. TypeOK' /\ Count' = Count
    BY <1>0, <2>2 DEF TypeOK, Count, Wrapped
  <2> QED
    BY <2>2, <2>3
    DEF IInv, Sound, PositionsInRing, ClosedQuiet, Quiet, SenderSound, ReceiverSound
<1>11. CASE ReceiverAdvance
  <2>1. /\ receiver.at = "advance" /\ receiver' \in Receiver /\ receiver'.at = "wrap"
        /\ received' \in Message \cup {None} /\ ReadPos' = ReadPos + 1
        /\ UNCHANGED <<open, MaxMsgNum, WritePos, slots, sender, lapped>>
    BY <1>0, <1>11 DEF ReceiverAdvance, ringVars
  <2>2. ReadPos < MaxMsgNum
    BY <1>0, <2>1 DEF IInv, Sound, PositionsInRing
  <2>3. TypeOK'
    BY <1>0, <2>1, <2>2 DEF TypeOK
  <2>4. lapped \/ Count' = Count - 1
    BY <1>0, <2>1, <2>2, CountDown DEF IInv, Sound, ReceiverSound
  <2>5. Count \in Nat /\ MaxMsgNum \in Nat
    BY <1>0, CountFacts
  <2> QED
    BY <2>1, <2>3, <2>4, <2>5
    DEF IInv, Sound, PositionsInRing, ClosedQuiet, Quiet, SenderSound, ReceiverSound
<1>12. CASE ReceiverWrap
  <2>1. /\ receiver.at = "wrap" /\ receiver' \in Receiver
        /\ receiver'.at = "idle" /\ ReadPos' = Wrapped(ReadPos)
        /\ UNCHANGED <<open, MaxMsgNum, WritePos, slots, sender, received, lapped>>
    BY <1>0, <1>12 DEF ReceiverWrap, ringVars
  <2>2. Count' = Count /\ ReadPos' \in 0 .. MaxMsgNum - 1
    BY <1>0, <2>1, CountKept, CountFacts
  <2>3. TypeOK'
    BY <1>0, <2>1, <2>2 DEF TypeOK
  <2> QED
    BY <1>0, <2>1, <2>2, <2>3
    DEF IInv, Sound, PositionsInRing, ClosedQuiet, Quiet, SenderSound, ReceiverSound
<1>13. CASE UNCHANGED vars
  <2>1. UNCHANGED <<open, MaxMsgNum, WritePos, ReadPos, slots, sender, receiver, received, lapped>>
    BY <1>13 DEF vars, ringVars
  <2>2. TypeOK' /\ Count' = Count
    BY <1>0, <2>1 DEF TypeOK, Count, Wrapped
  <2> QED
    BY <2>1, <2>2
    DEF IInv, Sound, PositionsInRing, ClosedQuiet, Quiet, SenderSound, ReceiverSound
<1> QED
  BY <1>1, <1>2, <1>3, <1>4, <1>5, <1>6, <1>7, <1>8, <1>9, <1>10, <1>11,
     <1>12, <1>13 DEF Next

\* The invariant holds for ever.
LEMMA Inductive == Spec => []IInv
<1>1. Init => IInv
  BY InitInv
<1>2. IInv /\ [Next]_vars => IInv'
  BY StepInv
<1> QED
  BY <1>1, <1>2, PTL DEF Spec

\* Type correctness: a position is past the end only between the two stores.
THEOREM MsgQTypeCorrect == Spec => []TypeOK
<1>1. IInv => TypeOK
  BY DEF IInv
<1> QED
  BY <1>1, Inductive, PTL

\* The two ends never copy in and out of one slot at once, unless a receive
\* has read an empty ring: each has seen the other's position, and what it
\* saw leaves the slot to it.
THEOREM MsgQSlotExclusive == Spec => []SlotExclusive
<1>1. IInv => SlotExclusive
  BY CountFacts DEF IInv, Sound, ReceiverSound, SlotExclusive
<1> QED
  BY <1>1, Inductive, PTL

-----------------------------------------------------------------------------
(* The refinement.                                                         *)

\* A function on 1 .. n is a sequence of length n.
LEMMA SeqOfFunction ==
  ASSUME NEW S, NEW n \in Nat, NEW f \in [1 .. n -> S]
  PROVE  f \in Seq(S) /\ Len(f) = n
<1>1. f \in Seq(S)
  BY SeqDef
<1> QED
  BY <1>1, LenProperties, SMT

\* Sequences of different make agree when they agree at every place.
LEMMA AppendOne ==
  ASSUME NEW S, NEW n \in Nat, NEW s \in [1 .. n -> S],
         NEW t \in [1 .. n + 1 -> S], NEW e \in S,
         \A i \in 1 .. n : t[i] = s[i],
         t[n + 1] = e
  PROVE  t = Append(s, e)
<1>1. s \in Seq(S) /\ Len(s) = n
  BY SeqOfFunction
<1>2. t \in Seq(S) /\ Len(t) = n + 1
  BY SeqOfFunction, n + 1 \in Nat
<1>3. /\ Append(s, e) \in Seq(S) /\ Len(Append(s, e)) = n + 1
      /\ \A i \in 1 .. n : Append(s, e)[i] = s[i]
      /\ Append(s, e)[n + 1] = e
  BY <1>1, AppendProperties
<1>4. \A i \in 1 .. n + 1 : t[i] = Append(s, e)[i]
  BY <1>3
<1> QED
  BY <1>2, <1>3, <1>4, SeqEqual

\* Dropping the first element moves the others up by one.
LEMMA DropOne ==
  ASSUME NEW S, NEW n \in Nat, NEW s \in [1 .. n + 1 -> S],
         NEW t \in [1 .. n -> S],
         \A i \in 1 .. n : t[i] = s[i + 1]
  PROVE  s # <<>> /\ Head(s) = s[1] /\ t = Tail(s)
<1>1. s \in Seq(S) /\ Len(s) = n + 1
  BY SeqOfFunction, n + 1 \in Nat
<1>2. t \in Seq(S) /\ Len(t) = n
  BY SeqOfFunction
<1>3. s # <<>>
  BY <1>1, EmptySeq
<1>4. /\ Tail(s) \in Seq(S) /\ Len(Tail(s)) = n
      /\ \A i \in 1 .. n : Tail(s)[i] = s[i + 1]
  BY <1>1, <1>3, HeadTailProperties
<1>5. t = Tail(s)
  BY <1>2, <1>4, SeqEqual
<1>6. Head(s) = s[1]
  BY <1>1
<1> QED
  BY <1>3, <1>5, <1>6

Stuff == Message \cup {None}

\* The first state of the ring is the first state of the queue.
LEMMA InitRefines == Init => Fifo!FifoInit
  BY DEF Init, Waiting, Fifo!FifoInit

\* In the ring the positions count what is waiting.
LEMMA WaitingShape ==
  ASSUME TypeOK
  PROVE  /\ Count \in 0 .. MaxMsgNum - 1
         /\ \A i \in 1 .. MaxMsgNum : Slot(i) \in 0 .. MaxMsgs
         /\ open => Waiting \in [1 .. Count -> Stuff] /\ Len(Waiting) = Count
         /\ Waiting \in Seq(Stuff)
         /\ open => (Waiting = <<>> <=> Count = 0)
<1>1. /\ Count \in 0 .. MaxMsgNum - 1 /\ Wrapped(ReadPos) \in 0 .. MaxMsgNum - 1
      /\ MaxMsgNum \in Nat /\ MaxMsgs \in Nat /\ MaxMsgNum <= MaxMsgs + 1
  BY CountFacts
<1>2. ASSUME NEW i \in 1 .. MaxMsgNum PROVE Slot(i) \in 0 .. MaxMsgs
  BY <1>1 DEF Slot
<1>3. open => Waiting \in [1 .. Count -> Stuff]
  BY <1>1, <1>2 DEF Waiting, Stuff, TypeOK
<1>4. open => Waiting \in Seq(Stuff) /\ Len(Waiting) = Count
  BY <1>1, <1>3, SeqOfFunction
<1>5. ~open => Waiting = <<>>
  BY DEF Waiting
<1>6. open => (Waiting = <<>> <=> Count = 0)
  BY <1>1, <1>4, EmptySeq
<1> QED
  BY <1>1, <1>2, <1>3, <1>4, <1>5, <1>6, EmptySeq

\* What is waiting is a sequence, before and after a step.
LEMMA WaitingType == TypeOK => Waiting \in Seq(Stuff)
  BY WaitingShape

\* A step that moves no position and writes no slot that is waiting changes
\* nothing of the queue.
LEMMA WaitingKept ==
  ASSUME TypeOK, UNCHANGED <<open, MaxMsgNum>>,
         WritePos' \in {WritePos, Wrapped(WritePos)},
         ReadPos' \in {ReadPos, Wrapped(ReadPos)},
         \A i \in 1 .. Count : slots'[Slot(i)] = slots[Slot(i)]
  PROVE  Waiting' = Waiting
<1>1. Count' = Count /\ \A i \in 1 .. Count : Slot(i)' = Slot(i)
  BY CountKept DEF Slot
<1> QED
  BY <1>1 DEF Waiting

\* Announcing the copied message appends it to a queue that has room.
LEMMA AdvancePuts ==
  ASSUME IInv, SenderAdvance, ~lapped
  PROVE  Fifo!Put(sender.msg)
<1> USE MsgQAssumption
<1>1. /\ open /\ open' = open /\ slots' = slots /\ MaxMsgNum' = MaxMsgNum
      /\ ReadPos' = ReadPos /\ received' = received /\ lapped' = lapped
      /\ sender.at = "advance" /\ sender'.at = "wrap" /\ WritePos' = WritePos + 1
  BY DEF SenderAdvance, ringVars, IInv, Sound, ClosedQuiet, Quiet, TypeOK
<1>2. /\ slots[WritePos] = sender.msg /\ sender.msg \in Message
      /\ Count < MaxMsgNum - 1 /\ WritePos # MaxMsgNum
  BY <1>1 DEF IInv, Sound, SenderSound, PositionsInRing
<1>3. /\ MaxMsgNum \in 2 .. MaxMsgs + 1 /\ WritePos \in 0 .. MaxMsgNum - 1
      /\ ReadPos \in 0 .. MaxMsgNum /\ TypeOK
  BY <1>2 DEF IInv, TypeOK
<1>4. Count \in Nat /\ Count' = Count + 1
  BY <1>1, <1>2, <1>3, CountUp, CountFacts
<1>5. Slot(Count + 1) = WritePos
  <2>1. PICK r \in 0 .. MaxMsgNum - 1 : r = Wrapped(ReadPos)
    BY <1>3 DEF Wrapped
  <2>2. Count = IF WritePos >= r THEN WritePos - r ELSE WritePos - r + MaxMsgNum
    BY <1>3, <2>1 DEF Count, Wrapped
  <2>3. Slot(Count + 1) = IF r + Count < MaxMsgNum THEN r + Count ELSE r + Count - MaxMsgNum
    BY <1>3, <1>4, <2>1 DEF Slot
  <2> QED
    BY <1>3, <2>2, <2>3
<1>6. \A i \in 1 .. Count + 1 : Slot(i)' = Slot(i)
  BY <1>1 DEF Slot, Wrapped
<1>7. Waiting \in [1 .. Count -> Stuff] /\ Len(Waiting) = Count
  BY <1>1, <1>3, WaitingShape
<1>8. Waiting' = [i \in 1 .. Count + 1 |-> slots[Slot(i)]]
  BY <1>1, <1>4, <1>6 DEF Waiting
<1>9. Waiting' \in [1 .. Count + 1 -> Stuff]
  <2>1. \A i \in 1 .. Count + 1 : slots[Slot(i)] \in Stuff
    BY <1>2, <1>3, <1>4, WaitingShape DEF TypeOK, Stuff
  <2> QED
    BY <1>8, <2>1
<1>10. \A i \in 1 .. Count : Waiting'[i] = Waiting[i]
  <2>1. Waiting = [i \in 1 .. Count |-> slots[Slot(i)]]
    BY <1>1 DEF Waiting
  <2>2. \A i \in 1 .. Count : i \in 1 .. Count + 1
    BY <1>4
  <2> QED
    BY <1>8, <2>1, <2>2
<1>11. Waiting'[Count + 1] = sender.msg
  BY <1>2, <1>4, <1>5, <1>8
<1>12. Waiting' = Append(Waiting, sender.msg)
  BY <1>2, <1>4, <1>7, <1>9, <1>10, <1>11, AppendOne DEF Stuff
<1> QED
  BY <1>1, <1>2, <1>7, <1>12 DEF Fifo!Put

\* Giving a slot back takes the first message from a queue that has one.
LEMMA AdvanceTakes ==
  ASSUME IInv, ReceiverAdvance, ~lapped
  PROVE  Fifo!Take
<1> USE MsgQAssumption
<1>1. /\ open /\ open' = open /\ slots' = slots /\ MaxMsgNum' = MaxMsgNum
      /\ WritePos' = WritePos /\ received' = receiver.buf /\ lapped' = lapped
      /\ sender' = sender /\ receiver.at = "advance" /\ ReadPos' = ReadPos + 1
  BY DEF ReceiverAdvance, ringVars, IInv, Sound, ClosedQuiet, Quiet, TypeOK
<1>2. receiver.buf = slots[ReadPos] /\ Count # 0 /\ ReadPos # MaxMsgNum
  BY <1>1 DEF IInv, Sound, ReceiverSound, PositionsInRing
<1>3. /\ MaxMsgNum \in 2 .. MaxMsgs + 1 /\ ReadPos \in 0 .. MaxMsgNum - 1
      /\ WritePos \in 0 .. MaxMsgNum /\ TypeOK
  BY <1>2 DEF IInv, TypeOK
<1>4. Wrapped(ReadPos) = ReadPos /\ Slot(1) = ReadPos
  BY <1>3 DEF Wrapped, Slot
<1>5. Count \in 1 .. MaxMsgNum - 1 /\ Count' = Count - 1
  BY <1>1, <1>2, <1>3, CountDown, CountFacts
<1>6. PICK n \in Nat : Count' = n /\ Count = n + 1
  BY <1>3, <1>5
<1>7. ASSUME NEW i \in 1 .. n PROVE Slot(i)' = Slot(i + 1)
  <2>1. Wrapped(ReadPos)' = IF ReadPos + 1 = MaxMsgNum THEN 0 ELSE ReadPos + 1
    BY <1>1 DEF Wrapped
  <2>2. i <= MaxMsgNum - 2
    BY <1>3, <1>5, <1>6
  <2> QED
    BY <1>1, <1>3, <1>4, <2>1, <2>2 DEF Slot
<1>8. Waiting \in [1 .. n + 1 -> Stuff]
  BY <1>1, <1>3, <1>6, WaitingShape
<1>9. Waiting = [i \in 1 .. n + 1 |-> slots[Slot(i)]]
  BY <1>1, <1>6 DEF Waiting
<1>10. Waiting' = [i \in 1 .. n |-> slots[Slot(i + 1)]]
  BY <1>1, <1>6, <1>7 DEF Waiting
<1>11. \A i \in 1 .. n : i + 1 \in 1 .. n + 1
  OBVIOUS
<1>12. \A i \in 1 .. n : Waiting'[i] = Waiting[i + 1]
  BY <1>9, <1>10, <1>11
<1>13. Waiting' \in [1 .. n -> Stuff]
  BY <1>8, <1>10, <1>11, <1>12
<1>14. Waiting # <<>> /\ Head(Waiting) = Waiting[1] /\ Waiting' = Tail(Waiting)
  BY <1>8, <1>12, <1>13, DropOne
<1>15. Waiting[1] = receiver.buf
  BY <1>2, <1>4, <1>9
<1> QED
  BY <1>1, <1>14, <1>15 DEF Fifo!Take

\* A receiver that may go on although the ring is empty has seen the position
\* past the end, which is there while the sender is about to reset it.
LEMMA TestRunsAhead ==
  ASSUME IInv, ReceiverTest, canReceive, Count = 0
  PROVE  Fifo!RunAhead
<1>1. /\ UNCHANGED <<open, MaxMsgNum, WritePos, ReadPos, slots, sender, received>>
      /\ receiver.at = "test" /\ lapped' = TRUE /\ open
  BY DEF ReceiverTest, ringVars, IInv, TypeOK, Sound, ClosedQuiet, Quiet
<1>2. Waiting = <<>> /\ Waiting' = Waiting
  BY <1>1, WaitingShape DEF IInv, Waiting, Count, Slot, Wrapped
<1>3. ReadPos # MaxMsgNum /\ Wrapped(WritePos) = Wrapped(ReadPos)
  BY <1>1, CountFacts DEF IInv, Sound, PositionsInRing
<1>4. WritePos = MaxMsgNum
  BY <1>3 DEF canReceive, Wrapped
<1>5. sender.at = "wrap"
  BY <1>4 DEF IInv, Sound, PositionsInRing
<1>6. MaxMsgNum - 1 > 0
  BY CountFacts DEF IInv
<1>7. /\ (IF open THEN MaxMsgNum - 1 ELSE 0) > 0
      /\ UNCHANGED (IF open THEN MaxMsgNum - 1 ELSE 0)
      /\ UNCHANGED (sender.at = "wrap")
  BY <1>1, <1>6
<1> QED
  BY <1>1, <1>2, <1>5, <1>7, Zenon DEF Fifo!RunAhead

\* After a receive has run ahead every step of the two ends is allowed.
LEMMA LappedSteps ==
  ASSUME IInv, IInv', lapped, lapped' = lapped, UNCHANGED <<open, MaxMsgNum>>
  PROVE  Fifo!NoPromise
<1>1. (TypeOK => Waiting \in Seq(Stuff))'
  BY WaitingType, PTL
<1>2. received' \in Stuff /\ (sender.at = "wrap")' \in BOOLEAN
  BY DEF IInv, TypeOK, Stuff
<1> QED
  BY <1>1, <1>2 DEF Fifo!NoPromise, Stuff, IInv

\* Every step of the ring is a step of the queue or leaves the queue alone.
LEMMA StepRefines ==
  ASSUME IInv, IInv', [Next]_vars
  PROVE  [Fifo!FifoNext]_Fifo!fifoVars
<1> USE MsgQAssumption
<1>0. TypeOK /\ lapped \in BOOLEAN
  BY DEF IInv, TypeOK
<1>1. ASSUME NEW maxMsgs \in 1 .. MaxMsgs, msgQCreate(maxMsgs)
      PROVE  Fifo!FifoNext
  <2>1. Count' = 0
    BY <1>1 DEF msgQCreate, Count, Wrapped
  <2>2. Waiting' = <<>>
    BY <1>1, <2>1 DEF msgQCreate, Waiting
  <2> QED
    BY <1>1, <2>2 DEF msgQCreate, Fifo!FifoNext, Fifo!FifoCreate
<1>2. CASE msgQDelete
  <2>1. MaxMsgNum - 1 > 0
    BY <1>0, CountFacts
  <2>2. Waiting' = <<>>
    BY <1>2 DEF msgQDelete, Waiting
  <2> QED
    BY <1>2, <2>1, <2>2 DEF msgQDelete, Fifo!FifoNext, Fifo!FifoDelete
<1>3. CASE SenderAdvance
  <2>1. sender.msg \in Message
    BY <1>3 DEF SenderAdvance, IInv, Sound, SenderSound
  <2>2. CASE lapped
    BY <1>3, <2>2, LappedSteps DEF SenderAdvance, ringVars, Fifo!FifoNext
  <2> QED
    BY <1>0, <1>3, <2>1, <2>2, AdvancePuts DEF Fifo!FifoNext
<1>4. CASE ReceiverAdvance
  <2>1. CASE lapped
    BY <1>4, <2>1, LappedSteps DEF ReceiverAdvance, ringVars, Fifo!FifoNext
  <2> QED
    BY <1>0, <1>4, <2>1, AdvanceTakes DEF Fifo!FifoNext
<1>5. ASSUME UNCHANGED <<open, MaxMsgNum, slots, received, lapped>>,
             (sender.at = "wrap")' = (sender.at = "wrap"),
             WritePos' \in {WritePos, Wrapped(WritePos)},
             ReadPos' \in {ReadPos, Wrapped(ReadPos)}
      PROVE  UNCHANGED Fifo!fifoVars
  <2>1. Waiting' = Waiting
    BY <1>0, <1>5, WaitingKept
  <2> QED
    BY <1>5, <2>1 DEF Fifo!fifoVars
<1>6. CASE SenderCopy
  <2>1. /\ sender.at = "copy" /\ sender'.at = "advance"
        /\ slots' = [slots EXCEPT ![WritePos] = sender.msg]
        /\ UNCHANGED <<open, MaxMsgNum, WritePos, ReadPos, received, lapped>>
    BY <1>0, <1>6 DEF SenderCopy, TypeOK
  <2>2. CASE lapped
    BY <2>1, <2>2, LappedSteps DEF Fifo!FifoNext
  <2>3. CASE ~lapped
    <3>1. Count < MaxMsgNum - 1 /\ WritePos # MaxMsgNum
      BY <2>1, <2>3 DEF IInv, Sound, SenderSound, PositionsInRing
    <3>2. /\ MaxMsgNum \in 2 .. MaxMsgs + 1
          /\ WritePos \in 0 .. MaxMsgNum - 1 /\ ReadPos \in 0 .. MaxMsgNum
      BY <1>0, <3>1 DEF TypeOK
    <3>3. ASSUME NEW i \in 1 .. Count PROVE Slot(i) # WritePos
      <4>1. PICK r \in 0 .. MaxMsgNum - 1 : r = Wrapped(ReadPos)
        BY <1>0, CountFacts
      <4>2. Count = IF WritePos >= r THEN WritePos - r ELSE WritePos - r + MaxMsgNum
        BY <3>2, <4>1 DEF Count, Wrapped
      <4>3. Slot(i) = IF r + i - 1 < MaxMsgNum THEN r + i - 1 ELSE r + i - 1 - MaxMsgNum
        BY <1>0, <3>2, <4>1, CountFacts DEF Slot
      <4> QED
        BY <3>1, <3>2, <4>2, <4>3
    <3>4. \A i \in 1 .. Count : slots'[Slot(i)] = slots[Slot(i)]
      <4>1. \A i \in 1 .. Count : Slot(i) \in 0 .. MaxMsgs
        BY <1>0, <3>2, WaitingShape
      <4> QED
        BY <1>0, <2>1, <3>3, <4>1 DEF TypeOK
    <3>5. Waiting' = Waiting
      BY <1>0, <2>1, <3>4, WaitingKept
    <3> QED
      BY <2>1, <3>5 DEF Fifo!fifoVars
  <2> QED
    BY <1>0, <2>2, <2>3
<1>7. CASE SenderWrap
  <2>1. /\ UNCHANGED <<open, MaxMsgNum, slots, received, lapped, ReadPos>>
        /\ WritePos' = Wrapped(WritePos) /\ sender.at = "wrap" /\ sender'.at = "idle"
    BY <1>0, <1>7 DEF SenderWrap, ringVars, TypeOK
  <2>2. Waiting' = Waiting
    BY <1>0, <2>1, WaitingKept
  <2> QED
    BY <2>1, <2>2 DEF Fifo!FifoNext, Fifo!PutReturns
<1>8. CASE ReceiverTest
  <2>1. CASE canReceive /\ Count = 0
    BY <1>8, <2>1, TestRunsAhead DEF Fifo!FifoNext
  <2>2. CASE ~(canReceive /\ Count = 0)
    <3>1. lapped' = lapped
      BY <1>0, <1>8, <2>2 DEF ReceiverTest
    <3> QED
      BY <1>5, <1>8, <3>1 DEF ReceiverTest, ringVars
  <2> QED
    BY <2>1, <2>2
<1>9. CASE SenderTest
  <2>1. sender.at = "test" /\ sender'.at # "wrap"
    BY <1>0, <1>9 DEF SenderTest, TypeOK
  <2> QED
    BY <1>5, <1>9, <2>1 DEF SenderTest, ringVars
<1>10. CASE \/ \E m \in Message, timeout \in Timeout : msgQSend(m, timeout)
            \/ \E timeout \in Timeout : msgQReceive(timeout)
            \/ ReceiverCopy
  BY <1>5, <1>10 DEF msgQSend, msgQReceive, ReceiverCopy, ringVars
<1>11. CASE ReceiverWrap
  BY <1>5, <1>11 DEF ReceiverWrap, ringVars
<1>12. CASE UNCHANGED vars
  BY <1>5, <1>12 DEF vars, ringVars
<1> QED
  BY <1>1, <1>2, <1>3, <1>4, <1>6, <1>7, <1>8, <1>9, <1>10, <1>11, <1>12 DEF Next

\* The ring is the queue of Fifo, whatever the messages, the size, the
\* timeouts and the interleaving of the two tasks.
THEOREM MsgQImplementsFifo == Spec => ImplementsFifo
<1>1. Init => Fifo!FifoInit
  BY InitRefines
<1>2. IInv /\ IInv' /\ [Next]_vars => [Fifo!FifoNext]_Fifo!fifoVars
  BY StepRefines
<1> QED
  BY <1>1, <1>2, Inductive, PTL DEF Spec, ImplementsFifo, Fifo!FifoSpec

-----------------------------------------------------------------------------
(* The POSIX queue.                                                        *)

(***************************************************************************)
(* The invariant numbers the headers: u[1], ..., u[n] are on the list of   *)
(* waiting messages, f[1], ..., f[m] on the free list.                     *)
(***************************************************************************)

\* The list that starts with header h is s.
Chain(s, n, h) ==
  /\ n \in Nat /\ s \in [1 .. n -> Index]
  /\ h = IF n = 0 THEN 0 ELSE s[1]
  /\ \A i \in 1 .. n : msg_next[s[i]] = IF i < n THEN s[i + 1] ELSE 0
  /\ \A i, j \in 1 .. n : s[i] = s[j] => i = j

\* The two lists have every header once, and the count is right.
Lists(u, n, f, m) ==
  /\ msg_next \in [Index -> Index \cup {0}]
  /\ Chain(u, n, mqh_head) /\ Chain(f, m, mqh_free)
  /\ \A i \in 1 .. n : \A j \in 1 .. m : u[i] # f[j]
  /\ \A x \in Index : (\E i \in 1 .. n : x = u[i]) \/ (\E j \in 1 .. m : x = f[j])
  /\ n + m = maxmsg /\ mq_curmsgs = n

\* The waiting headers have messages, the more urgent ones first.
Filled(u, n) ==
  /\ msg \in [Index -> MqMessage \cup {Nothing}]
  /\ \A i \in 1 .. n : msg[u[i]] \in MqMessage
  /\ \A i, j \in 1 .. n : i < j => msg[u[i]].prio >= msg[u[j]].prio

\* Where the threads are, and what those in mq_send have with them.
Waiters == {t \in Thread : pc[t] \in {"receiveAsleep", "receiveAwake"}}
People ==
  /\ pc \in [Thread -> Places]
  /\ toSend \in [Thread -> MqMessage \cup {Nothing}]
  /\ \A t \in Thread : pc[t] \in {"sendAsleep", "sendAwake"} => toSend[t] \in MqMessage
  /\ mqh_nwait = Cardinality(Waiters)

-----------------------------------------------------------------------------
(* A walk along the links.                                                 *)

Follows(g, h) ==
  g = [k \in 1 .. (maxmsg + 1) |->
         IF k = 1 THEN h ELSE IF g[k - 1] = 0 THEN 0 ELSE msg_next[g[k - 1]]]

LEMMA ListFollows ==
  ASSUME NEW h, NEW g, Follows(g, h), \A g1 : Follows(g1, h) => g1 = g
  PROVE  ListFrom(h) = [k \in 1 .. Cardinality({i \in DOMAIN g : g[i] # 0}) |-> g[k]]
<1>1. (CHOOSE g1 : Follows(g1, h)) = g
  OBVIOUS
<1>2. ListFrom(h) = [k \in 1 .. Cardinality({i \in DOMAIN g : g[i] # 0}) |-> g[k]]
  BY <1>1 DEF Follows, ListFrom
<1>. QED  BY <1>2

\* A set of numbers has a least one.
LEMMA Smallest ==
  ASSUME NEW S \in SUBSET Nat, S # {} PROVE \E m \in S : \A n \in S : m <= n
<1> DEFINE R == {ss \in Nat \X Nat : ss[1] < ss[2]}
<1>1. IsWellFoundedOn(R, Nat)
  <2>1. R = OpToRel(<, Nat)
    BY DEF OpToRel
  <2>. QED  BY <2>1, NatLessThanWellFounded
<1>2. PICK i \in S : \A j \in S : <<j, i>> \notin R
  BY <1>1, WFMin
<1>3. ASSUME NEW j \in S PROVE i <= j
  <2>1. i \in Nat /\ j \in Nat /\ ~(j < i)
    BY <1>2
  <2>. QED  BY <2>1
<1>. QED  BY <1>3

LEMMA ChainWalk ==
  ASSUME maxmsg \in Nat, NEW s, NEW n, NEW h, Chain(s, n, h), n <= maxmsg
  PROVE  ListFrom(h) = s
<1> DEFINE K == maxmsg + 1
           g == [k \in 1 .. K |-> IF k <= n THEN s[k] ELSE 0]
<1>1. /\ n \in Nat /\ K \in Nat /\ n < K
      /\ \A k \in 1 .. n : s[k] \in Index /\ s[k] # 0
      /\ h = IF n = 0 THEN 0 ELSE s[1]
      /\ \A k \in 1 .. n : msg_next[s[k]] = IF k < n THEN s[k + 1] ELSE 0
  BY DEF Chain, Index
<1> HIDE DEF K
<1>2. ASSUME NEW k \in 1 .. K
      PROVE  g[k] = IF k = 1 THEN h ELSE IF g[k - 1] = 0 THEN 0 ELSE msg_next[g[k - 1]]
  <2>1. CASE k = 1
    BY <1>1, <2>1
  <2>2. CASE k # 1 /\ k <= n
    BY <1>1, <2>2
  <2>3. CASE k # 1 /\ k = n + 1
    BY <1>1, <2>3
  <2>4. CASE k # 1 /\ k > n + 1
    BY <1>1, <2>4
  <2>. QED  BY <1>1, <2>1, <2>2, <2>3, <2>4
<1>3. Follows(g, h)
  BY <1>2 DEF Follows, K
<1>4. ASSUME NEW g1, Follows(g1, h) PROVE g1 = g
  <2>1. /\ g1 = [k \in 1 .. K |-> g1[k]]
        /\ \A k \in 1 .. K :
             g1[k] = IF k = 1 THEN h ELSE IF g1[k - 1] = 0 THEN 0 ELSE msg_next[g1[k - 1]]
    BY <1>4 DEF Follows, K
  <2> DEFINE bad == {k \in 1 .. K : g1[k] # g[k]}
  <2>2. ASSUME bad # {} PROVE FALSE
    <3>0. bad \in SUBSET Nat
      BY <1>1
    <3>1. PICK k \in bad : \A j \in bad : k <= j
      <4> HIDE DEF bad
      <4>. QED  BY <2>2, <3>0, Smallest
    <3>2. k \in 1 .. K /\ g1[k] # g[k]
      OBVIOUS
    <3> HIDE DEF g
    <3>3. CASE k = 1
      BY <1>2, <2>1, <3>2, <3>3
    <3>4. CASE k # 1
      <4>1. k - 1 \in 1 .. K /\ k - 1 \notin bad
        BY <1>1, <3>1, <3>2, <3>4
      <4>2. g1[k - 1] = g[k - 1]
        BY <4>1
      <4>. QED  BY <1>2, <2>1, <3>2, <3>4, <4>2
    <3>. QED  BY <3>3, <3>4
  <2>. QED  BY <2>1, <2>2
<1>5. {i \in DOMAIN g : g[i] # 0} = 1 .. n
  BY <1>1
<1>6. Cardinality(1 .. n) = n
  BY <1>1, FS_Interval
<1>7. \A k \in 1 .. n : k \in 1 .. K /\ g[k] = s[k]
  BY <1>1
<1> HIDE DEF g
<1>8. ListFrom(h) = [k \in 1 .. n |-> g[k]]
  <2>1. ListFrom(h) = [k \in 1 .. Cardinality({i \in DOMAIN g : g[i] # 0}) |-> g[k]]
    BY <1>3, <1>4, ListFollows
  <2>2. Cardinality({i \in DOMAIN g : g[i] # 0}) = n
    BY <1>1, <1>5, <1>6
  <2>. QED  BY <2>1, <2>2
<1>9. s = [k \in 1 .. n |-> s[k]]
  BY DEF Chain
<1>. QED  BY <1>7, <1>8, <1>9

LEMMA WalkLists ==
  ASSUME NEW u, NEW n, NEW f, NEW m, Lists(u, n, f, m)
  PROVE  /\ ListFrom(mqh_head) = u /\ ListFrom(mqh_free) = f
         /\ n \in Nat /\ m \in Nat /\ n <= maxmsg /\ maxmsg \in Nat \ {0}
         /\ u \in Seq(Index) /\ Len(u) = n /\ DOMAIN u = 1 .. n
         /\ f \in Seq(Index) /\ Len(f) = m /\ DOMAIN f = 1 .. m
<1>1. /\ maxmsg \in Nat \ {0} /\ n \in Nat /\ m \in Nat /\ n + m = maxmsg
      /\ n <= maxmsg /\ m <= maxmsg
      /\ u \in [1 .. n -> Index] /\ f \in [1 .. m -> Index]
  <2>1. /\ maxmsg \in Nat \ {0} /\ n \in Nat /\ m \in Nat /\ n + m = maxmsg
        /\ u \in [1 .. n -> Index] /\ f \in [1 .. m -> Index]
    BY MqueueAssumption DEF Lists, Chain
  <2>. QED  BY <2>1
<1>2. ListFrom(mqh_head) = u /\ ListFrom(mqh_free) = f
  BY <1>1, ChainWalk DEF Lists
<1>3. u \in Seq(Index) /\ Len(u) = n /\ f \in Seq(Index) /\ Len(f) = m
  BY <1>1
<1>. QED  BY <1>1, <1>2, <1>3

-----------------------------------------------------------------------------
(* What the steps do to the lists.                                         *)

\* The waiting messages in order.
Row(u, n) == [i \in 1 .. n |-> msg[u[i]]]

\* The row with x in place k.
Inserted(r, n, k, x) ==
  [j \in 1 .. (n + 1) |-> IF j < k THEN r[j] ELSE IF j = k THEN x ELSE r[j - 1]]

Took(u, n, u1, n1) ==
  /\ n # 0 /\ n1 = n - 1 /\ taken' = msg[u[1]]
  /\ Row(u1, n1)' = [j \in 1 .. n1 |-> Row(u, n)[j + 1]]

PutOne(u, n, u1, n1, x) ==
  /\ n < maxmsg /\ n1 = n + 1 /\ taken' = taken
  /\ \E k \in 1 .. (n + 1) :
       /\ \A j \in 1 .. (k - 1) : msg[u[j]].prio >= x.prio
       /\ \A j \in k .. n : msg[u[j]].prio < x.prio
       /\ Row(u1, n1)' = Inserted(Row(u, n), n, k, x)

\* The place where the search of mq_send stops.
LEMMA StopFound ==
  ASSUME NEW u, NEW n, NEW f, NEW m, Lists(u, n, f, m), Filled(u, n),
         NEW x \in MqMessage
  PROVE  /\ StopAt(x.prio) \in 1 .. (n + 1)
         /\ \A j \in 1 .. (StopAt(x.prio) - 1) : msg[u[j]].prio >= x.prio
         /\ \A j \in StopAt(x.prio) .. n : msg[u[j]].prio < x.prio
<1> DEFINE p == x.prio
           Stops(k) == /\ k <= n => msg[u[k]].prio < p
                       /\ \A j \in 1 .. (k - 1) : ~(msg[u[j]].prio < p)
<1>1. /\ ListFrom(mqh_head) = u /\ Len(u) = n /\ n \in Nat
  BY WalkLists
<1>2. p \in Nat /\ \A i \in 1 .. n : msg[u[i]].prio \in Nat
  BY MqueueAssumption DEF Filled, MqMessage
<1>3. StopAt(p) = CHOOSE k \in 1 .. (n + 1) : Stops(k)
  BY <1>1 DEF StopAt, LessUrgent
<1>4. \E k \in 1 .. (n + 1) : Stops(k)
  <2> DEFINE S == {i \in 1 .. n : msg[u[i]].prio < p}
  <2>1. CASE S = {}
    <3>1. n + 1 \in 1 .. (n + 1) /\ ~(n + 1 <= n)
          /\ \A j \in 1 .. ((n + 1) - 1) : j \in 1 .. n /\ j \notin S
      BY <1>1, <2>1
    <3>2. Stops(n + 1)
      BY <3>1
    <3>. QED  BY <3>1, <3>2
  <2>2. CASE S # {}
    <3>1. S \in SUBSET Nat
      BY <1>1
    <3>2. PICK k \in S : \A i \in S : k <= i
      <4> HIDE DEF S
      <4>. QED  BY <2>2, <3>1, Smallest
    <3>3. k \in 1 .. (n + 1) /\ \A j \in 1 .. (k - 1) : j \in 1 .. n /\ ~(k <= j)
      BY <1>1
    <3>4. \A j \in 1 .. (k - 1) : j \notin S
      BY <3>2, <3>3
    <3>5. Stops(k)
      BY <3>3, <3>4
    <3>. QED  BY <3>3, <3>5
  <2>. QED  BY <2>1, <2>2
<1>5. PICK k : k = StopAt(p)
  OBVIOUS
<1>6. k \in 1 .. (n + 1) /\ Stops(k)
  <2> HIDE DEF Stops
  <2>. QED  BY <1>3, <1>4, <1>5
<1>7. \A j \in 1 .. (k - 1) : msg[u[j]].prio >= p
  <2>1. \A j \in 1 .. (k - 1) : j \in 1 .. n
    BY <1>1, <1>6
  <2>. QED  BY <1>2, <1>6, <2>1
<1>8. \A j \in k .. n : msg[u[j]].prio < p
  <2>. SUFFICES ASSUME NEW j \in k .. n PROVE msg[u[j]].prio < p
    OBVIOUS
  <2>1. k \in 1 .. n /\ j \in 1 .. n /\ k <= n /\ (j = k \/ k < j)
    BY <1>1, <1>6
  <2>2. j # k => msg[u[k]].prio >= msg[u[j]].prio
    BY <2>1 DEF Filled
  <2>. QED  BY <1>2, <1>6, <2>1, <2>2
<1>. QED  BY <1>5, <1>6, <1>7, <1>8

\* A message is put behind those at least as urgent.
LEMMA PutKeeps ==
  ASSUME NEW u, NEW n, NEW f, NEW m, Lists(u, n, f, m), Filled(u, n),
         NEW x \in MqMessage, ~Full, PutMessage(x), taken' = taken
  PROVE  \E u1, n1, f1, m1 : /\ Lists(u1, n1, f1, m1)' /\ Filled(u1, n1)'
                             /\ PutOne(u, n, u1, n1, x)
<1>1. /\ ListFrom(mqh_head) = u /\ Len(u) = n /\ n \in Nat /\ m \in Nat
      /\ maxmsg \in Nat /\ mq_curmsgs = n /\ n + m = maxmsg
  <2>1. mq_curmsgs = n /\ n + m = maxmsg
    BY DEF Lists
  <2>. QED  BY <2>1, WalkLists
<1>2. n < maxmsg /\ m >= 1 /\ 1 \in 1 .. m
  <2>1. n < maxmsg
    BY <1>1 DEF Full
  <2>. QED  BY <1>1, <2>1
<1>3. PICK k \in 1 .. (n + 1) :
        /\ k = StopAt(x.prio)
        /\ \A j \in 1 .. (k - 1) : msg[u[j]].prio >= x.prio
        /\ \A j \in k .. n : msg[u[j]].prio < x.prio
  BY StopFound
<1>4. /\ u \in [1 .. n -> Index] /\ f \in [1 .. m -> Index]
      /\ \A i \in 1 .. n : u[i] \in Index /\ u[i] # 0
      /\ \A i \in 1 .. m : f[i] \in Index /\ f[i] # 0
      /\ \A i, j \in 1 .. n : u[i] = u[j] => i = j
      /\ \A i, j \in 1 .. m : f[i] = f[j] => i = j
      /\ \A i \in 1 .. n : \A j \in 1 .. m : u[i] # f[j]
      /\ \A i \in 1 .. n : msg_next[u[i]] = IF i < n THEN u[i + 1] ELSE 0
      /\ \A i \in 1 .. m : msg_next[f[i]] = IF i < m THEN f[i + 1] ELSE 0
      /\ mqh_head = IF n = 0 THEN 0 ELSE u[1]
      /\ mqh_free = IF m = 0 THEN 0 ELSE f[1]
  BY DEF Lists, Chain, Index
<1>5. PICK new \in Index : new = f[1] /\ new = mqh_free /\ new # 0
  BY <1>2, <1>4
<1>6. PICK behind \in Index \cup {0} : behind = IF k <= n THEN u[k] ELSE 0
  BY <1>1, <1>4
<1>7. /\ msg' = [msg EXCEPT ![new] = x]
      /\ mqh_free' = msg_next[new]
      /\ k = 1 => mqh_head' = new /\ msg_next' = [msg_next EXCEPT ![new] = behind]
      /\ k # 1 => /\ mqh_head' = mqh_head
                  /\ msg_next' = [msg_next EXCEPT ![new] = behind, ![u[k - 1]] = new]
      /\ mq_curmsgs' = mq_curmsgs + 1
  BY <1>1, <1>3, <1>5, <1>6 DEF PutMessage
<1>8. /\ msg_next' \in [Index -> Index \cup {0}]
      /\ msg_next'[new] = behind
      /\ k # 1 => k - 1 \in 1 .. n /\ msg_next'[u[k - 1]] = new
      /\ \A i \in Index : i # new /\ (k # 1 => i # u[k - 1]) => msg_next'[i] = msg_next[i]
  <2>1. msg_next \in [Index -> Index \cup {0}]
    BY DEF Lists
  <2>2. k # 1 => k - 1 \in 1 .. n /\ u[k - 1] \in Index /\ u[k - 1] # new
    <3>1. k # 1 => k - 1 \in 1 .. n
      BY <1>1
    <3>. QED  BY <1>2, <1>4, <1>5, <3>1
  <2>3. CASE k = 1
    BY <1>7, <2>1, <2>3
  <2>4. CASE k # 1
    BY <1>7, <2>1, <2>2, <2>4
  <2>. QED  BY <2>3, <2>4
<1>9. PICK n1 \in Nat : n1 = n + 1
  BY <1>1
<1>10. PICK m1 \in Nat : m1 = m - 1
  BY <1>1, <1>2
<1>11. PICK u1 : u1 = [j \in 1 .. n1 |-> IF j < k THEN u[j] ELSE IF j = k THEN new ELSE u[j - 1]]
  OBVIOUS
<1>12. PICK f1 : f1 = [j \in 1 .. m1 |-> f[j + 1]]
  OBVIOUS
\* Each header of the new list is the new one or one of the old ones.
<1>13. \A j \in 1 .. n1 :
         /\ j < k => j \in 1 .. n /\ u1[j] = u[j]
         /\ j = k => u1[j] = new
         /\ j > k => j - 1 \in 1 .. n /\ u1[j] = u[j - 1]
  BY <1>1, <1>9, <1>11
<1>14. \A j \in 1 .. m1 : j + 1 \in 1 .. m /\ f1[j] = f[j + 1] /\ f1[j] # new
  <2>1. \A j \in 1 .. m1 : j + 1 \in 1 .. m /\ f1[j] = f[j + 1] /\ j + 1 # 1
    BY <1>1, <1>10, <1>12
  <2>. QED  BY <1>2, <1>4, <1>5, <2>1
<1>15. u1 \in [1 .. n1 -> Index] /\ f1 \in [1 .. m1 -> Index]
  <2>1. \A j \in 1 .. n1 : u1[j] \in Index
    <3>. SUFFICES ASSUME NEW j \in 1 .. n1 PROVE u1[j] \in Index
      OBVIOUS
    <3>1. j < k \/ j = k \/ j > k
      BY <1>1, <1>9
    <3>. QED  BY <1>4, <1>5, <1>13, <3>1
  <2>2. \A j \in 1 .. m1 : f1[j] \in Index
    BY <1>4, <1>14
  <2>. QED  BY <1>11, <1>12, <2>1, <2>2
<1>16. Chain(u1, n1, mqh_head)'
  <2>1. mqh_head' = u1[1] /\ n1 # 0
    <3>1. 1 \in 1 .. n1 /\ n1 # 0
      BY <1>1, <1>9
    <3>2. CASE k = 1
      BY <1>7, <1>13, <3>1, <3>2
    <3>3. CASE k # 1
      <4>1. 1 < k /\ n # 0
        BY <1>1, <3>3
      <4>. QED  BY <1>4, <1>7, <1>13, <3>1, <3>3, <4>1
    <3>. QED  BY <3>2, <3>3
  <2>2. ASSUME NEW i \in 1 .. n1
        PROVE  msg_next'[u1[i]] = IF i < n1 THEN u1[i + 1] ELSE 0
    <3>1. CASE i > k
      <4>1. i - 1 \in 1 .. n /\ u1[i] = u[i - 1] /\ (k # 1 => i - 1 # k - 1)
        BY <1>13, <3>1
      <4>2. u[i - 1] # new /\ (k # 1 => u[i - 1] # u[k - 1])
        BY <1>2, <1>4, <1>5, <1>8, <4>1
      <4>3. msg_next'[u1[i]] = msg_next[u[i - 1]]
        BY <1>4, <1>8, <4>1, <4>2
      <4>4. i < n1 => i - 1 < n /\ i + 1 \in 1 .. n1 /\ u1[i + 1] = u[i]
        <5>1. i < n1 => i - 1 < n /\ i + 1 \in 1 .. n1 /\ i + 1 > k /\ (i + 1) - 1 = i
          BY <1>1, <1>9, <3>1
        <5>. QED  BY <1>13, <5>1
      <4>5. ~(i < n1) => ~(i - 1 < n)
        BY <1>1, <1>9
      <4>6. msg_next[u[i - 1]] = IF i - 1 < n THEN u[(i - 1) + 1] ELSE 0
        BY <1>4, <4>1
      <4>7. (i - 1) + 1 = i
        BY <1>1
      <4>. QED  BY <4>3, <4>4, <4>5, <4>6, <4>7
    <3>2. CASE i = k
      <4>1. u1[i] = new
        BY <1>13, <3>2
      <4>2. k <= n => k < n1 /\ k + 1 \in 1 .. n1 /\ u1[k + 1] = u[k]
        <5>1. k <= n => k < n1 /\ k + 1 \in 1 .. n1 /\ k + 1 > k /\ (k + 1) - 1 = k
          BY <1>1, <1>9
        <5>. QED  BY <1>13, <5>1
      <4>3. ~(k <= n) => ~(k < n1)
        BY <1>1, <1>9
      <4>. QED  BY <1>6, <1>8, <3>2, <4>1, <4>2, <4>3
    <3>3. CASE i = k - 1
      <4>1. k # 1 /\ i < k /\ i < n1 /\ i + 1 = k /\ k \in 1 .. n1
        BY <1>1, <1>9, <3>3
      <4>2. u1[i] = u[k - 1] /\ u1[k] = new
        BY <1>13, <3>3, <4>1
      <4>. QED  BY <1>8, <4>1, <4>2
    <3>4. CASE i < k - 1
      <4>1. /\ i \in 1 .. n /\ i < n /\ i < n1 /\ i + 1 \in 1 .. n1 /\ i + 1 < k
            /\ k # 1 /\ i # k - 1 /\ i < k
        BY <1>1, <1>9, <3>4
      <4>2. u1[i] = u[i] /\ u1[i + 1] = u[i + 1]
        BY <1>13, <4>1
      <4>3. u[i] # new /\ u[i] # u[k - 1]
        BY <1>2, <1>4, <1>5, <1>8, <4>1
      <4>. QED  BY <1>4, <1>8, <4>1, <4>2, <4>3
    <3>5. i > k \/ i = k \/ i = k - 1 \/ i < k - 1
      BY <1>1, <1>9
    <3>. QED  BY <3>1, <3>2, <3>3, <3>4, <3>5
  <2>3. ASSUME NEW i \in 1 .. n1, NEW j \in 1 .. n1, u1[i] = u1[j]
        PROVE  i = j
    <3>1. \A a \in 1 .. n : u[a] # new
      BY <1>2, <1>4, <1>5
    <3>2. (i < k \/ i = k \/ i > k) /\ (j < k \/ j = k \/ j > k)
      BY <1>1, <1>9
    <3>3. CASE i < k
      BY <1>4, <1>13, <2>3, <3>1, <3>2, <3>3
    <3>4. CASE i = k
      BY <1>13, <2>3, <3>1, <3>2, <3>4
    <3>5. CASE i > k
      <4>1. j > k => i - 1 = j - 1
        BY <1>4, <1>13, <2>3, <3>5
      <4>2. ~(j < k)
        <5>1. j < k => i - 1 = j
          BY <1>4, <1>13, <2>3, <3>5
        <5>. QED  BY <1>1, <1>9, <3>5, <5>1
      <4>3. j # k
        BY <1>13, <2>3, <3>1, <3>5
      <4>. QED  BY <3>2, <4>1, <4>2, <4>3
    <3>. QED  BY <3>2, <3>3, <3>4, <3>5
  <2>4. \A i, j \in 1 .. n1 : u1[i] = u1[j] => i = j
    BY <2>3
  <2>. QED  BY <1>15, <2>1, <2>2, <2>4 DEF Chain, Index
<1>17. Chain(f1, m1, mqh_free)'
  <2>1. mqh_free' = IF m1 = 0 THEN 0 ELSE f1[1]
    <3>1. mqh_free' = IF 1 < m THEN f[1 + 1] ELSE 0
      BY <1>2, <1>4, <1>5, <1>7
    <3>2. 1 < m <=> m1 # 0
      BY <1>1, <1>10
    <3>3. m1 # 0 => 1 \in 1 .. m1
      <4>1. m1 \in Nat
        OBVIOUS
      <4>. QED  BY <4>1
    <3>. QED  BY <1>14, <3>1, <3>2, <3>3
  <2>2. ASSUME NEW i \in 1 .. m1
        PROVE  msg_next'[f1[i]] = IF i < m1 THEN f1[i + 1] ELSE 0
    <3>1. i + 1 \in 1 .. m /\ f1[i] = f[i + 1] /\ f1[i] # new /\ (k # 1 => f1[i] # u[k - 1])
      BY <1>4, <1>8, <1>14
    <3>2. msg_next'[f1[i]] = msg_next[f[i + 1]]
      BY <1>4, <1>8, <3>1
    <3>3. msg_next[f[i + 1]] = IF i + 1 < m THEN f[i + 1 + 1] ELSE 0
      BY <1>4, <3>1
    <3>4. (i < m1 <=> i + 1 < m) /\ (i < m1 => i + 1 \in 1 .. m1)
      BY <1>1, <1>10
    <3>. QED  BY <1>14, <3>2, <3>3, <3>4
  <2>3. \A i, j \in 1 .. m1 : f1[i] = f1[j] => i = j
    <3>1. \A i, j \in 1 .. m1 : f1[i] = f1[j] => i + 1 = j + 1
      BY <1>4, <1>14
    <3>. QED  BY <3>1
  <2>. QED  BY <1>10, <1>15, <2>1, <2>2, <2>3 DEF Chain, Index
<1>18. Lists(u1, n1, f1, m1)'
  <2>1. \A i \in 1 .. n1 : \A j \in 1 .. m1 : u1[i] # f1[j]
    <3>. SUFFICES ASSUME NEW i \in 1 .. n1, NEW j \in 1 .. m1 PROVE u1[i] # f1[j]
      OBVIOUS
    <3>1. i < k \/ i = k \/ i > k
      BY <1>1, <1>9
    <3>. QED  BY <1>4, <1>13, <1>14, <3>1
  <2>2. ASSUME NEW y \in Index
        PROVE  (\E i \in 1 .. n1 : y = u1[i]) \/ (\E j \in 1 .. m1 : y = f1[j])
    <3>1. CASE \E i \in 1 .. n : y = u[i]
      <4>1. PICK i \in 1 .. n : y = u[i]
        BY <3>1
      <4>2. CASE i < k
        <5>1. i \in 1 .. n1
          BY <1>1, <1>9
        <5>. QED  BY <1>13, <4>1, <4>2, <5>1
      <4>3. CASE ~(i < k)
        <5>1. i + 1 \in 1 .. n1 /\ i + 1 > k /\ (i + 1) - 1 = i
          BY <1>1, <1>9, <4>3
        <5>. QED  BY <1>13, <4>1, <5>1
      <4>. QED  BY <4>2, <4>3
    <3>2. CASE \E j \in 1 .. m : y = f[j]
      <4>1. PICK j \in 1 .. m : y = f[j]
        BY <3>2
      <4>2. CASE j = 1
        <5>1. k \in 1 .. n1
          BY <1>9
        <5>. QED  BY <1>5, <1>13, <4>1, <4>2, <5>1
      <4>3. CASE j # 1
        <5>1. j - 1 \in 1 .. m1 /\ (j - 1) + 1 = j
          BY <1>1, <1>10, <4>3
        <5>. QED  BY <1>14, <4>1, <5>1
      <4>. QED  BY <4>2, <4>3
    <3>. QED  BY <3>1, <3>2 DEF Lists
  <2>3. n1 + m1 = maxmsg /\ mq_curmsgs' = n1
    BY <1>1, <1>7, <1>9, <1>10
  <2>. QED  BY <1>8, <1>16, <1>17, <2>1, <2>2, <2>3 DEF Lists, Index
<1>19. \A i \in 1 .. n1 : msg'[u1[i]] = IF i < k THEN msg[u[i]] ELSE IF i = k THEN x ELSE msg[u[i - 1]]
  <2>. SUFFICES ASSUME NEW i \in 1 .. n1
                PROVE  msg'[u1[i]] = IF i < k THEN msg[u[i]] ELSE IF i = k THEN x ELSE msg[u[i - 1]]
    OBVIOUS
  <2>1. i < k \/ i = k \/ i > k
    BY <1>1, <1>9
  <2>2. msg \in [Index -> MqMessage \cup {Nothing}]
    BY DEF Filled
  <2>3. \A a \in 1 .. n : msg'[u[a]] = msg[u[a]]
    BY <1>2, <1>4, <1>5, <1>7, <2>2
  <2>4. msg'[new] = x
    BY <1>7, <2>2
  <2>. QED  BY <1>1, <1>9, <1>13, <2>1, <2>3, <2>4
<1>20. Filled(u1, n1)'
  <2>1. msg' \in [Index -> MqMessage \cup {Nothing}]
    BY <1>7 DEF Filled
  <2>2. \A i \in 1 .. n1 : msg'[u1[i]] \in MqMessage
    <3>. SUFFICES ASSUME NEW i \in 1 .. n1 PROVE msg'[u1[i]] \in MqMessage
      OBVIOUS
    <3>1. (i < k => i \in 1 .. n) /\ (i > k => i - 1 \in 1 .. n) /\ (i < k \/ i = k \/ i > k)
      BY <1>1, <1>9
    <3>. QED  BY <1>19, <3>1 DEF Filled
  <2>3. ASSUME NEW i \in 1 .. n1, NEW j \in 1 .. n1, i < j
        PROVE  msg'[u1[i]].prio >= msg'[u1[j]].prio
    <3>1. /\ \A a \in 1 .. n : msg[u[a]].prio \in Nat
          /\ \A a, b \in 1 .. n : a < b => msg[u[a]].prio >= msg[u[b]].prio
          /\ x.prio \in Nat
      BY MqueueAssumption DEF Filled, MqMessage
    <3>2. CASE j < k
      <4>1. i < k /\ i \in 1 .. n /\ j \in 1 .. n
        BY <1>1, <1>9, <2>3, <3>2
      <4>. QED  BY <1>19, <2>3, <3>1, <3>2, <4>1
    <3>3. CASE j = k
      <4>1. i < k /\ i \in 1 .. (k - 1) /\ ~(j < k)
        BY <1>1, <1>9, <2>3, <3>3
      <4>. QED  BY <1>3, <1>19, <3>3, <4>1
    <3>4. CASE j > k /\ i < k
      <4>1. i \in 1 .. n /\ j - 1 \in 1 .. n /\ i < j - 1 /\ ~(j < k) /\ j # k
        BY <1>1, <1>9, <3>4
      <4>. QED  BY <1>19, <3>1, <3>4, <4>1
    <3>5. CASE j > k /\ i = k
      <4>1. j - 1 \in k .. n /\ j - 1 \in 1 .. n /\ ~(j < k) /\ j # k /\ ~(i < k)
        BY <1>1, <1>9, <3>5
      <4>2. msg[u[j - 1]].prio < x.prio /\ msg[u[j - 1]].prio \in Nat
        BY <1>3, <3>1, <4>1
      <4>3. msg'[u1[i]] = x /\ msg'[u1[j]] = msg[u[j - 1]]
        BY <1>19, <3>5, <4>1
      <4>. QED  BY <3>1, <4>2, <4>3
    <3>6. CASE j > k /\ i > k
      <4>1. /\ i - 1 \in 1 .. n /\ j - 1 \in 1 .. n /\ i - 1 < j - 1
            /\ ~(j < k) /\ j # k /\ ~(i < k) /\ i # k
        BY <1>1, <1>9, <2>3, <3>6
      <4>. QED  BY <1>19, <3>1, <4>1
    <3>7. (j < k \/ j = k \/ j > k) /\ (i < k \/ i = k \/ i > k)
      BY <1>1, <1>9
    <3>. QED  BY <3>2, <3>3, <3>4, <3>5, <3>6, <3>7
  <2>. QED  BY <2>1, <2>2, <2>3 DEF Filled, Index
<1>21. Row(u1, n1)' = Inserted(Row(u, n), n, k, x)
  <2>1. \A i \in 1 .. n1 : (i < k => i \in 1 .. n) /\ (i < k \/ i = k \/ (~(i < k) /\ i - 1 \in 1 .. n))
    BY <1>1, <1>9
  <2>2. \A i \in 1 .. n1 : msg'[u1[i]] = IF i < k THEN Row(u, n)[i]
                                         ELSE IF i = k THEN x ELSE Row(u, n)[i - 1]
    BY <1>19, <2>1 DEF Row
  <2>. QED  BY <1>9, <2>2 DEF Row, Inserted
<1>22. PutOne(u, n, u1, n1, x)
  BY <1>2, <1>3, <1>9, <1>21 DEF PutOne
<1>. QED  BY <1>18, <1>20, <1>22

\* The first message is taken, and its header is the first free one.
LEMMA TakeKeeps ==
  ASSUME NEW u, NEW n, NEW f, NEW m, Lists(u, n, f, m), Filled(u, n),
         ~Empty, TakeMessage
  PROVE  \E u1, n1, f1, m1 : /\ Lists(u1, n1, f1, m1)' /\ Filled(u1, n1)'
                             /\ Took(u, n, u1, n1)
<1>1. /\ n \in Nat /\ m \in Nat /\ maxmsg \in Nat /\ mq_curmsgs = n /\ n + m = maxmsg
  <2>1. mq_curmsgs = n /\ n + m = maxmsg
    BY DEF Lists
  <2>. QED  BY <2>1, WalkLists
<1>2. n # 0 /\ 1 \in 1 .. n
  <2>1. n # 0
    BY <1>1 DEF Empty
  <2>. QED  BY <1>1, <2>1
<1>4. /\ u \in [1 .. n -> Index] /\ f \in [1 .. m -> Index]
      /\ \A i \in 1 .. n : u[i] \in Index /\ u[i] # 0
      /\ \A i \in 1 .. m : f[i] \in Index /\ f[i] # 0
      /\ \A i, j \in 1 .. n : u[i] = u[j] => i = j
      /\ \A i, j \in 1 .. m : f[i] = f[j] => i = j
      /\ \A i \in 1 .. n : \A j \in 1 .. m : u[i] # f[j]
      /\ \A i \in 1 .. n : msg_next[u[i]] = IF i < n THEN u[i + 1] ELSE 0
      /\ \A i \in 1 .. m : msg_next[f[i]] = IF i < m THEN f[i + 1] ELSE 0
      /\ mqh_head = IF n = 0 THEN 0 ELSE u[1]
      /\ mqh_free = IF m = 0 THEN 0 ELSE f[1]
      /\ msg_next \in [Index -> Index \cup {0}]
  BY DEF Lists, Chain, Index
<1>5. PICK x \in Index : x = u[1] /\ x = mqh_head
  BY <1>2, <1>4
<1>6. PICK top \in Index \cup {0} : top = mqh_free /\ top = IF m = 0 THEN 0 ELSE f[1]
  <2>1. m # 0 => 1 \in 1 .. m
    BY <1>1
  <2>. QED  BY <1>4, <2>1
<1>7. /\ taken' = msg[x] /\ mqh_head' = msg_next[x] /\ mqh_free' = x
      /\ msg_next' = [msg_next EXCEPT ![x] = top]
      /\ mq_curmsgs' = mq_curmsgs - 1 /\ msg' = msg
  BY <1>5, <1>6 DEF TakeMessage
<1>8. /\ msg_next' \in [Index -> Index \cup {0}] /\ msg_next'[x] = top
      /\ \A i \in Index : i # x => msg_next'[i] = msg_next[i]
  BY <1>4, <1>7
<1>9. PICK n1 \in Nat : n1 = n - 1
  BY <1>1, <1>2
<1>10. PICK m1 \in Nat : m1 = m + 1
  BY <1>1
<1>11. PICK u1 : u1 = [j \in 1 .. n1 |-> u[j + 1]]
  OBVIOUS
<1>12. PICK f1 : f1 = [j \in 1 .. m1 |-> IF j = 1 THEN x ELSE f[j - 1]]
  OBVIOUS
<1>13. \A j \in 1 .. n1 : j + 1 \in 1 .. n /\ u1[j] = u[j + 1] /\ u1[j] # x
  <2>1. \A j \in 1 .. n1 : j + 1 \in 1 .. n /\ u1[j] = u[j + 1] /\ j + 1 # 1
    BY <1>1, <1>9, <1>11
  <2>. QED  BY <1>2, <1>4, <1>5, <2>1
<1>14. \A j \in 1 .. m1 : (j = 1 => f1[j] = x) /\ (j # 1 => j - 1 \in 1 .. m /\ f1[j] = f[j - 1])
  BY <1>1, <1>10, <1>12
<1>15. u1 \in [1 .. n1 -> Index] /\ f1 \in [1 .. m1 -> Index]
  <2>1. \A j \in 1 .. n1 : u1[j] \in Index
    BY <1>4, <1>13
  <2>2. \A j \in 1 .. m1 : f1[j] \in Index
    BY <1>4, <1>14
  <2>. QED  BY <1>11, <1>12, <2>1, <2>2
<1>16. \A j \in 1 .. m : f[j] # x
  BY <1>2, <1>4, <1>5
<1>17. Chain(u1, n1, mqh_head)'
  <2>1. mqh_head' = IF n1 = 0 THEN 0 ELSE u1[1]
    <3>1. mqh_head' = IF 1 < n THEN u[1 + 1] ELSE 0
      BY <1>2, <1>4, <1>5, <1>7
    <3>2. (1 < n <=> n1 # 0) /\ (n1 # 0 => 1 \in 1 .. n1)
      BY <1>1, <1>9
    <3>. QED  BY <1>13, <3>1, <3>2
  <2>2. ASSUME NEW i \in 1 .. n1
        PROVE  msg_next'[u1[i]] = IF i < n1 THEN u1[i + 1] ELSE 0
    <3>1. msg_next'[u1[i]] = msg_next[u[i + 1]] /\ i + 1 \in 1 .. n
      BY <1>4, <1>8, <1>13
    <3>2. msg_next[u[i + 1]] = IF i + 1 < n THEN u[i + 1 + 1] ELSE 0
      BY <1>4, <3>1
    <3>3. (i < n1 <=> i + 1 < n) /\ (i < n1 => i + 1 \in 1 .. n1)
      BY <1>1, <1>9
    <3>. QED  BY <1>13, <3>1, <3>2, <3>3
  <2>3. \A i, j \in 1 .. n1 : u1[i] = u1[j] => i = j
    <3>1. \A i, j \in 1 .. n1 : u1[i] = u1[j] => i + 1 = j + 1
      BY <1>4, <1>13
    <3>. QED  BY <3>1
  <2>. QED  BY <1>9, <1>15, <2>1, <2>2, <2>3 DEF Chain, Index
<1>18. Chain(f1, m1, mqh_free)'
  <2>1. mqh_free' = f1[1] /\ m1 # 0
    <3>1. 1 \in 1 .. m1 /\ m1 # 0
      BY <1>1, <1>10
    <3>. QED  BY <1>7, <1>14, <3>1
  <2>2. ASSUME NEW i \in 1 .. m1
        PROVE  msg_next'[f1[i]] = IF i < m1 THEN f1[i + 1] ELSE 0
    <3>1. CASE i = 1
      <4>1. (i < m1 <=> m # 0) /\ (i < m1 => i + 1 \in 1 .. m1 /\ i + 1 # 1 /\ (i + 1) - 1 = 1)
        BY <1>1, <1>10, <3>1
      <4>. QED  BY <1>6, <1>8, <1>14, <3>1, <4>1
    <3>2. CASE i # 1
      <4>1. /\ i - 1 \in 1 .. m /\ (i < m1 <=> i - 1 < m) /\ (i - 1) + 1 = i
            /\ (i < m1 => i + 1 \in 1 .. m1 /\ i + 1 # 1 /\ (i + 1) - 1 = i)
        BY <1>1, <1>10, <3>2
      <4>2. f1[i] = f[i - 1] /\ (i < m1 => f1[i + 1] = f[i])
        BY <1>14, <3>2, <4>1
      <4>3. msg_next'[f[i - 1]] = msg_next[f[i - 1]]
        BY <1>4, <1>8, <1>16, <4>1
      <4>4. msg_next[f[i - 1]] = IF i - 1 < m THEN f[(i - 1) + 1] ELSE 0
        BY <1>4, <4>1
      <4>. QED  BY <4>1, <4>2, <4>3, <4>4
    <3>. QED  BY <3>1, <3>2
  <2>3. ASSUME NEW i \in 1 .. m1, NEW j \in 1 .. m1, f1[i] = f1[j] PROVE i = j
    <3>1. i # 1 /\ j # 1 => i - 1 = j - 1
      BY <1>4, <1>14, <2>3
    <3>2. i = 1 <=> j = 1
      BY <1>14, <1>16, <2>3
    <3>. QED  BY <3>1, <3>2
  <2>4. \A i, j \in 1 .. m1 : f1[i] = f1[j] => i = j
    BY <2>3
  <2>. QED  BY <1>10, <1>15, <2>1, <2>2, <2>4 DEF Chain, Index
<1>19. Lists(u1, n1, f1, m1)'
  <2>1. \A i \in 1 .. n1 : \A j \in 1 .. m1 : u1[i] # f1[j]
    BY <1>4, <1>13, <1>14
  <2>2. ASSUME NEW y \in Index
        PROVE  (\E i \in 1 .. n1 : y = u1[i]) \/ (\E j \in 1 .. m1 : y = f1[j])
    <3>1. CASE \E i \in 1 .. n : y = u[i]
      <4>1. PICK i \in 1 .. n : y = u[i]
        BY <3>1
      <4>2. CASE i = 1
        <5>1. 1 \in 1 .. m1
          BY <1>1, <1>10
        <5>. QED  BY <1>5, <1>14, <4>1, <4>2, <5>1
      <4>3. CASE i # 1
        <5>1. i - 1 \in 1 .. n1 /\ (i - 1) + 1 = i
          BY <1>1, <1>9, <4>3
        <5>. QED  BY <1>13, <4>1, <5>1
      <4>. QED  BY <4>2, <4>3
    <3>2. CASE \E j \in 1 .. m : y = f[j]
      <4>1. PICK j \in 1 .. m : y = f[j]
        BY <3>2
      <4>2. j + 1 \in 1 .. m1 /\ j + 1 # 1 /\ (j + 1) - 1 = j
        BY <1>1, <1>10
      <4>. QED  BY <1>14, <4>1, <4>2
    <3>. QED  BY <3>1, <3>2 DEF Lists
  <2>3. n1 + m1 = maxmsg /\ mq_curmsgs' = n1
    BY <1>1, <1>7, <1>9, <1>10
  <2>. QED  BY <1>8, <1>17, <1>18, <2>1, <2>2, <2>3 DEF Lists, Index
<1>20. Filled(u1, n1)'
  <2>1. msg \in [Index -> MqMessage \cup {Nothing}]
    BY DEF Filled
  <2>2. \A i \in 1 .. n1 : msg[u1[i]] \in MqMessage
    BY <1>13 DEF Filled
  <2>3. ASSUME NEW i \in 1 .. n1, NEW j \in 1 .. n1, i < j
        PROVE  msg[u1[i]].prio >= msg[u1[j]].prio
    <3>1. i + 1 \in 1 .. n /\ j + 1 \in 1 .. n /\ i + 1 < j + 1
      BY <1>13, <2>3
    <3>. QED  BY <1>13, <3>1 DEF Filled
  <2>. QED  BY <1>7, <2>1, <2>2, <2>3 DEF Filled, Index, MqMessage
<1>21. Took(u, n, u1, n1)
  <2>1. \A j \in 1 .. n1 : msg'[u1[j]] = Row(u, n)[j + 1]
    BY <1>7, <1>13 DEF Row
  <2>2. Row(u1, n1)' = [j \in 1 .. n1 |-> Row(u, n)[j + 1]]
    BY <2>1 DEF Row
  <2>. QED  BY <1>2, <1>5, <1>7, <1>9, <2>2 DEF Took
<1>. QED  BY <1>19, <1>20, <1>21

-----------------------------------------------------------------------------
(* What the steps do to the threads.                                       *)

Sending(place) == place \in {"sendAsleep", "sendAwake"}
Receiving(place) == place \in {"receiveAsleep", "receiveAwake"}

\* Thread t goes to place p, and no other begins or ends a call.
Goes(t, p) ==
  /\ pc' \in [Thread -> Places] /\ pc'[t] = p
  /\ \A u \in Thread : u # t => /\ Sending(pc'[u]) <=> Sending(pc[u])
                                /\ Receiving(pc'[u]) <=> Receiving(pc[u])

\* A thread that returns may wake another, which goes on with its call.
LEMMA ReturnGoes ==
  ASSUME People, NEW t \in Thread, pc[t] \notin {"sendAsleep", "receiveAsleep"},
         NEW signal, Return(t, signal)
  PROVE  Goes(t, "idle")
<1>0. pc \in [Thread -> Places]
  BY DEF People
<1>1. CASE pc' = [pc EXCEPT ![t] = "idle"]
  BY <1>0, <1>1 DEF Goes, Places
<1>2. ASSUME NEW w \in Asleep, pc' = [pc EXCEPT ![t] = "idle", ![w] = Awoken(@)]
      PROVE  Goes(t, "idle")
  <2>1. w \in Thread /\ pc[w] \in {"sendAsleep", "receiveAsleep"} /\ w # t
    BY DEF Asleep
  <2>2. /\ Awoken(pc[w]) \in Places
        /\ Sending(Awoken(pc[w])) <=> Sending(pc[w])
        /\ Receiving(Awoken(pc[w])) <=> Receiving(pc[w])
    BY <2>1 DEF Awoken, Places, Sending, Receiving
  <2>3. /\ pc' \in [Thread -> Places] /\ pc'[t] = "idle" /\ pc'[w] = Awoken(pc[w])
        /\ \A u \in Thread : u # t /\ u # w => pc'[u] = pc[u]
    <3>1. "idle" \in Places
      BY DEF Places
    <3>. QED  BY <1>0, <1>2, <2>1, <2>2, <3>1
  <2>. QED  BY <2>2, <2>3 DEF Goes
<1>. QED  BY <1>1, <1>2 DEF Return

LEMMA PeopleGo ==
  ASSUME IsFiniteSet(Thread), People, NEW t \in Thread, NEW p, Goes(t, p),
         toSend' \in [Thread -> MqMessage \cup {Nothing}],
         \A u \in Thread : u # t => toSend'[u] = toSend[u],
         Sending(p) => toSend'[t] \in MqMessage,
         \/ (Receiving(p) <=> Receiving(pc[t])) /\ mqh_nwait' = mqh_nwait
         \/ Receiving(p) /\ ~Receiving(pc[t]) /\ mqh_nwait' = mqh_nwait + 1
         \/ ~Receiving(p) /\ Receiving(pc[t]) /\ mqh_nwait' = mqh_nwait - 1
  PROVE  People'
<1>1. \A u \in Thread : u # t => (u \in Waiters' <=> u \in Waiters)
  BY DEF Goes, Waiters, Receiving
<1>2. (t \in Waiters' <=> Receiving(p)) /\ (t \in Waiters <=> Receiving(pc[t]))
  BY DEF Goes, Waiters, Receiving
<1>3. /\ Waiters \subseteq Thread /\ Waiters' \subseteq Thread /\ IsFiniteSet(Waiters)
      /\ mqh_nwait = Cardinality(Waiters) /\ Cardinality(Waiters) \in Nat
  <2>1. Waiters \subseteq Thread /\ Waiters' \subseteq Thread /\ mqh_nwait = Cardinality(Waiters)
    BY DEF Waiters, People
  <2>. QED  BY <2>1, FS_Subset, FS_CardinalityType
<1>4. mqh_nwait' = Cardinality(Waiters')
  <2>1. CASE (Receiving(p) <=> Receiving(pc[t])) /\ mqh_nwait' = mqh_nwait
    <3>0. \A u \in Thread : u \in Waiters' <=> u \in Waiters
      BY <1>1, <1>2, <2>1
    <3>1. Waiters' = Waiters
      BY <1>3, <3>0
    <3>. QED  BY <1>3, <2>1, <3>1
  <2>2. CASE Receiving(p) /\ ~Receiving(pc[t]) /\ mqh_nwait' = mqh_nwait + 1
    <3>1. Waiters' = Waiters \cup {t} /\ t \notin Waiters
      BY <1>1, <1>2, <1>3, <2>2
    <3>. QED  BY <1>3, <2>2, <3>1, FS_AddElement
  <2>3. CASE ~Receiving(p) /\ Receiving(pc[t]) /\ mqh_nwait' = mqh_nwait - 1
    <3>1. Waiters' = Waiters \ {t} /\ t \in Waiters
      BY <1>1, <1>2, <1>3, <2>3
    <3>. QED  BY <1>3, <2>3, <3>1, FS_RemoveElement
  <2>. QED  BY <2>1, <2>2, <2>3
<1>5. \A u \in Thread : pc'[u] \in {"sendAsleep", "sendAwake"} => toSend'[u] \in MqMessage
  <2>. SUFFICES ASSUME NEW u \in Thread, Sending(pc'[u]) PROVE toSend'[u] \in MqMessage
    BY DEF Sending
  <2>1. CASE u = t
    BY <2>1 DEF Goes
  <2>2. CASE u # t
    BY <2>2 DEF Goes, People, Sending
  <2>. QED  BY <2>1, <2>2
<1>. QED  BY <1>4, <1>5 DEF People, Goes, Places, MqMessage

LEMMA PeopleStep ==
  ASSUME People, [MqNext]_mqVars
  PROVE  People'
<1>0. /\ IsFiniteSet(Thread) /\ pc \in [Thread -> Places]
      /\ toSend \in [Thread -> MqMessage \cup {Nothing}]
  BY MqueueAssumption DEF People
<1>1. ASSUME NEW t \in Thread, NEW p \in Places, pc' = [pc EXCEPT ![t] = p] PROVE Goes(t, p)
  BY <1>0, <1>1 DEF Goes
<1>2. ASSUME NEW t \in Thread, NEW x \in MqMessage, NEW nonblock \in BOOLEAN,
             mq_send(t, x, nonblock)
      PROVE  People'
  <2>1. pc[t] = "idle" /\ mqh_nwait' = mqh_nwait
    BY <1>2 DEF mq_send
  <2>2. CASE Return(t, Empty) /\ toSend' = toSend
    <3>1. Goes(t, "idle")
      BY <2>1, <2>2, ReturnGoes
    <3>. QED  BY <1>0, <2>1, <2>2, <3>1, PeopleGo DEF Sending, Receiving
  <2>3. CASE pc' = [pc EXCEPT ![t] = "sendAsleep"] /\ toSend' = [toSend EXCEPT ![t] = x]
    <3>1. Goes(t, "sendAsleep")
      BY <1>1, <2>3 DEF Places
    <3>2. /\ toSend' \in [Thread -> MqMessage \cup {Nothing}] /\ toSend'[t] \in MqMessage
          /\ \A u \in Thread : u # t => toSend'[u] = toSend[u]
      BY <1>0, <2>3
    <3>. QED  BY <1>0, <2>1, <3>1, <3>2, PeopleGo DEF Receiving
  <2>4. CASE pc' = pc /\ toSend' = toSend
    BY <2>1, <2>4 DEF People, Waiters, Places, MqMessage
  <2>. QED  BY <1>2, <2>2, <2>3, <2>4 DEF mq_send
<1>3. ASSUME NEW t \in Thread, SendWakes(t) PROVE People'
  <2>1. pc[t] = "sendAwake" /\ mqh_nwait' = mqh_nwait
    BY <1>3 DEF SendWakes
  <2>2. CASE pc' = [pc EXCEPT ![t] = "sendAsleep"] /\ toSend' = toSend
    <3>1. Goes(t, "sendAsleep")
      BY <1>1, <2>2 DEF Places
    <3>2. toSend'[t] \in MqMessage
      BY <2>1, <2>2 DEF People
    <3>. QED  BY <1>0, <2>1, <2>2, <3>1, <3>2, PeopleGo DEF Receiving
  <2>3. CASE Return(t, Empty) /\ toSend' = [toSend EXCEPT ![t] = Nothing]
    <3>1. Goes(t, "idle")
      BY <2>1, <2>3, ReturnGoes
    <3>2. /\ toSend' \in [Thread -> MqMessage \cup {Nothing}]
          /\ \A u \in Thread : u # t => toSend'[u] = toSend[u]
      BY <1>0, <2>3
    <3>. QED  BY <1>0, <2>1, <3>1, <3>2, PeopleGo DEF Sending, Receiving
  <2>. QED  BY <1>3, <2>2, <2>3 DEF SendWakes
<1>4. ASSUME NEW t \in Thread, NEW nonblock \in BOOLEAN, mq_receive(t, nonblock)
      PROVE  People'
  <2>1. pc[t] = "idle" /\ toSend' = toSend
    BY <1>4 DEF mq_receive
  <2>2. CASE Return(t, Full) /\ mqh_nwait' = mqh_nwait
    <3>1. Goes(t, "idle")
      BY <2>1, <2>2, ReturnGoes
    <3>. QED  BY <1>0, <2>1, <2>2, <3>1, PeopleGo DEF Sending, Receiving
  <2>3. CASE mqh_nwait' = mqh_nwait + 1 /\ pc' = [pc EXCEPT ![t] = "receiveAsleep"]
    <3>1. Goes(t, "receiveAsleep")
      BY <1>1, <2>3 DEF Places
    <3>. QED  BY <1>0, <2>1, <2>3, <3>1, PeopleGo DEF Sending, Receiving
  <2>4. CASE pc' = pc /\ mqh_nwait' = mqh_nwait
    BY <2>1, <2>4 DEF People, Waiters, Places, MqMessage
  <2>. QED  BY <1>4, <2>2, <2>3, <2>4 DEF mq_receive
<1>5. ASSUME NEW t \in Thread, ReceiveWakes(t) PROVE People'
  <2>1. pc[t] = "receiveAwake" /\ toSend' = toSend
    BY <1>5 DEF ReceiveWakes
  <2>2. CASE pc' = [pc EXCEPT ![t] = "receiveAsleep"] /\ mqh_nwait' = mqh_nwait
    <3>1. Goes(t, "receiveAsleep")
      BY <1>1, <2>2 DEF Places
    <3>. QED  BY <1>0, <2>1, <2>2, <3>1, PeopleGo DEF Sending, Receiving
  <2>3. CASE Return(t, Full) /\ mqh_nwait' = mqh_nwait - 1
    <3>1. Goes(t, "idle")
      BY <2>1, <2>3, ReturnGoes
    <3>. QED  BY <1>0, <2>1, <2>3, <3>1, PeopleGo DEF Sending, Receiving
  <2>. QED  BY <1>5, <2>2, <2>3 DEF ReceiveWakes
<1>6. ASSUME NEW t \in Thread, SpuriousWakeup(t) PROVE People'
  <2>1. /\ pc[t] \in {"sendAsleep", "receiveAsleep"} /\ mqh_nwait' = mqh_nwait /\ toSend' = toSend
        /\ pc' = [pc EXCEPT ![t] = Awoken(pc[t])]
    BY <1>6 DEF SpuriousWakeup, Asleep
  <2>2. /\ Awoken(pc[t]) \in Places
        /\ Sending(Awoken(pc[t])) <=> Sending(pc[t])
        /\ Receiving(Awoken(pc[t])) <=> Receiving(pc[t])
    BY <2>1 DEF Awoken, Places, Sending, Receiving
  <2>3. Goes(t, Awoken(pc[t]))
    BY <1>1, <2>1, <2>2
  <2>4. Sending(pc[t]) => toSend'[t] \in MqMessage
    BY <2>1 DEF People, Sending
  <2>. QED  BY <1>0, <2>1, <2>2, <2>3, <2>4, PeopleGo
<1>7. CASE UNCHANGED mqVars
  BY <1>7 DEF mqVars, People, Waiters, Places, MqMessage
<1>. QED  BY <1>2, <1>3, <1>4, <1>5, <1>6, <1>7 DEF MqNext

-----------------------------------------------------------------------------
(* What the steps do to both.                                              *)

Steps(u, n, u1, n1) ==
  \/ Row(u1, n1)' = Row(u, n) /\ taken' = taken
  \/ Took(u, n, u1, n1)
  \/ \E x \in MqMessage : PutOne(u, n, u1, n1, x)

LEMMA ListsStep ==
  ASSUME People, [MqNext]_mqVars,
         NEW u, NEW n, NEW f, NEW m, Lists(u, n, f, m), Filled(u, n)
  PROVE  \E u1, n1, f1, m1 : /\ Lists(u1, n1, f1, m1)' /\ Filled(u1, n1)'
                             /\ Steps(u, n, u1, n1)
<1> DEFINE Goal == \E u1, n1, f1, m1 : /\ Lists(u1, n1, f1, m1)' /\ Filled(u1, n1)'
                                       /\ Steps(u, n, u1, n1)
<1>1. ASSUME UNCHANGED listVars, taken' = taken PROVE Goal
  <2>1. UNCHANGED <<mqh_head, mqh_free, msg_next, msg, mq_curmsgs>>
    BY <1>1 DEF listVars
  <2>2. Lists(u, n, f, m)' /\ Filled(u, n)'
    BY <2>1 DEF Lists, Chain, Filled, Index, MqMessage
  <2>3. Row(u, n)' = Row(u, n)
    BY <2>1 DEF Row
  <2>. QED  BY <1>1, <2>2, <2>3 DEF Steps
<1>2. ASSUME NEW x \in MqMessage, ~Full, PutMessage(x), taken' = taken PROVE Goal
  BY <1>2, PutKeeps DEF Steps
<1>3. ASSUME ~Empty, TakeMessage PROVE Goal
  BY <1>3, TakeKeeps DEF Steps
<1> HIDE DEF Goal
<1>4. ASSUME NEW t \in Thread, NEW x \in MqMessage, NEW nonblock \in BOOLEAN,
             mq_send(t, x, nonblock)
      PROVE  Goal
  BY <1>1, <1>2, <1>4 DEF mq_send
<1>5. ASSUME NEW t \in Thread, SendWakes(t) PROVE Goal
  <2>1. toSend[t] \in MqMessage /\ taken' = taken
    BY <1>5 DEF SendWakes, People
  <2>. QED  BY <1>1, <1>2, <1>5, <2>1 DEF SendWakes
<1>6. ASSUME NEW t \in Thread, NEW nonblock \in BOOLEAN, mq_receive(t, nonblock) PROVE Goal
  BY <1>1, <1>3, <1>6 DEF mq_receive
<1>7. ASSUME NEW t \in Thread, ReceiveWakes(t) PROVE Goal
  BY <1>1, <1>3, <1>7 DEF ReceiveWakes
<1>8. ASSUME NEW t \in Thread, SpuriousWakeup(t) PROVE Goal
  BY <1>1, <1>8 DEF SpuriousWakeup
<1>9. ASSUME UNCHANGED mqVars PROVE Goal
  BY <1>1, <1>9 DEF mqVars
<1>10. Goal
  BY <1>4, <1>5, <1>6, <1>7, <1>8, <1>9 DEF MqNext
<1>. QED  BY <1>10 DEF Goal

\* The inductive invariant: there is such a numbering.
MqInv ==
  /\ \E u, n, f, m : Lists(u, n, f, m) /\ Filled(u, n)
  /\ People
  /\ taken \in MqMessage \cup {Nothing}

\* In the beginning all headers are free, in order.
LEMMA InitLists ==
  ASSUME MqInit
  PROVE  MqInv /\ \E u, f, m : Lists(u, 0, f, m)
<1>1. PICK f : f = [i \in 1 .. maxmsg |-> i]
  OBVIOUS
<1>2. PICK u : u \in [1 .. 0 -> Index]
  <2>1. [i \in 1 .. 0 |-> 1] \in [1 .. 0 -> Index]
    OBVIOUS
  <2>. QED  BY <2>1
<1>3. /\ maxmsg \in Nat /\ maxmsg >= 1 /\ Index = 1 .. maxmsg /\ 1 .. 0 = {}
      /\ IsFiniteSet(Thread)
  BY MqueueAssumption DEF Index
<1>4. /\ mqh_head = 0 /\ mqh_free = 1 /\ mq_curmsgs = 0 /\ mqh_nwait = 0
      /\ msg_next = [i \in Index |-> IF i = maxmsg THEN 0 ELSE i + 1]
      /\ msg = [i \in Index |-> Nothing] /\ taken = Nothing
      /\ pc = [t \in Thread |-> "idle"] /\ toSend = [t \in Thread |-> Nothing]
  BY DEF MqInit
<1>5. Chain(u, 0, mqh_head)
  BY <1>2, <1>3, <1>4 DEF Chain
<1>6. Chain(f, maxmsg, mqh_free)
  <2>1. f \in [1 .. maxmsg -> Index] /\ \A i \in 1 .. maxmsg : f[i] = i
    BY <1>1, <1>3
  <2>2. mqh_free = f[1] /\ maxmsg # 0
    BY <1>3, <1>4, <2>1
  <2>3. \A i \in 1 .. maxmsg : msg_next[f[i]] = IF i < maxmsg THEN f[i + 1] ELSE 0
    BY <1>3, <1>4, <2>1
  <2>. QED  BY <1>3, <2>1, <2>2, <2>3 DEF Chain
<1>7. Lists(u, 0, f, maxmsg)
  <2>1. msg_next \in [Index -> Index \cup {0}]
    BY <1>3, <1>4
  <2>2. \A x \in Index : \E j \in 1 .. maxmsg : x = f[j]
    BY <1>1, <1>3
  <2>3. 0 + maxmsg = maxmsg
    BY <1>3
  <2>. QED  BY <1>3, <1>4, <1>5, <1>6, <2>1, <2>2, <2>3 DEF Lists
<1>8. Filled(u, 0)
  BY <1>3, <1>4 DEF Filled
<1>9. People
  <2>1. Waiters = {}
    BY <1>4 DEF Waiters
  <2>2. mqh_nwait = Cardinality(Waiters)
    BY <1>4, <2>1, FS_EmptySet
  <2>. QED  BY <1>4, <2>2 DEF People, Places
<1>. QED  BY <1>4, <1>7, <1>8, <1>9 DEF MqInv

LEMMA StepLists == ASSUME MqInv, [MqNext]_mqVars PROVE MqInv'
<1>1. PICK u, n, f, m : Lists(u, n, f, m) /\ Filled(u, n)
  BY DEF MqInv
<1>2. PICK u1, n1, f1, m1 : Lists(u1, n1, f1, m1)' /\ Filled(u1, n1)' /\ Steps(u, n, u1, n1)
  BY <1>1, ListsStep DEF MqInv
<1>3. People'
  BY PeopleStep DEF MqInv
<1>4. taken' \in MqMessage \cup {Nothing}
  <2>1. Took(u, n, u1, n1) => taken' \in MqMessage
    <3>1. n # 0 => 1 \in 1 .. n
      <4>1. n \in Nat
        BY <1>1 DEF Lists, Chain
      <4>. QED  BY <4>1
    <3>. QED  BY <1>1, <3>1 DEF Took, Filled
  <2>. QED  BY <1>2, <2>1 DEF Steps, PutOne, MqInv
<1>. QED  BY <1>2, <1>3, <1>4 DEF MqInv, MqMessage

LEMMA MqInvHolds == MqSpec => []MqInv
BY InitLists, StepLists, PTL DEF MqSpec

-----------------------------------------------------------------------------
\* The variables of the queue have their types, the index of a header among
\* them, and the count of waiting receivers is one of threads.
THEOREM MqueueTypeCorrect == MqSpec => []MqTypeOK
<1>1. MqInv => MqTypeOK
  <2>. SUFFICES ASSUME MqInv PROVE MqTypeOK
    OBVIOUS
  <2>1. PICK u, n, f, m : Lists(u, n, f, m) /\ Filled(u, n)
    BY DEF MqInv
  <2>2. n \in Nat /\ m \in Nat /\ n <= maxmsg
    BY <2>1, WalkLists
  <2>3. mqh_head \in Index \cup {0} /\ mqh_free \in Index \cup {0}
    <3>1. (n # 0 => 1 \in 1 .. n) /\ (m # 0 => 1 \in 1 .. m)
      BY <2>2
    <3>. QED  BY <2>1, <3>1 DEF Lists, Chain
  <2>4. mq_curmsgs \in 0 .. maxmsg
    BY <2>1, <2>2, WalkLists DEF Lists
  <2>5. mqh_nwait \in 0 .. Cardinality(Thread)
    <3>1. IsFiniteSet(Thread) /\ Waiters \subseteq Thread /\ mqh_nwait = Cardinality(Waiters)
      BY MqueueAssumption DEF MqInv, People, Waiters
    <3>2. /\ Cardinality(Waiters) \in Nat /\ Cardinality(Thread) \in Nat
          /\ Cardinality(Waiters) <= Cardinality(Thread)
      BY <3>1, FS_Subset, FS_CardinalityType
    <3>. QED  BY <3>1, <3>2
  <2>. QED  BY <2>1, <2>3, <2>4, <2>5 DEF MqInv, Lists, Filled, People, MqTypeOK
<1>. QED  BY <1>1, MqInvHolds, PTL

\* Every header is on one of the two lists, once, and the count is the length of
\* the list of messages (mq_send, mq_receive).
THEOREM MqueueListsSound == MqSpec => []ListsSound
<1>1. MqInv => ListsSound
  <2>. SUFFICES ASSUME MqInv PROVE ListsSound
    OBVIOUS
  <2>1. PICK u, n, f, m : Lists(u, n, f, m)
    BY DEF MqInv
  <2>2. /\ ListFrom(mqh_head) = u /\ ListFrom(mqh_free) = f
        /\ Len(u) = n /\ DOMAIN u = 1 .. n /\ Len(f) = m /\ DOMAIN f = 1 .. m
    BY <2>1, WalkLists
  <2>3. \A i \in 1 .. n : \A j \in 1 .. m : u[i] # f[j] /\ u[i] \in Index /\ f[j] \in Index
    BY <2>1 DEF Lists, Chain
  <2>4. NodesOf(u) \cap NodesOf(f) = {}
    BY <2>2, <2>3 DEF NodesOf
  <2>5. NodesOf(u) \cup NodesOf(f) = Index
    BY <2>1, <2>2 DEF NodesOf, Lists, Chain
  <2>6. n + m = maxmsg /\ mq_curmsgs = n
    BY <2>1 DEF Lists
  <2>. QED  BY <2>2, <2>4, <2>5, <2>6 DEF ListsSound
<1>. QED  BY <1>1, MqInvHolds, PTL

\* mqh_nwait counts the threads that wait in mq_receive, asleep or just woken,
\* whoever is woken and for what.
THEOREM MqueueNwaitExact == MqSpec => []NwaitExact
<1>1. MqInv => NwaitExact
  BY DEF MqInv, People, Waiters, NwaitExact
<1>. QED  BY <1>1, MqInvHolds, PTL

\* What a walk from mqh_head finds is the row of messages.
Walked ==
  \A u, n, f, m : Lists(u, n, f, m) => MqWaiting = Row(u, n)

LEMMA WalkedHolds == Walked
BY WalkLists DEF Walked, MqWaiting, Row

\* The linked lists implement a bounded queue in order of priority, and of arrival
\* within one priority (mq_send, mq_receive).
THEOREM MqueueImplementsPrioQueue == MqSpec => ImplementsPrioQueue
<1>1. MqInit => PQ!PrioInit
  <2>. SUFFICES ASSUME MqInit PROVE PQ!PrioInit
    OBVIOUS
  <2>1. PICK u, f, m : Lists(u, 0, f, m)
    BY InitLists
  <2>2. MqWaiting = <<>>
    BY <2>1, WalkedHolds DEF Walked, Row
  <2>. QED  BY <2>2 DEF PQ!PrioInit, MqInit
<1>2. MqInv /\ [MqNext]_mqVars /\ Walked' => [PQ!PrioNext]_(PQ!prioVars)
  <2>. SUFFICES ASSUME MqInv, [MqNext]_mqVars, Walked'
                PROVE  [PQ!PrioNext]_(PQ!prioVars)
    OBVIOUS
  <2>1. PICK u, n, f, m : Lists(u, n, f, m) /\ Filled(u, n)
    BY DEF MqInv
  <2>2. PICK u1, n1, f1, m1 : Lists(u1, n1, f1, m1)' /\ Steps(u, n, u1, n1)
    BY <2>1, ListsStep DEF MqInv
  <2>3. MqWaiting = Row(u, n)
    BY <2>1, WalkedHolds DEF Walked
  <2>4. (MqWaiting)' = Row(u1, n1)'
    BY <2>2, MqueueAssumption DEF Walked
  <2>5. PICK r : r = Row(u, n)
    OBVIOUS
  <2>6. /\ r \in Seq(MqMessage) /\ Len(r) = n /\ n \in Nat /\ r = [i \in 1 .. n |-> r[i]]
        /\ \A i \in 1 .. n : r[i] = msg[u[i]]
    <3>1. n \in Nat /\ \A i \in 1 .. n : msg[u[i]] \in MqMessage
      BY <2>1 DEF Filled, Lists, Chain
    <3>. QED  BY <2>5, <3>1 DEF Row
  <2>7. CASE Row(u1, n1)' = Row(u, n) /\ taken' = taken
    BY <2>3, <2>4, <2>7 DEF PQ!prioVars
  <2>8. CASE Took(u, n, u1, n1)
    <3>1. n # 0 /\ taken' = r[1] /\ Row(u1, n1)' = [j \in 1 .. (n - 1) |-> r[j + 1]]
      <4>1. n # 0 /\ 1 \in 1 .. n
        BY <2>6, <2>8 DEF Took
      <4>. QED  BY <2>5, <2>6, <2>8, <4>1 DEF Took
    <3>2. r # <<>> /\ Head(r) = r[1] /\ Tail(r) = [j \in 1 .. (n - 1) |-> r[j + 1]]
      BY <2>6, <3>1
    <3>3. PQ!Take
      BY <2>3, <2>4, <2>5, <3>1, <3>2 DEF PQ!Take
    <3>. QED  BY <3>3 DEF PQ!PrioNext
  <2>9. ASSUME NEW x \in MqMessage, PutOne(u, n, u1, n1, x) PROVE PQ!PrioNext
    <3>1. PICK k \in 1 .. (n + 1) : /\ \A j \in 1 .. (k - 1) : msg[u[j]].prio >= x.prio
                                    /\ \A j \in k .. n : msg[u[j]].prio < x.prio
                                    /\ Row(u1, n1)' = Inserted(r, n, k, x)
      BY <2>5, <2>9 DEF PutOne
    <3>2. /\ \A j \in 1 .. (k - 1) : r[j].prio >= x.prio
          /\ \A j \in k .. n : r[j].prio < x.prio
      <4>1. (\A j \in 1 .. (k - 1) : j \in 1 .. n) /\ (\A j \in k .. n : j \in 1 .. n)
        BY <2>6
      <4>. QED  BY <2>6, <3>1, <4>1
    <3>3. Len(r) < maxmsg /\ k \in 1 .. (Len(r) + 1) /\ taken' = taken
      BY <2>6, <2>9 DEF PutOne
    <3>4. /\ MqWaiting = r
          /\ (MqWaiting)' = [j \in 1 .. (Len(r) + 1) |->
                                IF j < k THEN r[j] ELSE IF j = k THEN x ELSE r[j - 1]]
      <4>1. MqWaiting = r
        BY <2>3, <2>5
      <4>2. Row(u1, n1)' = [j \in 1 .. (n + 1) |->
                              IF j < k THEN r[j] ELSE IF j = k THEN x ELSE r[j - 1]]
        BY <3>1 DEF Inserted
      <4>3. Len(r) = n
        BY <2>6
      <4>. QED  BY <2>4, <4>1, <4>2, <4>3
    <3>5. \A j \in k .. Len(r) : r[j].prio < x.prio
      BY <2>6, <3>2
    <3>6. PQ!Put(x)
      BY <3>2, <3>3, <3>4, <3>5 DEF PQ!Put
    <3>. QED  BY <3>6 DEF PQ!PrioNext, MqMessage
  <2>. QED  BY <2>2, <2>7, <2>8, <2>9 DEF Steps
<1>. QED  BY <1>1, <1>2, MqInvHolds, WalkedHolds, PTL DEF MqSpec, ImplementsPrioQueue, PQ!PrioSpec

=============================================================================
