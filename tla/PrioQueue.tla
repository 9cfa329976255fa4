----------------------------- MODULE PrioQueue ------------------------------
(***************************************************************************)
(* What a POSIX message queue promises: the messages of the highest        *)
(* priority come out first, those of one priority in the order they went   *)
(* in, each once, and never more than Capacity are waiting.  This is the   *)
(* specification Mqueue implements, not a translation of code.             *)
(***************************************************************************)
EXTENDS Integers, Sequences

CONSTANTS
  Prio, Body,  \* a message has a priority and a body
  Capacity,
  None         \* nothing received yet

VARIABLES
  waiting,  \* the messages, in the order they will come out
  taken     \* the message taken last

prioVars == <<waiting, taken>>

PrioInit == waiting = <<>> /\ taken = None

\* m goes behind the messages that are at least as urgent, before the others.
Put(m) ==
  /\ Len(waiting) < Capacity
  /\ \E k \in 1 .. (Len(waiting) + 1) :
       /\ \A j \in 1 .. (k - 1) : waiting[j].prio >= m.prio
       /\ \A j \in k .. Len(waiting) : waiting[j].prio < m.prio
       /\ waiting' = [j \in 1 .. (Len(waiting) + 1) |->
                        IF j < k THEN waiting[j] ELSE IF j = k THEN m ELSE waiting[j - 1]]
  /\ UNCHANGED taken

Take ==
  /\ waiting # <<>>
  /\ taken' = Head(waiting)
  /\ waiting' = Tail(waiting)

PrioNext == Take \/ \E m \in [prio : Prio, body : Body] : Put(m)

PrioSpec == PrioInit /\ [][PrioNext]_prioVars

=============================================================================
