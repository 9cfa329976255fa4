------------------------------ MODULE BufPool -------------------------------
(***************************************************************************)
(* What a pool of data buffers promises the tasks that share it: a buffer  *)
(* is free or used, getting one and giving one back are the only ways from *)
(* one to the other, and none is lost.  This is the specification DataBuf  *)
(* implements, not a translation of code.                                  *)
(***************************************************************************)
CONSTANT Bufs

VARIABLES free, used

poolVars == <<free, used>>

PoolInit == free = Bufs /\ used = {}

GetBuf(b) ==
  /\ b \in free
  /\ free' = free \ {b}
  /\ used' = used \cup {b}

PutBuf(b) ==
  /\ b \in used
  /\ used' = used \ {b}
  /\ free' = free \cup {b}

PoolNext == \E b \in Bufs : GetBuf(b) \/ PutBuf(b)

PoolSpec == PoolInit /\ [][PoolNext]_poolVars

=============================================================================
