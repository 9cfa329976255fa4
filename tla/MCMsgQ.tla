------------------------------- MODULE MCMsgQ -------------------------------
(***************************************************************************)
(* Instances of MsgQ for TLC.  Rings of 2 and of 3 slots are enough for    *)
(* the positions to pass the end of the ring at every distance between     *)
(* them, and two messages for an exchange of their order to show.          *)
(***************************************************************************)
EXTENDS MsgQ

CONSTANTS m1, m2

MCMessage == {m1, m2}

=============================================================================
