--------------------------- MODULE MCDebugWindows ---------------------------
(***************************************************************************)
(* Instances of DebugWindows: two slots for one window show every race     *)
(* for a slot and for a window, one slot and two orders every race of an   *)
(* order with the timer.                                                   *)
(***************************************************************************)
EXTENDS DebugWindows, TLC

Perms == Permutations(Conns) \cup Permutations(Bufs)
=============================================================================
