---------------------------- MODULE MCStatWindows ----------------------------
(***************************************************************************)
(* An instance of StatWindows: two slots and two windows, as window 0 is   *)
(* not treated like the others.  There are no more connections than slots, *)
(* so that no property depends on how far the count falls.                 *)
(***************************************************************************)
EXTENDS StatWindows

=============================================================================
