---------------------------- MODULE MCMmlCommands ----------------------------
(***************************************************************************)
(* An instance of MmlCommands: two users, since number 0 is not like the   *)
(* others, two items, so that a hole may be before an item and behind it.  *)
(* One buffer makes the messages follow each other closely enough: it is   *)
(* given back before its message is uncounted, so that DataCollectTask and *)
(* the tasks of both users may be between the read and the write of a      *)
(* count at once, on one count too.  With two messages a user, one can be  *)
(* counted while another is uncounted.                                     *)
(***************************************************************************)
EXTENDS MmlCommands, TLC

MinusOne == -1
Perms == Permutations(Names)
=============================================================================
