----------------------------- MODULE MCDataBuf ------------------------------
(***************************************************************************)
(* An instance of DataBuf for TLC: a pool of two buffers and one of one,   *)
(* so that lists of every length between none and two occur, a list whose  *)
(* head is its end among them, and the pools meet at the semaphore; three  *)
(* tasks, so that two may pass the first look at one buffer while a third  *)
(* puts one back.                                                          *)
(***************************************************************************)
EXTENDS DataBuf

CONSTANTS b1, b2, b3

MCChain == [p \in Pools |-> IF p = 1 THEN <<b1, b2>> ELSE <<b3>>]
MCPools == {1, 2}

=============================================================================
