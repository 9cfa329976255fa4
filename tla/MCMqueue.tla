------------------------------ MODULE MCMqueue ------------------------------
(***************************************************************************)
(* An instance of Mqueue: three threads, each of which may send and        *)
(* receive, so that two can wait for the same thing.  Three headers let a   *)
(* message go first, between two others and last; two priorities and two   *)
(* bodies show an exchange of their order.                                 *)
(***************************************************************************)
EXTENDS Mqueue, TLC

CONSTANTS a, b, c, x, y

\* Threads are alike, and so are bodies.
Symmetric == Permutations({a, b, c}) \cup Permutations({x, y})

=============================================================================
