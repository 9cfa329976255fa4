---------------------------- MODULE MCObjectLife ----------------------------
(***************************************************************************)
(* An instance of ObjectLife: a thread of another module, one of the       *)
(* plugin and the loader; one object, two instances for one slot, which    *)
(* the threads create in a race, or one after the loader cleared the other. *)
(***************************************************************************)
EXTENDS ObjectLife, TLC

CONSTANTS a, own

\* The instances are alike.
Symmetric == Permutations(Inst)

=============================================================================
