---------------------------- MODULE MCTaskEngine ----------------------------
(* Instances of TaskEngine for TLC. *)
EXTENDS TaskEngine, TLC

CONSTANTS a, b, c

\* Two people share the first step, the second one is automatic.
SharedThenAuto == (a :> 1) @@ (b :> 1) @@ (c :> 2)
\* One step after the other.
InSequence == (a :> 1) @@ (b :> 2)

RunSymmetry == Permutations(Run)
=============================================================================
