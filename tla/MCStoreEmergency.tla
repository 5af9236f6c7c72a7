-------------------------- MODULE MCStoreEmergency --------------------------
(* Instances of StoreEmergency for TLC. *)
EXTENDS StoreEmergency, TLC

CONSTANTS e1, e2

\* Where TLC starts: one emergency of two stores, the second one added when it
\* likes, and one event; one emergency of one store and two events; two
\* emergencies of one store and one event.
Past == {e \in Emergencies : em[e].status # "none"}
OneStore == Cardinality(known) = 1 /\ later = {}

MCInit ==
  /\ Init
  /\ \/ Past = {e2} /\ Cardinality(known) = 1 /\ known \cup later = Shops /\ events = MaxEvents - 1
     \/ Past = {e2} /\ OneStore /\ events = MaxEvents - 2
     \/ Past = {} /\ OneStore /\ events = MaxEvents - 1

MCSpec == MCInit /\ [][Next]_vars /\ Fairness

Alike == Permutations(Jobs) \cup Permutations(Shops)
=============================================================================
