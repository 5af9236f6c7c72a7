--------------------------- MODULE GuardedStores ---------------------------
(***************************************************************************)
(* What the store emergencies and the opening guard promise together.  An  *)
(* emergency HOLDS its stores from the moment it begins, and it begins only *)
(* on stores nobody holds.  While it holds a store nobody else opens it     *)
(* through the application; it closes stores only while it is shutting them *)
(* down or keeping them closed, and it opens one only once it is restoring  *)
(* and holds it alone.  Somebody may still operate the store on the         *)
(* provider's own console: that is Staff, outside the application's control. *)
(***************************************************************************)
CONSTANTS Emergencies, Shops

VARIABLES
    begun,      \* the emergencies that have begun
    holders,    \* [Shops -> SUBSET Emergencies]: the live emergencies that hold it
    restoring,  \* the emergencies that are giving their stores back
    store       \* [Shops -> [open : BOOLEAN, by : who wrote it last]]

vars == <<begun, holders, restoring, store>>

Staff == "staff"
Opener == "opener"

Init == /\ begun \in SUBSET Emergencies
        /\ holders = [s \in Shops |-> {}]
        /\ restoring = {}
        /\ store \in [Shops -> [open : BOOLEAN, by : {Staff}]]

Begin(e) ==
    /\ e \notin begun /\ begun' = begun \cup {e}
    /\ \A s \in Shops : \/ holders'[s] = holders[s]
                        \/ holders[s] = {} /\ holders'[s] = {e}
    /\ UNCHANGED <<restoring, store>>

(* An emergency takes in stores, lets stores go, turns to restoring, ends or  *)
(* is taken up again: only its own hold changes.  One that is taken up again  *)
(* may find that a store is held by another: then neither can open it.        *)
Change(e) ==
    /\ e \in begun
    /\ restoring' \ {e} = restoring \ {e}
    /\ \A s \in Shops : holders'[s] \ {e} = holders[s] \ {e}
    /\ UNCHANGED <<begun, store>>

Close(e) ==
    \E s \in Shops :
        /\ e \in holders[s] /\ e \notin restoring
        /\ store' = [store EXCEPT ![s] = [open |-> FALSE, by |-> e]]
        /\ UNCHANGED <<begun, holders, restoring>>

GiveBack(e) ==
    \E s \in Shops :
        /\ holders[s] = {e} /\ e \in restoring
        /\ store' = [store EXCEPT ![s] = [open |-> TRUE, by |-> e]]
        /\ UNCHANGED <<begun, holders, restoring>>

Open(s) ==
    /\ holders[s] = {}
    /\ store' = [store EXCEPT ![s] = [open |-> TRUE, by |-> Opener]]
    /\ UNCHANGED <<begun, holders, restoring>>

Operate(s) ==
    /\ store' = [store EXCEPT ![s] = [open |-> ~ store[s].open, by |-> Staff]]
    /\ UNCHANGED <<begun, holders, restoring>>

Next == \/ \E e \in Emergencies : Begin(e) \/ Change(e) \/ Close(e) \/ GiveBack(e)
        \/ \E s \in Shops : Open(s) \/ Operate(s)

Spec == Init /\ [][Next]_vars
=============================================================================
