--------------------------- MODULE FencedResource ---------------------------
(***************************************************************************)
(* What a lease with fencing tokens promises, independently of how it is   *)
(* kept: terms are handed out one at a time and in increasing order, and   *)
(* only the holder of the latest term ever commits a checkpoint.  There    *)
(* are no clocks, heartbeats, transactions or processes here; module       *)
(* OperationalLease is shown to implement this one.                        *)
(***************************************************************************)
EXTENDS Naturals

VARIABLES
  term,       \* the last term granted (0: none yet)
  holder,     \* the term in force, 0 when nobody holds the resource
  lastCommit  \* the term under which the last checkpoint was written

fvars == <<term, holder, lastCommit>>

Init ==
  /\ term = 0
  /\ holder = 0
  /\ lastCommit = 0

\* A new holder: always under a fresh, larger term.
Grant ==
  /\ term' = term + 1
  /\ holder' = term + 1
  /\ UNCHANGED lastCommit

\* The holder gives the resource back.
Withdraw ==
  /\ holder # 0
  /\ holder' = 0
  /\ UNCHANGED <<term, lastCommit>>

\* A checkpoint, written under the term in force and no other.
Commit ==
  /\ holder # 0
  /\ lastCommit' = holder
  /\ UNCHANGED <<term, holder>>

Next == Grant \/ Withdraw \/ Commit

Spec == Init /\ [][Next]_fvars
=============================================================================
