--------------------------- MODULE OpeningsProofs ---------------------------
(* Proofs about AutoOpen and AutoTurnOff, for any brands, stores, workers,    *)
(* backends and events: the stores of a brand are opened by one worker, an    *)
(* execution is reported once; DiDi is told once of each store whose products *)
(* are turned off, and "done" means that all are.                             *)
(*                                                                            *)
(* Auto Open: a worker owns what the lock of its job stands for (Locks); the  *)
(* runs are created once, before anybody may find them complete (Prepared,    *)
(* Rows), and a run that is over stays so (Complete).  The turn-off: a row is *)
(* claimed once, because it never becomes pending again (Told, Begun).        *)
EXTENDS MCOpenings, TLAPS

-----------------------------------------------------------------------------
(* The invariant of Auto Open.                                                *)

OfTheBrand == {"brand", "claimed", "opening"}
OfTheExecution == {"prepare", "preparing", "queueing", "adding"}
AtTheEnd == {"reconcile", "settling"}
Statuses == {"done", "partial_success"}

\* A worker with a job.
Working(r) ==
  /\ {"at", "id", "lock", "again"} \subseteq DOMAIN r
  /\ r.at \in OfTheBrand \cup OfTheExecution \cup AtTheEnd
  /\ r.id \in Ids /\ r.lock \in BOOLEAN /\ r.again \in BOOLEAN
  /\ r.at \in OfTheBrand => r.id # Prepare
  /\ r.at \in OfTheExecution => r.id = Prepare
  /\ r.at = "adding" => "todo" \in DOMAIN r
  /\ r.at = "settling" => "status" \in DOMAIN r /\ r.status \in Statuses

\* A recovery under way.
Recovering(r) ==
  /\ "at" \in DOMAIN r
  /\ r.at \in {"listed", "condemned", "ensuring"} \cup AtTheEnd
  /\ r.at \in {"listed", "condemned"} => {"todo", "startup"} \subseteq DOMAIN r /\ r.startup \in BOOLEAN
  /\ r.at = "condemned" => "id" \in DOMAIN r /\ r.id \in Ids
  /\ r.at = "ensuring" => "todo" \in DOMAIN r
  /\ r.at = "settling" => {"status", "lock"} \subseteq DOMAIN r /\ r.status \in Statuses /\ r.lock = FALSE

\* Types, with what the records of the actors are made of.
Types ==
  /\ pool \subseteq Brands
  /\ exec \in {"none", "pending", "running", "done", "partial_success", "failed"}
  /\ caller \in {"none", "adding", "failing", "done"}
  /\ run \in [Brands -> {"none", "pending", "running"} \cup Terminal]
  /\ job \in [Ids -> {"absent", "waiting", "active", "ended"}]
  /\ DOMAIN actor = Actors
  /\ \A w \in Workers : actor[w] = Idle \/ Working(actor[w])
  /\ \A r \in Recoverers : actor[r] = Idle \/ Recovering(actor[r])
  /\ sent \in Nat /\ strayed \in BOOLEAN /\ events \in 0..MaxEvents

\* Every worker has the lock of its job, which is active, and no two the same; or
\* somebody has outlived a lock.
Locks ==
  /\ \A w \in Workers : actor[w] # Idle => actor[w].lock \/ strayed
  /\ \A w \in Workers : actor[w] # Idle /\ actor[w].lock => job[actor[w].id] = "active"
  /\ \A v, w \in Workers :
       /\ actor[v] # Idle /\ actor[v].lock
       /\ actor[w] # Idle /\ actor[w].lock
       /\ actor[v].id = actor[w].id
       => v = w

\* The runs are created once, by the one worker that has claimed the execution, and
\* nothing is reported before the execution has ended.
Prepared ==
  /\ exec \in {"none", "pending"} => Runs = {} /\ \A w \in Workers : actor[w].at # "preparing"
  /\ \A w \in Workers : actor[w].at = "preparing" =>
       Runs = {} /\ \A v \in Workers : actor[v].at = "preparing" => v = w
  /\ exec \in {"none", "pending", "running"} => sent = 0

\* There are jobs only for brands that have a row, and a recovery that may end the
\* execution has seen rows.
Rows ==
  /\ \A b \in Brands : job[b] # "absent" => b \in Runs
  /\ \A w \in Workers : actor[w] # Idle => actor[w].id \in Runs \cup {Prepare}
  /\ \A w \in Workers : actor[w].at = "adding" => actor[w].todo \subseteq Runs
  /\ \A r \in Recoverers :
       CASE actor[r].at = "listed" ->
              actor[r].todo = {Prepare} \/ (actor[r].todo \subseteq Runs /\ Runs # {})
         [] actor[r].at = "condemned" ->
              actor[r].id = Prepare \/ (actor[r].id \in Runs /\ actor[r].todo \subseteq Runs)
         [] actor[r].at = "ensuring" -> actor[r].todo = {Prepare} \/ actor[r].todo \subseteq Runs
         [] actor[r].at \in AtTheEnd -> Runs # {}
         [] OTHER -> TRUE

\* Who is about to end the execution has found every run over, and it still is.
Complete ==
  ~ strayed => \A a \in Actors : actor[a].at = "settling" => \A b \in Runs : run[b] \in Terminal

OpenInv == Types /\ Locks /\ Prepared /\ Rows /\ Complete

-----------------------------------------------------------------------------
(* Every step of Auto Open keeps it.                                         *)

LEMMA OpenInit == Init => OpenInv
<1> SUFFICES ASSUME Init PROVE OpenInv
  OBVIOUS
<1> USE AutoOpenConstants DEF Init, Idle, Ids, Actors, Runs
<1>1. Types
  BY DEF Types, Terminal
<1>2. Locks
  BY DEF Locks
<1>3. Prepared
  BY DEF Prepared
<1>4. Rows
  BY DEF Rows, AtTheEnd
<1>5. Complete
  BY DEF Complete
<1> QED
  BY <1>1, <1>2, <1>3, <1>4, <1>5 DEF OpenInv

LEMMA NextTypes == Types /\ [Next]_vars => Types'
<1> SUFFICES ASSUME Types, [Next]_vars PROVE Types'
  OBVIOUS
<1> USE AutoOpenConstants
    DEF Types, Working, Recovering, OfTheBrand, OfTheExecution, AtTheEnd, Statuses,
        Idle, Ids, Actors, Terminal, Goes, Moves, Ends, Leaves, Added, Spend
<1>1. CASE Create \/ Enqueue \/ EnqueueFails \/ GiveUp
  BY <1>1 DEF Create, Enqueue, EnqueueFails, GiveUp
<1>2. ASSUME NEW w \in Workers, NEW i \in Ids, Take(w, i) PROVE Types'
  BY <1>2 DEF Take
<1>3. ASSUME NEW w \in Workers, ClaimExecution(w) PROVE Types'
  <2>1. CASE exec = "pending"
    BY <1>3, <2>1 DEF ClaimExecution
  <2>2. CASE exec = "running"
    <3>1. Working([actor[w] EXCEPT !.at = "queueing", !.again = TRUE])
      BY <1>3 DEF ClaimExecution
    <3> HIDE DEF Working
    <3> QED
      BY <1>3, <2>2, <3>1 DEF ClaimExecution
  <2>3. CASE exec \notin {"pending", "running"}
    BY <1>3, <2>3 DEF ClaimExecution
  <2> QED
    BY <2>1, <2>2, <2>3
<1>4. ASSUME NEW w \in Workers, CreateRuns(w) PROVE Types'
  BY <1>4 DEF CreateRuns
<1>5. ASSUME NEW w \in Workers, ReadPending(w) PROVE Types'
  BY <1>5 DEF ReadPending
<1>6. ASSUME NEW w \in Workers, AddJobs(w) PROVE Types'
  BY <1>6 DEF AddJobs
<1>7. ASSUME NEW w \in Workers, PrepareFails(w) PROVE Types'
  BY <1>7 DEF PrepareFails
<1>8. ASSUME NEW w \in Workers, ClaimRun(w) PROVE Types'
  BY <1>8 DEF ClaimRun
<1>9. ASSUME NEW w \in Workers, LookAtExecution(w) PROVE Types'
  BY <1>9 DEF LookAtExecution
<1>10. ASSUME NEW w \in Workers, FinishBrand(w) PROVE Types'
  BY <1>10 DEF FinishBrand
<1>11. ASSUME NEW w \in Workers, BrandFails(w) PROVE Types'
  <2>1. CASE Ends(w)
    BY <1>11, <2>1 DEF BrandFails
  <2>2. CASE Goes(w, [actor[w] EXCEPT !.at = "reconcile", !.again = TRUE])
    <3>1. Working([actor[w] EXCEPT !.at = "reconcile", !.again = TRUE])
      BY <1>11 DEF BrandFails
    <3> HIDE DEF Working
    <3> QED
      BY <1>11, <2>2, <3>1 DEF BrandFails
  <2> QED
    BY <1>11, <2>1, <2>2 DEF BrandFails
<1>12. ASSUME NEW a \in Actors, ReadRuns(a) PROVE Types'
  <2>1. CASE Leaves(a)
    BY <1>12, <2>1 DEF ReadRuns
  <2> DEFINE status == IF \A b \in Runs : run[b] = "done" THEN "done" ELSE "partial_success"
  <2>2. CASE a \in Workers /\ ~ Leaves(a)
    <3>1. UNCHANGED job /\ Goes(a, [at |-> "settling", status |-> status, id |-> actor[a].id,
                                     lock |-> actor[a].lock, again |-> actor[a].again])
      BY <1>12, <2>2 DEF ReadRuns
    <3>2. actor[a] # Idle /\ status \in Statuses
      BY <1>12 DEF ReadRuns
    <3> HIDE DEF status
    <3> QED
      BY <1>12, <2>2, <3>1, <3>2 DEF ReadRuns
  <2>3. CASE a \notin Workers /\ ~ Leaves(a)
    <3>1. UNCHANGED job /\ Goes(a, [at |-> "settling", status |-> status, id |-> Prepare,
                                     lock |-> FALSE, again |-> FALSE])
      BY <1>12, <2>3 DEF ReadRuns
    <3>2. status \in Statuses
      OBVIOUS
    <3> HIDE DEF status
    <3> QED
      BY <1>12, <2>3, <3>1, <3>2 DEF ReadRuns
  <2> QED
    BY <2>1, <2>2, <2>3
<1>13. ASSUME NEW a \in Actors, Settle(a) PROVE Types'
  BY <1>13 DEF Settle
<1>14. ASSUME NEW w \in Workers, WorkerDies(w) PROVE Types'
  BY <1>14 DEF WorkerDies
<1>21. ASSUME NEW w \in Workers, LoseLock(w) PROVE Types'
  <2>1. Working([actor[w] EXCEPT !.lock = FALSE])
    BY <1>21 DEF LoseLock
  <2> HIDE DEF Working
  <2> QED
    BY <1>21, <2>1 DEF LoseLock
<1>15. ASSUME NEW i \in Ids, Stalled(i) PROVE Types'
  BY <1>15 DEF Stalled
<1>16. ASSUME NEW r \in Recoverers, List(r) \/ RecoveryFails(r) PROVE Types'
  <2>1. CASE List(r) /\ exec = "pending"
    BY <1>16, <2>1 DEF List
  <2>2. CASE List(r) /\ exec # "pending"
    <3>1. PICK startup \in BOOLEAN :
            \E todo : Goes(r, [at |-> "listed", startup |-> startup, todo |-> todo])
      BY <2>2 DEF List
    <3>2. PICK todo : Goes(r, [at |-> "listed", startup |-> startup, todo |-> todo])
      BY <3>1
    <3> QED
      BY <2>2, <3>2 DEF List
  <2>3. CASE RecoveryFails(r)
    BY <2>3 DEF RecoveryFails
  <2> QED
    BY <1>16, <2>1, <2>2, <2>3
<1>17. ASSUME NEW r \in Recoverers, NEW i \in Ids, Spare(r, i) \/ Condemn(r, i) PROVE Types'
  BY <1>17 DEF Spare, Condemn
<1>18. ASSUME NEW r \in Recoverers, CloseOrReset(r) \/ ListPending(r) PROVE Types'
  BY <1>18 DEF CloseOrReset, ListPending
<1>19. ASSUME NEW r \in Recoverers, NEW i \in Ids, EnsureJob(r, i) PROVE Types'
  BY <1>19 DEF EnsureJob
<1>20. CASE UNCHANGED vars
  BY <1>20 DEF vars
<1> QED
  BY <1>1, <1>2, <1>3, <1>4, <1>5, <1>6, <1>7, <1>8, <1>9, <1>10, <1>11, <1>12, <1>13,
     <1>14, <1>15, <1>16, <1>17, <1>18, <1>19, <1>20, <1>21 DEF Next, Work, Recover

\* What a second delivery of the job 'prepare' does.
Again(w) ==
  /\ UNCHANGED <<exec, run, job, sent, strayed>>
  /\ actor[w].at = "prepare" /\ actor'[w].at = "queueing"
  /\ UNCHANGED <<actor[w].id, actor[w].lock>>
  /\ \A a \in Actors : a # w => actor'[a] = actor[a]

LEMMA SecondDelivery ==
  ASSUME Types, NEW w \in Workers, ClaimExecution(w), exec = "running"
  PROVE  Again(w)
<1>1. /\ UNCHANGED <<exec, run, job, sent, strayed>> /\ actor[w].at = "prepare"
      /\ actor' = [actor EXCEPT ![w] = [actor[w] EXCEPT !.at = "queueing", !.again = TRUE]]
  BY Zenon DEF ClaimExecution, Goes
<1>2. {"at", "id", "lock", "again"} \subseteq DOMAIN actor[w]
  BY <1>1 DEF Types, Working, Idle
<1>3. DOMAIN actor = Actors /\ w \in Actors
  BY DEF Types, Actors
<1> QED
  BY <1>1, <1>2, <1>3 DEF Again

LEMMA NextLocks == Types /\ Locks /\ [Next]_vars => Locks'
<1> SUFFICES ASSUME Types, Locks, [Next]_vars PROVE Locks'
  OBVIOUS
<1>a. ASSUME NEW w \in Workers, ClaimExecution(w), exec = "running" PROVE Again(w)
  BY <1>a, SecondDelivery
<1> USE AutoOpenConstants
    DEF Types, Working, Recovering, OfTheBrand, OfTheExecution, AtTheEnd, Statuses,
        Idle, Ids, Actors, Goes, Moves, Ends, Leaves, Added, Locks
<1>1. CASE Create \/ Enqueue \/ EnqueueFails \/ GiveUp
  BY <1>1 DEF Create, Enqueue, EnqueueFails, GiveUp
<1>2. ASSUME NEW w \in Workers, NEW i \in Ids, Take(w, i) PROVE Locks'
  BY <1>2 DEF Take
<1>3. ASSUME NEW w \in Workers, ClaimExecution(w) PROVE Locks'
  <2>1. CASE exec = "pending"
    BY <1>3, <2>1 DEF ClaimExecution
  <2>2. CASE exec = "running"
    BY <1>3, <2>2, <1>a DEF Again
  <2>3. CASE exec \notin {"pending", "running"}
    BY <1>3, <2>3 DEF ClaimExecution
  <2> QED
    BY <2>1, <2>2, <2>3
<1>4. ASSUME NEW w \in Workers, CreateRuns(w) PROVE Locks'
  BY <1>4 DEF CreateRuns
<1>5. ASSUME NEW w \in Workers, ReadPending(w) PROVE Locks'
  BY <1>5 DEF ReadPending
<1>6. ASSUME NEW w \in Workers, AddJobs(w) PROVE Locks'
  BY <1>6 DEF AddJobs
<1>7. ASSUME NEW w \in Workers, PrepareFails(w) PROVE Locks'
  BY <1>7 DEF PrepareFails
<1>8. ASSUME NEW w \in Workers, ClaimRun(w) PROVE Locks'
  BY <1>8 DEF ClaimRun
<1>9. ASSUME NEW w \in Workers, LookAtExecution(w) PROVE Locks'
  BY <1>9 DEF LookAtExecution
<1>10. ASSUME NEW w \in Workers, FinishBrand(w) PROVE Locks'
  BY <1>10 DEF FinishBrand
<1>11. ASSUME NEW w \in Workers, BrandFails(w) PROVE Locks'
  <2>1. CASE Ends(w)
    BY <1>11, <2>1 DEF BrandFails
  <2>2. CASE Goes(w, [actor[w] EXCEPT !.at = "reconcile", !.again = TRUE])
    BY <1>11, <2>2 DEF BrandFails
  <2> QED
    BY <1>11, <2>1, <2>2 DEF BrandFails
<1>12. ASSUME NEW a \in Actors, ReadRuns(a) PROVE Locks'
  BY <1>12 DEF ReadRuns
<1>13. ASSUME NEW a \in Actors, Settle(a) PROVE Locks'
  BY <1>13 DEF Settle
<1>14. ASSUME NEW w \in Workers, WorkerDies(w) PROVE Locks'
  BY <1>14 DEF WorkerDies
<1>15. ASSUME NEW w \in Workers, LoseLock(w) PROVE Locks'
  BY <1>15 DEF LoseLock
<1>16. ASSUME NEW i \in Ids, Stalled(i) PROVE Locks'
  BY <1>16 DEF Stalled
<1>17. ASSUME NEW r \in Recoverers, List(r) PROVE Locks'
  BY <1>17 DEF List
<1>18. ASSUME NEW r \in Recoverers, NEW i \in Ids, Spare(r, i) \/ Condemn(r, i) PROVE Locks'
  BY <1>18 DEF Spare, Condemn
<1>19. ASSUME NEW r \in Recoverers, CloseOrReset(r) PROVE Locks'
  BY <1>19 DEF CloseOrReset
<1>20. ASSUME NEW r \in Recoverers, ListPending(r) PROVE Locks'
  BY <1>20 DEF ListPending
<1>21. ASSUME NEW r \in Recoverers, NEW i \in Ids, EnsureJob(r, i) PROVE Locks'
  BY <1>21 DEF EnsureJob, Alive
<1>22. ASSUME NEW r \in Recoverers, RecoveryFails(r) PROVE Locks'
  BY <1>22 DEF RecoveryFails
<1>23. CASE UNCHANGED vars
  BY <1>23 DEF vars
<1> QED
  BY <1>1, <1>2, <1>3, <1>4, <1>5, <1>6, <1>7, <1>8, <1>9, <1>10, <1>11, <1>12, <1>13,
     <1>14, <1>15, <1>16, <1>17, <1>18, <1>19, <1>20, <1>21, <1>22, <1>23 DEF Next, Work,
     Recover

LEMMA NextPrepared == Types /\ Prepared /\ Rows /\ [Next]_vars => Prepared'
<1> SUFFICES ASSUME Types, Prepared, Rows, [Next]_vars PROVE Prepared'
  OBVIOUS
<1>a. ASSUME NEW w \in Workers, ClaimExecution(w), exec = "running" PROVE Again(w)
  BY <1>a, SecondDelivery
<1> USE AutoOpenConstants
    DEF Types, Working, Recovering, OfTheBrand, OfTheExecution, AtTheEnd, Statuses,
        Idle, Ids, Actors, Goes, Moves, Ends, Leaves, Added, Prepared, Runs
<1>1. CASE Create \/ Enqueue \/ EnqueueFails \/ GiveUp
  BY <1>1 DEF Create, Enqueue, EnqueueFails, GiveUp
<1>2. ASSUME NEW w \in Workers, NEW i \in Ids, Take(w, i) PROVE Prepared'
  BY <1>2 DEF Take
<1>3. ASSUME NEW w \in Workers, ClaimExecution(w) PROVE Prepared'
  <2>1. CASE exec = "pending"
    BY <1>3, <2>1 DEF ClaimExecution
  <2>2. CASE exec = "running"
    BY <1>3, <2>2, <1>a DEF Again
  <2>3. CASE exec \notin {"pending", "running"}
    BY <1>3, <2>3 DEF ClaimExecution
  <2> QED
    BY <2>1, <2>2, <2>3
<1>4. ASSUME NEW w \in Workers, CreateRuns(w) PROVE Prepared'
  BY <1>4 DEF CreateRuns
<1>5. ASSUME NEW w \in Workers, ReadPending(w) PROVE Prepared'
  BY <1>5 DEF ReadPending
<1>6. ASSUME NEW w \in Workers, AddJobs(w) PROVE Prepared'
  BY <1>6 DEF AddJobs
<1>7. ASSUME NEW w \in Workers, PrepareFails(w) PROVE Prepared'
  BY <1>7 DEF PrepareFails
<1>8. ASSUME NEW w \in Workers, ClaimRun(w) PROVE Prepared'
  BY <1>8 DEF ClaimRun
<1>9. ASSUME NEW w \in Workers, LookAtExecution(w) PROVE Prepared'
  BY <1>9 DEF LookAtExecution
<1>10. ASSUME NEW w \in Workers, FinishBrand(w) PROVE Prepared'
  <2>1. run' \in {[run EXCEPT ![actor[w].id] = s] : s \in {"done", "partial_success", "failed"}}
    BY <1>10 DEF FinishBrand
  <2>2. actor[w].id \in Runs
    BY <1>10 DEF FinishBrand, Rows
  <2>3. Runs' = Runs
    BY <2>1, <2>2
  <2> HIDE DEF Runs
  <2> QED
    BY <1>10, <2>3 DEF FinishBrand
<1>11. ASSUME NEW w \in Workers, BrandFails(w) PROVE Prepared'
  <2>1. actor[w].id \in Runs
    BY <1>11 DEF BrandFails, Rows
  <2>2. Runs' = Runs
    BY <1>11, <2>1 DEF BrandFails
  <2> HIDE DEF Runs
  <2>3. CASE Ends(w)
    BY <1>11, <2>2, <2>3 DEF BrandFails
  <2>4. CASE Goes(w, [actor[w] EXCEPT !.at = "reconcile", !.again = TRUE])
    BY <1>11, <2>2, <2>4 DEF BrandFails
  <2> QED
    BY <1>11, <2>3, <2>4 DEF BrandFails
<1>12. ASSUME NEW a \in Actors, ReadRuns(a) PROVE Prepared'
  BY <1>12 DEF ReadRuns
<1>13. ASSUME NEW a \in Actors, Settle(a) PROVE Prepared'
  BY <1>13 DEF Settle
<1>14. ASSUME NEW w \in Workers, WorkerDies(w) PROVE Prepared'
  BY <1>14 DEF WorkerDies
<1>15. ASSUME NEW w \in Workers, LoseLock(w) PROVE Prepared'
  BY <1>15 DEF LoseLock
<1>16. ASSUME NEW i \in Ids, Stalled(i) PROVE Prepared'
  BY <1>16 DEF Stalled
<1>17. ASSUME NEW r \in Recoverers, List(r) PROVE Prepared'
  BY <1>17 DEF List
<1>18. ASSUME NEW r \in Recoverers, NEW i \in Ids, Spare(r, i) \/ Condemn(r, i) PROVE Prepared'
  BY <1>18 DEF Spare, Condemn
<1>19. ASSUME NEW r \in Recoverers, CloseOrReset(r) PROVE Prepared'
  BY <1>19 DEF CloseOrReset
<1>20. ASSUME NEW r \in Recoverers, ListPending(r) PROVE Prepared'
  BY <1>20 DEF ListPending
<1>21. ASSUME NEW r \in Recoverers, NEW i \in Ids, EnsureJob(r, i) PROVE Prepared'
  BY <1>21 DEF EnsureJob
<1>22. ASSUME NEW r \in Recoverers, RecoveryFails(r) PROVE Prepared'
  BY <1>22 DEF RecoveryFails
<1>23. CASE UNCHANGED vars
  BY <1>23 DEF vars
<1> QED
  BY <1>1, <1>2, <1>3, <1>4, <1>5, <1>6, <1>7, <1>8, <1>9, <1>10, <1>11, <1>12, <1>13,
     <1>14, <1>15, <1>16, <1>17, <1>18, <1>19, <1>20, <1>21, <1>22, <1>23 DEF Next, Work,
     Recover

LEMMA NextRows == Types /\ Prepared /\ Rows /\ [Next]_vars => Rows'
<1> SUFFICES ASSUME Types, Prepared, Rows, [Next]_vars PROVE Rows'
  OBVIOUS
<1>a. ASSUME NEW w \in Workers, ClaimExecution(w), exec = "running" PROVE Again(w)
  BY <1>a, SecondDelivery
<1> USE AutoOpenConstants
    DEF Types, Working, Recovering, OfTheBrand, OfTheExecution, AtTheEnd, Statuses,
        Idle, Ids, Actors, Goes, Moves, Ends, Leaves, Added, Rows, Prepared, Runs, Pending
<1>1. CASE Create \/ Enqueue \/ EnqueueFails \/ GiveUp
  BY <1>1 DEF Create, Enqueue, EnqueueFails, GiveUp
<1>2. ASSUME NEW w \in Workers, NEW i \in Ids, Take(w, i) PROVE Rows'
  BY <1>2 DEF Take
<1>3. ASSUME NEW w \in Workers, ClaimExecution(w) PROVE Rows'
  <2>1. CASE exec = "pending"
    BY <1>3, <2>1 DEF ClaimExecution
  <2>2. CASE exec = "running"
    BY <1>3, <2>2, <1>a DEF Again
  <2>3. CASE exec \notin {"pending", "running"}
    BY <1>3, <2>3 DEF ClaimExecution
  <2> QED
    BY <2>1, <2>2, <2>3
<1>4. ASSUME NEW w \in Workers, CreateRuns(w) PROVE Rows'
  <2>1. Runs = {} /\ Runs \subseteq Runs'
    BY <1>4 DEF CreateRuns
  <2> HIDE DEF Runs
  <2>2. CASE Moves(w, "queueing")
    BY <1>4, <2>1, <2>2 DEF CreateRuns
  <2>3. CASE Ends(w)
    BY <1>4, <2>1, <2>3 DEF CreateRuns
  <2> QED
    BY <1>4, <2>2, <2>3 DEF CreateRuns
<1>5. ASSUME NEW w \in Workers, ReadPending(w) PROVE Rows'
  BY <1>5 DEF ReadPending
<1>6. ASSUME NEW w \in Workers, AddJobs(w) PROVE Rows'
  BY <1>6 DEF AddJobs
<1>7. ASSUME NEW w \in Workers, PrepareFails(w) PROVE Rows'
  BY <1>7 DEF PrepareFails
<1>8. ASSUME NEW w \in Workers, ClaimRun(w) PROVE Rows'
  BY <1>8 DEF ClaimRun
<1>9. ASSUME NEW w \in Workers, LookAtExecution(w) PROVE Rows'
  BY <1>9 DEF LookAtExecution
<1>10. ASSUME NEW w \in Workers, FinishBrand(w) PROVE Rows'
  BY <1>10 DEF FinishBrand
<1>11. ASSUME NEW w \in Workers, BrandFails(w) PROVE Rows'
  <2>1. CASE Ends(w)
    BY <1>11, <2>1 DEF BrandFails
  <2>2. CASE Goes(w, [actor[w] EXCEPT !.at = "reconcile", !.again = TRUE])
    BY <1>11, <2>2 DEF BrandFails
  <2> QED
    BY <1>11, <2>1, <2>2 DEF BrandFails
<1>12. ASSUME NEW a \in Actors, ReadRuns(a) PROVE Rows'
  BY <1>12 DEF ReadRuns
<1>13. ASSUME NEW a \in Actors, Settle(a) PROVE Rows'
  BY <1>13 DEF Settle
<1>14. ASSUME NEW w \in Workers, WorkerDies(w) PROVE Rows'
  BY <1>14 DEF WorkerDies
<1>15. ASSUME NEW w \in Workers, LoseLock(w) PROVE Rows'
  BY <1>15 DEF LoseLock
<1>16. ASSUME NEW i \in Ids, Stalled(i) PROVE Rows'
  BY <1>16 DEF Stalled
<1>17. ASSUME NEW r \in Recoverers, List(r) PROVE Rows'
  BY <1>17 DEF List
<1>18. ASSUME NEW r \in Recoverers, NEW i \in Ids, Spare(r, i) \/ Condemn(r, i) PROVE Rows'
  BY <1>18 DEF Spare, Condemn
<1>19. ASSUME NEW r \in Recoverers, CloseOrReset(r) PROVE Rows'
  BY <1>19 DEF CloseOrReset
<1>20. ASSUME NEW r \in Recoverers, ListPending(r) PROVE Rows'
  BY <1>20 DEF ListPending
<1>21. ASSUME NEW r \in Recoverers, NEW i \in Ids, EnsureJob(r, i) PROVE Rows'
  BY <1>21 DEF EnsureJob
<1>22. ASSUME NEW r \in Recoverers, RecoveryFails(r) PROVE Rows'
  BY <1>22 DEF RecoveryFails
<1>23. CASE UNCHANGED vars
  BY <1>23 DEF vars
<1> QED
  BY <1>1, <1>2, <1>3, <1>4, <1>5, <1>6, <1>7, <1>8, <1>9, <1>10, <1>11, <1>12, <1>13,
     <1>14, <1>15, <1>16, <1>17, <1>18, <1>19, <1>20, <1>21, <1>22, <1>23 DEF Next, Work,
     Recover

LEMMA NextComplete == Types /\ Locks /\ Prepared /\ Rows /\ Complete /\ [Next]_vars => Complete'
<1> SUFFICES ASSUME Types, Locks, Prepared, Rows, Complete, [Next]_vars PROVE Complete'
  OBVIOUS
<1>a. ASSUME NEW w \in Workers, ClaimExecution(w), exec = "running" PROVE Again(w)
  BY <1>a, SecondDelivery
<1> USE AutoOpenConstants
    DEF Types, Working, Recovering, OfTheBrand, OfTheExecution, AtTheEnd, Statuses,
        Idle, Ids, Actors, Goes, Moves, Ends, Leaves, Added, Complete, Locks, Prepared, Rows, Runs, Terminal
<1>1. CASE Create \/ Enqueue \/ EnqueueFails \/ GiveUp
  BY <1>1 DEF Create, Enqueue, EnqueueFails, GiveUp
<1>2. ASSUME NEW w \in Workers, NEW i \in Ids, Take(w, i) PROVE Complete'
  BY <1>2 DEF Take
<1>3. ASSUME NEW w \in Workers, ClaimExecution(w) PROVE Complete'
  <2>1. CASE exec = "pending"
    BY <1>3, <2>1 DEF ClaimExecution
  <2>2. CASE exec = "running"
    BY <1>3, <2>2, <1>a DEF Again
  <2>3. CASE exec \notin {"pending", "running"}
    BY <1>3, <2>3 DEF ClaimExecution
  <2> QED
    BY <2>1, <2>2, <2>3
<1>4. ASSUME NEW w \in Workers, CreateRuns(w) PROVE Complete'
  BY <1>4 DEF CreateRuns
<1>5. ASSUME NEW w \in Workers, ReadPending(w) PROVE Complete'
  BY <1>5 DEF ReadPending
<1>6. ASSUME NEW w \in Workers, AddJobs(w) PROVE Complete'
  BY <1>6 DEF AddJobs
<1>7. ASSUME NEW w \in Workers, PrepareFails(w) PROVE Complete'
  BY <1>7 DEF PrepareFails
<1>8. ASSUME NEW w \in Workers, ClaimRun(w) PROVE Complete'
  BY <1>8 DEF ClaimRun
<1>9. ASSUME NEW w \in Workers, LookAtExecution(w) PROVE Complete'
  BY <1>9 DEF LookAtExecution
<1>10. ASSUME NEW w \in Workers, FinishBrand(w) PROVE Complete'
  BY <1>10 DEF FinishBrand
<1>11. ASSUME NEW w \in Workers, BrandFails(w) PROVE Complete'
  <2>1. CASE Ends(w)
    BY <1>11, <2>1 DEF BrandFails
  <2>2. CASE Goes(w, [actor[w] EXCEPT !.at = "reconcile", !.again = TRUE])
    BY <1>11, <2>2 DEF BrandFails
  <2> QED
    BY <1>11, <2>1, <2>2 DEF BrandFails
<1>12. ASSUME NEW a \in Actors, ReadRuns(a) PROVE Complete'
  BY <1>12 DEF ReadRuns
<1>13. ASSUME NEW a \in Actors, Settle(a) PROVE Complete'
  BY <1>13 DEF Settle
<1>14. ASSUME NEW w \in Workers, WorkerDies(w) PROVE Complete'
  BY <1>14 DEF WorkerDies
<1>15. ASSUME NEW w \in Workers, LoseLock(w) PROVE Complete'
  BY <1>15 DEF LoseLock
<1>16. ASSUME NEW i \in Ids, Stalled(i) PROVE Complete'
  BY <1>16 DEF Stalled
<1>17. ASSUME NEW r \in Recoverers, List(r) PROVE Complete'
  BY <1>17 DEF List
<1>18. ASSUME NEW r \in Recoverers, NEW i \in Ids, Spare(r, i) \/ Condemn(r, i) PROVE Complete'
  BY <1>18 DEF Spare, Condemn
<1>19. ASSUME NEW r \in Recoverers, CloseOrReset(r) PROVE Complete'
  BY <1>19 DEF CloseOrReset
<1>20. ASSUME NEW r \in Recoverers, ListPending(r) PROVE Complete'
  BY <1>20 DEF ListPending
<1>21. ASSUME NEW r \in Recoverers, NEW i \in Ids, EnsureJob(r, i) PROVE Complete'
  BY <1>21 DEF EnsureJob
<1>22. ASSUME NEW r \in Recoverers, RecoveryFails(r) PROVE Complete'
  BY <1>22 DEF RecoveryFails
<1>23. CASE UNCHANGED vars
  BY <1>23 DEF vars
<1> QED
  BY <1>1, <1>2, <1>3, <1>4, <1>5, <1>6, <1>7, <1>8, <1>9, <1>10, <1>11, <1>12, <1>13,
     <1>14, <1>15, <1>16, <1>17, <1>18, <1>19, <1>20, <1>21, <1>22, <1>23 DEF Next, Work,
     Recover

-----------------------------------------------------------------------------
(* The theorems about Auto Open.                                             *)

\* The inductive invariant: workers and the locks of their jobs, rows and their
\* jobs, and what those who may end the execution know.
THEOREM OpenInvariant == Spec => []OpenInv
<1>1. OpenInv /\ [Next]_vars => OpenInv'
  BY NextTypes, NextLocks, NextPrepared, NextRows, NextComplete DEF OpenInv
<1> QED
  BY OpenInit, <1>1, PTL DEF Spec

\* Every variable keeps its type.
THEOREM TypeCorrect == Spec => []TypeOK
<1>1. OpenInv => TypeOK
  <2> SUFFICES ASSUME OpenInv PROVE TypeOK
    OBVIOUS
  <2>1. \A a \in Actors : actor[a].at \in States
    BY DEF OpenInv, Types, Working, Recovering, OfTheBrand, OfTheExecution, AtTheEnd,
       Actors, States, Idle
  <2> QED
    BY <2>1 DEF OpenInv, Types, TypeOK
<1> QED
  BY <1>1, OpenInvariant, PTL

\* processBrand: the stores of a brand are opened by one worker at a time, unless a
\* worker has outlived the lock of its job.
THEOREM OneOpenerHolds == Spec => []OneOpener
<1>1. OpenInv => OneOpener
  BY DEF OpenInv, Locks, OneOpener, Idle
<1> QED
  BY <1>1, OpenInvariant, PTL

\* reconcileExecution: an execution is reported once, and with every run at its end.
THEOREM ReportedOnceHolds == Spec => ReportedOnce
<1>1. ASSUME OpenInv, Next, sent' # sent
      PROVE  sent = 0 /\ (strayed \/ \A b \in Runs : run[b] \in Terminal)
  <2>1. ASSUME NEW a \in Actors, Settle(a)
        PROVE  sent = 0 /\ (strayed \/ \A b \in Runs : run[b] \in Terminal)
    BY <1>1, <2>1 DEF OpenInv, Types, Prepared, Complete, Settle
  <2>2. ~ (Create \/ Enqueue \/ EnqueueFails \/ GiveUp)
    BY <1>1 DEF Create, Enqueue, EnqueueFails, GiveUp
  <2>3. ASSUME NEW w \in Workers
        PROVE  /\ ~ (PrepareFails(w) \/ BrandFails(w) \/ WorkerDies(w) \/ LoseLock(w))
               /\ \A i \in Ids : ~ Take(w, i)
    BY <1>1 DEF PrepareFails, BrandFails, WorkerDies, LoseLock, Take
  <2>4. ASSUME NEW w \in Workers, Work(w) PROVE Settle(w)
    BY <1>1, <2>4 DEF Work, ClaimExecution, CreateRuns, ReadPending, AddJobs, ClaimRun,
       LookAtExecution, FinishBrand, ReadRuns
  <2>5. ASSUME NEW r \in Recoverers, Recover(r) \/ RecoveryFails(r) PROVE Settle(r)
    BY <1>1, <2>5 DEF Recover, RecoveryFails, List, CloseOrReset, ListPending, ReadRuns,
       Spare, Condemn, EnsureJob
  <2>6. ASSUME NEW i \in Ids PROVE ~ Stalled(i)
    BY <1>1 DEF Stalled
  <2> QED
    BY <1>1, <2>1, <2>2, <2>3, <2>4, <2>5, <2>6 DEF Next, Actors
<1>2. OpenInv /\ [Next]_vars =>
        [sent' # sent => sent = 0 /\ (strayed \/ \A b \in Runs : run[b] \in Terminal)]_vars
  BY <1>1
<1> QED
  BY <1>2, OpenInvariant, PTL DEF Spec, ReportedOnce

-----------------------------------------------------------------------------
(* The invariant of an execution that turns products off.                    *)

TellPlaces == {"ensure", "call"}
StorePlaces == {"claim", "ensure", "call", "cancel", "answer"}
Beginning == {"prepare", "read", "create"}
AllPlaces == StorePlaces \cup Beginning \cup
  {"begin", "publish", "published", "unpublished", "continue", "enqueue", "resolve", "finalize", "failed"}

\* A worker with a job.
Handling(r) ==
  /\ {"at", "job", "own", "seen"} \subseteq DOMAIN r
  /\ r.at \in AllPlaces
  /\ r.at \in StorePlaces => r.job \in Stores

OffTypes ==
  /\ turnOff \in {"pending", "running", "done", "partial_success", "failed", "cancelled"}
  /\ shop \in [Stores -> {"none", "running", "done", "partial_success", "failed", "cancelled"}
                            \cup TurnOff!Pending]
  /\ DOMAIN worker = Workers
  /\ \A w \in Workers : worker[w] = TurnOff!Idle \/ Handling(worker[w])
  /\ calls \in [Stores -> {0, 1}]

\* The store has not been claimed.
Unclaimed(s) == shop[s] \in {"none"} \cup TurnOff!Pending

\* Worker w has claimed store s and not told DiDi yet.
Claims(w, s) == worker[w].at \in TellPlaces /\ worker[w].job = s

\* DiDi is told of a store by the worker that has claimed it, of which there is one,
\* and no store is claimed twice.
Told ==
  /\ \A s \in Stores : Unclaimed(s) => calls[s] = 0
  /\ \A w \in Workers, s \in Stores : Claims(w, s) => calls[s] = 0 /\ ~ Unclaimed(s)
  /\ \A v, w \in Workers, s \in Stores : Claims(v, s) /\ Claims(w, s) => v = w
  /\ \A w \in Workers : worker[w].at = "answer" =>
       calls[worker[w].job] = 1 /\ worker[w].seen \in TurnOff!Verdicts
  /\ \A s \in Stores : shop[s] = "done" => calls[s] = 1

\* Before the rows are written, by one coordinator, there are none.
Begun ==
  /\ \A w \in Workers : worker[w].at \in Beginning =>
       /\ turnOff # "pending" /\ \A s \in Stores : shop[s] = "none"
       /\ \A v \in Workers : worker[v].at \in Beginning => v = w
  /\ turnOff = "pending" => \A s \in Stores : shop[s] = "none"

\* Nothing is taken back from an execution that is done.
AllOff == turnOff = "done" => \A s \in Stores : shop[s] = "done"

OffInv == OffTypes /\ Told /\ Begun /\ AllOff

-----------------------------------------------------------------------------
(* Every step of that execution keeps it.                                    *)

LEMMA OffInit == TurnOff!Init => OffInv
<1> SUFFICES ASSUME TurnOff!Init PROVE OffInv
  OBVIOUS
<1> USE DEF TurnOff!Init, TurnOff!Idle
<1>1. OffTypes
  BY DEF OffTypes
<1>2. Told
  BY DEF Told, Claims, TellPlaces
<1>3. Begun /\ AllOff
  BY DEF Begun, AllOff, Beginning
<1> QED
  BY <1>1, <1>2, <1>3 DEF OffInv

\* Worker w turns to something that neither begins an execution nor handles a store.
Elsewhere(w) ==
  /\ DOMAIN worker' = Workers
  /\ worker'[w] = TurnOff!Idle \/ Handling(worker'[w])
  /\ worker'[w].at \notin StorePlaces \cup Beginning
  /\ \A v \in Workers : v # w => worker'[v] = worker[v]
  /\ UNCHANGED <<turnOff, shop, calls>>

\* A step to another place, to none, or to the handler of a failed job.
LEMMA GoesElsewhere ==
  ASSUME OffTypes, NEW w \in Workers, NEW r, TurnOff!Goes(w, r),
         Handling(r), r.at \notin StorePlaces \cup Beginning, UNCHANGED <<turnOff, shop, calls>>
  PROVE  Elsewhere(w)
<1>1. worker'[w] = r /\ DOMAIN worker' = Workers
  BY DEF OffTypes, TurnOff!Goes
<1>2. \A v \in Workers : v # w => worker'[v] = worker[v]
  BY DEF OffTypes, TurnOff!Goes
<1> QED
  BY Zenon, <1>1, <1>2 DEF Elsewhere

LEMMA LeavesElsewhere ==
  ASSUME OffTypes, NEW w \in Workers, TurnOff!Goes(w, TurnOff!Idle), UNCHANGED <<turnOff, shop, calls>>
  PROVE  Elsewhere(w)
BY DEF OffTypes, TurnOff!Goes, Elsewhere, TurnOff!Idle, StorePlaces, Beginning

LEMMA FailsElsewhere ==
  ASSUME OffTypes, NEW w \in Workers, worker[w] # TurnOff!Idle, TurnOff!Fails(w),
         UNCHANGED <<turnOff, shop, calls>>
  PROVE  Elsewhere(w)
<1> DEFINE failed == [worker[w] EXCEPT !.at = "failed", !.own = FALSE]
<1>1. TurnOff!Goes(w, TurnOff!Idle) \/ TurnOff!Goes(w, failed)
  BY DEF TurnOff!Fails
<1>2. Handling(worker[w])
  BY DEF OffTypes
<1>3. Handling(failed) /\ failed.at \notin StorePlaces \cup Beginning
  BY <1>2 DEF Handling, AllPlaces, StorePlaces, Beginning
<1> QED
  BY <1>1, <1>3, GoesElsewhere, LeavesElsewhere

\* A job that fails, and one that looks for what is next.
LEMMA OthersElsewhere ==
  ASSUME OffTypes, NEW w \in Workers, TurnOff!Throws(w) \/ TurnOff!Continue(w)
  PROVE  Elsewhere(w)
<1>1. CASE TurnOff!Throws(w)
  BY <1>1, FailsElsewhere DEF TurnOff!Throws, TurnOff!Idle
<1>2. CASE TurnOff!Continue(w)
  <2>1. UNCHANGED <<turnOff, shop, calls>>
    BY <1>2 DEF TurnOff!Continue
  <2>2. worker[w].at = "continue"
    BY <1>2 DEF TurnOff!Continue, TurnOff!Is
  <2>3. worker[w] # TurnOff!Idle
    BY <2>2 DEF TurnOff!Idle
  <2>4. Handling(worker[w])
    BY <2>3 DEF OffTypes
  <2>5. CASE TurnOff!Completes(w)
    BY <2>1, <2>5, LeavesElsewhere DEF TurnOff!Completes, TurnOff!Leaves
  <2>6. ASSUME NEW s, TurnOff!Goes(w, [worker[w] EXCEPT !.at = "enqueue", !.seen = s]) PROVE Elsewhere(w)
    <3> DEFINE r == [worker[w] EXCEPT !.at = "enqueue", !.seen = s]
    <3>1. Handling(r) /\ r.at \notin StorePlaces \cup Beginning
      BY <2>4 DEF Handling, AllPlaces, StorePlaces, Beginning
    <3> QED
      BY <2>1, <2>6, <3>1, GoesElsewhere
  <2>7. ASSUME NEW a \in {"resolve", "finalize"}, TurnOff!Moves(w, a) PROVE Elsewhere(w)
    <3> DEFINE r == [worker[w] EXCEPT !.at = a]
    <3>1. Handling(r) /\ r.at \notin StorePlaces \cup Beginning
      BY <2>4 DEF Handling, AllPlaces, StorePlaces, Beginning
    <3> QED
      BY <2>1, <2>7, <3>1, GoesElsewhere DEF TurnOff!Moves
  <2> QED
    BY <1>2, <2>5, <2>6, <2>7 DEF TurnOff!Continue
<1> QED
  BY <1>1, <1>2

\* The coordinator goes on, is through, or fails.
LEMMA CoordinatorMoves ==
  ASSUME OffTypes, NEW w \in Workers
  PROVE  /\ TurnOff!Preparation(w) =>
              \/ Elsewhere(w) \/ TurnOff!Completes(w)
              \/ TurnOff!Moves(w, "read") /\ UNCHANGED <<turnOff, shop>>
         /\ TurnOff!Read(w) => Elsewhere(w) \/ TurnOff!Moves(w, "create")
<1>1. TurnOff!Preparation(w) \/ TurnOff!Read(w) => worker[w] # TurnOff!Idle /\ UNCHANGED calls
  BY DEF TurnOff!Preparation, TurnOff!Read, TurnOff!Is, TurnOff!Idle
<1>2. worker[w] # TurnOff!Idle /\ TurnOff!Fails(w) /\ UNCHANGED <<turnOff, shop, calls>> => Elsewhere(w)
  BY FailsElsewhere
<1>3. TurnOff!Preparation(w) =>
        \/ TurnOff!Completes(w)
        \/ (TurnOff!Fails(w) \/ TurnOff!Moves(w, "read")) /\ UNCHANGED <<turnOff, shop>>
  BY DEF TurnOff!Preparation
<1>4. TurnOff!Read(w) => TurnOff!Moves(w, "create") \/ (TurnOff!Fails(w) /\ UNCHANGED <<turnOff, shop>>)
  BY DEF TurnOff!Read
<1>5. TurnOff!Preparation(w) =>
        \/ Elsewhere(w) \/ TurnOff!Completes(w)
        \/ TurnOff!Moves(w, "read") /\ UNCHANGED <<turnOff, shop>>
  <2> SUFFICES ASSUME TurnOff!Preparation(w), ~ TurnOff!Completes(w)
               PROVE  Elsewhere(w) \/ (TurnOff!Moves(w, "read") /\ UNCHANGED <<turnOff, shop>>)
    OBVIOUS
  <2>1. UNCHANGED <<turnOff, shop, calls>>
    BY <1>1, <1>3
  <2>2. TurnOff!Fails(w) => Elsewhere(w)
    BY <1>1, <1>2, <2>1
  <2> QED
    BY <1>3, <2>1, <2>2
<1>6. TurnOff!Read(w) => Elsewhere(w) \/ TurnOff!Moves(w, "create")
  BY <1>1, <1>2, <1>4
<1> QED
  BY <1>5, <1>6

LEMMA NextOffTypes == OffTypes /\ Told /\ Begun /\ [TurnOff!Next]_TurnOff!vars => OffTypes'
<1> SUFFICES ASSUME OffTypes, Told, Begun, [TurnOff!Next]_TurnOff!vars PROVE OffTypes'
  OBVIOUS
<1>a. ASSUME NEW w \in Workers, TurnOff!Throws(w) \/ TurnOff!Continue(w) PROVE Elsewhere(w)
  BY <1>a, OthersElsewhere
<1>b. ASSUME NEW w \in Workers
       PROVE  /\ TurnOff!Preparation(w) =>
                   \/ Elsewhere(w) \/ TurnOff!Completes(w)
                   \/ TurnOff!Moves(w, "read") /\ UNCHANGED <<turnOff, shop>>
              /\ TurnOff!Read(w) => Elsewhere(w) \/ TurnOff!Moves(w, "create")
  BY CoordinatorMoves
<1> USE DEF OffTypes, Handling, StorePlaces, Beginning, AllPlaces, TurnOff!Idle,
        TurnOff!Active, TurnOff!Queued, TurnOff!Pending, TurnOff!Unsettled,
        TurnOff!Verdicts, TurnOff!JobIds, TurnOff!SettleAll, TurnOff!Goes, TurnOff!Moves,
        TurnOff!Is, TurnOff!Leaves, TurnOff!Completes, TurnOff!Fails, TurnOff!FinishShop,
        TurnOff!Spend, TurnOff!Unknown, Told, Claims, TellPlaces
<1>1. CASE TurnOff!Enqueue \/ TurnOff!EnqueueFails \/ TurnOff!Unqueued
  BY <1>1 DEF TurnOff!Enqueue, TurnOff!EnqueueFails, TurnOff!Unqueued
<1>2. ASSUME NEW w \in Workers, TurnOff!Begin(w) PROVE OffTypes'
  BY <1>2 DEF TurnOff!Begin
<1>3. ASSUME NEW w \in Workers, TurnOff!Preparation(w) PROVE OffTypes'
  <2>1. CASE TurnOff!Moves(w, "read") /\ UNCHANGED <<turnOff, shop>>
    BY <1>3, <2>1 DEF TurnOff!Preparation
  <2>2. CASE Elsewhere(w)
    BY <2>2 DEF Elsewhere
  <2>3. CASE TurnOff!Completes(w)
    BY <1>3, <2>3 DEF TurnOff!Preparation
  <2> QED
    BY <1>3, <1>b, <2>1, <2>2, <2>3
<1>4. ASSUME NEW w \in Workers, TurnOff!Read(w) PROVE OffTypes'
  <2>1. CASE TurnOff!Moves(w, "create")
    BY <1>4, <2>1 DEF TurnOff!Read
  <2>2. CASE Elsewhere(w)
    BY <2>2 DEF Elsewhere
  <2> QED
    BY <1>4, <1>b, <2>1, <2>2
<1>5. ASSUME NEW w \in Workers, TurnOff!Create(w) PROVE OffTypes'
  BY <1>5 DEF TurnOff!Create
<1>6. ASSUME NEW w \in Workers, TurnOff!PublishFirst(w) PROVE OffTypes'
  BY <1>6 DEF TurnOff!PublishFirst
<1>7. ASSUME NEW w \in Workers, TurnOff!Published(w) PROVE OffTypes'
  BY <1>7 DEF TurnOff!Published
<1>8. ASSUME NEW w \in Workers, TurnOff!Unpublished(w) PROVE OffTypes'
  BY <1>8 DEF TurnOff!Unpublished
<1>9. ASSUME NEW w \in Workers, TurnOff!Claim(w) PROVE OffTypes'
  BY <1>9 DEF TurnOff!Claim
<1>10. ASSUME NEW w \in Workers, TurnOff!Ensure(w) PROVE OffTypes'
  BY <1>10 DEF TurnOff!Ensure
<1>11. ASSUME NEW w \in Workers, TurnOff!Call(w) PROVE OffTypes'
  BY <1>11 DEF TurnOff!Call
<1>12. ASSUME NEW w \in Workers, TurnOff!Cancel(w) PROVE OffTypes'
  BY <1>12 DEF TurnOff!Cancel
<1>13. ASSUME NEW w \in Workers, TurnOff!Answer(w) PROVE OffTypes'
  BY <1>13 DEF TurnOff!Answer
<1>14. ASSUME NEW w \in Workers, TurnOff!Continue(w) PROVE OffTypes'
  BY <1>14, <1>a DEF Elsewhere
<1>15. ASSUME NEW w \in Workers, TurnOff!EnqueueShop(w) PROVE OffTypes'
  BY <1>15 DEF TurnOff!EnqueueShop
<1>16. ASSUME NEW w \in Workers, TurnOff!Resolve(w) PROVE OffTypes'
  BY <1>16 DEF TurnOff!Resolve
<1>17. ASSUME NEW w \in Workers, TurnOff!Finalize(w) PROVE OffTypes'
  BY <1>17 DEF TurnOff!Finalize, TurnOff!FinalStatus
<1>18. ASSUME NEW w \in Workers, TurnOff!OnFailed(w) PROVE OffTypes'
  BY <1>18 DEF TurnOff!OnFailed
<1>19. ASSUME NEW w \in Workers, TurnOff!ShopFails(w) PROVE OffTypes'
  BY <1>19 DEF TurnOff!ShopFails
<1>20. ASSUME NEW w \in Workers, TurnOff!Throws(w) PROVE OffTypes'
  BY <1>20, <1>a DEF Elsewhere
<1>21. ASSUME NEW w \in Workers, TurnOff!Die(w) PROVE OffTypes'
  BY <1>21 DEF TurnOff!Die
<1>22. ASSUME NEW w \in Workers, TurnOff!LoseLock(w) PROVE OffTypes'
  BY <1>22 DEF TurnOff!LoseLock
<1>23. ASSUME NEW w \in Workers, NEW j \in TurnOff!JobIds, TurnOff!Take(w, j) PROVE OffTypes'
  BY <1>23 DEF TurnOff!Take
<1>24. ASSUME NEW j \in TurnOff!JobIds, TurnOff!Stalled(j) PROVE OffTypes'
  BY <1>24 DEF TurnOff!Stalled
<1>25. CASE TurnOff!Stop
  BY <1>25 DEF TurnOff!Stop
<1>26. CASE TurnOff!Recover
  BY <1>26 DEF TurnOff!Recover
<1>27. CASE UNCHANGED TurnOff!vars
  BY <1>27 DEF TurnOff!vars
<1> QED
  BY <1>1, <1>2, <1>3, <1>4, <1>5, <1>6, <1>7, <1>8, <1>9, <1>10, <1>11, <1>12, <1>13,
     <1>14, <1>15, <1>16, <1>17, <1>18, <1>19, <1>20, <1>21, <1>22, <1>23, <1>24, <1>25,
     <1>26, <1>27 DEF TurnOff!Next, TurnOff!Work

LEMMA NextTold == OffTypes /\ Told /\ Begun /\ [TurnOff!Next]_TurnOff!vars => Told'
<1> SUFFICES ASSUME OffTypes, Told, Begun, [TurnOff!Next]_TurnOff!vars PROVE Told'
  OBVIOUS
<1>a. ASSUME NEW w \in Workers, TurnOff!Throws(w) \/ TurnOff!Continue(w) PROVE Elsewhere(w)
  BY <1>a, OthersElsewhere
<1>b. ASSUME NEW w \in Workers
       PROVE  /\ TurnOff!Preparation(w) =>
                   \/ Elsewhere(w) \/ TurnOff!Completes(w)
                   \/ TurnOff!Moves(w, "read") /\ UNCHANGED <<turnOff, shop>>
              /\ TurnOff!Read(w) => Elsewhere(w) \/ TurnOff!Moves(w, "create")
  BY CoordinatorMoves
<1> USE DEF OffTypes, Handling, StorePlaces, Beginning, AllPlaces, TurnOff!Idle,
        TurnOff!Active, TurnOff!Queued, TurnOff!Pending, TurnOff!Unsettled,
        TurnOff!Verdicts, TurnOff!JobIds, TurnOff!SettleAll, TurnOff!Goes, TurnOff!Moves,
        TurnOff!Is, TurnOff!Leaves, TurnOff!Completes, TurnOff!Fails, TurnOff!FinishShop,
        TurnOff!Spend, TurnOff!Unknown, Told, Begun, Unclaimed, Claims, TellPlaces
<1>1. CASE TurnOff!Enqueue \/ TurnOff!EnqueueFails \/ TurnOff!Unqueued
  BY <1>1 DEF TurnOff!Enqueue, TurnOff!EnqueueFails, TurnOff!Unqueued
<1>2. ASSUME NEW w \in Workers, TurnOff!Begin(w) PROVE Told'
  BY <1>2 DEF TurnOff!Begin
<1>3. ASSUME NEW w \in Workers, TurnOff!Preparation(w) PROVE Told'
  <2>1. CASE TurnOff!Moves(w, "read") /\ UNCHANGED <<turnOff, shop>>
    BY <1>3, <2>1 DEF TurnOff!Preparation
  <2>2. CASE Elsewhere(w)
    BY <2>2 DEF Elsewhere
  <2>3. CASE TurnOff!Completes(w)
    BY <1>3, <2>3 DEF TurnOff!Preparation
  <2> QED
    BY <1>3, <1>b, <2>1, <2>2, <2>3
<1>4. ASSUME NEW w \in Workers, TurnOff!Read(w) PROVE Told'
  <2>1. CASE TurnOff!Moves(w, "create")
    BY <1>4, <2>1 DEF TurnOff!Read
  <2>2. CASE Elsewhere(w)
    BY <2>2 DEF Elsewhere
  <2> QED
    BY <1>4, <1>b, <2>1, <2>2
<1>5. ASSUME NEW w \in Workers, TurnOff!Create(w) PROVE Told'
  BY <1>5 DEF TurnOff!Create
<1>6. ASSUME NEW w \in Workers, TurnOff!PublishFirst(w) PROVE Told'
  BY <1>6 DEF TurnOff!PublishFirst
<1>7. ASSUME NEW w \in Workers, TurnOff!Published(w) PROVE Told'
  BY <1>7 DEF TurnOff!Published
<1>8. ASSUME NEW w \in Workers, TurnOff!Unpublished(w) PROVE Told'
  BY <1>8 DEF TurnOff!Unpublished
<1>9. ASSUME NEW w \in Workers, TurnOff!Claim(w) PROVE Told'
  BY <1>9 DEF TurnOff!Claim
<1>10. ASSUME NEW w \in Workers, TurnOff!Ensure(w) PROVE Told'
  BY <1>10 DEF TurnOff!Ensure
<1>11. ASSUME NEW w \in Workers, TurnOff!Call(w) PROVE Told'
  BY <1>11 DEF TurnOff!Call
<1>12. ASSUME NEW w \in Workers, TurnOff!Cancel(w) PROVE Told'
  BY <1>12 DEF TurnOff!Cancel
<1>13. ASSUME NEW w \in Workers, TurnOff!Answer(w) PROVE Told'
  BY <1>13 DEF TurnOff!Answer
<1>14. ASSUME NEW w \in Workers, TurnOff!Continue(w) PROVE Told'
  BY <1>14, <1>a DEF Elsewhere
<1>15. ASSUME NEW w \in Workers, TurnOff!EnqueueShop(w) PROVE Told'
  BY <1>15 DEF TurnOff!EnqueueShop
<1>16. ASSUME NEW w \in Workers, TurnOff!Resolve(w) PROVE Told'
  BY <1>16 DEF TurnOff!Resolve
<1>17. ASSUME NEW w \in Workers, TurnOff!Finalize(w) PROVE Told'
  BY <1>17 DEF TurnOff!Finalize, TurnOff!FinalStatus
<1>18. ASSUME NEW w \in Workers, TurnOff!OnFailed(w) PROVE Told'
  BY <1>18 DEF TurnOff!OnFailed
<1>19. ASSUME NEW w \in Workers, TurnOff!ShopFails(w) PROVE Told'
  BY <1>19 DEF TurnOff!ShopFails
<1>20. ASSUME NEW w \in Workers, TurnOff!Throws(w) PROVE Told'
  BY <1>20, <1>a DEF Elsewhere
<1>21. ASSUME NEW w \in Workers, TurnOff!Die(w) PROVE Told'
  BY <1>21 DEF TurnOff!Die
<1>22. ASSUME NEW w \in Workers, TurnOff!LoseLock(w) PROVE Told'
  BY <1>22 DEF TurnOff!LoseLock
<1>23. ASSUME NEW w \in Workers, NEW j \in TurnOff!JobIds, TurnOff!Take(w, j) PROVE Told'
  <2>1. worker'[w].at \notin TellPlaces \cup {"answer"}
    BY <1>23 DEF TurnOff!Take
  <2>2. \A v \in Workers : v # w => worker'[v] = worker[v]
    BY <1>23 DEF TurnOff!Take
  <2>3. UNCHANGED <<shop, calls>>
    BY <1>23 DEF TurnOff!Take
  <2> QED
    BY <2>1, <2>2, <2>3
<1>24. ASSUME NEW j \in TurnOff!JobIds, TurnOff!Stalled(j) PROVE Told'
  BY <1>24 DEF TurnOff!Stalled
<1>25. CASE TurnOff!Stop
  BY <1>25 DEF TurnOff!Stop
<1>26. CASE TurnOff!Recover
  BY <1>26 DEF TurnOff!Recover
<1>27. CASE UNCHANGED TurnOff!vars
  BY <1>27 DEF TurnOff!vars
<1> QED
  BY <1>1, <1>2, <1>3, <1>4, <1>5, <1>6, <1>7, <1>8, <1>9, <1>10, <1>11, <1>12, <1>13,
     <1>14, <1>15, <1>16, <1>17, <1>18, <1>19, <1>20, <1>21, <1>22, <1>23, <1>24, <1>25,
     <1>26, <1>27 DEF TurnOff!Next, TurnOff!Work

LEMMA NextBegun == OffTypes /\ Begun /\ [TurnOff!Next]_TurnOff!vars => Begun'
<1> SUFFICES ASSUME OffTypes, Begun, [TurnOff!Next]_TurnOff!vars PROVE Begun'
  OBVIOUS
<1>a. ASSUME NEW w \in Workers, TurnOff!Throws(w) \/ TurnOff!Continue(w) PROVE Elsewhere(w)
  BY <1>a, OthersElsewhere
<1>b. ASSUME NEW w \in Workers
       PROVE  /\ TurnOff!Preparation(w) =>
                   \/ Elsewhere(w) \/ TurnOff!Completes(w)
                   \/ TurnOff!Moves(w, "read") /\ UNCHANGED <<turnOff, shop>>
              /\ TurnOff!Read(w) => Elsewhere(w) \/ TurnOff!Moves(w, "create")
  BY CoordinatorMoves
<1> USE DEF OffTypes, Handling, StorePlaces, Beginning, AllPlaces, TurnOff!Idle,
        TurnOff!Active, TurnOff!Queued, TurnOff!Pending, TurnOff!Unsettled,
        TurnOff!Verdicts, TurnOff!JobIds, TurnOff!SettleAll, TurnOff!Goes, TurnOff!Moves,
        TurnOff!Is, TurnOff!Leaves, TurnOff!Completes, TurnOff!Fails, TurnOff!FinishShop,
        TurnOff!Spend, TurnOff!Unknown, Begun
<1>1. CASE TurnOff!Enqueue \/ TurnOff!EnqueueFails \/ TurnOff!Unqueued
  BY <1>1 DEF TurnOff!Enqueue, TurnOff!EnqueueFails, TurnOff!Unqueued
<1>2. ASSUME NEW w \in Workers, TurnOff!Begin(w) PROVE Begun'
  BY <1>2 DEF TurnOff!Begin
<1>3. ASSUME NEW w \in Workers, TurnOff!Preparation(w) PROVE Begun'
  BY <1>3 DEF TurnOff!Preparation
<1>4. ASSUME NEW w \in Workers, TurnOff!Read(w) PROVE Begun'
  BY <1>4 DEF TurnOff!Read
<1>5. ASSUME NEW w \in Workers, TurnOff!Create(w) PROVE Begun'
  BY <1>5 DEF TurnOff!Create
<1>6. ASSUME NEW w \in Workers, TurnOff!PublishFirst(w) PROVE Begun'
  BY <1>6 DEF TurnOff!PublishFirst
<1>7. ASSUME NEW w \in Workers, TurnOff!Published(w) PROVE Begun'
  BY <1>7 DEF TurnOff!Published
<1>8. ASSUME NEW w \in Workers, TurnOff!Unpublished(w) PROVE Begun'
  BY <1>8 DEF TurnOff!Unpublished
<1>9. ASSUME NEW w \in Workers, TurnOff!Claim(w) PROVE Begun'
  BY <1>9 DEF TurnOff!Claim
<1>10. ASSUME NEW w \in Workers, TurnOff!Ensure(w) PROVE Begun'
  BY <1>10 DEF TurnOff!Ensure
<1>11. ASSUME NEW w \in Workers, TurnOff!Call(w) PROVE Begun'
  BY <1>11 DEF TurnOff!Call
<1>12. ASSUME NEW w \in Workers, TurnOff!Cancel(w) PROVE Begun'
  BY <1>12 DEF TurnOff!Cancel
<1>13. ASSUME NEW w \in Workers, TurnOff!Answer(w) PROVE Begun'
  BY <1>13 DEF TurnOff!Answer
<1>14. ASSUME NEW w \in Workers, TurnOff!Continue(w) PROVE Begun'
  BY <1>14, <1>a DEF Elsewhere
<1>15. ASSUME NEW w \in Workers, TurnOff!EnqueueShop(w) PROVE Begun'
  BY <1>15 DEF TurnOff!EnqueueShop
<1>16. ASSUME NEW w \in Workers, TurnOff!Resolve(w) PROVE Begun'
  BY <1>16 DEF TurnOff!Resolve
<1>17. ASSUME NEW w \in Workers, TurnOff!Finalize(w) PROVE Begun'
  BY <1>17 DEF TurnOff!Finalize, TurnOff!FinalStatus
<1>18. ASSUME NEW w \in Workers, TurnOff!OnFailed(w) PROVE Begun'
  BY <1>18 DEF TurnOff!OnFailed
<1>19. ASSUME NEW w \in Workers, TurnOff!ShopFails(w) PROVE Begun'
  BY <1>19 DEF TurnOff!ShopFails
<1>20. ASSUME NEW w \in Workers, TurnOff!Throws(w) PROVE Begun'
  BY <1>20, <1>a DEF Elsewhere
<1>21. ASSUME NEW w \in Workers, TurnOff!Die(w) PROVE Begun'
  BY <1>21 DEF TurnOff!Die
<1>22. ASSUME NEW w \in Workers, TurnOff!LoseLock(w) PROVE Begun'
  BY <1>22 DEF TurnOff!LoseLock
<1>23. ASSUME NEW w \in Workers, NEW j \in TurnOff!JobIds, TurnOff!Take(w, j) PROVE Begun'
  BY <1>23 DEF TurnOff!Take
<1>24. ASSUME NEW j \in TurnOff!JobIds, TurnOff!Stalled(j) PROVE Begun'
  BY <1>24 DEF TurnOff!Stalled
<1>25. CASE TurnOff!Stop
  BY <1>25 DEF TurnOff!Stop
<1>26. CASE TurnOff!Recover
  BY <1>26 DEF TurnOff!Recover
<1>27. CASE UNCHANGED TurnOff!vars
  BY <1>27 DEF TurnOff!vars
<1> QED
  BY <1>1, <1>2, <1>3, <1>4, <1>5, <1>6, <1>7, <1>8, <1>9, <1>10, <1>11, <1>12, <1>13,
     <1>14, <1>15, <1>16, <1>17, <1>18, <1>19, <1>20, <1>21, <1>22, <1>23, <1>24, <1>25,
     <1>26, <1>27 DEF TurnOff!Next, TurnOff!Work

LEMMA NextAllOff == OffTypes /\ Begun /\ AllOff /\ [TurnOff!Next]_TurnOff!vars => AllOff'
<1> SUFFICES ASSUME OffTypes, Begun, AllOff, [TurnOff!Next]_TurnOff!vars PROVE AllOff'
  OBVIOUS
<1>a. ASSUME NEW w \in Workers, TurnOff!Throws(w) \/ TurnOff!Continue(w) PROVE Elsewhere(w)
  BY <1>a, OthersElsewhere
<1>b. ASSUME NEW w \in Workers
       PROVE  /\ TurnOff!Preparation(w) =>
                   \/ Elsewhere(w) \/ TurnOff!Completes(w)
                   \/ TurnOff!Moves(w, "read") /\ UNCHANGED <<turnOff, shop>>
              /\ TurnOff!Read(w) => Elsewhere(w) \/ TurnOff!Moves(w, "create")
  BY CoordinatorMoves
<1> USE DEF OffTypes, Handling, StorePlaces, Beginning, AllPlaces, TurnOff!Idle,
        TurnOff!Active, TurnOff!Queued, TurnOff!Pending, TurnOff!Unsettled,
        TurnOff!Verdicts, TurnOff!JobIds, TurnOff!SettleAll, TurnOff!Goes, TurnOff!Moves,
        TurnOff!Is, TurnOff!Leaves, TurnOff!Completes, TurnOff!Fails, TurnOff!FinishShop,
        TurnOff!Spend, TurnOff!Unknown, AllOff, Begun
<1>1. CASE TurnOff!Enqueue \/ TurnOff!EnqueueFails \/ TurnOff!Unqueued
  BY <1>1 DEF TurnOff!Enqueue, TurnOff!EnqueueFails, TurnOff!Unqueued
<1>2. ASSUME NEW w \in Workers, TurnOff!Begin(w) PROVE AllOff'
  BY <1>2 DEF TurnOff!Begin
<1>3. ASSUME NEW w \in Workers, TurnOff!Preparation(w) PROVE AllOff'
  BY <1>3 DEF TurnOff!Preparation
<1>4. ASSUME NEW w \in Workers, TurnOff!Read(w) PROVE AllOff'
  BY <1>4 DEF TurnOff!Read
<1>5. ASSUME NEW w \in Workers, TurnOff!Create(w) PROVE AllOff'
  BY <1>5 DEF TurnOff!Create
<1>6. ASSUME NEW w \in Workers, TurnOff!PublishFirst(w) PROVE AllOff'
  BY <1>6 DEF TurnOff!PublishFirst
<1>7. ASSUME NEW w \in Workers, TurnOff!Published(w) PROVE AllOff'
  BY <1>7 DEF TurnOff!Published
<1>8. ASSUME NEW w \in Workers, TurnOff!Unpublished(w) PROVE AllOff'
  BY <1>8 DEF TurnOff!Unpublished
<1>9. ASSUME NEW w \in Workers, TurnOff!Claim(w) PROVE AllOff'
  BY <1>9 DEF TurnOff!Claim
<1>10. ASSUME NEW w \in Workers, TurnOff!Ensure(w) PROVE AllOff'
  BY <1>10 DEF TurnOff!Ensure
<1>11. ASSUME NEW w \in Workers, TurnOff!Call(w) PROVE AllOff'
  BY <1>11 DEF TurnOff!Call
<1>12. ASSUME NEW w \in Workers, TurnOff!Cancel(w) PROVE AllOff'
  BY <1>12 DEF TurnOff!Cancel
<1>13. ASSUME NEW w \in Workers, TurnOff!Answer(w) PROVE AllOff'
  BY <1>13 DEF TurnOff!Answer
<1>14. ASSUME NEW w \in Workers, TurnOff!Continue(w) PROVE AllOff'
  BY <1>14 DEF TurnOff!Continue
<1>15. ASSUME NEW w \in Workers, TurnOff!EnqueueShop(w) PROVE AllOff'
  BY <1>15 DEF TurnOff!EnqueueShop
<1>16. ASSUME NEW w \in Workers, TurnOff!Resolve(w) PROVE AllOff'
  BY <1>16 DEF TurnOff!Resolve
<1>17. ASSUME NEW w \in Workers, TurnOff!Finalize(w) PROVE AllOff'
  BY <1>17 DEF TurnOff!Finalize, TurnOff!FinalStatus
<1>18. ASSUME NEW w \in Workers, TurnOff!OnFailed(w) PROVE AllOff'
  BY <1>18 DEF TurnOff!OnFailed
<1>19. ASSUME NEW w \in Workers, TurnOff!ShopFails(w) PROVE AllOff'
  BY <1>19 DEF TurnOff!ShopFails
<1>20. ASSUME NEW w \in Workers, TurnOff!Throws(w) PROVE AllOff'
  BY <1>20 DEF TurnOff!Throws
<1>21. ASSUME NEW w \in Workers, TurnOff!Die(w) PROVE AllOff'
  BY <1>21 DEF TurnOff!Die
<1>22. ASSUME NEW w \in Workers, TurnOff!LoseLock(w) PROVE AllOff'
  BY <1>22 DEF TurnOff!LoseLock
<1>23. ASSUME NEW w \in Workers, NEW j \in TurnOff!JobIds, TurnOff!Take(w, j) PROVE AllOff'
  BY <1>23 DEF TurnOff!Take
<1>24. ASSUME NEW j \in TurnOff!JobIds, TurnOff!Stalled(j) PROVE AllOff'
  BY <1>24 DEF TurnOff!Stalled
<1>25. CASE TurnOff!Stop
  BY <1>25 DEF TurnOff!Stop
<1>26. CASE TurnOff!Recover
  BY <1>26 DEF TurnOff!Recover
<1>27. CASE UNCHANGED TurnOff!vars
  BY <1>27 DEF TurnOff!vars
<1> QED
  BY <1>1, <1>2, <1>3, <1>4, <1>5, <1>6, <1>7, <1>8, <1>9, <1>10, <1>11, <1>12, <1>13,
     <1>14, <1>15, <1>16, <1>17, <1>18, <1>19, <1>20, <1>21, <1>22, <1>23, <1>24, <1>25,
     <1>26, <1>27 DEF TurnOff!Next, TurnOff!Work

-----------------------------------------------------------------------------
(* The theorems about that execution.                                        *)

\* The inductive invariant: who has claimed a store, what DiDi was told of it, and
\* that there are no rows before the coordinator writes them.
THEOREM OffInvariant == TurnOff!Spec => []OffInv
<1>1. OffInv /\ [TurnOff!Next]_TurnOff!vars => OffInv'
  BY NextOffTypes, NextTold, NextBegun, NextAllOff DEF OffInv
<1> QED
  BY OffInit, <1>1, PTL DEF TurnOff!Spec

\* enqueueShop, processShop: DiDi is told at most once of each store, whichever job
\* stalls, fails or is delivered again.
THEOREM CalledOnceHolds == TurnOff!Spec => []CalledOnce
<1>1. OffInv => CalledOnce
  BY DEF OffInv, OffTypes, CalledOnce, TurnOff!CalledOnce
<1> QED
  BY <1>1, OffInvariant, PTL

\* finalizeIfComplete: an execution is "done" only when every store was turned off,
\* and stays so.
THEOREM DoneMeansOffHolds == TurnOff!Spec => []DoneMeansOff
<1>1. OffInv => DoneMeansOff
  BY DEF OffInv, AllOff, Told, DoneMeansOff, TurnOff!DoneMeansOff
<1> QED
  BY <1>1, OffInvariant, PTL
=============================================================================
