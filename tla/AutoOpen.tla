------------------------------ MODULE AutoOpen ------------------------------
(***************************************************************************)
(* One execution of Auto Open: a request creates it and queues its         *)
(* 'prepare' job; that job creates one run per brand of the pool and queues *)
(* a job for each; a brand's job opens the stores of the brand; whoever     *)
(* finishes the last brand ends the execution and reports it.  The recovery *)
(* reconciles rows and jobs when a backend starts and every five minutes,   *)
(* while the workers of other backends, and its own, go on.                 *)
(*                                                                         *)
(* The permit that every single opening takes is in StoreEmergency.        *)
(***************************************************************************)
EXTENDS Naturals, FiniteSets

CONSTANTS
  Brands,      \* brands a pool may have
  Workers,     \* workers of the queue 'auto-open'
  Recoverers,  \* backends that run the recovery
  Prepare,     \* stands for the job 'auto-open-prepare-<execution>'
  MaxEvents    \* bound: deaths, lost locks, calls that fail

ASSUME AutoOpenConstants ==
  /\ Prepare \notin Brands
  /\ Workers \cap Recoverers = {}
  /\ MaxEvents \in Nat

VARIABLES
  pool,     \* the brands of the pool
  exec,     \* AutoOpenExecution.status
  caller,   \* the request that creates the execution
  run,      \* AutoOpenBrandExecution.status of each brand
  job,      \* the jobs of the queue, by their stable ids
  actor,    \* where each worker and each recoverer is
  sent,     \* notifications sent
  strayed,  \* history: a worker outlived the lock of its job
  events    \* bounded events so far

vars == <<pool, exec, caller, run, job, actor, sent, strayed, events>>

Ids == Brands \cup {Prepare}
Actors == Workers \cup Recoverers

Terminal == {"done", "partial_success", "failed", "cancelled"}
Idle == [at |-> "idle"]

Init ==
  /\ pool \in SUBSET Brands
  /\ exec = "none" /\ caller = "none"
  /\ run = [b \in Brands |-> "none"]
  /\ job = [i \in Ids |-> "absent"]
  /\ actor = [a \in Actors |-> Idle]
  /\ sent = 0
  /\ strayed = FALSE
  /\ events \in 0..MaxEvents

Spend == events < MaxEvents /\ events' = events + 1

\* Brands that have a row.
Runs == {b \in Brands : run[b] # "none"}
Pending == {b \in Brands : run[b] = "pending"}

\* Mutant: the set forgets the jobs that are being worked on.
AliveWaiting(i) == job[i] = "waiting"

\* ACTIVE_QUEUE_STATES: somebody works on the job, or will.
Alive(i) == job[i] \in {"waiting", "active"}

\* queue.add, which ignores an id that the queue still has.
Added(S) == [i \in Ids |-> IF i \in S /\ job[i] = "absent" THEN "waiting" ELSE job[i]]

Goes(a, state) == actor' = [actor EXCEPT ![a] = state]

\* The worker is through with its job, if it still is its own.
Ends(w) ==
  /\ Goes(w, Idle)
  /\ job' = IF actor[w].lock THEN [job EXCEPT ![actor[w].id] = "ended"] ELSE job

-----------------------------------------------------------------------------
(* The request (runNow, runScheduled).                                     *)

Create ==
  /\ exec = "none"
  /\ exec' = "pending" /\ caller' = "adding"
  /\ UNCHANGED <<pool, run, job, actor, sent, strayed, events>>

\* The job is queued, whether or not the request hears of it.
Enqueue ==
  /\ caller = "adding"
  /\ caller' \in {"done", "failing"}
  /\ IF caller' = "done" THEN UNCHANGED events ELSE Spend
  /\ job' = Added({Prepare})
  /\ UNCHANGED <<pool, exec, run, actor, sent, strayed>>

EnqueueFails ==
  /\ caller = "adding" /\ Spend
  /\ caller' \in {"failing", "done"}  \* an error, or the death of the process
  /\ UNCHANGED <<pool, exec, run, job, actor, sent, strayed>>

\* queue.add has thrown: the execution is failed, whatever became of it.
GiveUp ==
  /\ caller = "failing"
  /\ caller' = "done" /\ exec' = "failed"
  /\ UNCHANGED <<pool, run, job, actor, sent, strayed, events>>

-----------------------------------------------------------------------------
(* The workers.                                                            *)

Take(w, i) ==
  /\ actor[w] = Idle /\ job[i] = "waiting"
  /\ job' = [job EXCEPT ![i] = "active"]
  /\ Goes(w, [at |-> IF i = Prepare THEN "prepare" ELSE "brand",
               id |-> i, lock |-> TRUE, again |-> FALSE])
  /\ UNCHANGED <<pool, exec, caller, run, sent, strayed, events>>

Moves(w, at) == Goes(w, [actor[w] EXCEPT !.at = at])

\* prepareExecution claims the execution; when it is running already, the job
\* is here for the second time and queues what is left.
ClaimExecution(w) ==
  /\ actor[w].at = "prepare"
  /\ \/ exec = "pending" /\ exec' = "running" /\ Moves(w, "preparing") /\ UNCHANGED job
     \/ /\ exec = "running" /\ Goes(w, [actor[w] EXCEPT !.at = "queueing", !.again = TRUE])
        /\ UNCHANGED <<exec, job>>
     \/ exec \notin {"pending", "running"} /\ Ends(w) /\ UNCHANGED exec
  /\ UNCHANGED <<pool, caller, run, sent, strayed, events>>

\* The rows of the brands; a pool without brands is done at once.
CreateRuns(w) ==
  /\ actor[w].at = "preparing"
  /\ run' = [b \in Brands |-> IF b \in pool /\ run[b] = "none" THEN "pending" ELSE run[b]]
  /\ \/ pool # {} /\ Moves(w, "queueing") /\ UNCHANGED <<exec, job>>
     \/ pool = {} /\ exec' = "done" /\ Ends(w)
  /\ UNCHANGED <<pool, caller, sent, strayed, events>>

\* enqueuePendingBrandRuns reads the runs, and then queues their jobs.
ReadPending(w) ==
  /\ actor[w].at = "queueing"
  /\ IF Pending = {} THEN Moves(w, "reconcile")
     ELSE Goes(w, [at |-> "adding", id |-> actor[w].id, lock |-> actor[w].lock,
                   again |-> actor[w].again, todo |-> Pending])
  /\ UNCHANGED <<pool, exec, caller, run, job, sent, strayed, events>>

AddJobs(w) ==
  /\ actor[w].at = "adding"
  /\ Goes(w, Idle)
  /\ job' = LET added == Added(actor[w].todo) IN
            IF actor[w].lock THEN [added EXCEPT ![actor[w].id] = "ended"] ELSE added
  /\ UNCHANGED <<pool, exec, caller, run, sent, strayed, events>>

\* An error while the execution is prepared fails it; in the second delivery of
\* the job it is only thrown.
PrepareFails(w) ==
  /\ actor[w].at \notin {"idle", "prepare"} /\ actor[w].id = Prepare /\ Spend
  /\ exec' = IF exec = "running" /\ ~ actor[w].again THEN "failed" ELSE exec
  /\ Ends(w)
  /\ UNCHANGED <<pool, caller, run, sent, strayed>>

\* processBrand claims the run, and then looks at the execution.
ClaimRun(w) ==
  LET b == actor[w].id IN
  /\ actor[w].at = "brand"
  /\ \/ run[b] = "pending" /\ run' = [run EXCEPT ![b] = "running"] /\ Moves(w, "claimed") /\ UNCHANGED job
     \/ run[b] # "pending" /\ Ends(w) /\ UNCHANGED run
  /\ UNCHANGED <<pool, exec, caller, sent, strayed, events>>

LookAtExecution(w) ==
  LET b == actor[w].id IN
  /\ actor[w].at = "claimed"
  /\ \/ exec = "running" /\ Moves(w, "opening") /\ UNCHANGED <<run, job>>
     \/ /\ exec # "running"
        /\ run' = IF run[b] = "running" THEN [run EXCEPT ![b] = "cancelled"] ELSE run
        /\ Ends(w)
  /\ UNCHANGED <<pool, exec, caller, sent, strayed, events>>

\* finishBrand, with the stores opened or some of them; or none, for a brand that
\* is gone.
FinishBrand(w) ==
  /\ actor[w].at = "opening"
  /\ run' \in {[run EXCEPT ![actor[w].id] = s] : s \in {"done", "partial_success", "failed"}}
  /\ Moves(w, "reconcile")
  /\ UNCHANGED <<pool, exec, caller, job, sent, strayed, events>>

\* An error in processBrand, in its own finishBrand too, fails the run; one more
\* error fails the job.
BrandFails(w) ==
  /\ actor[w].at \in {"claimed", "opening", "reconcile", "settling"} /\ actor[w].id # Prepare /\ Spend
  /\ \/ /\ ~ actor[w].again /\ run' = [run EXCEPT ![actor[w].id] = "failed"]
        /\ Goes(w, [actor[w] EXCEPT !.at = "reconcile", !.again = TRUE])
        /\ UNCHANGED job
     \/ Ends(w) /\ UNCHANGED run
  /\ UNCHANGED <<pool, exec, caller, sent, strayed>>

-----------------------------------------------------------------------------
(* reconcileExecution, by a worker or by the recovery.                     *)

\* An actor is through.
Leaves(a) == IF a \in Workers THEN Ends(a) ELSE Goes(a, Idle) /\ UNCHANGED job

\* Reads the execution and its runs; unless all are over it only counts.
\* totalBrands is 0 until the runs are created, in one transaction with them.
ReadRuns(a) ==
  /\ actor[a].at = "reconcile"
  /\ LET complete == exec = "running" /\ \A b \in Runs : run[b] \in Terminal
         status == IF \A b \in Runs : run[b] = "done" THEN "done" ELSE "partial_success"
     IN  \/ ~ complete /\ Leaves(a)
         \/ /\ complete /\ UNCHANGED job
            /\ Goes(a, [at |-> "settling", status |-> status,
                        id |-> IF a \in Workers THEN actor[a].id ELSE Prepare,
                        lock |-> a \in Workers /\ actor[a].lock,
                        again |-> a \in Workers /\ actor[a].again])
  /\ UNCHANGED <<pool, exec, caller, run, sent, strayed, events>>

\* Mutant: the update does not look at the status.
SettleAgain(a) ==
  /\ actor[a].at = "settling"
  /\ exec' = actor[a].status /\ sent' = sent + 1
  /\ Leaves(a)
  /\ UNCHANGED <<pool, caller, run, strayed, events>>

\* Ends the execution, and reports it if nobody has ended it before.
Settle(a) ==
  /\ actor[a].at = "settling"
  /\ \/ exec = "running" /\ exec' = actor[a].status /\ sent' = sent + 1
     \/ exec # "running" /\ UNCHANGED <<exec, sent>>
  /\ Leaves(a)
  /\ UNCHANGED <<pool, caller, run, strayed, events>>

-----------------------------------------------------------------------------
(* Workers that die or are thought dead.                                   *)

WorkerDies(w) ==
  /\ actor[w] # Idle /\ Spend
  /\ Goes(w, Idle)
  /\ UNCHANGED <<pool, exec, caller, run, job, sent, strayed>>

\* An active job without its worker is queued once more, or fails.
Stalled(i) ==
  /\ job[i] = "active"
  /\ \A w \in Workers : actor[w] # Idle => ~ (actor[w].id = i /\ actor[w].lock)
  /\ job' \in {[job EXCEPT ![i] = "waiting"], [job EXCEPT ![i] = "ended"]}
  /\ UNCHANGED <<pool, exec, caller, run, actor, sent, strayed, events>>

\* A worker that is alive cannot renew the lock of its job.
LoseLock(w) ==
  /\ actor[w] # Idle /\ actor[w].lock /\ Spend
  /\ Goes(w, [actor[w] EXCEPT !.lock = FALSE])
  /\ strayed' = TRUE
  /\ UNCHANGED <<pool, exec, caller, run, job, sent>>

-----------------------------------------------------------------------------
(* The recovery.                                                           *)

\* Reads the execution and its runs: what it does next depends on them, and not
\* on what becomes of them meanwhile.  Backends start as often as they like.
List(r) ==
  /\ actor[r] = Idle /\ exec \in {"pending", "running"}
  /\ \E startup \in BOOLEAN :
       Goes(r, IF exec = "pending" THEN [at |-> "ensuring", todo |-> {Prepare}]
               ELSE [at |-> "listed", startup |-> startup,
                     todo |-> IF Runs = {} THEN {Prepare} ELSE {b \in Runs : run[b] = "running"}])
  /\ UNCHANGED <<pool, exec, caller, run, job, sent, strayed, events>>

\* The execution, when it has no runs, and each run that was running is spared,
\* unless its job is lost and it has been silent for long; a backend that has
\* just started spares none.
Spare(r, i) ==
  /\ actor[r].at = "listed" /\ i \in actor[r].todo /\ ~ actor[r].startup
  /\ Goes(r, IF i = Prepare THEN Idle ELSE [actor[r] EXCEPT !.todo = @ \ {i}])
  /\ UNCHANGED <<pool, exec, caller, run, job, sent, strayed, events>>

Condemn(r, i) ==
  /\ actor[r].at = "listed" /\ i \in actor[r].todo /\ (actor[r].startup \/ ~ Alive(i))
  /\ Goes(r, [at |-> "condemned", startup |-> actor[r].startup, todo |-> actor[r].todo \ {i}, id |-> i])
  /\ UNCHANGED <<pool, exec, caller, run, job, sent, strayed, events>>

\* The execution is closed, the run taken back, if it is still running.
CloseOrReset(r) ==
  LET i == actor[r].id IN
  /\ actor[r].at = "condemned"
  /\ IF i = Prepare
     THEN /\ exec' = IF exec = "running" THEN "failed" ELSE exec
          /\ UNCHANGED run
     ELSE /\ run' = IF run[i] = "running" THEN [run EXCEPT ![i] = "pending"] ELSE run
          /\ UNCHANGED exec
  /\ Goes(r, IF i = Prepare THEN Idle
             ELSE [at |-> "listed", startup |-> actor[r].startup, todo |-> actor[r].todo])
  /\ UNCHANGED <<pool, caller, job, sent, strayed, events>>

ListPending(r) ==
  /\ actor[r].at = "listed" /\ actor[r].todo = {}
  /\ Goes(r, IF Pending = {} THEN [at |-> "reconcile"] ELSE [at |-> "ensuring", todo |-> Pending])
  /\ UNCHANGED <<pool, exec, caller, run, job, sent, strayed, events>>

\* Mutant: a job that is over stays, and its id is taken.
EnsureJobKept(r, i) ==
  /\ actor[r].at = "ensuring" /\ i \in actor[r].todo
  /\ job' = Added({i})
  /\ Goes(r, Idle)
  /\ UNCHANGED <<pool, exec, caller, run, sent, strayed, events>>

\* ensureJob: a job that is over is removed and queued again.
EnsureJob(r, i) ==
  /\ actor[r].at = "ensuring" /\ i \in actor[r].todo
  /\ job' = IF Alive(i) THEN job ELSE [job EXCEPT ![i] = "waiting"]
  /\ LET rest == actor[r].todo \ {i} IN
     Goes(r, IF rest # {} THEN [at |-> "ensuring", todo |-> rest]
             ELSE IF i = Prepare THEN Idle ELSE [at |-> "reconcile"])
  /\ UNCHANGED <<pool, exec, caller, run, sent, strayed, events>>

\* An error ends the round, and so does the death of the backend.
RecoveryFails(r) ==
  /\ actor[r] # Idle /\ Spend
  /\ Goes(r, Idle)
  /\ UNCHANGED <<pool, exec, caller, run, job, sent, strayed>>

-----------------------------------------------------------------------------

Work(w) ==
  \/ ClaimExecution(w) \/ CreateRuns(w) \/ ReadPending(w) \/ AddJobs(w)
  \/ ClaimRun(w) \/ LookAtExecution(w) \/ FinishBrand(w) \/ ReadRuns(w) \/ Settle(w)

Recover(r) ==
  \/ List(r) \/ CloseOrReset(r) \/ ListPending(r) \/ ReadRuns(r) \/ Settle(r)
  \/ \E i \in Ids : Spare(r, i) \/ Condemn(r, i) \/ EnsureJob(r, i)

Next ==
  \/ Create \/ Enqueue \/ EnqueueFails \/ GiveUp
  \/ \E w \in Workers : \/ Work(w) \/ PrepareFails(w) \/ BrandFails(w) \/ WorkerDies(w) \/ LoseLock(w)
                        \/ \E i \in Ids : Take(w, i)
  \/ \E i \in Ids : Stalled(i)
  \/ \E r \in Recoverers : Recover(r) \/ RecoveryFails(r)

\* Queue, workers and cron go on for ever; ten minutes of silence come to pass.
Fairness ==
  /\ WF_vars(Enqueue) /\ WF_vars(GiveUp)
  /\ \A w \in Workers : WF_vars(Work(w))
  /\ \A i \in Ids : WF_vars(\E w \in Workers : Take(w, i)) /\ WF_vars(Stalled(i))
  /\ \A r \in Recoverers : WF_vars(Recover(r)) /\ SF_vars(\E i \in Ids : Condemn(r, i))

Spec == Init /\ [][Next]_vars /\ Fairness

-----------------------------------------------------------------------------
(* Properties.                                                             *)

States == {"idle", "prepare", "preparing", "queueing", "adding", "brand", "claimed", "opening",
           "reconcile", "settling", "listed", "condemned", "ensuring"}

\* Type correctness of the rows, the jobs and the actors.
TypeOK ==
  /\ pool \subseteq Brands
  /\ exec \in {"none", "pending", "running", "done", "partial_success", "failed"}
  /\ caller \in {"none", "adding", "failing", "done"}
  /\ run \in [Brands -> {"none", "pending", "running"} \cup Terminal]
  /\ job \in [Ids -> {"absent", "waiting", "active", "ended"}]
  /\ \A a \in Actors : actor[a].at \in States
  /\ sent \in Nat /\ strayed \in BOOLEAN /\ events \in 0..MaxEvents

\* The stores of a brand are opened by one worker at a time, though the recovery
\* takes runs back from workers that are alive and queues jobs again.  A worker
\* that outlived the lock of its job is excepted.
OneOpener ==
  \A v, w \in Workers : actor[v].at = "opening" /\ actor[w].at = "opening" /\ v # w =>
    actor[v].id # actor[w].id \/ strayed

\* An execution is reported once, though each worker and the recovery may find
\* it complete, and with every run at its end, while no worker outlives the lock
\* of its job.
ReportedOnce ==
  [][sent' # sent => sent = 0 /\ (strayed \/ \A b \in Runs : run[b] \in Terminal)]_vars

\* The report comes when all brands of the pool are through.  (It may not: an
\* execution without runs counts as complete.)
ReportedComplete == [][sent' # sent => \A b \in pool : run[b] \in Terminal]_vars

\* Every execution ends, whichever job, worker or request is lost.
ExecutionEnds == exec \in {"pending", "running"} ~> exec \notin {"pending", "running"}
=============================================================================
