---------------------------- MODULE AutoTurnOff ----------------------------
(***************************************************************************)
(* One execution of a rule that sets the stock of products to zero in some *)
(* stores.  A coordinator writes down a row for each store and publishes   *)
(* the job of the first; the job of a store claims its row, tells DiDi,    *)
(* records what DiDi said and publishes the job of the next, and the last  *)
(* one ends the execution.  A timer ends executions that have stopped to   *)
(* make progress, and a person may stop one at any time.                   *)
(***************************************************************************)
EXTENDS Naturals

CONSTANTS
  Shops,     \* the stores of the rule
  Deferred,  \* those of which the database has no app_shop_id
  Workers,   \* workers of the queues 'auto-turn-off-*'
  MaxEvents  \* bound: deaths, lost locks and answers, calls that fail, slowness

VARIABLES
  caller,  \* the request or the timer that creates the execution
  exec,    \* AutoTurnOffExecution.status
  shop,    \* the rows of the stores: status, when pending with currentStep
  job,     \* the BullMQ jobs
  worker,  \* what each worker does
  calls,   \* the calls of the Stock API, by store
  events   \* events so far

vars == <<caller, exec, shop, job, worker, calls, events>>

Coordinator == "the coordinator"
Advance == "advance"
JobIds == Shops \cup {Coordinator, Advance}

Idle == [at |-> "idle"]
Active == {"pending", "running"}
Queued == {"queued_local", "queued_resolved"}
Pending == Queued \cup {"waiting_shop_resolution"}
Unsettled == Pending \cup {"running"}
Verdicts == {"done", "partial_success", "failed"}

\* The execution has been created, its job is about to be published.
Init ==
  /\ caller = "publishing"
  /\ exec = "pending"
  /\ shop = [s \in Shops |-> "none"]
  /\ job = [j \in JobIds |-> "absent"]
  /\ worker = [w \in Workers |-> Idle]
  /\ calls = [s \in Shops |-> 0]
  /\ events = 0

Spend == events < MaxEvents /\ events' = events + 1

\* BullMQ ignores a job whose id it has, were it that of a job that is over.
Publish(j) == job' = IF job[j] = "absent" THEN [job EXCEPT ![j] = "waiting"] ELSE job

\* The rows that are not settled get the verdict v.
SettleAll(v) == [s \in Shops |-> IF shop[s] \in Unsettled THEN v ELSE shop[s]]

Successful == \E s \in Shops : shop[s] \in {"done", "partial_success"}

-----------------------------------------------------------------------------
(* enqueueExecution.                                                       *)

\* The job is published, or the process dies before.
Enqueue ==
  /\ caller = "publishing"
  /\ \/ Publish(Coordinator) /\ UNCHANGED events
     \/ Spend /\ UNCHANGED job
  /\ caller' = "done"
  /\ UNCHANGED <<exec, shop, worker, calls>>

\* The publication fails, and may have been heard.
EnqueueFails ==
  /\ caller = "publishing" /\ Spend
  /\ caller' = "failing"
  /\ \/ Publish(Coordinator)
     \/ UNCHANGED job
  /\ UNCHANGED <<exec, shop, worker, calls>>

\* The execution is failed, whatever has become of it.
Unqueued ==
  /\ caller = "failing"
  /\ caller' = "done" /\ exec' = "failed"
  /\ UNCHANGED <<shop, job, worker, calls, events>>

-----------------------------------------------------------------------------
(* A worker and its job.                                                   *)

Goes(w, state) == worker' = [worker EXCEPT ![w] = state]
Moves(w, at) == Goes(w, [worker[w] EXCEPT !.at = at])
Is(w, at) == worker[w].at = at

\* The job is over, unless the worker has lost it.
Leaves(w, state) ==
  /\ Goes(w, Idle)
  /\ job' = IF worker[w].own THEN [job EXCEPT ![worker[w].job] = state] ELSE job
Completes(w) == Leaves(w, "completed")

\* The job fails and its handler is to follow, unless the worker has lost it.
Fails(w) ==
  IF worker[w].own
  THEN /\ job' = [job EXCEPT ![worker[w].job] = "failed"]
       /\ Goes(w, [worker[w] EXCEPT !.at = "failed", !.own = FALSE])
  ELSE Goes(w, Idle) /\ UNCHANGED job

Take(w, j) ==
  /\ worker[w] = Idle /\ job[j] = "waiting"
  /\ job' = [job EXCEPT ![j] = "active"]
  /\ LET first == IF j = Coordinator THEN "begin" ELSE IF j = Advance THEN "continue" ELSE "claim"
     IN Goes(w, [at |-> first, job |-> j, own |-> TRUE, seen |-> FALSE])
  /\ UNCHANGED <<caller, exec, shop, calls, events>>

-----------------------------------------------------------------------------
(* The coordinator.                                                        *)

Begin(w) ==
  /\ Is(w, "begin")
  /\ \/ exec = "pending" /\ exec' = "running" /\ Moves(w, "prepare") /\ UNCHANGED job
     \/ exec # "pending" /\ Completes(w) /\ UNCHANGED exec
  /\ UNCHANGED <<caller, shop, calls, events>>

\* ensureRunning; or the brand has no application, or its secret is lost; or the
\* rule is over.
Preparation(w) ==
  /\ Is(w, "prepare")
  /\ \/ exec = "running" /\ Moves(w, "read") /\ UNCHANGED <<exec, shop, job>>
     \/ exec # "running" /\ Fails(w) /\ UNCHANGED <<exec, shop>>
     \/ /\ Completes(w)
        /\ IF exec \in Active
           THEN exec' = "failed" /\ \/ shop' = [s \in Shops |-> "failed"]
                                    \/ UNCHANGED shop
           ELSE UNCHANGED <<exec, shop>>
  /\ UNCHANGED <<caller, calls, events>>

\* The transaction reads the status, without a lock, and creates the rows.
Read(w) ==
  /\ Is(w, "read")
  /\ IF exec = "running" THEN Moves(w, "create") /\ UNCHANGED job ELSE Fails(w)
  /\ UNCHANGED <<caller, exec, shop, calls, events>>
Create(w) ==
  /\ Is(w, "create")
  /\ shop' = [s \in Shops |-> IF s \in Deferred THEN "waiting_shop_resolution" ELSE "queued_local"]
  /\ Moves(w, "publish")
  /\ UNCHANGED <<caller, exec, job, calls, events>>

\* The first job is that of a store, or the one that looks the stores up.
First == IF Deferred = Shops THEN Advance ELSE CHOOSE s \in Shops : s \notin Deferred
PublishFirst(w) ==
  /\ Is(w, "publish")
  /\ \/ exec = "running" /\ Publish(First) /\ Moves(w, "published") /\ UNCHANGED events
     \/ exec # "running" /\ Moves(w, "unpublished") /\ UNCHANGED <<job, events>>
     \/ /\ exec = "running" /\ Spend /\ Moves(w, "unpublished")
        /\ Publish(First) \/ UNCHANGED job
  /\ UNCHANGED <<caller, exec, shop, calls>>
Published(w) == Is(w, "published") /\ Completes(w) /\ UNCHANGED <<caller, exec, shop, calls, events>>

Unpublished(w) ==
  /\ Is(w, "unpublished")
  /\ Completes(w)
  /\ shop' = SettleAll(IF exec = "cancelled" THEN "cancelled" ELSE "failed")
  /\ exec' = IF exec = "running" THEN "failed" ELSE exec
  /\ UNCHANGED <<caller, calls, events>>

-----------------------------------------------------------------------------
(* The job of a store.                                                     *)

\* Mutant: a job that is delivered again goes on with its row.
ClaimAgain(w) ==
  LET s == worker[w].job IN
  /\ Is(w, "claim")
  /\ \/ shop[s] \in Queued \cup {"running"}
        /\ shop' = [shop EXCEPT ![s] = "running"] /\ Moves(w, "ensure") /\ UNCHANGED job
     \/ shop[s] \notin Queued \cup {"running"} /\ Completes(w) /\ UNCHANGED shop
  /\ UNCHANGED <<caller, exec, calls, events>>

Claim(w) ==
  LET s == worker[w].job IN
  /\ Is(w, "claim")
  /\ \/ shop[s] \in Queued
        /\ shop' = [shop EXCEPT ![s] = "running"] /\ Moves(w, "ensure") /\ UNCHANGED job
     \/ shop[s] \notin Queued /\ Completes(w) /\ UNCHANGED shop
  /\ UNCHANGED <<caller, exec, calls, events>>

\* ensureActive, up to the last time before the call.
Ensure(w) ==
  LET s == worker[w].job IN
  /\ Is(w, "ensure")
  /\ Moves(w, IF shop[s] = "running" /\ exec = "running" THEN "call" ELSE "cancel")
  /\ UNCHANGED <<caller, exec, shop, job, calls, events>>

\* callStockApi: all products were turned off, some, none, or no answer came.
Call(w) ==
  LET s == worker[w].job IN
  /\ Is(w, "call")
  /\ calls' = [calls EXCEPT ![s] = @ + 1]
  /\ \E v \in Verdicts : Goes(w, [worker[w] EXCEPT !.at = "answer", !.seen = v])
  /\ UNCHANGED <<caller, exec, shop, job, events>>

Cancel(w) ==
  LET s == worker[w].job IN
  /\ Is(w, "cancel")
  /\ shop' = [shop EXCEPT ![s] = IF @ \in Unsettled THEN "cancelled" ELSE @]
  /\ Moves(w, "continue")
  /\ UNCHANGED <<caller, exec, job, calls, events>>

\* Mutant: what was recorded is recorded again.
FinishShopAnyway(s, v) == shop' = [shop EXCEPT ![s] = v]

FinishShop(s, v) == shop' = [shop EXCEPT ![s] = IF @ \in Unsettled THEN v ELSE @]

Answer(w) ==
  /\ Is(w, "answer")
  /\ FinishShop(worker[w].job, worker[w].seen)
  /\ Moves(w, "continue")
  /\ UNCHANGED <<caller, exec, job, calls, events>>

\* No products, no token, no lease, a row that cannot be written.
ShopFails(w) ==
  /\ Is(w, "ensure") /\ Spend
  /\ FinishShop(worker[w].job, "failed")
  /\ Moves(w, "continue")
  /\ UNCHANGED <<caller, exec, job, calls>>

-----------------------------------------------------------------------------
(* continuePipeline.                                                       *)

Waiting == {s \in Shops : shop[s] \in Queued}
Unknown == {s \in Shops : shop[s] = "waiting_shop_resolution"}

\* What is next: nothing, a store, the stores to look up, or the end.
Continue(w) ==
  /\ Is(w, "continue")
  /\ \/ exec # "running" /\ Completes(w)
     \/ /\ exec = "running" /\ UNCHANGED job
        /\ \/ \E s \in Waiting : Goes(w, [worker[w] EXCEPT !.at = "enqueue", !.seen = s])
           \/ Waiting = {} /\ Moves(w, IF Unknown # {} THEN "resolve" ELSE "finalize")
  /\ UNCHANGED <<caller, exec, shop, calls, events>>

EnqueueShop(w) ==
  /\ Is(w, "enqueue")
  /\ Publish(worker[w].seen)
  /\ Moves(w, "published")
  /\ UNCHANGED <<caller, exec, shop, calls, events>>

\* resolveDeferredShops: each is found, or not.
Resolve(w) ==
  /\ Is(w, "resolve")
  /\ IF exec # "running" THEN UNCHANGED shop
     ELSE \E found \in SUBSET Unknown :
            shop' = [s \in Shops |-> IF s \notin Unknown THEN shop[s]
                                     ELSE IF s \in found THEN "queued_resolved" ELSE "failed"]
  /\ Moves(w, "continue")
  /\ UNCHANGED <<caller, exec, job, calls, events>>

\* finalizeIfComplete
FinalStatus ==
  IF \A s \in Shops : shop[s] = "done" THEN "done"
  ELSE IF Successful THEN "partial_success" ELSE "failed"
Finalize(w) ==
  /\ Is(w, "finalize")
  /\ exec' = IF exec = "running" /\ \A s \in Shops : shop[s] \notin Unsettled THEN FinalStatus ELSE exec
  /\ Completes(w)
  /\ UNCHANGED <<caller, shop, calls, events>>

-----------------------------------------------------------------------------
(* What goes wrong.                                                        *)

\* A write or a publication fails, and the job with it.
Throws(w) ==
  /\ worker[w].at \in {"begin", "prepare", "read", "create", "unpublished", "claim", "cancel",
                       "answer", "continue", "enqueue", "resolve", "finalize"}
  /\ Spend
  /\ Fails(w)
  /\ UNCHANGED <<caller, exec, shop, calls>>

\* The handler of a failed job: of the coordinator, of the look-up, of a store.
OnFailed(w) ==
  LET j == worker[w].job
      over == IF Successful THEN "partial_success" ELSE "failed"
  IN
  /\ Is(w, "failed")
  /\ CASE j = Coordinator ->
            /\ exec' = IF exec \in Active THEN "failed" ELSE exec
            /\ Goes(w, Idle) /\ UNCHANGED shop
       [] j = Advance ->
            /\ IF exec \in Active THEN exec' = over /\ shop' = SettleAll("cancelled")
               ELSE UNCHANGED <<exec, shop>>
            /\ Goes(w, Idle)
       [] OTHER ->
            /\ FinishShop(j, "failed")
            /\ Moves(w, "continue") /\ UNCHANGED exec
  /\ UNCHANGED <<caller, job, calls, events>>

Die(w) ==
  /\ worker[w] # Idle /\ Spend
  /\ Goes(w, Idle)
  /\ UNCHANGED <<caller, exec, shop, job, calls>>

\* A worker that is alive cannot renew the lock of its job.
LoseLock(w) ==
  /\ worker[w] # Idle /\ worker[w].own /\ Spend
  /\ worker' = [worker EXCEPT ![w].own = FALSE]
  /\ UNCHANGED <<caller, exec, shop, job, calls>>

\* A job without its worker is delivered once more, or fails.
Stalled(j) ==
  /\ job[j] = "active" /\ \A w \in Workers : worker[w] # Idle /\ worker[w].job = j => ~ worker[w].own
  /\ \/ job' = [job EXCEPT ![j] = "waiting"] /\ UNCHANGED worker
     \/ /\ job' = [job EXCEPT ![j] = "failed"]
        /\ \E w \in Workers :
             worker[w] = Idle /\ Goes(w, [at |-> "failed", job |-> j, own |-> FALSE, seen |-> FALSE])
  /\ UNCHANGED <<caller, exec, shop, calls, events>>

-----------------------------------------------------------------------------
(* The rule's page and the timer.                                          *)

\* stopRule; the jobs that wait are removed, unless the process dies before.
Stop ==
  /\ exec \in Active
  /\ exec' = "cancelled" /\ shop' = SettleAll("cancelled")
  /\ job' \in {job, [j \in JobIds |-> IF job[j] = "waiting" THEN "absent" ELSE job[j]]}
  /\ UNCHANGED <<caller, worker, calls, events>>

\* recoverStaleExecutions: nothing happened for fifteen minutes, because nobody is
\* left to do it, or somebody is slow.
Abandoned ==
  /\ \A w \in Workers : worker[w] = Idle
  /\ \A j \in JobIds : job[j] \notin {"waiting", "active"}
Recover ==
  /\ exec \in Active
  /\ IF Abandoned THEN UNCHANGED events ELSE Spend
  /\ exec' = (IF Successful THEN "partial_success" ELSE "failed") /\ shop' = SettleAll("cancelled")
  /\ UNCHANGED <<caller, job, worker, calls>>

-----------------------------------------------------------------------------

Work(w) ==
  \/ Begin(w) \/ Preparation(w) \/ Read(w) \/ Create(w) \/ PublishFirst(w) \/ Published(w) \/ Unpublished(w)
  \/ Claim(w) \/ Ensure(w) \/ Call(w) \/ Cancel(w) \/ Answer(w)
  \/ Continue(w) \/ EnqueueShop(w) \/ Resolve(w) \/ Finalize(w) \/ OnFailed(w)

Next ==
  \/ Enqueue \/ EnqueueFails \/ Unqueued
  \/ \E w \in Workers : Work(w) \/ ShopFails(w) \/ Throws(w) \/ Die(w) \/ LoseLock(w)
  \/ \E w \in Workers, j \in JobIds : Take(w, j)
  \/ \E j \in JobIds : Stalled(j)
  \/ Stop \/ Recover

\* The request ends, and as long as there is work some worker goes on; when there
\* is none the timer comes.
Fairness ==
  /\ WF_vars(Enqueue \/ Unqueued)
  /\ WF_vars(\E w \in Workers : Work(w) \/ \E j \in JobIds : Take(w, j))
  /\ WF_vars(\E j \in JobIds : Stalled(j))
  /\ WF_vars(Abandoned /\ Recover)

Spec == Init /\ [][Next]_vars /\ Fairness

-----------------------------------------------------------------------------
(* Properties.                                                             *)

\* enqueueExecution, enqueueShop: DiDi takes one request per store in ten minutes,
\* so that an execution tells it once of each store, whichever job stalls, fails
\* or is delivered again.
CalledOnce == \A s \in Shops : calls[s] <= 1

\* An execution is recorded as done only when every store was turned off, and no
\* late job or handler takes that back.
DoneMeansOff == exec = "done" => \A s \in Shops : shop[s] = "done" /\ calls[s] = 1

\* Every execution ends, though jobs, workers and publications are lost.
TurnOffEnds == exec \in Active ~> exec \notin Active
=============================================================================
