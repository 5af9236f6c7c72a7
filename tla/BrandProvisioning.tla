-------------------------- MODULE BrandProvisioning --------------------------
(***************************************************************************)
(* The tasks of Store Onboarding that create stores of one brand, and the  *)
(* tasks that create the brand, which they wait for.  The first store task *)
(* writes down the provisioning of the brand, with the newest brand task    *)
(* as its source, or as ready when there is none; each store task depends  *)
(* on it.  Whoever ends a task calls a hook, which may be lost, and cron    *)
(* jobs find what was lost: they settle the provisioning, release the      *)
(* store tasks, and give the request of a store task its stores.           *)
(*                                                                         *)
(* A transaction reads in one step and writes in a later one, at its        *)
(* commit: between them it holds the shared lock of the switch and, where  *)
(* the code takes it, the advisory lock of the brand, but not the rows it  *)
(* has read.  The steps of the tasks are in TaskEngine.                    *)
(***************************************************************************)
EXTENDS Integers, Sequences, FiniteSetsExt

CONSTANTS
  StoreTasks,     \* tasks that create stores
  Hooks,          \* calls of reconcileTaskAfterChange at a time
  MaxBrandTasks,  \* bound: tasks that create the brand
  MaxEvents       \* bound: deaths, retries, and the switch turned off

VARIABLES
  gate,     \* globalEnabled
  maker,    \* the status of each brand task, the oldest first
  prov,     \* BrandProvisioning: status, source (0: there was no brand task)
  store,    \* Task.status of each store task
  dep,      \* TaskDependency.status of each
  stage,    \* StoreOnboardingRequest.currentStage of each
  tx,       \* what each hook, and the creation of each store task, is doing
  stale,    \* history: a transaction settled a provisioning that was no longer as read
  revived,  \* history: a brand task that had failed was retried
  events    \* events so far

rows == <<prov, store, dep, stage>>
history == <<stale, revived>>
vars == <<gate, maker, prov, store, dep, stage, tx, stale, revived, events>>

Idle == [at |-> "idle"]
Ended == {"done", "failed"}
BrandTasks == DOMAIN maker

Init ==
  /\ gate = TRUE
  /\ maker = <<>>
  /\ prov = [status |-> "none", source |-> 0]
  /\ store = [s \in StoreTasks |-> "none"]
  /\ dep = [s \in StoreTasks |-> "none"]
  /\ stage = [s \in StoreTasks |-> "none"]
  /\ tx = [x \in Hooks \cup StoreTasks |-> Idle]
  /\ stale = FALSE /\ revived = FALSE
  /\ events = 0

Spend == events < MaxEvents /\ events' = events + 1

Goes(x, state) == tx' = [tx EXCEPT ![x] = state]

\* The advisory lock of the brand is free.
BrandUnlocked == \A x \in DOMAIN tx : tx[x].at \notin {"decided", "locked"}

-----------------------------------------------------------------------------
(* What a provisioning means for the tasks that depend on it.              *)

\* The status of a provisioning whose source has the status v.
ProvisioningStatus(v) ==
  CASE v \in {"none", "done"} -> "ready" [] v = "failed" -> "failed" [] OTHER -> "pending"

\* dependencyStatus
DependencyStatus(p) ==
  CASE p = "ready" -> "satisfied" [] p = "failed" -> "failed" [] OTHER -> "waiting"

\* Mutant: who adopts a brand task forgets those that failed with the last one.
AffectedWaiting(adopts) == {s \in StoreTasks : dep[s] = "waiting"}

\* The dependencies that a verdict settles.
Affected(adopts) ==
  {s \in StoreTasks : dep[s] = "waiting" \/ (adopts /\ dep[s] = "failed")}

\* The dependencies of S become v: with good news their tasks go on, otherwise
\* they and their requests wait.  A task that is new has no status yet.
Resolve(S, v) ==
  LET Becomes(f, yes) == [s \in StoreTasks |->
        IF s \in S /\ f[s] \in {"none", "blocked"}
        THEN IF v = "satisfied" THEN yes ELSE "blocked"
        ELSE f[s]]
  IN /\ dep' = [s \in StoreTasks |-> IF s \in S THEN v ELSE dep[s]]
     /\ store' = Becomes(store, "pending")
     /\ stage' = Becomes(stage, "created")

\* prov becomes p, by a transaction that has read it as seen.
Settles(p, seen) == prov' = p /\ stale' = (stale \/ prov # seen)

\* The provisioning failed, and the later brand task m takes its place.
Adopts(m, seen) == seen.status = "failed" /\ m > seen.source

-----------------------------------------------------------------------------
(* The creation of a store task.                                           *)

\* The task gets its timestamp; OFF leaves Store Onboarding out of it.
Create(s) ==
  /\ gate
  /\ store[s] = "none" /\ tx[s].at = "idle"
  /\ Goes(s, [at |-> "creating", newest |-> Len(maker)])
  /\ UNCHANGED <<gate, maker, rows, history, events>>

\* ensureBrandProvisioning takes the lock of the brand, and reads.
Decide(s) ==
  /\ tx[s].at = "creating"
  /\ BrandUnlocked
  /\ LET m == tx[s].newest
     IN Goes(s, [at |-> "decided", newest |-> m, seen |-> prov,
                 status |-> IF m = 0 THEN "none" ELSE maker[m]])
  /\ UNCHANGED <<gate, maker, rows, history, events>>

\* It writes the provisioning, if there was none or it adopts a brand task; the
\* task and its request are created, and wait if the brand is not ready.
Register(s) ==
  /\ tx[s].at = "decided"
  /\ LET d == tx[s]
         adopts == Adopts(d.newest, d.seen)
         mine == IF adopts \/ d.seen.status = "none"
                 THEN [status |-> ProvisioningStatus(d.status), source |-> d.newest]
                 ELSE d.seen
     IN /\ Settles(IF mine = d.seen THEN prov ELSE mine, d.seen)
        /\ Resolve({s} \cup (IF adopts THEN Affected(TRUE) ELSE {}),
                   DependencyStatus(mine.status))
  /\ Goes(s, Idle)
  /\ UNCHANGED <<gate, maker, revived, events>>

-----------------------------------------------------------------------------
(* Tasks.                                                                  *)

\* afterTerminalTask(t), unless the process dies before it.
Calls(t) ==
  \/ \E h \in Hooks : tx[h].at = "idle" /\ Goes(h, [at |-> "called", task |-> t]) /\ UNCHANGED events
  \/ Spend /\ UNCHANGED tx

CreateBrandTask ==
  /\ Len(maker) < MaxBrandTasks
  /\ maker' = Append(maker, "open")
  /\ UNCHANGED <<gate, rows, tx, history, events>>

BrandTaskEnds(m) ==
  /\ maker[m] = "open"
  /\ \E v \in Ended : maker' = [maker EXCEPT ![m] = v]
  /\ Calls(m)
  /\ UNCHANGED <<gate, rows, history>>

\* Somebody retries its failed step.
RetryBrandTask(m) ==
  /\ maker[m] = "failed" /\ Spend
  /\ maker' = [maker EXCEPT ![m] = "open"]
  /\ revived' = TRUE
  /\ UNCHANGED <<gate, rows, tx, stale>>

\* canActivateTaskInTransaction, in each transaction on a step of a store task.
CanActivate(s) == gate /\ dep[s] = "satisfied"

StoreTaskGoesOn(s) ==
  /\ CanActivate(s)
  /\ \/ store[s] \in {"pending", "blocked"} /\ store' = [store EXCEPT ![s] = "active"] /\ UNCHANGED events
     \/ store[s] = "failed" /\ Spend /\ store' = [store EXCEPT ![s] = "active"]
  /\ UNCHANGED <<gate, maker, prov, dep, stage, tx, history>>

StoreTaskEnds(s) ==
  /\ CanActivate(s)
  /\ store[s] = "active"
  /\ \E v \in Ended : store' = [store EXCEPT ![s] = v]
  /\ Calls(s)
  /\ UNCHANGED <<gate, maker, prov, dep, stage, history>>

-----------------------------------------------------------------------------
(* reconcileTaskAfterChange.                                               *)

\* The hook reads its task, and whether the provisioning has it as its source.
ReadTask(h) ==
  /\ tx[h].at = "called"
  /\ LET t == tx[h].task
         status == IF t \in StoreTasks THEN store[t] ELSE maker[t]
         found == t \notin StoreTasks /\ prov.source = t
     IN Goes(h, IF ~ gate THEN Idle
                ELSE IF found THEN [at |-> "found", task |-> t, status |-> status, seen |-> prov]
                ELSE [at |-> "searching", task |-> t, status |-> status])
  /\ UNCHANGED <<gate, maker, rows, history, events>>

\* Otherwise it takes the lock of the brand, and reads its provisioning.
ReadProvisioning(h) ==
  /\ tx[h].at = "searching"
  /\ BrandUnlocked
  /\ Goes(h, [at |-> "locked", task |-> tx[h].task, status |-> tx[h].status, seen |-> prov])
  /\ UNCHANGED <<gate, maker, rows, history, events>>

\* What it makes of the provisioning, for the dependencies that wait for its task.
SettleProvisioning(h) ==
  LET x == tx[h]
      adopts == x.at = "locked" /\ Adopts(x.task, x.seen)
      verdict == IF x.status \in Ended THEN ProvisioningStatus(x.status) ELSE "pending"
      settles == x.at = "found" /\ x.seen.status = "pending" /\ x.status \in Ended
  IN IF adopts \/ settles
     THEN /\ Settles([status |-> verdict, source |-> IF adopts THEN x.task ELSE prov.source], x.seen)
          /\ Resolve(Affected(adopts), DependencyStatus(verdict))
     ELSE UNCHANGED <<rows, stale>>

\* ensureRequestForTask: the request of a task that is done gets its stores, once.
SettleRequest(h) ==
  LET t == tx[h].task
  IN /\ stage' =
          CASE tx[h].status = "done" /\ stage[t] # "hydrated" -> [stage EXCEPT ![t] = "hydrated"]
            [] tx[h].status = "failed" -> [stage EXCEPT ![t] = "creation_failed"]
            [] OTHER -> stage
     /\ UNCHANGED <<prov, dep, store, stale>>

Commit(h) ==
  /\ tx[h].at \in {"found", "locked"}
  /\ IF tx[h].task \in StoreTasks THEN SettleRequest(h) ELSE SettleProvisioning(h)
  /\ Goes(h, Idle)
  /\ UNCHANGED <<gate, maker, revived, events>>

\* The process dies, or the transaction is rolled back.
Die(x) ==
  /\ tx[x].at # "idle" /\ Spend
  /\ Goes(x, Idle)
  /\ UNCHANGED <<gate, maker, rows, history>>

-----------------------------------------------------------------------------
(* The cron jobs and the switch.                                           *)

\* The brand tasks that ended after the source of the provisioning was created.
Later == {m \in BrandTasks : m > prov.source /\ maker[m] \in Ended}

SourceEnded == prov.status = "pending" /\ maker[prov.source] \in Ended

\* Mutant: what has failed is not looked at again.
RecoverablePending == IF SourceEnded THEN {prov.source} ELSE {}

\* The task that settles the provisioning, if there is one: its source, or the
\* newest task that may take the place of one that failed.
Recoverable ==
  IF SourceEnded THEN {prov.source}
  ELSE IF prov.status = "failed" /\ Later # {} THEN {Max(Later)} ELSE {}

\* recoverTerminalBrandProvisionings
RecoverProvisioning(h) ==
  /\ gate
  /\ tx[h].at = "idle"
  /\ \E m \in Recoverable : Goes(h, [at |-> "called", task |-> m])
  /\ UNCHANGED <<gate, maker, rows, history, events>>

\* reconcileTerminalTasks
RecoverRequest(h, s) ==
  /\ gate
  /\ tx[h].at = "idle"
  /\ \/ stage[s] = "created" /\ store[s] = "done"
     \/ stage[s] # "creation_failed" /\ store[s] = "failed"
  /\ Goes(h, [at |-> "called", task |-> s])
  /\ UNCHANGED <<gate, maker, rows, history, events>>

\* updateControl waits for the transactions that hold the switch.
Switch ==
  /\ \A x \in DOMAIN tx : tx[x].at \in {"idle", "called"}
  /\ IF gate THEN Spend ELSE UNCHANGED events
  /\ gate' = ~ gate
  /\ UNCHANGED <<maker, rows, tx, history>>

-----------------------------------------------------------------------------

Next ==
  \/ \E s \in StoreTasks :
       \/ Create(s) \/ Decide(s) \/ Register(s)
       \/ StoreTaskGoesOn(s) \/ StoreTaskEnds(s)
  \/ CreateBrandTask
  \/ \E m \in BrandTasks : BrandTaskEnds(m) \/ RetryBrandTask(m)
  \/ \E h \in Hooks :
       \/ ReadTask(h) \/ ReadProvisioning(h) \/ Commit(h)
       \/ RecoverProvisioning(h)
       \/ \E s \in StoreTasks : RecoverRequest(h, s)
  \/ \E x \in DOMAIN tx : Die(x)
  \/ Switch

Spec == Init /\ [][Next]_vars

\* Transactions go on, and the cron jobs run for ever.
Fairness ==
  /\ \A s \in StoreTasks :
       /\ WF_vars(Decide(s) \/ Register(s))
       /\ WF_vars(\E h \in Hooks : RecoverRequest(h, s))
  /\ \A h \in Hooks : WF_vars(ReadTask(h) \/ ReadProvisioning(h) \/ Commit(h))
  /\ WF_vars(\E h \in Hooks : RecoverProvisioning(h))

FairSpec == Spec /\ Fairness

-----------------------------------------------------------------------------
(* What the store tasks of a brand rely on.                                *)

Status == {"none", "blocked", "pending", "active"} \cup Ended

TypeOK ==
  /\ gate \in BOOLEAN /\ stale \in BOOLEAN /\ revived \in BOOLEAN
  /\ maker \in Seq({"open"} \cup Ended) /\ Len(maker) <= MaxBrandTasks
  /\ prov \in [status : {"none", "pending", "ready", "failed"}, source : 0..Len(maker)]
  /\ store \in [StoreTasks -> Status]
  /\ dep \in [StoreTasks -> {"none", "waiting", "failed", "satisfied"}]
  /\ stage \in [StoreTasks -> {"none", "blocked", "created", "hydrated", "creation_failed"}]
  /\ events \in 0..MaxEvents

\* ensureBrandProvisioning, reconcileBrandProvisioning: unless a transaction wrote
\* over what another had changed, the dependencies say what the provisioning says,
\* whoever wrote it; and no store is created before the brand is, or was taken to
\* be there.
BrandFirst ==
  /\ ~ stale => \A s \in StoreTasks :
       dep[s] # "none" => dep[s] = DependencyStatus(prov.status)
  /\ \A s \in StoreTasks : store[s] \in {"active"} \cup Ended =>
       prov.source = 0 \/ \E m \in BrandTasks : maker[m] = "done"

\* A store task waits although the brand tasks have ended, the last one well; or
\* its stores are created and its request has none.
Waits(s) ==
  /\ dep[s] \in {"waiting", "failed"}
  /\ Len(maker) > 0 /\ maker[Len(maker)] = "done"
  /\ \A m \in BrandTasks : maker[m] \in Ended
  /\ ~ stale /\ ~ revived
LacksStores(s) == store[s] = "done" /\ stage[s] = "created"

Owed(s) == gate /\ (Waits(s) \/ LacksStores(s))

\* recoverTerminalBrandProvisionings, reconcileTerminalTasks: whatever hook is lost,
\* neither lasts while the switch is on.  Not promised: what a brand task leaves
\* that failed and was retried itself, and what a late transaction left.
BrandReleases == \A s \in StoreTasks : Owed(s) ~> ~ Owed(s)
=============================================================================
