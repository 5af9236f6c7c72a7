--------------------------- MODULE StoreEmergency ---------------------------
(***************************************************************************)
(* The store emergencies of one brand and the opening guard: an emergency  *)
(* closes the stores of the brand on the provider, keeps them closed until *)
(* its end and reopens those it closed.  StoreEmergencyService (requests   *)
(* of people), StoreEmergencyScheduler (due reopenings, the watchdog over  *)
(* stale transitions), StoreEmergencyProcessor (jobs that close, reopen    *)
(* and reconcile) and StoreOpeningGuardService (the permit every opening   *)
(* takes, here those of Auto Open and Forced Open).                        *)
(*                                                                         *)
(* A database transaction is one action.  The brand's advisory lock is     *)
(* held across an opening or a reconciling write, so a shared holder is a  *)
(* process between its permit and the provider's answer, and a transaction *)
(* that wants it exclusively waits for NoPermit.  updatedAt, the lease of a *)
(* target, is the process that wrote the row last.                         *)
(*                                                                         *)
(* The provider applies a write before its caller stops waiting or never,  *)
(* and the 8 seconds a write may take end before the watchdog's 5 minutes: *)
(* no stale target has a write under way.                                  *)
(***************************************************************************)
EXTENDS Integers, FiniteSets

CONSTANTS
  Emergencies,  \* ids of emergencies
  Shops,        \* the stores of the brand
  Jobs,         \* jobs the queue and its workers hold at once
  Openers,      \* executions of Auto Open or Forced Open
  Nobody,       \* no process; no emergency
  MaxEvents     \* bound: crashes, lost calls, retries and acts of people

ASSUME EmergencyConstants ==
  /\ Nobody \notin Emergencies \cup Shops \cup Jobs \cup Openers
  /\ "recon" \notin Jobs
  /\ {"staff", "opener"} \cap Emergencies = {}
  /\ MaxEvents \in Nat

VARIABLES
  known,      \* the stores registered in the database
  later,      \* the stores that will be added to the brand
  em,         \* StoreEmergency rows
  target,     \* StoreEmergencyTarget rows
  request,    \* a request between its transaction and the queue
  job,        \* jobs of the queue 'store-emergency'
  at,         \* where the worker of a job is with each target
  used,       \* emergencies whose stable job id '<id>-restore' is taken
  recon,      \* the 'reconcile' job of each emergency
  opener,     \* the store an opener holds a permit for
  store,      \* state on the provider, and who wrote it last
  closedBy,   \* history: the emergency that closed the store and did not reopen it
  events      \* bounded events so far

vars == <<known, later, em, target, request, job, at, used, recon, opener, store, closedBy, events>>

Staff == "staff"
Opener == "opener"

InShutdown == {"pending", "running"}
InPlace == {"offline", "partial_success"}
LiveStatus == InShutdown \cup InPlace \cup {"restoring"}
Ended == {"failed", "restored", "partial_restored", "restore_failed"}

Absent == [offline |-> "absent", restore |-> "not_required", lease |-> Nobody,
           tried |-> FALSE, doubt |-> FALSE]
Fresh == [Absent EXCEPT !.offline = "pending", !.restore = "pending"]
Appended == [Absent EXCEPT !.offline = "pending"]
Closed == [offline |-> "done", restore |-> "done", lease |-> Nobody, tried |-> TRUE, doubt |-> FALSE]
NoRequest == [kind |-> "none"]
Free == [phase |-> "free"]
NoRecon == [step |-> "idle", shop |-> Nobody]

\* The brand has stores; some of the emergencies are history.
Init ==
  /\ known \in (SUBSET Shops) \ {{}}
  /\ later \in SUBSET (Shops \ known)
  /\ \E past \in SUBSET Emergencies :
       /\ em = [e \in Emergencies |->
                  IF e \in past
                  THEN [status |-> "restored", all |-> FALSE, finished |-> TRUE, due |-> TRUE, fresh |-> FALSE]
                  ELSE [status |-> "none", all |-> FALSE, finished |-> FALSE, due |-> FALSE, fresh |-> FALSE]]
       /\ target = [e \in Emergencies |-> [s \in Shops |-> IF e \in past /\ s \in known THEN Closed ELSE Absent]]
  /\ request = [e \in Emergencies |-> NoRequest]
  /\ job = [j \in Jobs |-> Free]
  /\ at = [j \in Jobs |-> [s \in Shops |-> "idle"]]
  /\ used = {}
  /\ recon = [e \in Emergencies |-> NoRecon]
  /\ opener = [o \in Openers |-> Nobody]
  /\ store = [s \in Shops |-> [open |-> TRUE, by |-> Staff]]
  /\ closedBy = [s \in Shops |-> Nobody]
  /\ events \in 0..MaxEvents

-----------------------------------------------------------------------------
(* Emergencies, their targets and what they protect.                       *)

Live(e) == em[e].status \in LiveStatus /\ ~ em[e].finished

Targets(e) == {s \in Shops : target[e][s].offline # "absent"}

Covers(e, s) == em[e].all \/ s \in Targets(e)

\* storeEmergencyConflict: another live emergency protects one of the stores.
Conflict(e, S) == \E d \in Emergencies \ {e} : Live(d) /\ (em[d].all \/ S \cap Targets(d) # {})

MidWrite(e, s) == \E j \in Jobs : job[j].phase # "free" /\ job[j].em = e /\ at[j][s] = "writing"

\* A job is between the read and the write it settles the emergency with.
Settling(e) == \E j \in Jobs : job[j].phase = "settling" /\ job[j].em = e

\* Mutant: openings do not take the brand's lock.
NoRemoteWrite == \A e \in Emergencies : recon[e].step # "writing"

\* Nobody holds the brand's advisory lock shared.
NoPermit ==
  /\ \A o \in Openers : opener[o] = Nobody
  /\ \A e \in Emergencies : recon[e].step # "writing"
  /\ \A j \in Jobs, s \in Shops : at[j][s] = "writing" => job[j].action # "restore"

Spend == events < MaxEvents /\ events' = events + 1

Owned(t) == t.restore \in {"required", "running"}

\* Targets a restore has to open.
Reopens(t) == t.restore = "required" \/ (t.offline = "done" /\ t.restore = "pending")

\* Targets a retry of the restoration takes up again.
Retryable(t) == t.restore = "required" \/ (t.restore = "failed" /\ (t.offline = "done" \/ t.tried))

\* Mutant: targets that may have been closed do not keep the emergency alive.
ShutdownStatusConfirmed(T) ==
  LET all == {s \in Shops : T[s].offline # "absent"}
      done == {s \in all : T[s].offline = "done"}
  IN  IF done = all THEN "offline" ELSE IF done # {} THEN "partial_success" ELSE "failed"

\* The state the targets T of an emergency put it in, when its shutdown ends
\* and when its restoration does.
ShutdownStatus(T) ==
  LET all == {s \in Shops : T[s].offline # "absent"}
      done == {s \in all : T[s].offline = "done"}
      ambiguous == {s \in all \ done : Owned(T[s])}
  IN  IF done = all THEN "offline"
      ELSE IF done \cup ambiguous # {} THEN "partial_success" ELSE "failed"

RestoreStatus(T) ==
  LET reopened == {s \in Shops : T[s].restore = "done"}
      required == {s \in Shops : /\ T[s].restore # "not_required"
                                 /\ T[s].offline = "done" \/ T[s].restore # "pending"}
  IN  IF reopened = required THEN "restored"
      ELSE IF reopened # {} THEN "partial_restored" ELSE "restore_failed"

\* The targets of e after a write of the rows in the domain of rows, which
\* takes the lease of each away.
Written(e, rows) ==
  [s \in Shops |-> IF s \in DOMAIN rows THEN [rows[s] EXCEPT !.lease = Nobody] ELSE target[e][s]]

-----------------------------------------------------------------------------
(* Requests: a transaction under the brand's lock, then a job is queued.   *)

Create(e, all, S) ==
  /\ em[e].status = "none" /\ NoPermit
  /\ S # {} /\ S \subseteq known /\ (all => S = known)
  /\ ~ Conflict(e, S)
  /\ em' = [em EXCEPT ![e] = [status |-> "pending", all |-> all, finished |-> FALSE,
                              due |-> FALSE, fresh |-> TRUE]]
  /\ target' = [target EXCEPT ![e] = [s \in Shops |-> IF s \in S THEN Fresh ELSE Absent]]
  /\ request' = [request EXCEPT ![e] = [kind |-> "create", action |-> "offline"]]
  /\ UNCHANGED <<known, later, job, at, used, recon, opener, store, closedBy, events>>

\* The transition both restoreNow and the scheduler make.
Restore(e) ==
  /\ em[e].status \in InPlace /\ ~ em[e].finished /\ NoPermit
  /\ request[e] = NoRequest
  /\ em' = [em EXCEPT ![e].status = "restoring", ![e].fresh = TRUE]
  /\ request' = [request EXCEPT ![e] = [kind |-> "restore", action |-> "restore",
                                        before |-> em[e].status]]
  /\ UNCHANGED <<known, later, target, job, at, used, recon, opener, store, closedBy>>

RestoreNow(e) == Restore(e) /\ ~ em[e].due /\ Spend

RestoreExpired(e) == Restore(e) /\ em[e].due /\ UNCHANGED events

\* retryFailures: back to pending, or to restoring, for the failed targets.
\* (Nobody is so fast as to come between the read and the write that settle it.)
RetryFailures(e) ==
  LET again == em[e].status \in {"failed", "partial_success"}
      S == {s \in Targets(e) : IF again THEN target[e][s].offline = "failed" ELSE Retryable(target[e][s])}
      was == {s \in S : target[e][s].restore = "failed"}
  IN  /\ em[e].status \in {"failed", "partial_success", "restore_failed", "partial_restored"}
      /\ request[e] = NoRequest /\ NoPermit /\ ~ Settling(e) /\ Spend
      /\ again => ~ em[e].due
      /\ S # {} /\ ~ Conflict(e, S)
      /\ em' = [em EXCEPT ![e].status = IF again THEN "pending" ELSE "restoring",
                          ![e].finished = FALSE, ![e].fresh = TRUE]
      /\ target' = [target EXCEPT ![e] = Written(e, [s \in S |->
                      IF again THEN [@[s] EXCEPT !.offline = "pending"] ELSE [@[s] EXCEPT !.restore = "required"]])]
      /\ request' = [request EXCEPT ![e] =
                       [kind |-> "retry", action |-> IF again THEN "offline" ELSE "restore",
                        before |-> em[e].status, ended |-> em[e].finished,
                        taken |-> S, was |-> was]]
      /\ UNCHANGED <<known, later, job, at, used, recon, opener, store, closedBy>>

\* queue.add: the job is in Redis.  The id of a restore job is stable, and a
\* second job with an id the queue still remembers is not created.
Stored(e) ==
  LET r == request[e] IN
  IF r.kind = "restore" /\ e \in used THEN UNCHANGED <<job, used>>
  ELSE /\ \E j \in Jobs : /\ job[j] = Free
                          /\ job' = [job EXCEPT ![j] = [phase |-> "queued", em |-> e, action |-> r.action]]
       /\ used' = IF r.kind = "restore" THEN used \cup {e} ELSE used

\* The queue takes the job and says so, or the process dies before it hears it.
Queued(e) ==
  /\ request[e] # NoRequest /\ Stored(e)
  /\ request' = [request EXCEPT ![e] = NoRequest]
  /\ em' = [em EXCEPT ![e].fresh = FALSE]
  /\ UNCHANGED <<known, later, target, at, recon, opener, store, closedBy, events>>

\* The queue reports a failure, whether or not it kept the job: the transition
\* is taken back unless somebody has written the row since.
NotQueued(e) ==
  LET r == request[e] IN
  /\ r # NoRequest /\ Spend
  /\ Stored(e) \/ UNCHANGED <<job, used>>
  /\ request' = [request EXCEPT ![e] = NoRequest]
  /\ \/ ~ em[e].fresh /\ UNCHANGED <<em, target>>
     \/ /\ em[e].fresh /\ r.kind = "create"
        /\ em' = [em EXCEPT ![e].status = "failed", ![e].finished = TRUE, ![e].fresh = FALSE]
        /\ target' = [target EXCEPT ![e] = Written(e,
                        [s \in {x \in Shops : @[x].offline = "pending"} |-> [@[s] EXCEPT !.offline = "failed"]])]
     \/ /\ em[e].fresh /\ r.kind = "restore"
        /\ em' = [em EXCEPT ![e].status = r.before, ![e].fresh = FALSE]
        /\ UNCHANGED target
     \/ /\ em[e].fresh /\ r.kind = "retry"
        /\ em' = [em EXCEPT ![e].status = r.before, ![e].finished = r.ended, ![e].fresh = FALSE]
        /\ target' = [target EXCEPT ![e] = Written(e,
                        IF r.action = "offline"
                        THEN [s \in {x \in r.taken : @[x].offline = "pending"} |-> [@[s] EXCEPT !.offline = "failed"]]
                        ELSE [s \in {x \in r.was : @[x].restore = "required"} |-> [@[s] EXCEPT !.restore = "failed"]])]
  /\ UNCHANGED <<known, later, at, recon, opener, store, closedBy>>

\* The process that serves the request dies before it queues the job.
RequestDies(e) ==
  /\ request[e] # NoRequest /\ Spend
  /\ request' = [request EXCEPT ![e] = NoRequest]
  /\ em' = [em EXCEPT ![e].fresh = FALSE]
  /\ UNCHANGED <<known, later, target, job, at, used, recon, opener, store, closedBy>>

\* endsAt passes, or a person moves it (updateReopening).
Expire(e) ==
  /\ Live(e) /\ ~ em[e].due
  /\ em' = [em EXCEPT ![e].due = TRUE]
  /\ UNCHANGED <<known, later, target, request, job, at, used, recon, opener, store, closedBy, events>>

UpdateReopening(e) ==
  /\ em[e].status \in InShutdown \cup InPlace /\ em[e].due /\ Spend
  /\ em' = [em EXCEPT ![e].due = FALSE, ![e].fresh = FALSE]
  /\ UNCHANGED <<known, later, target, request, job, at, used, recon, opener, store, closedBy>>

-----------------------------------------------------------------------------
(* The jobs that close and reopen.                                         *)

InJob(j, e, action) == job[j].phase # "free" /\ job[j].em = e /\ job[j].action = action

\* Takes the job from the queue: a shutdown claims the emergency, a restoration
\* only looks at it; a job that is not due any more ends here.
Start(j) ==
  /\ job[j].phase = "queued"
  /\ LET e == job[j].em
         claims == IF job[j].action = "offline" THEN em[e].status = "pending" /\ ~ em[e].finished
                   ELSE em[e].status = "restoring" /\ ~ em[e].finished
     IN  IF claims
         THEN /\ job' = [job EXCEPT ![j].phase = "claimed"]
              /\ em' = [em EXCEPT ![e].status = IF @ = "pending" THEN "running" ELSE @, ![e].fresh = FALSE]
         ELSE /\ job' = [job EXCEPT ![j] = Free]
              /\ UNCHANGED em
  /\ UNCHANGED <<known, later, target, request, at, used, recon, opener, store, closedBy, events>>

\* The job tells the emergency that it is at work, which rewrites the row.
Heartbeat(j) ==
  LET e == job[j].em  status == IF job[j].action = "offline" THEN "running" ELSE "restoring" IN
  em' = IF em[e].status = status /\ ~ em[e].finished THEN [em EXCEPT ![e].fresh = FALSE] ELSE em

\* Reads the targets it will process.
ReadTargets(j) ==
  /\ job[j].phase = "claimed"
  /\ LET e == job[j].em
         todo == {s \in Targets(e) : IF job[j].action = "offline" THEN target[e][s].offline = "pending"
                                     ELSE Reopens(target[e][s])}
     IN  job' = [job EXCEPT ![j] = [phase |-> "working", em |-> e, action |-> job[j].action, todo |-> todo]]
  /\ Heartbeat(j)
  /\ UNCHANGED <<known, later, target, request, at, used, recon, opener, store, closedBy, events>>

\* The application has no usable credentials: every open target fails at once,
\* but the mark of a store the emergency may have closed is never erased.
\* (Credentials do not go away in the seconds another job's write is under way.)
FailEmergency(j) ==
  /\ job[j].phase = "claimed" /\ Spend
  /\ \A s \in Shops : ~ MidWrite(job[j].em, s)
  /\ LET e == job[j].em
         offline == job[j].action = "offline"
         open == {s \in Shops : IF offline THEN target[e][s].offline \in InShutdown
                                ELSE Reopens(target[e][s]) \/ target[e][s].restore = "running"}
         failed == Written(e, [s \in open |->
                     IF offline THEN [target[e][s] EXCEPT !.offline = "failed"]
                     ELSE [target[e][s] EXCEPT !.restore = IF target[e][s].offline = "done" THEN "failed"
                                                           ELSE "required"]])
         status == IF offline THEN ShutdownStatus(failed) ELSE RestoreStatus(failed)
     IN  IF ~ em[e].finished /\ em[e].status \in (IF offline THEN InShutdown ELSE {"restoring"})
         THEN /\ target' = [target EXCEPT ![e] = failed]
              /\ em' = [em EXCEPT ![e].status = status, ![e].finished = status \in Ended, ![e].fresh = FALSE]
         ELSE UNCHANGED <<em, target>>
  /\ job' = [job EXCEPT ![j] = Free]
  /\ UNCHANGED <<known, later, request, at, used, recon, opener, store, closedBy>>

\* The row is still the one this job's worker wrote last.
LeaseHeld(j, s) ==
  LET e == job[j].em  t == target[e][s] IN
  /\ t.lease = j /\ ~ em[e].finished
  /\ IF job[j].action = "offline" THEN t.offline = "running" /\ em[e].status = "running"
     ELSE t.restore = "running" /\ em[e].status = "restoring"

Moves(j, s, step) == at' = [at EXCEPT ![j][s] = step]

\* A worker of the job takes a target; a job works on up to three at a time.
ClaimTarget(j, s) ==
  LET e == job[j].em
      t == target[e][s]
      offline == job[j].action = "offline"
      claimed == IF offline THEN t.offline = "pending" /\ em[e].status = "running" /\ ~ em[e].finished
                 ELSE Reopens(t) /\ em[e].status = "restoring" /\ ~ em[e].finished
  IN  /\ job[j].phase = "working" /\ s \in job[j].todo
      /\ job' = [job EXCEPT ![j].todo = @ \ {s}]
      /\ IF claimed
         THEN /\ Moves(j, s, "claimed")
              /\ target' = [target EXCEPT ![e][s] =
                              IF offline THEN [@ EXCEPT !.offline = "running", !.lease = j]
                              ELSE [@ EXCEPT !.restore = "running", !.lease = j, !.tried = TRUE]]
         ELSE UNCHANGED <<at, target>>
      /\ UNCHANGED <<known, later, em, request, used, recon, opener, store, closedBy, events>>

\* Before it writes, the worker renews its lease.  A shutdown marks the target
\* as owned in the same statement; a restoration takes the opening permit,
\* which no live emergency but its own may refuse.
Renew(j, s) ==
  LET e == job[j].em IN
  /\ at[j][s] = "claimed"
  /\ \/ ~ LeaseHeld(j, s) /\ Moves(j, s, "idle") /\ UNCHANGED target
     \/ /\ LeaseHeld(j, s) /\ job[j].action = "offline"
        /\ target' = [target EXCEPT ![e][s].restore = "required"]
        /\ Moves(j, s, "writing")
     \/ /\ LeaseHeld(j, s) /\ job[j].action = "restore"
        /\ Moves(j, s, IF Conflict(e, {s}) THEN "refused" ELSE "writing")
        /\ UNCHANGED target
  /\ Heartbeat(j)
  /\ UNCHANGED <<known, later, request, job, used, recon, opener, store, closedBy, events>>

\* No token for the store.
NotAuthorized(j, s) ==
  /\ at[j][s] = "claimed"
  /\ Moves(j, s, "refused")
  /\ UNCHANGED <<known, later, em, target, request, job, used, recon, opener, store, closedBy, events>>

\* The provider's answer, or none: a write that is not confirmed may have been
\* applied all the same.
Write(j, s) ==
  LET e == job[j].em
      opens == job[j].action = "restore"
  IN  /\ at[j][s] = "writing"
      /\ \/ /\ store' = [store EXCEPT ![s] = [open |-> opens, by |-> e]]
            /\ closedBy' = [closedBy EXCEPT ![s] = IF opens THEN Nobody ELSE e]
            /\ Moves(j, s, "confirmed") \/ Moves(j, s, "refused")
         \/ Moves(j, s, "refused") /\ UNCHANGED <<store, closedBy>>
      /\ UNCHANGED <<known, later, em, target, request, job, used, recon, opener, events>>

\* Mutant: a closing that is not confirmed counts as done.
OutcomeOptimistic(t, offline, confirmed) ==
  IF offline THEN [t EXCEPT !.offline = "done", !.restore = "pending", !.lease = Nobody, !.doubt = FALSE]
  ELSE [t EXCEPT !.restore = IF confirmed THEN "done" ELSE "failed", !.lease = Nobody]

\* completeTarget, or failTarget.
Outcome(t, offline, confirmed) ==
  CASE offline /\ confirmed -> [t EXCEPT !.offline = "done", !.restore = "pending", !.lease = Nobody, !.doubt = FALSE]
    [] offline /\ ~ confirmed -> [t EXCEPT !.offline = "failed", !.lease = Nobody]
    [] ~ offline -> [t EXCEPT !.restore = IF confirmed THEN "done" ELSE "failed", !.lease = Nobody]

\* The worker reports what became of the target, unless its lease is gone.
Report(j, s) ==
  LET e == job[j].em IN
  /\ at[j][s] \in {"confirmed", "refused"}
  /\ Moves(j, s, "idle")
  /\ target' = IF LeaseHeld(j, s)
               THEN [target EXCEPT ![e][s] = Outcome(@, job[j].action = "offline", at[j][s] = "confirmed")]
               ELSE target
  /\ Heartbeat(j)
  /\ UNCHANGED <<known, later, request, job, used, recon, opener, store, closedBy, events>>

\* All targets processed: reads them to decide how the emergency stands.
Summarize(j) ==
  /\ job[j].phase = "working" /\ job[j].todo = {} /\ \A s \in Shops : at[j][s] = "idle"
  /\ LET e == job[j].em
         offline == job[j].action = "offline"
         deferred == \E s \in Shops : IF offline THEN target[e][s].offline \in InShutdown
                                      ELSE Reopens(target[e][s]) \/ target[e][s].restore = "running"
     IN  job' = [job EXCEPT ![j] =
                   IF deferred THEN Free
                   ELSE [phase |-> "settling", em |-> e, action |-> job[j].action,
                         status |-> IF offline THEN ShutdownStatus(target[e]) ELSE RestoreStatus(target[e])]]
  /\ UNCHANGED <<known, later, em, target, request, at, used, recon, opener, store, closedBy, events>>

Finalize(j) ==
  /\ job[j].phase = "settling"
  /\ LET e == job[j].em IN
     em' = IF ~ em[e].finished /\ em[e].status = (IF job[j].action = "offline" THEN "running" ELSE "restoring")
           THEN [em EXCEPT ![e].status = job[j].status, ![e].finished = job[j].status \in Ended, ![e].fresh = FALSE]
           ELSE em
  /\ job' = [job EXCEPT ![j] = Free]
  /\ UNCHANGED <<known, later, target, request, at, used, recon, opener, store, closedBy, events>>

\* The worker process dies; Bull gives a stalled job to another worker, once.
WorkerDies(j) ==
  /\ job[j].phase \notin {"free", "queued"} /\ Spend
  /\ \/ job' = [job EXCEPT ![j] = Free]
     \/ job' = [job EXCEPT ![j] = [phase |-> "queued", em |-> job[j].em, action |-> job[j].action]]
  /\ at' = [at EXCEPT ![j] = [s \in Shops |-> "idle"]]
  /\ UNCHANGED <<known, later, em, target, request, used, recon, opener, store, closedBy>>

-----------------------------------------------------------------------------
(* The watchdog: transitions nobody has moved for five minutes.            *)

\* No job, and no request, is left that would move the emergency.
Abandoned(e) == request[e] = NoRequest /\ \A j \in Jobs : job[j].phase # "free" => job[j].em # e

\* Transitions the watchdog asks for.
Transition(e) == em[e].status \in InShutdown \cup {"restoring"} /\ ~ em[e].finished

\* recoverStaleTransitions.  A transition that is only slow (a long queue, a
\* worker paused before or after its write) is taken over as well, but not one
\* with a write under way or a job that settles it.
Watchdog(e) ==
  LET offline == em[e].status \in InShutdown
      running == {s \in Shops : IF offline THEN target[e][s].offline = "running"
                                ELSE target[e][s].restore = "running"}
  IN  /\ Transition(e)
      /\ IF Abandoned(e) THEN UNCHANGED events ELSE Spend
      /\ \A s \in Shops : ~ MidWrite(e, s)
      /\ ~ Settling(e)
      /\ \E stale \in SUBSET running :
           /\ stale = {} => running = {}
           /\ target' = [target EXCEPT ![e] = Written(e, [s \in stale |->
                           IF offline THEN [@[s] EXCEPT !.offline = "pending"]
                           ELSE [@[s] EXCEPT !.restore = "required"]])]
      /\ em' = [em EXCEPT ![e].status = IF offline THEN "pending" ELSE "restoring"]
      /\ \E j \in Jobs :
           /\ job[j] = Free
           /\ job' = [job EXCEPT ![j] = [phase |-> "queued", em |-> e,
                                         action |-> IF offline THEN "offline" ELSE "restore"]]
      /\ UNCHANGED <<known, later, request, at, used, recon, opener, store, closedBy>>

-----------------------------------------------------------------------------
(* Reconciliation: stores of an emergency in place that are not closed.    *)

StillLive(e) == em[e].status \in InPlace /\ ~ em[e].finished /\ ~ em[e].due

\* prepareReconciliation: an emergency of the whole brand takes in new stores.
AppendStores(e) ==
  /\ StillLive(e) /\ NoPermit /\ em[e].all /\ known \ Targets(e) # {}
  /\ target' = [target EXCEPT ![e] = [s \in Shops |-> IF s \in known \ Targets(e) THEN Appended ELSE @[s]]]
  /\ UNCHANGED <<known, later, em, request, job, at, used, recon, opener, store, closedBy, events>>

\* Reads the store under the lock of its target.  One that is closed is taken
\* as done, and belongs to the emergency only if it may have closed it; one
\* that is open is marked as owned before anything is written.
Inspect(e, s) ==
  LET t == target[e][s] IN
  /\ StillLive(e) /\ recon[e] = NoRecon /\ s \in Targets(e) /\ ~ MidWrite(e, s)
  /\ \/ /\ store[s].open
        /\ target' = [target EXCEPT ![e][s] = [t EXCEPT !.restore = "required", !.lease = "recon"]]
        /\ recon' = [recon EXCEPT ![e] = [step |-> "owned", shop |-> s]]
     \/ /\ ~ store[s].open
        /\ target' = [target EXCEPT ![e][s] =
             [t EXCEPT !.offline = "done", !.doubt = FALSE, !.lease = Nobody,
                       !.restore = IF Owned(t) \/ (t.offline = "done" /\ t.restore = "pending")
                                   THEN "pending" ELSE "not_required"]]
        /\ target' # target
        /\ UNCHANGED recon
  /\ UNCHANGED <<known, later, em, request, job, at, used, opener, store, closedBy, events>>

\* No token, or an answer that says nothing.
InspectFails(e, s) ==
  /\ StillLive(e) /\ recon[e] = NoRecon /\ s \in Targets(e) /\ ~ MidWrite(e, s) /\ Spend
  /\ target' = [target EXCEPT ![e][s] =
       IF @.offline = "done" THEN [@ EXCEPT !.doubt = TRUE] ELSE [@ EXCEPT !.offline = "failed"]]
  /\ UNCHANGED <<known, later, em, request, job, at, used, recon, opener, store, closedBy>>

\* executeReconcileWrite, in a transaction of its own that holds the locks.
BeginReconcile(e) ==
  LET s == recon[e].shop IN
  /\ recon[e].step = "owned"
  /\ recon' = [recon EXCEPT ![e] =
       IF StillLive(e) /\ target[e][s].restore = "required" /\ target[e][s].lease = "recon"
       THEN [step |-> "writing", shop |-> s] ELSE NoRecon]
  /\ UNCHANGED <<known, later, em, target, request, job, at, used, opener, store, closedBy, events>>

\* The provider closes the store or not, and the row says so, unless the worker is
\* lost or its transaction gone in between: then the row stays as it was.
EndReconcile(e) ==
  LET s == recon[e].shop
      t == target[e][s]
      done == [t EXCEPT !.offline = "done", !.restore = "pending", !.doubt = FALSE, !.lease = Nobody]
      held == t.restore = "required" /\ t.lease = "recon"
  IN  /\ recon[e].step = "writing"
      /\ \/ /\ store' = [store EXCEPT ![s] = [open |-> FALSE, by |-> e]]
            /\ closedBy' = [closedBy EXCEPT ![s] = e]
            /\ \/ target' = [target EXCEPT ![e][s] = IF held THEN done ELSE t]
               \/ target' = [target EXCEPT ![e][s] = IF held THEN [t EXCEPT !.offline = "failed"] ELSE t]
               \/ UNCHANGED target
         \/ /\ target' = [target EXCEPT ![e][s] = IF held THEN [t EXCEPT !.offline = "failed"] ELSE t]
            /\ UNCHANGED <<store, closedBy>>
      /\ recon' = [recon EXCEPT ![e] = NoRecon]
      /\ UNCHANGED <<known, later, em, request, job, at, used, opener, events>>

ReconcilerDies(e) ==
  /\ recon[e] # NoRecon /\ Spend
  /\ recon' = [recon EXCEPT ![e] = NoRecon]
  /\ UNCHANGED <<known, later, em, target, request, job, at, used, opener, store, closedBy>>

\* refreshReconciliationSummary: how the emergency stands after all.
RefreshSummary(e) ==
  LET doubtful == \E s \in Targets(e) : LET t == target[e][s] IN t.offline # "done" \/ t.doubt \/ Owned(t)
      status == IF doubtful THEN "partial_success" ELSE "offline"
  IN  /\ StillLive(e) /\ em[e].status # status
      /\ em' = [em EXCEPT ![e].status = status, ![e].fresh = FALSE]
      /\ UNCHANGED <<known, later, target, request, job, at, used, recon, opener, store, closedBy, events>>

\* recordReconciliationEmergencyFailure: no application, secret or list of stores.
ReconciliationFails(e) ==
  /\ StillLive(e) /\ em[e].status # "partial_success"
  /\ em' = [em EXCEPT ![e].status = "partial_success", ![e].fresh = FALSE]
  /\ UNCHANGED <<known, later, target, request, job, at, used, recon, opener, store, closedBy, events>>

-----------------------------------------------------------------------------
(* Those who open stores, and the people at the stores.                    *)

\* withOpeningPermit: no live emergency protects the store.
TakePermit(o, s) ==
  /\ opener[o] = Nobody /\ s \in known
  /\ \A e \in Emergencies : Live(e) => ~ Covers(e, s)
  /\ opener' = [opener EXCEPT ![o] = s]
  /\ UNCHANGED <<known, later, em, target, request, job, at, used, recon, store, closedBy, events>>

OpenStore(o) ==
  /\ opener[o] # Nobody
  /\ opener' = [opener EXCEPT ![o] = Nobody]
  /\ \/ /\ store' = [store EXCEPT ![opener[o]] = [open |-> TRUE, by |-> Opener]]
        /\ closedBy' = [closedBy EXCEPT ![opener[o]] = Nobody]
     \/ UNCHANGED <<store, closedBy>>
  /\ UNCHANGED <<known, later, em, target, request, job, at, used, recon, events>>

\* Somebody operates the store on the provider's console.
Operate(s) ==
  /\ Spend
  /\ store' = [store EXCEPT ![s] = [open |-> ~ @.open, by |-> Staff]]
  /\ closedBy' = [closedBy EXCEPT ![s] = Nobody]
  /\ UNCHANGED <<known, later, em, target, request, job, at, used, recon, opener>>

\* A store is added to the brand.
Register(s) ==
  /\ s \in later
  /\ known' = known \cup {s}
  /\ later' = later \ {s}
  /\ UNCHANGED <<em, target, request, job, at, used, recon, opener, store, closedBy, events>>

-----------------------------------------------------------------------------

Requests(e) ==
  \/ \E all \in BOOLEAN, S \in SUBSET Shops : Create(e, all, S)
  \/ RestoreNow(e) \/ RestoreExpired(e) \/ RetryFailures(e)
  \/ Queued(e) \/ NotQueued(e) \/ RequestDies(e)
  \/ Expire(e) \/ UpdateReopening(e)

Processing(j) ==
  \/ Start(j) \/ ReadTargets(j) \/ FailEmergency(j) \/ Summarize(j) \/ Finalize(j) \/ WorkerDies(j)
  \/ \E s \in Shops : ClaimTarget(j, s) \/ Renew(j, s) \/ NotAuthorized(j, s) \/ Write(j, s) \/ Report(j, s)

Reconciling(e) ==
  \/ AppendStores(e) \/ BeginReconcile(e) \/ EndReconcile(e) \/ ReconcilerDies(e)
  \/ RefreshSummary(e) \/ ReconciliationFails(e)
  \/ \E s \in Shops : Inspect(e, s) \/ InspectFails(e, s)

Opening == \E o \in Openers : OpenStore(o) \/ \E s \in Shops : TakePermit(o, s)

Outside == \E s \in Shops : Operate(s) \/ Register(s)

Next ==
  \/ \E e \in Emergencies : Requests(e) \/ Watchdog(e) \/ Reconciling(e)
  \/ \E j \in Jobs : Processing(j)
  \/ Opening
  \/ Outside

\* The workers of the queue, the cron jobs of every minute and the answers of
\* Redis: whatever may happen in them happens in the end.  A restoration that
\* waits for the brand's lock is not overtaken by openers for ever.
Fairness ==
  /\ \A e \in Emergencies : /\ WF_vars(Queued(e))
                            /\ WF_vars(Expire(e)) /\ SF_vars(RestoreExpired(e))
                            /\ WF_vars(Abandoned(e) /\ Watchdog(e))
                            /\ WF_vars(BeginReconcile(e)) /\ WF_vars(EndReconcile(e))
  /\ \A j \in Jobs : /\ WF_vars(Start(j)) /\ WF_vars(ReadTargets(j))
                     /\ WF_vars(Summarize(j)) /\ WF_vars(Finalize(j))
                     /\ \A s \in Shops : /\ WF_vars(ClaimTarget(j, s)) /\ WF_vars(Renew(j, s))
                                         /\ WF_vars(Write(j, s)) /\ WF_vars(Report(j, s))
  /\ \A o \in Openers : WF_vars(OpenStore(o))

Spec == Init /\ [][Next]_vars /\ Fairness

-----------------------------------------------------------------------------
(* Properties.                                                             *)

TargetRow == [offline : {"absent", "pending", "running", "done", "failed"},
              restore : {"not_required", "required", "pending", "running", "done", "failed"},
              lease : Jobs \cup {"recon", Nobody}, tried : BOOLEAN, doubt : BOOLEAN]

\* Type correctness of the rows, the jobs and the stores; finishedAt is set
\* exactly in the states that end an emergency.
TypeOK ==
  /\ known \subseteq Shops /\ later \subseteq Shops \ known
  /\ em \in [Emergencies -> [status : {"none"} \cup LiveStatus \cup Ended, all : BOOLEAN,
                             finished : BOOLEAN, due : BOOLEAN, fresh : BOOLEAN]]
  /\ target \in [Emergencies -> [Shops -> TargetRow]]
  /\ \A j \in Jobs : job[j] # Free => job[j].em \in Emergencies /\ job[j].action \in {"offline", "restore"}
  /\ at \in [Jobs -> [Shops -> {"idle", "claimed", "writing", "confirmed", "refused"}]]
  /\ used \subseteq Emergencies
  /\ store \in [Shops -> [open : BOOLEAN, by : Emergencies \cup {Staff, Opener}]]
  /\ closedBy \in [Shops -> Emergencies \cup {Nobody}]
  /\ events \in 0..MaxEvents
  /\ \A e \in Emergencies :
       em[e].finished <=> em[e].status \in {"failed", "restored", "partial_restored", "restore_failed"}

\* A store an emergency has closed is never forgotten: until it is opened again
\* the emergency either still lives, and its target says the store has to be
\* reopened, or a person can retry its restoration.  (The target may still be
\* "running": a retry whose job was not queued was taken back after a worker
\* of an earlier job had claimed the target.)
Remembered ==
  \A s \in Shops : closedBy[s] # Nobody =>
    LET e == closedBy[s]  t == target[e][s] IN
    /\ t.restore \in {"required", "pending", "running", "failed"}
    /\ \/ Live(e)
       \/ /\ em[e].status \in {"partial_restored", "restore_failed"}
          /\ Retryable(t) \/ t.restore = "running"

\* An emergency that says its stores are offline has them closed, except those
\* somebody opened at the store.
OfflineMeansClosed ==
  \A e \in Emergencies : em[e].status = "offline" /\ Live(e) =>
    \A s \in Targets(e) : target[e][s].offline = "done" => ~ store[s].open \/ store[s].by = Staff

\* The code refines the promise of the guard: a store is closed by a live
\* emergency that holds it and opened by the one that holds it alone, or by an
\* opener while nobody holds it.
Holds(e, s) ==
  /\ Live(e) /\ Covers(e, s)
  /\ em[e].status = "restoring" => Reopens(target[e][s]) \/ target[e][s].restore = "running"

Guarded == INSTANCE GuardedStores WITH
  begun <- {e \in Emergencies : em[e].status # "none"},
  holders <- [s \in Shops |-> {e \in Emergencies : Holds(e, s)}],
  restoring <- {e \in Emergencies : Live(e) /\ em[e].status = "restoring"},
  store <- store

ImplementsGuardedStores == Guarded!Spec

\* Every emergency ends, whatever fails on the way.
EmergencyEnds == \A e \in Emergencies : Live(e) ~> ~ Live(e)
=============================================================================
