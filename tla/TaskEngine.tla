----------------------------- MODULE TaskEngine -----------------------------
(***************************************************************************)
(* One task of Guaro and its step instances: TaskEngineService (activate,  *)
(* start, complete, fail, block, retry, force-retry, assign, advance and   *)
(* the automatic handler), the Bull jobs that run automatic steps, and the *)
(* cron jobs of SchedulerService.                                          *)
(*                                                                         *)
(* A database transaction is one action; what the code does outside its    *)
(* transactions is not.  advanceTask reads, activates one step at a time   *)
(* and then publishes jobs: a run of it is a process with its own memory,  *)
(* which a crash or a failing query may end at any point.                  *)
(*                                                                         *)
(* A task enrolled in Store Onboarding is gated by a switch, and its       *)
(* handlers run inside a transaction (its Brand is taken to be ready).     *)
(***************************************************************************)
EXTENDS Integers, FiniteSets

CONSTANTS
  Step,        \* the step instances of the task
  order,       \* order of the definition of each; siblings share it
  Automatic,   \* the automatic ones; the others are manual
  Registered,  \* the automatic ones whose handler the worker knows
  Run,         \* concurrent executions of advanceTask
  NoJob,       \* a run that no handler job waits for
  Enrolled,    \* TRUE: the task is enrolled in Store Onboarding
  Overrides,   \* TRUE: admins act on steps nobody was handed
  Faults,      \* what may go wrong
  MaxAttempts, \* attempts of a Bull job
  MaxEpoch,    \* bound: times the switch is turned on again
  MaxRetry     \* bound: forced retries of an automatic step

\* A publication is lost, an execution of advanceTask dies, a worker dies, a
\* handler outlives its transaction.
Fault == {"lost", "death", "stall", "overrun"}

ASSUME TaskConstants ==
  /\ order \in [Step -> Nat]
  /\ Automatic \subseteq Step
  /\ Registered \subseteq Automatic
  /\ \A s, t \in Step : order[s] = order[t] => (s \in Automatic <=> t \in Automatic)
  /\ Enrolled \in BOOLEAN
  /\ Overrides \in BOOLEAN
  /\ Faults \subseteq Fault
  /\ MaxAttempts \in Nat \ {0}
  /\ MaxEpoch \in Nat
  /\ MaxRetry \in Nat

\* Ids of Bull jobs: the step, the activation epoch and the generation of its
\* execution.  Epoch 0 is the job published by an activation.
JobId == Step \X (0..MaxEpoch + 1) \X (0..MaxRetry)

ASSUME NoJobConstant == NoJob \notin JobId

VARIABLES
  task,     \* Task.status
  status,   \* StepInstance.status
  claimed,  \* workedSeconds is set: the step has been handed out
  gen,      \* startedAt of the automatic steps: generation of the execution
  expired,  \* scheduledEnd has passed
  gate,     \* the onboarding switch (globalEnabled)
  epoch,    \* globalEnabledAt: how often it was turned on
  job,      \* the Bull jobs
  run,      \* the executions of advanceTask
  due       \* steps a cron job has found overdue and has yet to fail

settings == <<expired, gate, epoch>>
state    == <<task, status, claimed, gen>>
vars     == <<state, settings, job, run, due>>

TaskStatus == {"scheduled", "pending", "assigned", "in_progress", "blocked",
               "failed", "done", "archived"}
StepStatus == {"pending", "in_progress", "blocked", "failed", "done", "cancelled"}
\* running, fenced: the handler's effect is under way, without or within a
\* transaction; astray: its transaction is gone; closing: it is advancing.
JobState == {"none", "waiting", "running", "fenced", "astray", "closing", "over"}

Job    == [at : JobState, tries : 0..MaxAttempts]
Memory == [at : {"idle", "read", "finish", "activate"},
           todo : SUBSET Step, on : SUBSET Step, job : JobId \cup {NoJob}]
Absent == [at |-> "none", tries |-> 0]
Idle   == [at |-> "idle", todo |-> {}, on |-> {}, job |-> NoJob]
\* An execution of advanceTask that begins; the job j, if any, waits for it.
Begun(j) == [at |-> "read", todo |-> {}, on |-> {}, job |-> j]

TypeOK ==
  /\ task \in TaskStatus
  /\ status \in [Step -> StepStatus]
  /\ claimed \in [Step -> BOOLEAN]
  /\ gen \in [Step -> 0..MaxRetry]
  /\ expired \in BOOLEAN
  /\ gate \in BOOLEAN
  /\ epoch \in 1..MaxEpoch + 1
  /\ job \in [JobId -> Job]
  /\ run \in [Run -> Memory]
  /\ due \subseteq Step

\* A task created at once is advanced by its creation; a scheduled one waits.
Init ==
  /\ status = [s \in Step |-> "pending"]
  /\ claimed = [s \in Step |-> FALSE]
  /\ gen = [s \in Step |-> 0]
  /\ expired = FALSE
  /\ gate = TRUE /\ epoch = 1
  /\ job = [j \in JobId |-> Absent]
  /\ due = {}
  /\ \/ task = "scheduled" /\ run = [r \in Run |-> Idle]
     \/ /\ task = "pending"
        /\ \E c \in Run :
             run = [r \in Run |-> IF r = c THEN Begun(NoJob) ELSE Idle]

-----------------------------------------------------------------------------
(* Conditions and building blocks of the transactions.                     *)

Active == {"pending", "in_progress", "blocked"}

Siblings(s) == {t \in Step \ {s} : order[t] = order[s]}

\* The transaction of a handler holds the advisory lock and the row of a step.
Fenced(s) == \E j \in JobId : j[1] = s /\ job[j].at = "fenced"

\* claimStepMutation: the step exists, the switch lets an enrolled task pass,
\* and no handler holds the step.
Claim(s) ==
  /\ task # "archived"
  /\ Enrolled => gate
  /\ ~Fenced(s)

\* Mutant: siblings that are already under way are not cancelled.
SettleLeavingBusy(s, v, From) ==
  /\ \A t \in Siblings(s) : ~Fenced(t)
  /\ status' = [t \in Step |->
       IF t = s THEN v
       ELSE IF t \in Siblings(s) /\ status[t] = "pending" THEN "cancelled"
       ELSE status[t]]

\* Step s becomes v and its siblings of the statuses in From are cancelled,
\* once no handler holds one of them.
Settle(s, v, From) ==
  /\ \A t \in Siblings(s) : ~Fenced(t)
  /\ status' = [t \in Step |->
       IF t = s THEN v
       ELSE IF t \in Siblings(s) /\ status[t] \in From THEN "cancelled"
       ELSE status[t]]

Advance(j) ==
  \E r \in Run : run[r].at = "idle" /\ run' = [run EXCEPT ![r] = Begun(j)]

\* An attempt of job b fails: Bull tries again until they are used up.
Attempted(b) ==
  [at |-> IF b.tries + 1 < MaxAttempts THEN "waiting" ELSE "over",
   tries |-> IF b.tries < MaxAttempts THEN b.tries + 1 ELSE b.tries]

\* The worker of job b is gone: a failed attempt, or a stalled job, which is
\* run again without counting or given up.
Interrupted(b) == {Attempted(b), [b EXCEPT !.at = "waiting"], [b EXCEPT !.at = "over"]}

LastAttempt(j) == job[j].tries >= MaxAttempts - 1

Published(s) == <<s, 0, 0>>

\* queue.add ignores a job whose id is still known.
Publish(jobs, js) ==
  [j \in JobId |-> IF j \in js /\ jobs[j].at = "none"
                   THEN [at |-> "waiting", tries |-> 0] ELSE jobs[j]]

-----------------------------------------------------------------------------
(* activateStep, and the cron job that uses it for scheduled tasks.        *)

\* Mutant: the status read by advanceTask is not looked at again.
ActivableUnread(s) ==
  /\ Claim(s)
  /\ s \notin Automatic /\ task = "assigned" => ~claimed[s]

Activable(s) ==
  /\ Claim(s)
  /\ status[s] = "pending"
  /\ s \notin Automatic /\ task = "assigned" => ~claimed[s]

\* An automatic step starts; a manual one is handed out and stays pending.
Activate(s) ==
  \/ /\ s \in Automatic
     /\ status' = [status EXCEPT ![s] = "in_progress"]
     /\ task' = "in_progress"
     /\ UNCHANGED <<claimed, gen>>
  \/ /\ s \notin Automatic
     /\ claimed' = [claimed EXCEPT ![s] = TRUE]
     /\ task' = "assigned"
     /\ UNCHANGED <<status, gen>>

\* What is published for the automatic ones of the activated steps: nobody
\* waits for the queue, and what fails is not published again.
Emit(jobs, on) ==
  \E sent \in SUBSET (on \cap Automatic) :
    /\ sent = on \cap Automatic \/ "lost" \in Faults
    /\ job' = Publish(jobs, {Published(s) : s \in sent})

\* The window opens: a step of the lowest order is activated.
ActivateScheduled ==
  /\ task = "scheduled"
  /\ \E s \in Step :
       /\ \A t \in Step : order[s] <= order[t]
       /\ Activable(s)
       /\ Activate(s)
       /\ Emit(job, {s})
  /\ UNCHANGED <<settings, run, due>>

-----------------------------------------------------------------------------
(* advanceTask, step by step.                                              *)

\* Mutant: all pending steps are activated, not those of the lowest order.
ReadAllPending(r) ==
  /\ run[r].at = "read"
  /\ LET pending == {s \in Step : status[s] = "pending" /\ task # "archived"}
     IN run' = [run EXCEPT ![r].at = IF pending = {} THEN "finish" ELSE "activate",
                           ![r].todo = pending]
  /\ UNCHANGED <<state, settings, job, due>>

\* The pending steps are read; those of the lowest order come next.
ReadPending(r) ==
  /\ run[r].at = "read"
  /\ LET pending == {s \in Step : status[s] = "pending" /\ task # "archived"}
         next == {s \in pending : \A t \in pending : order[s] <= order[t]}
     IN run' = [run EXCEPT ![r].at = IF pending = {} THEN "finish" ELSE "activate",
                           ![r].todo = next]
  /\ UNCHANGED <<state, settings, job, due>>

\* One of them is activated, or found to be out of date and skipped.
ActivateNext(r) ==
  /\ run[r].at = "activate"
  /\ \E s \in run[r].todo :
       /\ ~Fenced(s)
       /\ \/ /\ Activable(s)
             /\ Activate(s)
             /\ run' = [run EXCEPT ![r].todo = @ \ {s}, ![r].on = @ \cup {s}]
          \/ /\ ~Activable(s)
             /\ run' = [run EXCEPT ![r].todo = @ \ {s}]
             /\ UNCHANGED state
  /\ UNCHANGED <<settings, job, due>>

\* The handler job that waited for the run ends with it.
Released(r) ==
  IF run[r].job = NoJob THEN job ELSE [job EXCEPT ![run[r].job].at = "over"]

\* The jobs of the activated automatic steps are published.  The run is over.
EmitJobs(r) ==
  /\ run[r].at = "activate"
  /\ run[r].todo = {}
  /\ Emit(Released(r), run[r].on)
  /\ run' = [run EXCEPT ![r] = Idle]
  /\ UNCHANGED <<state, settings, due>>

\* Mutant: active steps are not counted.
CloseUncounted ==
  task' = IF task \notin {"done", "failed", "archived"} /\ (Enrolled => gate)
          THEN "done" ELSE task

\* No step was pending: the task is done, unless it has settled or a step has
\* become active in the meantime, or the switch is off.
Close ==
  task' = IF /\ task \notin {"done", "failed", "archived"}
             /\ \A s \in Step : status[s] \notin Active
             /\ Enrolled => gate
          THEN "done" ELSE task

Finish(r) ==
  /\ run[r].at = "finish"
  /\ Close
  /\ job' = Released(r)
  /\ run' = [run EXCEPT ![r] = Idle]
  /\ UNCHANGED <<status, claimed, gen, settings, due>>

\* A query fails or the process dies: the rest of the run does not happen.
RunDies(r) ==
  /\ "death" \in Faults
  /\ run[r].at # "idle"
  /\ \/ run[r].job = NoJob /\ UNCHANGED job
     \/ /\ run[r].job # NoJob
        /\ \E b \in Interrupted(job[run[r].job]) : job' = [job EXCEPT ![run[r].job] = b]
  /\ run' = [run EXCEPT ![r] = Idle]
  /\ UNCHANGED <<state, settings, due>>

-----------------------------------------------------------------------------
(* What people do to a step.  Without overrides they act on what is theirs. *)

StartStep(s) ==
  /\ Claim(s)
  /\ status[s] = "pending"
  /\ s \notin Automatic
  /\ Overrides \/ claimed[s]
  /\ status' = [status EXCEPT ![s] = "in_progress"]
  /\ task' = "in_progress"
  /\ UNCHANGED <<claimed, gen, settings, job, run, due>>

\* Mutant: the task is not advanced.
CompleteOnly(s) ==
  /\ Overrides \/ s \notin Automatic
  /\ Claim(s)
  /\ status[s] = "in_progress"
  /\ Settle(s, "done", Active)
  /\ UNCHANGED <<task, claimed, gen, settings, job, run, due>>

CompleteStep(s) ==
  /\ Overrides \/ s \notin Automatic
  /\ Claim(s)
  /\ status[s] = "in_progress"
  /\ Settle(s, "done", Active)
  /\ Advance(NoJob)
  /\ UNCHANGED <<task, claimed, gen, settings, job, due>>

\* failStep, which the cron jobs and the handlers call as well.
Failable(s) == Claim(s) /\ status[s] \in {"in_progress", "blocked"}

Fail(s) ==
  /\ Failable(s)
  /\ Settle(s, "failed", Active)
  /\ task' = "failed"
  /\ UNCHANGED <<claimed, gen>>

FailStep(s) ==
  /\ Overrides \/ s \notin Automatic
  /\ Fail(s)
  /\ UNCHANGED <<settings, job, run, due>>

BlockStep(s) ==
  /\ Claim(s)
  /\ s \notin Automatic
  /\ status[s] = "in_progress"
  /\ Settle(s, "blocked", {"pending", "in_progress"})
  /\ task' = "blocked"
  /\ UNCHANGED <<claimed, gen, settings, job, run, due>>

RetryStep(s) ==
  /\ Claim(s)
  /\ status[s] = "blocked"
  /\ status' = [status EXCEPT ![s] = "in_progress"]
  /\ task' = "in_progress"
  /\ UNCHANGED <<claimed, gen, settings, job, run, due>>

\* An admin retries a failed or blocked step.  No job is published for an
\* automatic one.
ForceRetryStep(s) ==
  /\ Claim(s)
  /\ status[s] \in {"failed", "blocked"}
  /\ s \in Automatic => gen[s] < MaxRetry
  /\ status' = [status EXCEPT ![s] = "in_progress"]
  /\ gen' = IF s \in Automatic THEN [gen EXCEPT ![s] = @ + 1] ELSE gen
  /\ task' = "in_progress"
  /\ UNCHANGED <<claimed, settings, job, run, due>>

\* An admin hands a manual step to somebody (else): for a pending one the task
\* becomes assigned, whatever it was; for the others it stays as it is.
AssignOrReassignStep(s) ==
  /\ Claim(s)
  /\ s \notin Automatic
  /\ status[s] = "pending"
  /\ Overrides \/ claimed[s]
  /\ task' = "assigned"
  /\ UNCHANGED <<status, claimed, gen, settings, job, run, due>>

-----------------------------------------------------------------------------
(* The handlers: HandlerProcessor.process and runAutomaticHandlerUnderFence. *)

\* A worker takes a job.  For an enrolled task the step is checked, and held,
\* in the transaction the effect runs in; a job that fails the check is over.
RunHandler(j) ==
  /\ job[j].at = "waiting"
  /\ LET ready == Claim(j[1]) /\ status[j[1]] = "in_progress"
     IN \/ ~Enrolled /\ job' = [job EXCEPT ![j].at = "running"]
        \/ Enrolled /\ ready /\ job' = [job EXCEPT ![j].at = "fenced"]
        \/ /\ Enrolled /\ ~ready /\ ~Fenced(j[1])
           /\ job' = [job EXCEPT ![j].at = "over"]
  /\ UNCHANGED <<state, settings, run, due>>

\* Mutant: the effect settles the step, whatever has become of the step since.
SettlesUnread(j) ==
  \/ job[j].at \in {"fenced", "astray"}
  \/ job[j].at = "running" /\ Claim(j[1])

\* The effect is over, and may settle the step: the one that runs outside a
\* transaction has to claim it first.
Settles(j) ==
  \/ job[j].at = "fenced"
  \/ job[j].at = "running" /\ Claim(j[1]) /\ status[j[1]] = "in_progress"

HandlerCompletes(j) ==
  /\ j[1] \in Registered
  /\ Settles(j)
  /\ Settle(j[1], "done", Active)
  /\ job' = [job EXCEPT ![j].at = "closing"]
  /\ Advance(j)
  /\ UNCHANGED <<task, claimed, gen, settings, due>>

\* The last attempt fails, or the handler is unknown: the step and the task fail.
HandlerFails(j) ==
  /\ LastAttempt(j) \/ j[1] \notin Registered
  /\ Settles(j)
  /\ Settle(j[1], "failed", Active)
  /\ task' = "failed"
  /\ job' = [job EXCEPT ![j].at = "over"]
  /\ UNCHANGED <<claimed, gen, settings, run, due>>

\* The attempt fails and leaves no trace: an earlier attempt's effect throws,
\* the step cannot be settled, the transaction is gone, or it is the victim of
\* a deadlock with the transaction that holds a sibling.
HandlerThrows(j) ==
  /\ \/ job[j].at \in {"running", "fenced"} /\ j[1] \in Registered /\ ~LastAttempt(j)
     \/ job[j].at = "running" /\ ~Settles(j)
     \/ job[j].at = "astray"
     \/ job[j].at = "fenced" /\ \E t \in Siblings(j[1]) : Fenced(t)
  /\ job' = [job EXCEPT ![j] = Attempted(@)]
  /\ UNCHANGED <<state, settings, run, due>>

\* HANDLER_FENCE_TIMEOUT_MS: the transaction is gone, the effect goes on.
FenceTimesOut(j) ==
  /\ "overrun" \in Faults
  /\ job[j].at = "fenced"
  /\ job' = [job EXCEPT ![j].at = "astray"]
  /\ UNCHANGED <<state, settings, run, due>>

WorkerDies(j) ==
  /\ "stall" \in Faults
  /\ job[j].at \in {"running", "fenced", "astray"}
  /\ \E b \in Interrupted(job[j]) : job' = [job EXCEPT ![j] = b]
  /\ UNCHANGED <<state, settings, run, due>>

\* Bull keeps the last 100 completed and the last 200 failed jobs.
ForgetJob(j) ==
  /\ job[j].at = "over"
  /\ job' = [job EXCEPT ![j] = Absent]
  /\ UNCHANGED <<state, settings, run, due>>

-----------------------------------------------------------------------------
(* The cron jobs.                                                          *)

\* It matters to manual steps only.
WindowCloses ==
  /\ Step # Automatic
  /\ ~expired
  /\ expired' = TRUE
  /\ UNCHANGED <<state, gate, epoch, job, run, due>>

\* checkBpoTimeouts finds the manual steps of a task in progress whose window
\* is over; checkAutoTimeouts the automatic ones not updated for two hours.
CheckBpoTimeouts(s) ==
  /\ s \notin Automatic
  /\ expired
  /\ status[s] \in {"in_progress", "blocked"}
  /\ task = "in_progress"
  /\ due' = due \cup {s}
  /\ UNCHANGED <<state, settings, job, run>>

\* Mutant: only once the window is over, as for manual steps.
CheckAutoTimeoutsInWindow(s) ==
  /\ s \in Automatic
  /\ expired
  /\ status[s] = "in_progress"
  /\ due' = due \cup {s}
  /\ UNCHANGED <<state, settings, job, run>>

CheckAutoTimeouts(s) ==
  /\ s \in Automatic
  /\ status[s] = "in_progress"
  /\ due' = due \cup {s}
  /\ UNCHANGED <<state, settings, job, run>>

\* They fail one after the other what they have found; a step that cannot be
\* failed any more is skipped, one a handler holds is waited for.
TimeOut(s) ==
  /\ s \in due
  /\ ~Fenced(s)
  /\ \/ Fail(s)
     \/ ~Failable(s) /\ UNCHANGED state
  /\ due' = due \ {s}
  /\ UNCHANGED <<settings, job, run>>

\* archiveOldTasks, after a year; onboarding tasks are kept.
ArchiveOldTask ==
  /\ ~Enrolled
  /\ task # "archived"
  /\ task' = "archived"
  /\ status' = [s \in Step |->
       IF task \in {"pending", "assigned", "in_progress", "scheduled"} /\ status[s] \in Active
       THEN "failed" ELSE status[s]]
  /\ UNCHANGED <<claimed, gen, settings, job, run, due>>

\* The switch of Store Onboarding: turning it waits for the handlers under way.
TurnSwitch ==
  /\ Enrolled
  /\ \A s \in Step : ~Fenced(s)
  /\ \/ gate /\ gate' = FALSE /\ UNCHANGED epoch
     \/ ~gate /\ epoch <= MaxEpoch /\ gate' = TRUE /\ epoch' = epoch + 1
  /\ UNCHANGED <<expired, state, job, run, due>>

\* Mutant: only tasks nobody advanced.
RecoverPending ==
  /\ Enrolled /\ gate
  /\ task = "pending" /\ \E s \in Step : status[s] = "pending"
  /\ Advance(NoJob)
  /\ UNCHANGED <<state, settings, job, due>>

\* recoverEnrolledPendingTaskActivations: a pending task nobody advanced, or a
\* task in progress that only has to be closed.
RecoverActivation ==
  /\ Enrolled /\ gate
  /\ \/ task = "pending" /\ \E s \in Step : status[s] = "pending"
     \/ task = "in_progress" /\ \A s \in Step : status[s] \notin Active
  /\ Advance(NoJob)
  /\ UNCHANGED <<state, settings, job, due>>

\* Mutant: the id of the job does not hold the epoch.
RecoverHandlerOnce(s) ==
  /\ Enrolled /\ gate
  /\ task = "in_progress" /\ s \in Automatic /\ status[s] = "in_progress"
  /\ job[Published(s)].at \in {"none", "over"}
  /\ job[<<s, 1, gen[s]>>].at = "none"
  /\ job' = Publish(job, {<<s, 1, gen[s]>>})
  /\ UNCHANGED <<state, settings, run, due>>

\* recoverEnrolledAutomaticHandlerJobs: an automatic step in progress whose
\* published job is not live gets one job per epoch and generation.
RecoverHandler(s) ==
  /\ Enrolled /\ gate
  /\ task = "in_progress" /\ s \in Automatic /\ status[s] = "in_progress"
  /\ job[Published(s)].at \in {"none", "over"}
  /\ job[<<s, epoch, gen[s]>>].at = "none"
  /\ job' = Publish(job, {<<s, epoch, gen[s]>>})
  /\ UNCHANGED <<state, settings, run, due>>

-----------------------------------------------------------------------------

RunStep(r) == ReadPending(r) \/ ActivateNext(r) \/ EmitJobs(r) \/ Finish(r)

HandlerEnds(j) == HandlerCompletes(j) \/ HandlerFails(j) \/ HandlerThrows(j)

Next ==
  \/ ActivateScheduled \/ WindowCloses \/ ArchiveOldTask \/ TurnSwitch
  \/ RecoverActivation
  \/ \E r \in Run : RunStep(r) \/ RunDies(r)
  \/ \E s \in Step :
       \/ StartStep(s) \/ CompleteStep(s) \/ FailStep(s) \/ BlockStep(s)
       \/ RetryStep(s) \/ ForceRetryStep(s) \/ AssignOrReassignStep(s)
       \/ CheckBpoTimeouts(s) \/ CheckAutoTimeouts(s) \/ TimeOut(s)
       \/ RecoverHandler(s)
  \/ \E j \in JobId :
       \/ RunHandler(j) \/ HandlerEnds(j) \/ FenceTimesOut(j)
       \/ WorkerDies(j) \/ ForgetJob(j)

Spec == Init /\ [][Next]_vars

\* The cron jobs run for ever; the process goes on with what it has begun.
CronFairness ==
  \A s \in Step : WF_vars(CheckBpoTimeouts(s)) /\ WF_vars(CheckAutoTimeouts(s))
                  /\ WF_vars(TimeOut(s))
RecoveryFairness ==
  /\ WF_vars(RecoverActivation)
  /\ \A s \in Step : WF_vars(RecoverHandler(s))
\* An execution of advanceTask goes on, where it does not die.
CalmFairness == \A r \in Run : WF_vars(RunStep(r))
\* A crash may end any execution of advanceTask, but not all of them for ever.
RunFairness == \A r \in Run : SF_vars(ReadPending(r)) /\ SF_vars(ActivateNext(r))
                              /\ SF_vars(EmitJobs(r)) /\ SF_vars(Finish(r))
HandlerFairness == \A j \in JobId : WF_vars(RunHandler(j)) /\ WF_vars(HandlerEnds(j))

CronSpec == Spec /\ CronFairness /\ CalmFairness
RecoverySpec == Spec /\ RecoveryFairness /\ RunFairness /\ HandlerFairness

-----------------------------------------------------------------------------
(* What the engine promises.                                               *)

\* Finish (advanceTask): a task that is done has no step left to work on, even
\* when steps are retried or started while advanceTask is about to close it.
DoneMeansSettled == task = "done" => \A s \in Step : status[s] \notin Active

\* completeStep, blockStep and the handler: of the step instances that share a
\* definition one is done, and then all the others are cancelled; two people
\* never finish the same step.
OneWinner ==
  \A s \in Step : status[s] = "done" => \A t \in Siblings(s) : status[t] = "cancelled"

\* advanceTask: a step is worked on only when each order before it has a step
\* that is done.
Started == {"in_progress", "blocked", "done", "failed"}
InTurn ==
  task # "archived" =>
    \A s \in Step : status[s] \in Started =>
      \A t \in Step : order[t] < order[s] =>
        \E d \in Siblings(t) \cup {t} : status[d] = "done"

\* failStep: a failed task stays failed, whatever executions of advanceTask and
\* cron jobs are still under way, until an admin retries the failed step.
FailedStays ==
  [][task = "failed" /\ task' # "failed" =>
       \/ task' = "archived"
       \/ \E s \in Step : status[s] = "failed" /\ status'[s] = "in_progress"]_vars

\* Where nothing is lost, a task that is open waits for something: a step that
\* is under way or handed out, or an execution of advanceTask.
NeverStranded ==
  task \in {"pending", "assigned", "in_progress", "blocked"} =>
    \/ \E s \in Step : \/ status[s] \in {"in_progress", "blocked"}
                       \/ status[s] = "pending" /\ claimed[s]
    \/ \E r \in Run : run[r].at # "idle"

\* What has become of a step stays, although activations have read it before, cron
\* jobs have found it overdue, siblings are settled by other people and handlers
\* outlive their attempt: a step that is done or cancelled is not touched again, one
\* that has failed only by an admin who retries it.
OutcomeStays ==
  [][\A s \in Step :
       /\ status[s] \in {"done", "cancelled"} => status'[s] = status[s]
       /\ status[s] = "failed" => status'[s] \in {"failed", "in_progress"}]_vars

\* runAutomaticHandlerUnderFence: while the handler of an enrolled task runs in
\* its transaction the switch is on and nobody else moves the step.
FencedEffect ==
  \A j \in JobId : job[j].at = "fenced" => gate /\ status[j[1]] = "in_progress"

\* No two workers run the handler of a step at once, though a step may have
\* several jobs, unless the effect of one has outlived its transaction.
InEffect == {"running", "fenced"}
OneEffect ==
  \A i, j \in JobId :
    i[1] = j[1] /\ job[i].at \in InEffect /\ job[j].at \in InEffect => i = j

\* checkAutoTimeouts: an automatic step does not stay in progress for ever.
AutoEnds == \A s \in Automatic : status[s] = "in_progress" ~> status[s] # "in_progress"

\* recoverEnrolledAutomaticHandlerJobs: the handler of an enrolled task is run
\* even when its job was lost or was taken while the switch was off.  Excepted are
\* handlers that outlive their transaction: the last attempt then leaves a failed
\* job, and while Bull keeps it the recovery adds no other.
HandlerRecovered ==
  \/ <>(\E j \in JobId : job[j].at = "astray")
  \/ \A s \in Automatic :
       LET waits == status[s] = "in_progress" /\ task = "in_progress" /\ gate
       IN waits ~> ~waits

\* recoverEnrolledPendingTaskActivations: an enrolled task whose steps have all
\* settled is closed even when the process dies before it does so.
ClosedInTheEnd ==
  LET open == task = "in_progress" /\ gate /\ \A s \in Step : status[s] \notin Active
  IN open ~> ~open

\* checkBpoTimeouts asks for blocked steps too: one is failed once its window is
\* over.  The code does not do it, see the README.
WindowEndsBlocked ==
  \A s \in Step \ Automatic : (expired /\ status[s] = "blocked") ~> (status[s] # "blocked")
=============================================================================
