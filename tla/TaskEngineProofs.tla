-------------------------- MODULE TaskEngineProofs --------------------------
(***************************************************************************)
(* Proofs about TaskEngine, for any steps, orders, executions and bounds.  *)
(* OneWinner and OneEffect are not inductive by themselves: EngineInv adds *)
(* that a step a handler holds stays in progress, that at most one handler *)
(* holds it, and that whoever has settled a step has cancelled its rivals. *)
(* The order of the steps, outside Store Onboarding, is a matter of what   *)
(* executions of advanceTask may still find when they read: TurnInv.       *)
(***************************************************************************)
EXTENDS TaskEngine, WellFoundedInduction, TLAPS

-----------------------------------------------------------------------------
(* Type correctness.                                                       *)

\* The ids of jobs, taken apart.
LEMMA JobIds ==
  /\ \A j \in JobId : j[1] \in Step
  /\ \A s \in Step, e \in 0..MaxEpoch + 1, g \in 0..MaxRetry : <<s, e, g>> \in JobId
  /\ \A s \in Step : Published(s) \in JobId
BY TaskConstants DEF TaskConstants, JobId, Published

\* The initial state has the right types.
LEMMA InitTypeOK == Init => TypeOK
<1> SUFFICES ASSUME Init PROVE TypeOK
  OBVIOUS
<1>1. run \in [Run -> Memory]
  <2>1. Idle \in Memory /\ Begun(NoJob) \in Memory
    BY DEF Idle, Begun, Memory
  <2> QED
    BY <2>1 DEF Init
<1>2. job \in [JobId -> Job]
  BY TaskConstants DEF TaskConstants, Init, Absent, Job, JobState
<1>3. gen \in [Step -> 0..MaxRetry] /\ epoch \in 1..MaxEpoch + 1
  BY TaskConstants DEF TaskConstants, Init
<1> QED
  BY <1>1, <1>2, <1>3 DEF Init, TypeOK, TaskStatus, StepStatus

\* What happens to one job keeps the types of all.
LEMMA JobTypes ==
  ASSUME TypeOK, NEW j \in JobId
  PROVE  /\ \A v \in JobState : [job EXCEPT ![j].at = v] \in [JobId -> Job]
         /\ Attempted(job[j]) \in Job
         /\ \A b \in Interrupted(job[j]) : b \in Job
         /\ [job EXCEPT ![j] = Attempted(@)] \in [JobId -> Job]
         /\ [job EXCEPT ![j] = Absent] \in [JobId -> Job]
BY TaskConstants DEF TaskConstants, TypeOK, Job, JobState, Attempted, Interrupted, Absent

\* A publication keeps the types.
LEMMA PublishTypes ==
  ASSUME NEW jobs \in [JobId -> Job], NEW js
  PROVE  Publish(jobs, js) \in [JobId -> Job]
BY TaskConstants DEF TaskConstants, Publish, Job, JobState

LEMMA AdvanceTypes ==
  ASSUME TypeOK, NEW j \in JobId \cup {NoJob}, Advance(j)
  PROVE  run' \in [Run -> Memory]
BY DEF TypeOK, Advance, Begun, Memory

LEMMA SettleTypes ==
  ASSUME TypeOK, NEW s \in Step, NEW v \in StepStatus, NEW From, Settle(s, v, From)
  PROVE  status' \in [Step -> StepStatus]
BY DEF TypeOK, Settle, StepStatus

LEMMA ActivateTypes ==
  ASSUME TypeOK, NEW s \in Step, Activate(s)
  PROVE  /\ task' \in TaskStatus
         /\ status' \in [Step -> StepStatus]
         /\ claimed' \in [Step -> BOOLEAN]
         /\ gen' = gen
BY DEF TypeOK, Activate, StepStatus, TaskStatus

\* Every step keeps the types.
LEMMA NextTypeOK == TypeOK /\ [Next]_vars => TypeOK'
<1> SUFFICES ASSUME TypeOK, [Next]_vars PROVE TypeOK'
  OBVIOUS
<1> USE DEF TypeOK, state, settings
<1>1. ASSUME ActivateScheduled PROVE TypeOK'
  <2>1. PICK s \in Step : Activate(s) /\ Emit(job, {s})
    BY <1>1 DEF ActivateScheduled
  <2>2. job' \in [JobId -> Job]
    BY <2>1, PublishTypes DEF Emit
  <2> QED
    BY <1>1, <2>1, <2>2, ActivateTypes DEF ActivateScheduled
<1>2. ASSUME NEW r \in Run, ReadPending(r) PROVE TypeOK'
  <2> DEFINE pending == {s \in Step : status[s] = "pending" /\ task # "archived"}
             next == {s \in pending : \A t \in pending : order[s] <= order[t]}
  <2>1. PICK v \in {"finish", "activate"} :
          run' = [run EXCEPT ![r].at = v, ![r].todo = next]
    BY <1>2 DEF ReadPending
  <2>2. next \in SUBSET Step
    OBVIOUS
  <2> HIDE DEF next
  <2>3. run' \in [Run -> Memory]
    BY ZenonT(60), <2>1, <2>2 DEF Memory
  <2> QED
    BY <1>2, <2>3 DEF ReadPending
<1>3. ASSUME NEW r \in Run, ActivateNext(r) PROVE TypeOK'
  <2>1. PICK s \in Step :
          \/ /\ Activate(s)
             /\ run' = [run EXCEPT ![r].todo = @ \ {s}, ![r].on = @ \cup {s}]
          \/ UNCHANGED state /\ run' = [run EXCEPT ![r].todo = @ \ {s}]
    BY <1>3 DEF ActivateNext, Memory
  <2>2. run' \in [Run -> Memory]
    BY <2>1 DEF Memory
  <2> QED
    BY <1>3, <2>1, <2>2, ActivateTypes DEF ActivateNext
<1>4. ASSUME NEW r \in Run PROVE Released(r) \in [JobId -> Job]
  BY <1>4, JobTypes DEF Released, Memory, JobState
<1>5. ASSUME NEW r \in Run, EmitJobs(r) PROVE TypeOK'
  <2>1. job' \in [JobId -> Job]
    BY <1>4, <1>5, PublishTypes DEF EmitJobs, Emit
  <2> QED
    BY <1>5, <2>1 DEF EmitJobs, Idle, Memory
<1>6. ASSUME NEW r \in Run, Finish(r) PROVE TypeOK'
  BY <1>4, <1>6 DEF Finish, Close, TaskStatus, Idle, Memory
<1>7. ASSUME NEW r \in Run, RunDies(r) PROVE TypeOK'
  <2>1. job' \in [JobId -> Job]
    BY <1>7, JobTypes DEF RunDies, Memory
  <2> QED
    BY <1>7, <2>1 DEF RunDies, Idle, Memory
<1>8. ASSUME NEW s \in Step, StartStep(s) \/ RetryStep(s) \/ ForceRetryStep(s)
                             \/ AssignOrReassignStep(s)
      PROVE TypeOK'
  BY <1>8, TaskConstants DEF TaskConstants, StartStep, RetryStep, ForceRetryStep,
     AssignOrReassignStep, StepStatus, TaskStatus
<1>9. ASSUME NEW s \in Step, CompleteStep(s) PROVE TypeOK'
  BY <1>9, SettleTypes, AdvanceTypes DEF CompleteStep, StepStatus
<1>10. ASSUME NEW s \in Step, Fail(s)
       PROVE  task' \in TaskStatus /\ status' \in [Step -> StepStatus]
  BY <1>10, SettleTypes DEF Fail, StepStatus, TaskStatus
<1>11. ASSUME NEW s \in Step, FailStep(s) PROVE TypeOK'
  BY <1>10, <1>11 DEF FailStep, Fail
<1>12. ASSUME NEW s \in Step, BlockStep(s) PROVE TypeOK'
  BY <1>12, SettleTypes DEF BlockStep, StepStatus, TaskStatus
<1>13. ASSUME NEW s \in Step, TimeOut(s) PROVE TypeOK'
  BY <1>10, <1>13 DEF TimeOut, Fail
<1>14. ASSUME NEW s \in Step, CheckBpoTimeouts(s) \/ CheckAutoTimeouts(s) PROVE TypeOK'
  BY <1>14 DEF CheckBpoTimeouts, CheckAutoTimeouts
<1>15. ASSUME NEW s \in Step, RecoverHandler(s) PROVE TypeOK'
  BY <1>15, PublishTypes DEF RecoverHandler
<1>16. ASSUME NEW j \in JobId, RunHandler(j) \/ FenceTimesOut(j) PROVE TypeOK'
  <2>1. \E v \in JobState : job' = [job EXCEPT ![j].at = v]
    BY <1>16 DEF RunHandler, FenceTimesOut, JobState
  <2> QED
    BY <1>16, <2>1, JobTypes DEF RunHandler, FenceTimesOut
<1>17. ASSUME NEW j \in JobId, HandlerCompletes(j) PROVE TypeOK'
  BY <1>17, JobTypes, JobIds, SettleTypes, AdvanceTypes
     DEF HandlerCompletes, JobState, StepStatus
<1>18. ASSUME NEW j \in JobId, HandlerFails(j) PROVE TypeOK'
  BY <1>18, JobTypes, JobIds, SettleTypes DEF HandlerFails, JobState, StepStatus, TaskStatus
<1>19. ASSUME NEW j \in JobId, HandlerThrows(j) \/ WorkerDies(j) \/ ForgetJob(j) PROVE TypeOK'
  BY <1>19, JobTypes DEF HandlerThrows, WorkerDies, ForgetJob
<1>20. ASSUME WindowCloses \/ ArchiveOldTask \/ TurnSwitch PROVE TypeOK'
  <2>1. CASE WindowCloses
    BY <2>1 DEF WindowCloses
  <2>2. CASE ArchiveOldTask
    BY <2>2 DEF ArchiveOldTask, TaskStatus, StepStatus
  <2>3. CASE TurnSwitch
    <3>1. epoch' \in 1..MaxEpoch + 1
      BY <2>3, TaskConstants DEF TaskConstants, TurnSwitch
    <3> QED
      BY <2>3, <3>1 DEF TurnSwitch
  <2> QED
    BY <1>20, <2>1, <2>2, <2>3
<1>21. ASSUME RecoverActivation PROVE TypeOK'
  BY <1>21, AdvanceTypes DEF RecoverActivation
<1>22. CASE UNCHANGED vars
  BY <1>22 DEF vars
<1> QED
  BY <1>1, <1>2, <1>3, <1>5, <1>6, <1>7, <1>8, <1>9, <1>11, <1>12, <1>13, <1>14,
     <1>15, <1>16, <1>17, <1>18, <1>19, <1>20, <1>21, <1>22
     DEF Next, RunStep, HandlerEnds

\* TypeOK: every variable keeps its type in every behaviour, whatever the
\* number of steps, executions and bounds.
THEOREM TypeCorrect == Spec => []TypeOK
<1>1. Init => TypeOK
  BY InitTypeOK
<1>2. TypeOK /\ [Next]_vars => TypeOK'
  BY NextTypeOK
<1> QED
  BY <1>1, <1>2, PTL DEF Spec

-----------------------------------------------------------------------------
(* What a handler holds.                                                   *)

\* The step of a fenced job stays in progress while the switch is on.
FenceHolds ==
  \A j \in JobId : job[j].at = "fenced" => Enrolled /\ gate /\ status[j[1]] = "in_progress"

\* A step is held by one job.
OneFence ==
  \A i, j \in JobId : job[i].at = "fenced" /\ job[j].at = "fenced" /\ i[1] = j[1] => i = j

\* No job becomes fenced in this step, and the step of none that stays is moved.
FencesKept ==
  \A j \in JobId : job'[j].at = "fenced" =>
    job[j].at = "fenced" /\ gate' = gate /\ status'[j[1]] = status[j[1]]

LEMMA KeptFences ==
  ASSUME FenceHolds, OneFence, FencesKept
  PROVE  FenceHolds' /\ OneFence'
BY DEF FenceHolds, OneFence, FencesKept

\* A publication fences nothing.
LEMMA PublishFences ==
  ASSUME NEW jobs, NEW js
  PROVE  \A j \in JobId : Publish(jobs, js)[j].at = "fenced" => jobs[j].at = "fenced"
BY DEF Publish

\* What becomes of the job an execution of advanceTask waits for.
LEMMA ReleaseFences ==
  ASSUME TypeOK, NEW r \in Run
  PROVE  \A j \in JobId : Released(r)[j].at = "fenced" => job[j].at = "fenced"
<1>1. CASE run[r].job = NoJob
  BY <1>1 DEF Released
<1>2. CASE run[r].job # NoJob
  <2>1. run[r].job \in JobId
    BY <1>2 DEF TypeOK, Memory
  <2> QED
    BY <1>2, <2>1 DEF Released, TypeOK, Job
<1> QED
  BY <1>1, <1>2

\* A transaction that settles a step moves no step a handler of another holds.
LEMMA SettleFences ==
  ASSUME TypeOK, NEW s \in Step, NEW v, NEW From, Settle(s, v, From),
         NEW j \in JobId, job[j].at = "fenced", j[1] # s
  PROVE  status'[j[1]] = status[j[1]]
<1>1. j[1] \in Step /\ Fenced(j[1])
  BY JobIds DEF Fenced
<1>2. j[1] \notin Siblings(s)
  BY <1>1 DEF Settle
<1> QED
  BY <1>1, <1>2 DEF Settle

\* A job that ends an attempt is no longer fenced.
LEMMA EndedFences ==
  ASSUME TypeOK, NEW j \in JobId
  PROVE  /\ Attempted(job[j]).at # "fenced"
         /\ \A b \in Interrupted(job[j]) : b.at # "fenced"
BY DEF TypeOK, Job, Attempted, Interrupted

\* Every step keeps what the handlers hold.
LEMMA FenceStep ==
  ASSUME TypeOK, FenceHolds, OneFence, [Next]_vars
  PROVE  FenceHolds' /\ OneFence'
<1> USE DEF state, settings
<1>1. ASSUME NEW s \in Step, Claim(s), UNCHANGED <<job, gate>>,
             \A t \in Step \ {s} : status'[t] = status[t]
      PROVE  FencesKept
  BY <1>1, JobIds DEF Claim, Fenced, FencesKept
<1>2. ASSUME NEW s \in Step, NEW v, NEW From, ~Fenced(s), Settle(s, v, From),
             UNCHANGED <<job, gate>>
      PROVE  FencesKept
  BY <1>2, SettleFences DEF Fenced, FencesKept
<1>3. ASSUME NEW s \in Step, Activate(s)
      PROVE  \A t \in Step \ {s} : status'[t] = status[t]
  BY <1>3 DEF Activate, TypeOK
<1>4. ASSUME ActivateScheduled PROVE FencesKept
  <2>1. PICK s \in Step : Activable(s) /\ Activate(s) /\ Emit(job, {s})
    BY <1>4 DEF ActivateScheduled
  <2>2. \A j \in JobId : job'[j].at = "fenced" => job[j].at = "fenced" /\ j[1] # s
    BY <2>1, PublishFences DEF Emit, Activable, Claim, Fenced
  <2> QED
    BY <1>3, <1>4, <2>1, <2>2, JobIds DEF ActivateScheduled, FencesKept
<1>5. ASSUME NEW r \in Run, ActivateNext(r) PROVE FencesKept
  <2>1. PICK s \in Step : (Activable(s) /\ Activate(s)) \/ UNCHANGED state
    BY <1>5 DEF ActivateNext, TypeOK, Memory
  <2>2. CASE UNCHANGED state
    BY <1>5, <2>2 DEF ActivateNext, FencesKept
  <2>3. CASE Activable(s) /\ Activate(s)
    BY <1>1, <1>3, <1>5, <2>3 DEF ActivateNext, Activable
  <2> QED
    BY <2>1, <2>2, <2>3
<1>6. ASSUME NEW r \in Run, ReadPending(r) \/ EmitJobs(r) \/ Finish(r) \/ RunDies(r)
      PROVE FencesKept
  <2>1. CASE ReadPending(r)
    BY <2>1 DEF ReadPending, FencesKept
  <2>2. CASE EmitJobs(r)
    BY <2>2, ReleaseFences, PublishFences DEF EmitJobs, Emit, FencesKept
  <2>3. CASE Finish(r)
    BY <2>3, ReleaseFences DEF Finish, FencesKept
  <2>4. CASE RunDies(r)
    <3>1. \A j \in JobId : job'[j].at = "fenced" => job[j].at = "fenced"
      BY <2>4, EndedFences DEF RunDies, TypeOK, Memory
    <3> QED
      BY <2>4, <3>1 DEF RunDies, FencesKept
  <2> QED
    BY <1>6, <2>1, <2>2, <2>3, <2>4
<1>7. ASSUME NEW s \in Step, StartStep(s) \/ RetryStep(s) \/ ForceRetryStep(s)
                             \/ AssignOrReassignStep(s)
      PROVE FencesKept
  BY <1>1, <1>7 DEF StartStep, RetryStep, ForceRetryStep, AssignOrReassignStep, TypeOK
<1>8. ASSUME NEW s \in Step, CompleteStep(s) \/ FailStep(s) \/ BlockStep(s) PROVE FencesKept
  BY <1>2, <1>8 DEF CompleteStep, FailStep, Fail, Failable, BlockStep, Claim
<1>9. ASSUME NEW s \in Step, TimeOut(s) PROVE FencesKept
  <2>1. CASE Fail(s)
    BY <1>2, <1>9, <2>1 DEF TimeOut, Fail
  <2>2. CASE UNCHANGED state
    BY <1>9, <2>2 DEF TimeOut, FencesKept
  <2> QED
    BY <1>9, <2>1, <2>2 DEF TimeOut
<1>10. ASSUME NEW s \in Step, CheckBpoTimeouts(s) \/ CheckAutoTimeouts(s) PROVE FencesKept
  BY <1>10 DEF CheckBpoTimeouts, CheckAutoTimeouts, FencesKept
<1>11. ASSUME NEW s \in Step, RecoverHandler(s) PROVE FencesKept
  BY <1>11, PublishFences DEF RecoverHandler, FencesKept
<1>12. ASSUME NEW j \in JobId, RunHandler(j) PROVE FenceHolds' /\ OneFence'
  <2>1. CASE job' = [job EXCEPT ![j].at = "running"] \/ job' = [job EXCEPT ![j].at = "over"]
    <3>1. FencesKept
      BY <1>12, <2>1 DEF RunHandler, FencesKept, TypeOK, Job
    <3> QED
      BY <3>1, KeptFences
  <2>2. CASE /\ Enrolled /\ Claim(j[1]) /\ status[j[1]] = "in_progress"
             /\ job' = [job EXCEPT ![j].at = "fenced"]
    <3>1. \A i \in JobId : job'[i].at = "fenced" => i = j \/ (job[i].at = "fenced" /\ i[1] # j[1])
      <4>1. \A i \in JobId : i # j => job'[i] = job[i]
        BY <2>2 DEF TypeOK
      <4>2. ~Fenced(j[1])
        BY <2>2 DEF Claim
      <4>3. \A i \in JobId : i[1] = j[1] => job[i].at # "fenced"
        BY <4>2 DEF Fenced
      <4> QED
        BY <4>1, <4>3
    <3> QED
      BY <1>12, <2>2, <3>1 DEF RunHandler, FenceHolds, OneFence, Claim
  <2> QED
    BY <1>12, <2>1, <2>2 DEF RunHandler
<1>13. ASSUME NEW j \in JobId, Settles(j), NEW v, Settle(j[1], v, Active), gate' = gate,
              \A i \in JobId : job'[i].at = "fenced" => i # j /\ job[i].at = "fenced"
       PROVE  FencesKept
  <2>1. \A i \in JobId : i # j /\ job[i].at = "fenced" => i[1] # j[1]
    BY <1>13 DEF Settles, Claim, Fenced, OneFence
  <2> QED
    BY <1>13, <2>1, JobIds, SettleFences DEF FencesKept
<1>14. ASSUME NEW j \in JobId, HandlerCompletes(j) PROVE FencesKept
  <2>1. \A i \in JobId : job'[i].at = "fenced" => i # j /\ job[i].at = "fenced"
    BY <1>14 DEF HandlerCompletes, TypeOK, Job
  <2> QED
    BY <1>13, <1>14, <2>1 DEF HandlerCompletes
<1>15. ASSUME NEW j \in JobId, HandlerFails(j) PROVE FencesKept
  <2>1. \A i \in JobId : job'[i].at = "fenced" => i # j /\ job[i].at = "fenced"
    BY <1>15 DEF HandlerFails, TypeOK, Job
  <2> QED
    BY <1>13, <1>15, <2>1 DEF HandlerFails
<1>16. ASSUME NEW j \in JobId,
              HandlerThrows(j) \/ FenceTimesOut(j) \/ WorkerDies(j) \/ ForgetJob(j)
       PROVE FencesKept
  <2>1. \A i \in JobId : job'[i].at = "fenced" => job[i].at = "fenced"
    BY <1>16, EndedFences DEF HandlerThrows, FenceTimesOut, WorkerDies, ForgetJob, Absent,
       TypeOK, Job
  <2> QED
    BY <1>16, <2>1 DEF HandlerThrows, FenceTimesOut, WorkerDies, ForgetJob, FencesKept
<1>17. ASSUME WindowCloses \/ RecoverActivation PROVE FencesKept
  BY <1>17 DEF WindowCloses, RecoverActivation, FencesKept
<1>18. ASSUME ArchiveOldTask \/ TurnSwitch PROVE FenceHolds' /\ OneFence'
  <2>1. \A j \in JobId : job[j].at # "fenced"
    BY <1>18, JobIds DEF ArchiveOldTask, TurnSwitch, Fenced, FenceHolds
  <2>2. job' = job
    BY <1>18 DEF ArchiveOldTask, TurnSwitch
  <2> QED
    BY <2>1, <2>2 DEF FenceHolds, OneFence
<1>19. CASE UNCHANGED vars
  BY <1>19 DEF vars, FenceHolds, OneFence
<1> QED
  BY <1>4, <1>5, <1>6, <1>7, <1>8, <1>9, <1>10, <1>11, <1>12, <1>14, <1>15, <1>16,
     <1>17, <1>18, <1>19, KeptFences DEF Next, RunStep, HandlerEnds

-----------------------------------------------------------------------------
(* Who wins a step that several people share.                              *)

\* Archiving needs a task outside Store Onboarding.
Kept == Enrolled => task # "archived"

\* Whoever has settled or blocked a step has cancelled its siblings.
Decided == {"blocked", "failed", "done"}
Rivals ==
  task # "archived" =>
    \A s \in Step : status[s] \in Decided => \A t \in Siblings(s) : status[t] = "cancelled"

\* Every step keeps enrolled tasks out of the archive.
LEMMA KeptStep ==
  ASSUME TypeOK, Kept, [Next]_vars
  PROVE  Kept'
<1> USE DEF Kept, state
<1>1. ASSUME NEW s \in Step, Activate(s) PROVE task' # "archived"
  BY <1>1 DEF Activate
<1>2. ASSUME NEW r \in Run, RunStep(r) PROVE task' # "archived" \/ task' = task
  <2>1. CASE ActivateNext(r)
    BY <1>1, <2>1 DEF ActivateNext, TypeOK, Memory
  <2>2. CASE ReadPending(r) \/ EmitJobs(r) \/ Finish(r)
    BY <2>2 DEF ReadPending, EmitJobs, Finish, Close
  <2> QED
    BY <1>2, <2>1, <2>2 DEF RunStep
<1> QED
  BY <1>1, <1>2 DEF Next, ActivateScheduled, WindowCloses, ArchiveOldTask, TurnSwitch,
     RecoverActivation, RunDies, StartStep, CompleteStep, FailStep, Fail, BlockStep,
     RetryStep, ForceRetryStep, AssignOrReassignStep, CheckBpoTimeouts, CheckAutoTimeouts,
     TimeOut, RecoverHandler, RunHandler, HandlerEnds, HandlerCompletes, HandlerFails,
     HandlerThrows, FenceTimesOut, WorkerDies, ForgetJob, vars

\* Settling or blocking an active step keeps one winner.
LEMMA SettleRivals ==
  ASSUME TypeOK, Rivals, task # "archived",
         NEW s \in Step, status[s] \in {"in_progress", "blocked"},
         NEW v \in Decided, NEW From, {"pending", "in_progress"} \subseteq From,
         Settle(s, v, From)
  PROVE  \A u \in Step : status'[u] \in Decided =>
           \A t \in Siblings(u) : status'[t] = "cancelled"
<1>1. SUFFICES ASSUME NEW u \in Step, status'[u] \in Decided, NEW t \in Siblings(u)
               PROVE  status'[t] = "cancelled"
  OBVIOUS
<1>2. t \in Step /\ t # u /\ order[t] = order[u]
  BY <1>1 DEF Siblings
<1>3. CASE u = s
  <2>1. CASE status[t] \in Decided
    <3>1. s \in Siblings(t)
      BY <1>2, <1>3 DEF Siblings
    <3> QED
      BY <1>2, <2>1, <3>1 DEF Rivals
  <2>2. CASE status[t] \in {"pending", "in_progress", "cancelled"}
    BY <1>1, <1>2, <1>3, <2>2 DEF Settle
  <2> QED
    BY <1>2, <2>1, <2>2 DEF TypeOK, StepStatus, Decided
<1>4. CASE u # s
  <2>1. status[u] \in Decided
    BY <1>1, <1>4 DEF Settle, Decided
  <2>2. status[t] = "cancelled"
    BY <1>1, <2>1 DEF Rivals
  <2>3. t # s
    BY <2>2
  <2> QED
    BY <1>2, <2>2, <2>3 DEF Settle
<1> QED
  BY <1>3, <1>4

\* Every step keeps one winner, in the archive too.
LEMMA RivalsStep ==
  ASSUME TypeOK, FenceHolds, Kept, Rivals, OneWinner, [Next]_vars
  PROVE  Rivals' /\ OneWinner'
<1> USE DEF state
\* What leaves the steps alone, or moves one to a status that decides nothing.
<1>1. ASSUME UNCHANGED <<task, status>> PROVE Rivals' /\ OneWinner'
  BY <1>1 DEF Rivals, OneWinner, Siblings
<1>2. ASSUME task # "archived", UNCHANGED status PROVE Rivals' /\ OneWinner'
  BY <1>2 DEF Rivals, OneWinner, Siblings
<1>3. ASSUME task # "archived", NEW s \in Step, status[s] # "cancelled",
             status' = [status EXCEPT ![s] = "in_progress"]
      PROVE  Rivals' /\ OneWinner'
  BY <1>3 DEF Rivals, OneWinner, Siblings, TypeOK, Decided
<1>4. ASSUME task # "archived",
             \A u \in Step : status'[u] \in Decided =>
               \A t \in Siblings(u) : status'[t] = "cancelled"
      PROVE  Rivals' /\ OneWinner'
  BY <1>4 DEF Rivals, OneWinner, Siblings, Decided
<1>5. ASSUME NEW s \in Step, Activable(s), Activate(s) PROVE Rivals' /\ OneWinner'
  BY <1>2, <1>3, <1>5 DEF Activable, Activate, Claim
<1>6. ASSUME NEW r \in Run, RunStep(r) PROVE Rivals' /\ OneWinner'
  <2>1. CASE ActivateNext(r)
    BY <1>1, <1>5, <2>1 DEF ActivateNext, TypeOK, Memory
  <2>2. CASE Finish(r)
    BY <1>1, <1>2, <2>2 DEF Finish, Close
  <2>3. CASE ReadPending(r) \/ EmitJobs(r)
    BY <1>1, <2>3 DEF ReadPending, EmitJobs
  <2> QED
    BY <1>6, <2>1, <2>2, <2>3 DEF RunStep
<1>7. ASSUME NEW s \in Step, StartStep(s) \/ RetryStep(s) \/ ForceRetryStep(s)
      PROVE  Rivals' /\ OneWinner'
  BY <1>3, <1>7 DEF StartStep, RetryStep, ForceRetryStep, Claim
<1>8. ASSUME NEW s \in Step, AssignOrReassignStep(s) PROVE Rivals' /\ OneWinner'
  BY <1>2, <1>8 DEF AssignOrReassignStep, Claim
<1>9. ASSUME NEW s \in Step, Fail(s) PROVE Rivals' /\ OneWinner'
  BY <1>4, <1>9, SettleRivals DEF Fail, Failable, Claim, Active, Decided
<1>10. ASSUME NEW s \in Step, CompleteStep(s) \/ BlockStep(s) PROVE Rivals' /\ OneWinner'
  BY <1>4, <1>10, SettleRivals DEF CompleteStep, BlockStep, Claim, Active, Decided
<1>11. ASSUME NEW s \in Step, FailStep(s) \/ TimeOut(s) PROVE Rivals' /\ OneWinner'
  BY <1>1, <1>9, <1>11 DEF FailStep, TimeOut
<1>12. ASSUME NEW j \in JobId, HandlerCompletes(j) \/ HandlerFails(j)
       PROVE  Rivals' /\ OneWinner'
  <2>1. task # "archived" /\ status[j[1]] = "in_progress" /\ j[1] \in Step
    BY <1>12, JobIds DEF HandlerCompletes, HandlerFails, Settles, Claim, FenceHolds, Kept
  <2> QED
    BY <1>4, <1>12, <2>1, SettleRivals DEF HandlerCompletes, HandlerFails, Active, Decided
<1>13. ASSUME ArchiveOldTask PROVE Rivals' /\ OneWinner'
  <2>1. \A s \in Step : status[s] = "cancelled" => status'[s] = "cancelled"
    BY <1>13 DEF ArchiveOldTask, Active
  <2>2. \A s \in Step : status'[s] = "done" => status[s] = "done"
    BY <1>13 DEF ArchiveOldTask
  <2>3. OneWinner'
    BY <2>1, <2>2 DEF OneWinner, Siblings
  <2> QED
    BY <1>13, <2>3 DEF ArchiveOldTask, Rivals
<1>14. CASE UNCHANGED vars
  BY <1>1, <1>14 DEF vars
<1> QED
  BY <1>1, <1>5, <1>6, <1>7, <1>8, <1>10, <1>11, <1>12, <1>13, <1>14
     DEF Next, ActivateScheduled, WindowCloses, TurnSwitch, RecoverActivation, RunDies,
     CheckBpoTimeouts, CheckAutoTimeouts, RecoverHandler, RunHandler, HandlerEnds,
     HandlerThrows, FenceTimesOut, WorkerDies, ForgetJob, settings

-----------------------------------------------------------------------------
(* The end of a task.                                                      *)

\* Every step keeps a task that is done settled.
LEMMA DoneStep ==
  ASSUME TypeOK, DoneMeansSettled, [Next]_vars
  PROVE  DoneMeansSettled'
<1> USE DEF state
<1>1. ASSUME UNCHANGED <<task, status>> PROVE DoneMeansSettled'
  BY <1>1 DEF DoneMeansSettled
<1>2. ASSUME task' # "done" PROVE DoneMeansSettled'
  BY <1>2 DEF DoneMeansSettled
<1>3. ASSUME NEW s \in Step, Activate(s) PROVE task' # "done"
  BY <1>3 DEF Activate
<1>4. ASSUME NEW r \in Run, RunStep(r) PROVE DoneMeansSettled'
  <2>1. CASE ActivateNext(r)
    BY <1>1, <1>2, <1>3, <2>1 DEF ActivateNext, TypeOK, Memory
  <2>2. CASE Finish(r)
    BY <1>1, <2>2 DEF Finish, Close, DoneMeansSettled
  <2>3. CASE ReadPending(r) \/ EmitJobs(r)
    BY <1>1, <2>3 DEF ReadPending, EmitJobs
  <2> QED
    BY <1>4, <2>1, <2>2, <2>3 DEF RunStep
<1>5. ASSUME NEW s \in Step, CompleteStep(s) PROVE DoneMeansSettled'
  BY <1>5 DEF CompleteStep, Settle, DoneMeansSettled, Active
<1>6. ASSUME NEW j \in JobId, HandlerCompletes(j) PROVE DoneMeansSettled'
  BY <1>6, JobIds DEF HandlerCompletes, Settle, DoneMeansSettled, Active
<1>7. ASSUME NEW s \in Step, TimeOut(s) PROVE DoneMeansSettled'
  BY <1>1, <1>2, <1>7 DEF TimeOut, Fail
<1>8. CASE UNCHANGED vars
  BY <1>1, <1>8 DEF vars
<1> QED
  BY <1>1, <1>2, <1>3, <1>4, <1>5, <1>6, <1>7, <1>8
     DEF Next, ActivateScheduled, WindowCloses, ArchiveOldTask, TurnSwitch,
     RecoverActivation, RunDies, StartStep, FailStep, Fail, BlockStep, RetryStep,
     ForceRetryStep, AssignOrReassignStep, CheckBpoTimeouts, CheckAutoTimeouts,
     RecoverHandler, RunHandler, HandlerEnds, HandlerFails, HandlerThrows, FenceTimesOut,
     WorkerDies, ForgetJob, settings

-----------------------------------------------------------------------------
(* The jobs of a step.                                                     *)

\* A job outside Store Onboarding is the published one of its step, and only
\* there does it run outside a transaction.
OneJob ==
  ~Enrolled =>
    /\ \A j \in JobId : job[j].at # "none" => j = Published(j[1])
    /\ \A r \in Run : run[r].job # NoJob => run[r].job = Published(run[r].job[1])
Apart == \A j \in JobId : job[j].at = "running" => ~Enrolled

\* The state of a job that runs without a transaction.
Loose == {"running"}
\* No job that runs this way, and no other job of a step, appears.
JobsKept ==
  \A j \in JobId :
    /\ job'[j].at \in Loose => job'[j].at = job[j].at
    /\ ~Enrolled /\ job'[j].at # "none" => j = Published(j[1])
RunsKept == \A r \in Run : run'[r].job \in {run[r].job, NoJob}

LEMMA KeptLoose ==
  ASSUME OneJob, Apart, JobsKept, RunsKept
  PROVE  OneJob' /\ Apart'
BY DEF OneJob, Apart, JobsKept, RunsKept, Loose

\* A publication starts no job, and adds those it is asked for.
LEMMA PublishLoose ==
  ASSUME NEW jobs, NEW js, NEW j \in JobId
  PROVE  /\ Publish(jobs, js)[j].at \in Loose => Publish(jobs, js)[j].at = jobs[j].at
         /\ Publish(jobs, js)[j].at # "none" => jobs[j].at # "none" \/ j \in js
BY DEF Publish, Loose

LEMMA ReleaseLoose ==
  ASSUME TypeOK, NEW r \in Run, NEW j \in JobId
  PROVE  /\ Released(r)[j].at \in Loose => Released(r)[j].at = job[j].at
         /\ Released(r)[j].at # "none" => job[j].at # "none" \/ run[r].job = j
<1>1. CASE run[r].job = NoJob
  BY <1>1 DEF Released
<1>2. CASE run[r].job # NoJob
  <2>1. run[r].job \in JobId
    BY <1>2 DEF TypeOK, Memory
  <2> QED
    BY <1>2, <2>1 DEF Released, TypeOK, Job, Loose
<1> QED
  BY <1>1, <1>2

\* Every step keeps the jobs of a step apart.
LEMMA JobStep ==
  ASSUME TypeOK, OneJob, Apart, [Next]_vars
  PROVE  OneJob' /\ Apart'
<1> USE DEF state, settings
<1>1. ASSUME job' = job PROVE JobsKept
  BY <1>1 DEF JobsKept, OneJob
<1>2. ASSUME run' = run PROVE RunsKept
  BY <1>2 DEF RunsKept
<1>3. ASSUME NEW r \in Run, run' = [run EXCEPT ![r] = Idle] PROVE RunsKept
  BY <1>3 DEF RunsKept, Idle, TypeOK
<1>4. ASSUME Advance(NoJob) PROVE RunsKept
  BY <1>4 DEF Advance, Begun, RunsKept, TypeOK
<1>5. ASSUME ActivateScheduled PROVE JobsKept /\ RunsKept
  <2>1. PICK s \in Step : Emit(job, {s})
    BY <1>5 DEF ActivateScheduled
  <2>2. JobsKept
    BY <2>1, PublishLoose DEF Emit, JobsKept, OneJob, Published
  <2> QED
    BY <1>2, <1>5, <2>2 DEF ActivateScheduled
<1>6. ASSUME NEW r \in Run, ReadPending(r) \/ ActivateNext(r) PROVE JobsKept /\ RunsKept
  <2>1. ASSUME ReadPending(r) PROVE RunsKept
    <3>1. PICK v, next : run' = [run EXCEPT ![r].at = v, ![r].todo = next]
      BY <2>1 DEF ReadPending
    <3> QED
      BY <3>1 DEF RunsKept, TypeOK, Memory
  <2>2. ASSUME ActivateNext(r) PROVE RunsKept
    BY <2>2 DEF ActivateNext, RunsKept, TypeOK, Memory
  <2> QED
    BY <1>1, <1>6, <2>1, <2>2 DEF ReadPending, ActivateNext
<1>7. ASSUME NEW r \in Run, NEW j \in JobId, ~Enrolled, Released(r)[j].at # "none"
      PROVE  j = Published(j[1])
  BY <1>7, ReleaseLoose, NoJobConstant DEF OneJob
<1>8. ASSUME NEW r \in Run, EmitJobs(r) PROVE JobsKept /\ RunsKept
  <2>1. PICK sent \in SUBSET Step :
          job' = Publish(Released(r), {Published(s) : s \in sent})
    BY <1>8 DEF EmitJobs, Emit, TypeOK, Memory
  <2>2. ASSUME NEW j \in JobId PROVE /\ job'[j].at \in Loose => job'[j].at = job[j].at
                                     /\ ~Enrolled /\ job'[j].at # "none" => j = Published(j[1])
    <3>1. j \in {Published(s) : s \in sent} => j = Published(j[1])
      BY DEF Published
    <3> QED
      BY <1>7, <2>1, <3>1, PublishLoose, ReleaseLoose
  <2> QED
    BY <1>3, <1>8, <2>2 DEF EmitJobs, JobsKept
<1>9. ASSUME NEW r \in Run, Finish(r) PROVE JobsKept /\ RunsKept
  BY <1>3, <1>7, <1>9, ReleaseLoose DEF Finish, JobsKept
<1>10. ASSUME NEW r \in Run, RunDies(r) PROVE JobsKept /\ RunsKept
  <2>1. CASE run[r].job = NoJob
    BY <1>1, <1>3, <1>10, <2>1 DEF RunDies
  <2>2. CASE run[r].job # NoJob
    <3>1. run[r].job \in JobId
      BY <2>2 DEF TypeOK, Memory
    <3>2. PICK b \in Interrupted(job[run[r].job]) : job' = [job EXCEPT ![run[r].job] = b]
      BY <1>10, <2>2 DEF RunDies
    <3>3. b.at \notin Loose
      BY <3>1, <3>2 DEF Interrupted, Attempted, Loose, TypeOK, Job
    <3>4. JobsKept
      BY <2>2, <3>1, <3>2, <3>3 DEF JobsKept, OneJob, TypeOK
    <3> QED
      BY <1>3, <1>10, <3>4 DEF RunDies
  <2> QED
    BY <2>1, <2>2
<1>11. ASSUME NEW s \in Step, RecoverHandler(s) PROVE JobsKept /\ RunsKept
  BY <1>2, <1>11, PublishLoose DEF RecoverHandler, JobsKept
<1>12. ASSUME NEW j \in JobId, RunHandler(j) \/ FenceTimesOut(j) PROVE OneJob' /\ Apart'
  <2>1. \A i \in JobId : i # j => job'[i] = job[i]
    BY <1>12 DEF RunHandler, FenceTimesOut, TypeOK
  <2>2. /\ job[j].at # "none"
        /\ job'[j].at = "running" => ~Enrolled
    BY <1>12 DEF RunHandler, FenceTimesOut, TypeOK, Job
  <2> QED
    BY <1>12, <2>1, <2>2 DEF OneJob, Apart, RunHandler, FenceTimesOut
<1>13. ASSUME NEW j \in JobId, job[j].at # "none",
              \A i \in JobId : i # j => job'[i] = job[i], job'[j].at \notin Loose
       PROVE  JobsKept
  BY <1>13 DEF JobsKept, OneJob
<1>14. ASSUME NEW j \in JobId, HandlerThrows(j) \/ WorkerDies(j) \/ ForgetJob(j)
                               \/ HandlerFails(j)
       PROVE JobsKept /\ RunsKept
  <2>1. \A i \in JobId : i # j => job'[i] = job[i]
    BY <1>14 DEF HandlerThrows, WorkerDies, ForgetJob, HandlerFails, TypeOK
  <2>2. job[j].at # "none" /\ job'[j].at \notin Loose
    BY <1>14 DEF HandlerThrows, WorkerDies, ForgetJob, HandlerFails, Settles, Interrupted,
       Attempted, Absent, Loose, TypeOK, Job
  <2> QED
    BY <1>2, <1>13, <1>14, <2>1, <2>2 DEF HandlerThrows, WorkerDies, ForgetJob, HandlerFails
<1>15. ASSUME NEW j \in JobId, HandlerCompletes(j) PROVE OneJob' /\ Apart'
  <2>1. /\ job[j].at # "none"
        /\ job'[j].at \notin Loose
        /\ \A i \in JobId : i # j => job'[i] = job[i]
    BY <1>15 DEF HandlerCompletes, Settles, Loose, TypeOK, Job
  <2>2. JobsKept
    BY <1>13, <2>1
  <2>3. \A r \in Run : run'[r].job \in {run[r].job, j}
    BY <1>15 DEF HandlerCompletes, Advance, Begun, TypeOK
  <2> QED
    BY <2>1, <2>2, <2>3 DEF JobsKept, OneJob, Apart, Loose
<1>16. CASE UNCHANGED vars
  BY <1>1, <1>2, <1>16, KeptLoose DEF vars
<1>17. ASSUME NEW s \in Step,
              \/ StartStep(s) \/ FailStep(s) \/ BlockStep(s) \/ RetryStep(s)
              \/ ForceRetryStep(s) \/ AssignOrReassignStep(s) \/ CheckBpoTimeouts(s)
              \/ CheckAutoTimeouts(s) \/ TimeOut(s)
       PROVE JobsKept /\ RunsKept
  BY <1>1, <1>2, <1>17 DEF StartStep, FailStep, BlockStep, RetryStep, ForceRetryStep,
     AssignOrReassignStep, CheckBpoTimeouts, CheckAutoTimeouts, TimeOut
<1>18. ASSUME NEW s \in Step, CompleteStep(s) PROVE JobsKept /\ RunsKept
  BY <1>1, <1>4, <1>18 DEF CompleteStep
<1>19. ASSUME WindowCloses \/ ArchiveOldTask \/ TurnSwitch PROVE JobsKept /\ RunsKept
  BY <1>1, <1>2, <1>19 DEF WindowCloses, ArchiveOldTask, TurnSwitch
<1>20. ASSUME RecoverActivation PROVE JobsKept /\ RunsKept
  BY <1>1, <1>4, <1>20 DEF RecoverActivation
<1> QED
  BY <1>5, <1>6, <1>8, <1>9, <1>10, <1>11, <1>12, <1>14, <1>15, <1>16, <1>17, <1>18,
     <1>19, <1>20, KeptLoose DEF Next, RunStep, HandlerEnds

-----------------------------------------------------------------------------
(* The theorems.                                                           *)

EngineInv ==
  /\ TypeOK
  /\ FenceHolds /\ OneFence
  /\ Kept /\ Rivals /\ OneWinner
  /\ DoneMeansSettled
  /\ OneJob /\ Apart

LEMMA InitEngineInv == Init => EngineInv
<1> SUFFICES ASSUME Init PROVE EngineInv
  OBVIOUS
<1>1. FenceHolds /\ OneFence
  BY DEF Init, Absent, FenceHolds, OneFence
<1>2. Kept /\ Rivals /\ OneWinner /\ DoneMeansSettled
  BY DEF Init, Kept, Rivals, Decided, OneWinner, DoneMeansSettled
<1>3. OneJob /\ Apart
  BY DEF Init, Absent, Idle, Begun, OneJob, Apart
<1> QED
  BY <1>1, <1>2, <1>3, InitTypeOK DEF EngineInv

\* The inductive invariant holds in every behaviour of the engine.
THEOREM EngineInvariant == Spec => []EngineInv
<1>1. Init => EngineInv
  BY InitEngineInv
<1>2. EngineInv /\ [Next]_vars => EngineInv'
  BY NextTypeOK, FenceStep, KeptStep, RivalsStep, DoneStep, JobStep DEF EngineInv
<1> QED
  BY <1>1, <1>2, PTL DEF Spec

\* DoneMeansSettled: a task that is done has no active step, for any task.
THEOREM DoneMeansSettledHolds == Spec => []DoneMeansSettled
<1>1. EngineInv => DoneMeansSettled
  BY DEF EngineInv
<1> QED
  BY <1>1, EngineInvariant, PTL

\* OneWinner: of the instances of one step at most one is done, and then the
\* others are cancelled, whoever acts on them and in whatever order.
THEOREM OneWinnerHolds == Spec => []OneWinner
<1>1. EngineInv => OneWinner
  BY DEF EngineInv
<1> QED
  BY <1>1, EngineInvariant, PTL

\* FencedEffect: a fenced handler keeps its step and the switch.
THEOREM FencedEffectHolds == Spec => []FencedEffect
<1>1. EngineInv => FencedEffect
  BY DEF EngineInv, FenceHolds, FencedEffect
<1> QED
  BY <1>1, EngineInvariant, PTL

\* What a step has become, once it is settled, is what it is after the next action.
Stays(s) ==
  /\ status[s] \in {"done", "cancelled"} => status'[s] = status[s]
  /\ status[s] = "failed" => status'[s] \in {"failed", "in_progress"}

\* Settling or blocking an active step touches active ones only.
LEMMA SettleStays ==
  ASSUME TypeOK, NEW s \in Step, status[s] \in {"pending", "in_progress", "blocked"}, NEW v,
         NEW From \in SUBSET Active, Settle(s, v, From), NEW u \in Step
  PROVE  Stays(u)
BY DEF Settle, Stays, TypeOK, Active

\* So does activating one.
LEMMA ActivateStays ==
  ASSUME TypeOK, NEW s \in Step, Activable(s), Activate(s), NEW u \in Step
  PROVE  Stays(u)
BY DEF Activable, Activate, Stays, TypeOK

\* Every step lets what is settled stay, for any task.
LEMMA StaysStep ==
  ASSUME TypeOK, FenceHolds, [Next]_vars
  PROVE  [\A s \in Step : Stays(s)]_vars
<1> USE DEF state
<1> SUFFICES ASSUME Next, NEW u \in Step PROVE Stays(u)
  OBVIOUS
<1>1. ASSUME UNCHANGED status PROVE Stays(u)
  BY <1>1 DEF Stays
<1>2. ASSUME NEW r \in Run, RunStep(r) PROVE Stays(u)
  <2>1. CASE ActivateNext(r)
    BY <1>1, <2>1, ActivateStays DEF ActivateNext, TypeOK, Memory
  <2> QED
    BY <1>1, <1>2, <2>1 DEF RunStep, ReadPending, EmitJobs, Finish
<1>3. ASSUME NEW s \in Step, Fail(s) PROVE Stays(u)
  BY <1>3, SettleStays DEF Fail, Failable, Active
<1>4. ASSUME NEW s \in Step, CompleteStep(s) \/ BlockStep(s) PROVE Stays(u)
  BY <1>4, SettleStays DEF CompleteStep, BlockStep, Active
<1>5. ASSUME NEW s \in Step, StartStep(s) \/ RetryStep(s) \/ ForceRetryStep(s) PROVE Stays(u)
  BY <1>5 DEF StartStep, RetryStep, ForceRetryStep, Stays, TypeOK
<1>6. ASSUME NEW j \in JobId, HandlerCompletes(j) \/ HandlerFails(j) PROVE Stays(u)
  <2>1. j[1] \in Step /\ status[j[1]] = "in_progress"
    BY <1>6, JobIds DEF HandlerCompletes, HandlerFails, Settles, FenceHolds
  <2> QED
    BY <1>6, <2>1, SettleStays DEF HandlerCompletes, HandlerFails
<1>7. CASE ActivateScheduled
  BY <1>7, ActivateStays DEF ActivateScheduled
<1>8. CASE ArchiveOldTask
  BY <1>8 DEF ArchiveOldTask, Active, Stays, TypeOK
<1> QED
  BY <1>1, <1>2, <1>3, <1>4, <1>5, <1>6, <1>7, <1>8 DEF Next, WindowCloses, TurnSwitch,
     RecoverActivation, RunDies, FailStep, AssignOrReassignStep, CheckBpoTimeouts,
     CheckAutoTimeouts, TimeOut, RecoverHandler, RunHandler, HandlerEnds, HandlerThrows,
     FenceTimesOut, WorkerDies, ForgetJob

\* OutcomeStays: what has become of a step stays, for any task, whatever is late.
THEOREM OutcomeStaysHolds == Spec => OutcomeStays
<1>1. EngineInv /\ [Next]_vars =>
        [\A s \in Step :
           /\ status[s] \in {"done", "cancelled"} => status'[s] = status[s]
           /\ status[s] = "failed" => status'[s] \in {"failed", "in_progress"}]_vars
  BY StaysStep DEF EngineInv, Stays
<1> QED
  BY <1>1, EngineInvariant, PTL DEF Spec, OutcomeStays

\* OneEffect: no two workers run the handler of a step at once, unless one of
\* them has outlived its transaction.
THEOREM OneEffectHolds == Spec => []OneEffect
<1>1. EngineInv => OneEffect
  <2> SUFFICES ASSUME EngineInv,
                      NEW i \in JobId, NEW j \in JobId, i[1] = j[1],
                      job[i].at \in InEffect, job[j].at \in InEffect
               PROVE  i = j
    BY DEF OneEffect
  <2>1. CASE Enrolled
    BY <2>1 DEF EngineInv, Apart, OneFence, InEffect
  <2>2. CASE ~Enrolled
    BY <2>2 DEF EngineInv, OneJob, Published, InEffect
  <2> QED
    BY <2>1, <2>2
<1> QED
  BY <1>1, EngineInvariant, PTL

-----------------------------------------------------------------------------
(* Steps in turn, outside Store Onboarding and without overrides.  With      *)
(* either of them a step may be started early: see InTurn.                   *)

Plain == ~Enrolled /\ ~Overrides

DoneIn(s)  == \E d \in Siblings(s) \cup {s} : status[d] = "done"
After(s)   == \A t \in Step : order[t] < order[s] => DoneIn(t)
InTodo(s)  == \E r \in Run : s \in run[r].todo
Reached(s) == status[s] \in Started \/ claimed[s] \/ InTodo(s)

\* Who is reached has a step that is done in each order before.
Ordered == \A s \in Step : Reached(s) => After(s)

\* A cancelled step has lost to a sibling.
Losers ==
  \A s \in Step : status[s] = "cancelled" => \E t \in Siblings(s) : status[t] \in Started

\* No step is under way: the orders before are done, those to come untouched.
Between == \A s \in Step : IF status[s] = "pending" THEN ~Reached(s) ELSE DoneIn(s)

\* One execution of advanceTask at most has yet to read, and finds this.
Reading ==
  /\ \A r \in Run : run[r].at = "read" => Between
  /\ \A q, r \in Run : run[q].at = "read" /\ run[r].at = "read" => q = r

\* One that closes the task has found no pending step, and there is none again.
Finishing == \A r \in Run : run[r].at = "finish" => \A s \in Step : status[s] # "pending"

Turns == Ordered /\ Losers /\ Reading /\ Finishing

\* Only an execution that activates has something to do.
Resting == \A r \in Run : run[r].at # "activate" => run[r].todo = {}

\* Nobody has touched a task whose window has not opened.
Waiting ==
  task = "scheduled" =>
    /\ \A r \in Run : run[r].at = "idle"
    /\ \A s \in Step : status[s] = "pending" /\ ~claimed[s]

\* A failed task has a failed step.
Failure == task = "failed" => \E f \in Step : status[f] = "failed"

TurnInv == (task # "archived" => Turns) /\ Resting /\ Waiting /\ Failure

-----------------------------------------------------------------------------
(* How the pieces of a step keep the turns.                                  *)

\* A step that is under way leaves none to be read.
LEMMA Undecided ==
  ASSUME OneWinner, NEW s \in Step, status[s] \notin {"done", "cancelled"}
  PROVE  ~DoneIn(s)
BY DEF OneWinner, DoneIn, Siblings

LEMMA NobodyReads ==
  ASSUME OneWinner, Reading, NEW s \in Step, Reached(s), status[s] \notin {"done", "cancelled"}
  PROVE  \A r \in Run : run[r].at # "read"
<1>1. ~DoneIn(s)
  BY Undecided
<1> QED
  BY <1>1 DEF Reading, Between

\* The executions go on or end, and get nothing more to do.
Fewer ==
  \A r \in Run : run'[r].todo \subseteq run[r].todo /\ run'[r].at \in {run[r].at, "idle"}

\* No step moves.
LEMMA KeptTurns ==
  ASSUME Turns, Fewer, UNCHANGED <<status, claimed>>
  PROVE  Turns'
<1>1. \A s \in Step : DoneIn(s)' <=> DoneIn(s)
  BY DEF DoneIn, Siblings
<1>2. \A s \in Step : Reached(s)' => Reached(s)
  BY DEF Reached, InTodo, Fewer
<1>3. Ordered'
  BY <1>1, <1>2 DEF Turns, Ordered, After
<1>4. Losers'
  BY DEF Turns, Losers, Siblings
<1>5. Between => Between'
  BY <1>1, <1>2 DEF Between
<1>6. \A r \in Run : run'[r].at \in {"read", "finish"} => run'[r].at = run[r].at
  BY DEF Fewer
<1>7. Reading'
  BY <1>5, <1>6 DEF Turns, Reading
<1>8. Finishing'
  BY <1>6 DEF Turns, Finishing
<1> QED
  BY <1>3, <1>4, <1>7, <1>8 DEF Turns

\* One step moves on, in its turn.
LEMMA MovedTurns ==
  ASSUME TypeOK, Turns, Fewer, NEW s \in Step, After(s), status[s] \notin {"done", "cancelled"},
         \A r \in Run : run[r].at # "read",
         \A t \in Step \ {s} : status'[t] = status[t] /\ claimed'[t] = claimed[t],
         status'[s] \in {status[s], "in_progress"}
  PROVE  Turns'
<1>1. \A t \in Step : DoneIn(t) => DoneIn(t)'
  BY DEF DoneIn, Siblings
<1>2. \A t \in Step : Reached(t)' => t = s \/ Reached(t)
  BY DEF Reached, InTodo, Fewer
<1>3. Ordered'
  BY <1>1, <1>2 DEF Turns, Ordered, After
<1>4. Losers'
  BY DEF Turns, Losers, Siblings, Started
<1>5. \A r \in Run : run'[r].at # "read" /\ (run'[r].at = "finish" => run[r].at = "finish")
  BY DEF Fewer
<1>6. Reading' /\ Finishing'
  BY <1>5 DEF Turns, Reading, Finishing
<1> QED
  BY <1>3, <1>4, <1>6 DEF Turns

\* What a settled step leaves: those reached were reached, those done are done.
LEMMA SettledSteps ==
  ASSUME TypeOK, Turns, NEW s \in Step, status[s] \in {"in_progress", "blocked"},
         NEW v \in Decided, NEW From \in SUBSET Active, "pending" \in From,
         Settle(s, v, From), UNCHANGED claimed,
         \A t \in Step : InTodo(t)' => InTodo(t)
  PROVE  /\ \A t \in Step : DoneIn(t) => DoneIn(t)'
         /\ \A t \in Step : Reached(t)' => Reached(t)
         /\ \A t \in Step : status'[t] = "pending" => status[t] = "pending" /\ t \notin Siblings(s)
         /\ \A t \in Step : status'[t] # "pending" => status[t] # "pending" \/ t \in Siblings(s)
         /\ status'[s] = v
         /\ Ordered' /\ Losers'
<1>1. status'[s] = v /\ v \in Started
  BY DEF Settle, TypeOK, Decided, Started
<1>2. \A t \in Step : \/ t = s
                      \/ status'[t] = status[t]
                      \/ t \in Siblings(s) /\ status[t] \in Active /\ status'[t] = "cancelled"
  BY DEF Settle, TypeOK
<1>3. \A t \in Step : DoneIn(t) => DoneIn(t)'
  <2>1. \A t \in Step : status[t] = "done" => status'[t] = "done"
    BY <1>2 DEF Active
  <2> QED
    BY <2>1 DEF DoneIn, Siblings
<1>4. \A t \in Step : Reached(t)' => Reached(t)
  <2>1. \A t \in Step : status'[t] \in Started => status[t] \in Started
    BY <1>2 DEF Started
  <2> QED
    BY <2>1 DEF Reached
<1>5. Ordered'
  BY <1>3, <1>4 DEF Turns, Ordered, After
<1>6. Losers'
  <2> SUFFICES ASSUME NEW t \in Step, status'[t] = "cancelled"
               PROVE  \E u \in Siblings(t) : status'[u] \in Started
    BY DEF Losers, Siblings
  <2>1. CASE t \in Siblings(s)
    BY <1>1, <2>1 DEF Siblings
  <2>2. CASE t \notin Siblings(s)
    <3>1. t # s /\ status[t] = "cancelled"
      BY <1>1, <1>2, <2>2 DEF Decided
    <3>2. PICK u \in Siblings(t) : status[u] \in Started
      BY <3>1 DEF Turns, Losers
    <3>3. u \notin Siblings(s)
      BY <2>2, <3>1, <3>2 DEF Siblings
    <3> QED
      BY <1>1, <1>2, <3>2, <3>3 DEF Siblings
  <2> QED
    BY <2>1, <2>2
<1>7. \A t \in Step : status'[t] = "pending" => status[t] = "pending" /\ t \notin Siblings(s)
  BY <1>1, <1>2 DEF Settle, Decided, Siblings
<1>8. \A t \in Step : status'[t] # "pending" => status[t] # "pending" \/ t \in Siblings(s)
  BY <1>2
<1> QED
  BY <1>1, <1>3, <1>4, <1>5, <1>6, <1>7, <1>8

\* A step is settled or blocked, and nobody reads.
LEMMA SettledTurns ==
  ASSUME TypeOK, OneWinner, Turns, NEW s \in Step, status[s] \in {"in_progress", "blocked"},
         NEW v \in Decided, NEW From \in SUBSET Active, "pending" \in From,
         Settle(s, v, From), UNCHANGED <<claimed, run>>
  PROVE  Turns'
<1>1. Ordered' /\ Losers' /\ \A t \in Step : status'[t] = "pending" => status[t] = "pending"
  BY SettledSteps DEF InTodo
<1>2. \A r \in Run : run[r].at # "read"
  BY NobodyReads DEF Turns, Reached, Started
<1> QED
  BY <1>1, <1>2 DEF Turns, Reading, Finishing

\* An execution of advanceTask begins where nobody reads.
LEMMA AdvanceRuns ==
  ASSUME TypeOK, NEW j, Advance(j)
  PROVE  /\ \A t \in Step : InTodo(t)' => InTodo(t)
         /\ \E c \in Run : /\ \A r \in Run \ {c} : run'[r] = run[r]
                           /\ run'[c].at = "read" /\ run'[c].todo = {}
<1>1. PICK c \in Run : run[c].at = "idle" /\ run' = [run EXCEPT ![c] = Begun(j)]
  BY DEF Advance
<1>2. \A r \in Run \ {c} : run'[r] = run[r]
  BY <1>1 DEF TypeOK
<1>3. run'[c].at = "read" /\ run'[c].todo = {}
  BY <1>1 DEF TypeOK, Begun
<1> QED
  BY <1>2, <1>3 DEF InTodo

\* A step is done, and an execution of advanceTask begins: it finds nobody at work.
LEMMA CompletedTurns ==
  ASSUME TypeOK, OneWinner, Turns, NEW s \in Step, status[s] = "in_progress",
         Settle(s, "done", Active), UNCHANGED claimed, NEW j, Advance(j)
  PROVE  Turns'
<1>1. PICK c \in Run : /\ \A r \in Run \ {c} : run'[r] = run[r]
                       /\ run'[c].at = "read" /\ run'[c].todo = {}
  BY AdvanceRuns
<1>2. /\ \A t \in Step : DoneIn(t) => DoneIn(t)'
      /\ \A t \in Step : Reached(t)' => Reached(t)
      /\ \A t \in Step : status'[t] = "pending" => status[t] = "pending" /\ t \notin Siblings(s)
      /\ \A t \in Step : status'[t] # "pending" => status[t] # "pending" \/ t \in Siblings(s)
      /\ status'[s] = "done"
      /\ Ordered' /\ Losers'
  <2>1. "done" \in Decided /\ Active \in SUBSET Active /\ "pending" \in Active
    BY DEF Decided, Active
  <2> QED
    BY <2>1, SettledSteps, AdvanceRuns
<1>3. \A r \in Run : run[r].at # "read"
  BY NobodyReads DEF Turns, Reached, Started
<1>4. Finishing'
  BY <1>1, <1>2 DEF Turns, Finishing
<1>5. Reached(s) /\ After(s) /\ ~DoneIn(s)
  BY Undecided DEF Turns, Ordered, Reached, Started
<1>6. \A t \in Step : order[t] = order[s] => DoneIn(t)'
  BY <1>2 DEF DoneIn, Siblings
<1>7. \A t \in Step : order[t] < order[s] => DoneIn(t) /\ DoneIn(t)'
  BY <1>2, <1>5 DEF After
<1>8. \A t \in Step : order[s] < order[t] => ~Reached(t)
  BY <1>5 DEF Turns, Ordered, After
<1>9. \A t \in Step : order[s] < order[t] => status[t] = "pending" /\ t \notin Siblings(s)
  <2> SUFFICES ASSUME NEW t \in Step, order[s] < order[t], status[t] # "pending"
               PROVE  FALSE
    BY TaskConstants DEF TaskConstants, Siblings
  <2>1. status[t] = "cancelled"
    BY <1>8 DEF Reached, Started, TypeOK, StepStatus
  <2>2. PICK u \in Siblings(t) : status[u] \in Started
    BY <2>1 DEF Turns, Losers
  <2> QED
    BY <1>8, <2>2 DEF Siblings, Reached
<1>10. Between'
  <2> SUFFICES ASSUME NEW t \in Step
               PROVE  IF status'[t] = "pending" THEN ~Reached(t)' ELSE DoneIn(t)'
    BY DEF Between
  <2>1. CASE order[t] < order[s]
    <3>1. status'[t] # "pending"
      <4>1. PICK d \in Siblings(t) \cup {t} : status[d] = "done"
        BY <1>7, <2>1 DEF DoneIn
      <4>2. status[t] \in {"done", "cancelled"}
        BY <4>1 DEF OneWinner, Siblings
      <4> QED
        BY <1>2, <4>2
    <3> QED
      BY <1>7, <2>1, <3>1
  <2>2. CASE order[t] = order[s]
    <3>1. status'[t] # "pending"
      BY <1>2, <2>2 DEF Siblings
    <3> QED
      BY <1>6, <2>2, <3>1
  <2>3. CASE order[s] < order[t]
    BY <1>2, <1>8, <1>9, <2>3
  <2> QED
    BY <2>1, <2>2, <2>3, TaskConstants DEF TaskConstants
<1>11. Reading'
  BY <1>1, <1>3, <1>10 DEF Reading
<1> QED
  BY <1>2, <1>4, <1>11 DEF Turns

\* The pending steps are read: the next ones are in their turn.
LEMMA ReadTurns ==
  ASSUME TypeOK, task # "archived", Turns, NEW r \in Run, ReadPending(r)
  PROVE  Turns'
<1> DEFINE pending == {s \in Step : status[s] = "pending" /\ task # "archived"}
           next == {s \in pending : \A t \in pending : order[s] <= order[t]}
           to == IF pending = {} THEN "finish" ELSE "activate"
<1>1. run[r].at = "read" /\ run' = [run EXCEPT ![r].at = to, ![r].todo = next]
  BY DEF ReadPending
<1>2. UNCHANGED <<status, claimed>>
  BY DEF ReadPending, state
<1>3. Between /\ \A q \in Run \ {r} : run[q].at # "read"
  BY <1>1 DEF Turns, Reading
<1> HIDE DEF next
<1>4. /\ \A q \in Run \ {r} : run'[q] = run[q]
      /\ run'[r].at = to /\ run'[r].todo = next
  BY <1>1 DEF TypeOK, Memory
<1>5. \A t \in Step : DoneIn(t)' <=> DoneIn(t)
  BY <1>2 DEF DoneIn, Siblings
<1>6. \A t \in next : After(t)
  <2> SUFFICES ASSUME NEW t \in next, NEW u \in Step, order[u] < order[t]
               PROVE  DoneIn(u)
    BY DEF After
  <2>1. u \notin pending
    BY TaskConstants DEF TaskConstants, next
  <2> QED
    BY <1>3, <2>1 DEF Between
<1>7. \A t \in Step : Reached(t)' => Reached(t) \/ t \in next
  BY <1>2, <1>4 DEF Reached, InTodo
<1>8. Ordered'
  BY <1>5, <1>6, <1>7 DEF Turns, Ordered, After
<1>9. Losers'
  BY <1>2 DEF Turns, Losers, Siblings
<1>10. \A q \in Run : run'[q].at # "read"
  BY <1>3, <1>4
<1>11. Finishing'
  BY <1>2, <1>4 DEF Turns, Finishing
<1> QED
  BY <1>8, <1>9, <1>10, <1>11 DEF Turns, Reading

-----------------------------------------------------------------------------
(* The steps of a task.                                                      *)

\* The archive is for ever: no handler runs in a transaction here.
LEMMA Archived ==
  ASSUME Plain, TypeOK, FenceHolds, task = "archived", [Next]_vars
  PROVE  task' = "archived"
<1> USE DEF state
<1>1. \A j \in JobId : job[j].at # "fenced"
  BY DEF Plain, FenceHolds
<1>2. ASSUME NEW r \in Run, RunStep(r) PROVE task' = task
  BY <1>2 DEF RunStep, ReadPending, ActivateNext, EmitJobs, Finish, Close, Activable, Claim
<1> QED
  BY <1>1, <1>2 DEF Next, ActivateScheduled, WindowCloses, ArchiveOldTask, TurnSwitch,
     RecoverActivation, RunDies, StartStep, CompleteStep, FailStep, Fail, Failable, BlockStep,
     RetryStep, ForceRetryStep, AssignOrReassignStep, CheckBpoTimeouts, CheckAutoTimeouts,
     TimeOut, RecoverHandler, RunHandler, HandlerEnds, HandlerCompletes, HandlerFails,
     HandlerThrows, FenceTimesOut, WorkerDies, ForgetJob, vars, Settles, Claim

\* What an action does to the executions of advanceTask.
LEMMA SameRuns == ASSUME UNCHANGED run PROVE Fewer
BY DEF Fewer

LEMMA EndedRun ==
  ASSUME TypeOK, NEW r \in Run, run' = [run EXCEPT ![r] = Idle]
  PROVE  Fewer
BY DEF Fewer, Idle, TypeOK

LEMMA ActivatedRun ==
  ASSUME TypeOK, NEW r \in Run, ActivateNext(r)
  PROVE  /\ Fewer /\ run[r].at = "activate"
         /\ \E s \in run[r].todo :
              /\ s \in Step /\ InTodo(s)
              /\ \A t \in run[r].todo : t # s => t \in run'[r].todo
              /\ \A q \in Run : run'[q].at = run[q].at /\ (q # r => run'[q] = run[q])
              /\ \/ Activable(s) /\ Activate(s)
                 \/ ~Activable(s) /\ UNCHANGED state
<1>1. PICK s \in run[r].todo :
        /\ \/ Activable(s) /\ Activate(s)
           \/ ~Activable(s) /\ UNCHANGED state
        /\ \/ run' = [run EXCEPT ![r].todo = @ \ {s}, ![r].on = @ \cup {s}]
           \/ run' = [run EXCEPT ![r].todo = @ \ {s}]
  BY DEF ActivateNext
<1>2. run[r].todo \subseteq Step
  BY DEF TypeOK, Memory
<1>3. \A q \in Run : q # r => run'[q] = run[q]
  BY <1>1 DEF TypeOK
<1>4. run'[r].at = run[r].at /\ run'[r].todo = run[r].todo \ {s}
  BY <1>1 DEF TypeOK, Memory
<1>5. Fewer
  BY <1>3, <1>4 DEF Fewer
<1> QED
  BY <1>1, <1>2, <1>3, <1>4, <1>5 DEF InTodo, ActivateNext

\* Every step keeps the turns.
LEMMA TurnsStep ==
  ASSUME Plain, EngineInv, task # "archived", Turns, Waiting, [Next]_vars, task' # "archived"
  PROVE  Turns'
<1> USE DEF state, settings
<1>1. TypeOK /\ OneWinner /\ \A s \in Step : ~Fenced(s)
  BY JobIds DEF EngineInv, Plain, FenceHolds, Fenced
<1>2. ASSUME UNCHANGED <<status, claimed, run>> PROVE Turns'
  BY <1>2, KeptTurns, SameRuns
<1>3. ASSUME NEW s \in Step, Reached(s), status[s] \notin {"done", "cancelled"}, UNCHANGED <<claimed, run>>,
             status' = [status EXCEPT ![s] = "in_progress"]
      PROVE  Turns'
  <2>1. After(s) /\ \A r \in Run : run[r].at # "read"
    BY <1>1, <1>3, NobodyReads DEF Turns, Ordered
  <2>2. status'[s] = "in_progress" /\ \A t \in Step \ {s} : status'[t] = status[t]
    BY <1>1, <1>3 DEF TypeOK
  <2> QED
    BY <1>1, <1>3, <2>1, <2>2, MovedTurns, SameRuns
<1>4. ASSUME NEW s \in Step, Activate(s)
      PROVE  /\ \A t \in Step \ {s} : status'[t] = status[t] /\ claimed'[t] = claimed[t]
             /\ status'[s] \in {status[s], "in_progress"}
  BY <1>1, <1>4 DEF Activate, TypeOK
<1>5. ASSUME ActivateScheduled PROVE Turns'
  <2>1. PICK s \in Step : /\ \A t \in Step : order[s] <= order[t]
                          /\ Activable(s) /\ Activate(s)
    BY <1>5 DEF ActivateScheduled
  <2>2. After(s)
    BY <2>1, TaskConstants DEF TaskConstants, After
  <2>3. \A r \in Run : run[r].at # "read"
    BY <1>5 DEF ActivateScheduled, Waiting
  <2>4. status[s] \notin {"done", "cancelled"} /\ Fewer
    BY <1>5, <2>1, SameRuns DEF ActivateScheduled, Activable
  <2> QED
    BY <1>1, <1>4, <2>1, <2>2, <2>3, <2>4, MovedTurns
<1>6. ASSUME NEW r \in Run, ActivateNext(r) PROVE Turns'
  <2>1. PICK s \in Step : /\ InTodo(s)
                          /\ \/ Activable(s) /\ Activate(s)
                             \/ UNCHANGED state
    BY <1>1, <1>6, ActivatedRun
  <2>2. Fewer
    BY <1>1, <1>6, ActivatedRun
  <2>3. CASE UNCHANGED state
    BY <2>2, <2>3, KeptTurns
  <2>4. CASE Activable(s) /\ Activate(s)
    <3>1. Reached(s) /\ status[s] \notin {"done", "cancelled"}
      BY <2>1, <2>4 DEF Reached, Activable
    <3>2. After(s) /\ \A q \in Run : run[q].at # "read"
      BY <1>1, <3>1, NobodyReads DEF Turns, Ordered
    <3> QED
      BY <1>1, <1>4, <2>2, <2>4, <3>1, <3>2, MovedTurns
  <2> QED
    BY <2>1, <2>3, <2>4
<1>7. ASSUME NEW r \in Run, ReadPending(r) PROVE Turns'
  BY <1>1, <1>7, ReadTurns
<1>8. ASSUME NEW r \in Run, EmitJobs(r) \/ Finish(r) \/ RunDies(r) PROVE Turns'
  <2>1. Fewer /\ UNCHANGED <<status, claimed>>
    BY <1>1, <1>8, EndedRun DEF EmitJobs, Finish, RunDies
  <2> QED
    BY <2>1, KeptTurns
<1>9. ASSUME NEW s \in Step, StartStep(s) \/ RetryStep(s) \/ ForceRetryStep(s) PROVE Turns'
  <2>1. Reached(s) /\ status[s] \notin {"done", "cancelled"}
    BY <1>9 DEF StartStep, RetryStep, ForceRetryStep, Plain, Reached, Started
  <2> QED
    BY <1>3, <1>9, <2>1 DEF StartStep, RetryStep, ForceRetryStep
<1>10. ASSUME NEW s \in Step, status[s] \in {"in_progress", "blocked"}, NEW v \in {"failed", "blocked"},
              NEW From \in {Active, {"pending", "in_progress"}}, Settle(s, v, From), UNCHANGED <<claimed, run>>
       PROVE  Turns'
  <2>1. v \in Decided /\ From \in SUBSET Active /\ "pending" \in From
    BY <1>10 DEF Decided, Active
  <2> QED
    BY <1>1, <1>10, <2>1, SettledTurns
<1>11. ASSUME NEW s \in Step, Fail(s), UNCHANGED run PROVE Turns'
  BY <1>10, <1>11 DEF Fail, Failable
<1>12. ASSUME NEW s \in Step, FailStep(s) PROVE Turns'
  BY <1>11, <1>12 DEF FailStep
<1>13. ASSUME NEW s \in Step, TimeOut(s) PROVE Turns'
  BY <1>2, <1>11, <1>13 DEF TimeOut
<1>14. ASSUME NEW s \in Step, BlockStep(s) PROVE Turns'
  BY <1>10, <1>14 DEF BlockStep
<1>15. ASSUME NEW s \in Step, CompleteStep(s) PROVE Turns'
  BY <1>1, <1>15, CompletedTurns DEF CompleteStep
<1>16. ASSUME NEW j \in JobId, HandlerCompletes(j) PROVE Turns'
  <2>1. j[1] \in Step /\ status[j[1]] = "in_progress"
    BY <1>1, <1>16, JobIds DEF HandlerCompletes, Settles, EngineInv, FenceHolds
  <2> QED
    BY <1>1, <1>16, <2>1, CompletedTurns DEF HandlerCompletes
<1>17. ASSUME NEW j \in JobId, HandlerFails(j) PROVE Turns'
  <2>1. j[1] \in Step /\ status[j[1]] = "in_progress"
    BY <1>1, <1>17, JobIds DEF HandlerFails, Settles, EngineInv, FenceHolds
  <2> QED
    BY <1>10, <1>17, <2>1 DEF HandlerFails
<1>18. ASSUME NEW s \in Step,
              AssignOrReassignStep(s) \/ CheckBpoTimeouts(s) \/ CheckAutoTimeouts(s) \/ RecoverHandler(s)
       PROVE Turns'
  BY <1>2, <1>18 DEF AssignOrReassignStep, CheckBpoTimeouts, CheckAutoTimeouts, RecoverHandler
<1>19. ASSUME NEW j \in JobId,
              RunHandler(j) \/ HandlerThrows(j) \/ FenceTimesOut(j) \/ WorkerDies(j) \/ ForgetJob(j)
       PROVE Turns'
  BY <1>2, <1>19 DEF RunHandler, HandlerThrows, FenceTimesOut, WorkerDies, ForgetJob
<1>20. CASE WindowCloses
  BY <1>2, <1>20 DEF WindowCloses
<1>21. ~ArchiveOldTask /\ ~TurnSwitch /\ ~RecoverActivation
  BY DEF ArchiveOldTask, TurnSwitch, RecoverActivation, Plain
<1>22. CASE UNCHANGED vars
  BY <1>2, <1>22 DEF vars
<1> QED
  BY <1>5, <1>6, <1>7, <1>8, <1>9, <1>12, <1>13, <1>14, <1>15, <1>16, <1>17, <1>18, <1>19,
     <1>20, <1>21, <1>22 DEF Next, RunStep, HandlerEnds

\* Every step lets only executions that activate have something to do.
LEMMA RestingStep ==
  ASSUME TypeOK, Resting, [Next]_vars
  PROVE  Resting'
<1> USE DEF state
<1>1. ASSUME UNCHANGED run PROVE Resting'
  BY <1>1 DEF Resting
<1>2. ASSUME NEW r \in Run, run' = [run EXCEPT ![r] = Idle] PROVE Resting'
  BY <1>2 DEF Resting, TypeOK, Idle
<1>3. ASSUME NEW j, Advance(j) PROVE Resting'
  BY <1>3 DEF Advance, Resting, TypeOK, Begun
<1>4. ASSUME NEW r \in Run, ReadPending(r) PROVE Resting'
  <2> DEFINE pending == {s \in Step : status[s] = "pending" /\ task # "archived"}
             next == {s \in pending : \A t \in pending : order[s] <= order[t]}
             to == IF pending = {} THEN "finish" ELSE "activate"
  <2>1. run' = [run EXCEPT ![r].at = to, ![r].todo = next]
    BY <1>4 DEF ReadPending
  <2>2. pending = {} => next = {}
    OBVIOUS
  <2> HIDE DEF next, pending
  <2>3. \A q \in Run \ {r} : run'[q] = run[q]
    BY <2>1 DEF TypeOK
  <2>4. run'[r].at = to /\ run'[r].todo = next
    BY <2>1 DEF TypeOK, Memory
  <2> QED
    BY <2>2, <2>3, <2>4 DEF Resting
<1>5. ASSUME NEW r \in Run, ActivateNext(r) PROVE Resting'
  BY <1>5, ActivatedRun DEF Resting, Fewer
<1>6. ASSUME NEW r \in Run, RunStep(r) \/ RunDies(r) PROVE Resting'
  BY <1>2, <1>4, <1>5, <1>6 DEF RunStep, EmitJobs, Finish, RunDies
<1>7. ASSUME NEW s \in Step, CompleteStep(s) PROVE Resting'
  BY <1>3, <1>7 DEF CompleteStep
<1>8. ASSUME NEW j \in JobId, HandlerCompletes(j) PROVE Resting'
  BY <1>3, <1>8 DEF HandlerCompletes
<1>9. ASSUME RecoverActivation PROVE Resting'
  BY <1>3, <1>9 DEF RecoverActivation
<1>10. CASE UNCHANGED vars
  BY <1>1, <1>10 DEF vars
<1> QED
  BY <1>1, <1>6, <1>7, <1>8, <1>9, <1>10 DEF Next, ActivateScheduled, WindowCloses,
     ArchiveOldTask, TurnSwitch, StartStep, FailStep, BlockStep, RetryStep, ForceRetryStep,
     AssignOrReassignStep, CheckBpoTimeouts, CheckAutoTimeouts, TimeOut, RecoverHandler,
     RunHandler, HandlerEnds, HandlerFails, HandlerThrows, FenceTimesOut, WorkerDies, ForgetJob

\* A task whose window has not opened is left alone: only its opening, the archive
\* and the cron jobs' lists find something in it.
LEMMA WaitingStep ==
  ASSUME Plain, EngineInv, Waiting, [Next]_vars, task' = "scheduled"
  PROVE  /\ \A r \in Run : run'[r].at = "idle"
         /\ \A s \in Step : status'[s] = "pending" /\ ~claimed'[s]
<1> USE DEF state
<1>1. \A j \in JobId : job[j].at # "fenced"
  BY DEF EngineInv, Plain, FenceHolds
<1>2. ASSUME NEW s \in Step, Activate(s) PROVE task' # "scheduled"
  BY <1>2 DEF Activate
<1>3. task = "scheduled"
  <2>1. ASSUME NEW r \in Run, RunStep(r) PROVE task = "scheduled"
    <3>1. CASE ActivateNext(r)
      BY <1>2, <3>1, ActivatedRun DEF EngineInv
    <3> QED
      BY <2>1, <3>1 DEF RunStep, ReadPending, EmitJobs, Finish, Close
  <2> QED
    BY <1>2, <2>1 DEF Next, ActivateScheduled, WindowCloses, ArchiveOldTask, TurnSwitch,
       RecoverActivation, RunDies, StartStep, CompleteStep, FailStep, Fail, BlockStep,
       RetryStep, ForceRetryStep, AssignOrReassignStep, CheckBpoTimeouts, CheckAutoTimeouts,
       TimeOut, RecoverHandler, RunHandler, HandlerEnds, HandlerCompletes, HandlerFails,
       HandlerThrows, FenceTimesOut, WorkerDies, ForgetJob, vars
<1>4. /\ \A r \in Run : run[r].at = "idle"
      /\ \A s \in Step : status[s] = "pending" /\ ~claimed[s]
  BY <1>3 DEF Waiting
<1>5. ASSUME NEW j \in JobId PROVE ~HandlerCompletes(j) /\ ~HandlerFails(j)
  BY <1>1, <1>4, JobIds DEF HandlerCompletes, HandlerFails, Settles
<1>6. UNCHANGED <<status, claimed, run>>
  BY <1>2, <1>3, <1>4, <1>5 DEF Next, ActivateScheduled, WindowCloses, ArchiveOldTask, TurnSwitch,
     RecoverActivation, RunStep, ReadPending, ActivateNext, EmitJobs, Finish, RunDies, StartStep,
     CompleteStep, FailStep, Fail, BlockStep, RetryStep, ForceRetryStep, AssignOrReassignStep,
     CheckBpoTimeouts, CheckAutoTimeouts, TimeOut, RecoverHandler, RunHandler, HandlerEnds,
     HandlerThrows, FenceTimesOut, WorkerDies, ForgetJob, vars, Plain
<1> QED
  BY <1>4, <1>6

\* Nobody is at work in a failed task, and nobody will be handed a step.
LEMMA FailedStill ==
  ASSUME EngineInv, Turns, task # "archived", NEW f \in Step, status[f] = "failed",
         NEW s \in Step, Reached(s)
  PROVE  status[s] \notin Active
<1>1. OneWinner /\ \A t \in Siblings(f) : status[t] = "cancelled"
  BY DEF EngineInv, Rivals, Decided
<1>2. ~DoneIn(f)
  BY <1>1, Undecided
<1>3. Reached(f) /\ After(f) /\ After(s)
  BY DEF Turns, Ordered, Reached, Started
<1>4. CASE order[s] < order[f]
  <2>1. PICK d \in Siblings(s) \cup {s} : status[d] = "done"
    BY <1>3, <1>4 DEF After, DoneIn
  <2> QED
    BY <1>1, <2>1 DEF OneWinner, Siblings, Active
<1>5. CASE order[s] = order[f]
  BY <1>1, <1>5 DEF Siblings, Active
<1>6. CASE order[f] < order[s]
  BY <1>2, <1>3, <1>6 DEF After
<1> QED
  BY <1>4, <1>5, <1>6, TaskConstants DEF TaskConstants

\* A failed task stays failed until it is archived or an admin retries a failed step.
LEMMA FailedStep ==
  ASSUME Plain, EngineInv, TurnInv, task = "failed", [Next]_vars
  PROVE  \/ task' = "failed" /\ \E f \in Step : status'[f] = "failed"
         \/ task' = "archived"
         \/ task' = "in_progress" /\ \E s \in Step : status[s] = "failed" /\ status'[s] = "in_progress"
<1> USE DEF state
<1>1. TypeOK /\ Turns /\ task # "archived"
  BY DEF EngineInv, TurnInv
<1>2. PICK f \in Step : status[f] = "failed"
  BY DEF TurnInv, Failure
<1>3. \A s \in Step : Reached(s) => status[s] \notin Active
  BY <1>1, <1>2, FailedStill
<1>4. \A j \in JobId : job[j].at # "fenced"
  BY DEF EngineInv, Plain, FenceHolds
<1>5. ASSUME NEW s \in Step, status[s] \in {"in_progress", "blocked"} PROVE FALSE
  BY <1>3, <1>5 DEF Reached, Started, Active
<1>6. ASSUME NEW r \in Run, RunStep(r) PROVE task' = "failed" /\ UNCHANGED status
  <2>1. CASE ActivateNext(r)
    <3>1. PICK s \in Step : /\ InTodo(s)
                            /\ \/ Activable(s) /\ Activate(s)
                               \/ UNCHANGED state
      BY <1>1, <2>1, ActivatedRun
    <3>2. ~Activable(s)
      BY <1>3, <3>1 DEF Reached, Activable, Active
    <3> QED
      BY <3>1, <3>2
  <2> QED
    BY <1>6, <2>1 DEF RunStep, ReadPending, EmitJobs, Finish, Close
<1>7. ASSUME NEW s \in Step, StartStep(s) \/ AssignOrReassignStep(s) PROVE FALSE
  BY <1>3, <1>7 DEF StartStep, AssignOrReassignStep, Reached, Plain, Active
<1>8. ASSUME NEW s \in Step, CompleteStep(s) \/ BlockStep(s) \/ RetryStep(s) \/ Fail(s) PROVE FALSE
  BY <1>5, <1>8 DEF CompleteStep, BlockStep, RetryStep, Fail, Failable
<1>9. ASSUME NEW s \in Step, ForceRetryStep(s)
      PROVE  task' = "in_progress" /\ status[s] = "failed" /\ status'[s] = "in_progress"
  BY <1>1, <1>5, <1>9 DEF ForceRetryStep, TypeOK
<1>10. ASSUME NEW j \in JobId, HandlerCompletes(j) \/ HandlerFails(j) PROVE FALSE
  BY <1>4, <1>5, <1>10, JobIds DEF HandlerCompletes, HandlerFails, Settles
<1>11. CASE ArchiveOldTask
  BY <1>11 DEF ArchiveOldTask
<1>12. ~ActivateScheduled
  BY DEF ActivateScheduled
<1> QED
  BY <1>2, <1>6, <1>7, <1>8, <1>9, <1>10, <1>11, <1>12 DEF Next, WindowCloses, TurnSwitch,
     RecoverActivation, RunDies, FailStep, CheckBpoTimeouts, CheckAutoTimeouts, TimeOut,
     RecoverHandler, RunHandler, HandlerEnds, HandlerThrows, FenceTimesOut, WorkerDies,
     ForgetJob, vars

\* Every step leaves a failed task with a failed step.
LEMMA FailureStep ==
  ASSUME Plain, EngineInv, TurnInv, [Next]_vars
  PROVE  Failure'
<1> USE DEF state
<1> SUFFICES ASSUME task' = "failed" PROVE \E f \in Step : status'[f] = "failed"
  BY DEF Failure
<1>1. CASE task = "failed"
  BY <1>1, FailedStep
<1>2. CASE task # "failed"
  <2>1. ASSUME NEW s \in Step, NEW From, Settle(s, "failed", From) PROVE status'[s] = "failed"
    BY <2>1 DEF Settle
  <2>2. ASSUME NEW s \in Step, Activate(s) PROVE task' # "failed"
    BY <2>2 DEF Activate
  <2>3. ASSUME NEW r \in Run, RunStep(r) PROVE FALSE
    <3>1. CASE ActivateNext(r)
      BY <1>2, <2>2, <3>1, ActivatedRun DEF EngineInv
    <3> QED
      BY <1>2, <2>3, <3>1 DEF RunStep, ReadPending, EmitJobs, Finish, Close
  <2>4. ASSUME NEW j \in JobId, HandlerFails(j) PROVE j[1] \in Step /\ status'[j[1]] = "failed"
    BY <2>1, <2>4, JobIds DEF HandlerFails
  <2> QED
    BY <1>2, <2>1, <2>2, <2>3, <2>4 DEF Next, ActivateScheduled, WindowCloses, ArchiveOldTask,
       TurnSwitch, RecoverActivation, RunDies, StartStep, CompleteStep, FailStep, Fail, BlockStep,
       RetryStep, ForceRetryStep, AssignOrReassignStep, CheckBpoTimeouts, CheckAutoTimeouts,
       TimeOut, RecoverHandler, RunHandler, HandlerEnds, HandlerCompletes, HandlerThrows,
       FenceTimesOut, WorkerDies, ForgetJob, vars
<1> QED
  BY <1>1, <1>2

LEMMA TurnInit == Init => TurnInv
<1> SUFFICES ASSUME Init PROVE TurnInv
  OBVIOUS
<1>1. \A r \in Run : run[r].todo = {} /\ run[r].at \in {"idle", "read"}
  BY DEF Init, Idle, Begun
<1>2. \A s \in Step : status[s] = "pending" /\ ~claimed[s] /\ ~Reached(s)
  BY <1>1 DEF Init, Reached, Started, InTodo
<1>3. \A q, r \in Run : run[q].at = "read" /\ run[r].at = "read" => q = r
  BY DEF Init, Idle, Begun
<1>4. Turns
  BY <1>1, <1>2, <1>3 DEF Turns, Ordered, Losers, Reading, Between, Finishing
<1>5. Waiting
  BY <1>2 DEF Init, Waiting, Idle
<1> QED
  BY <1>1, <1>4, <1>5 DEF TurnInv, Resting, Failure, Init

LEMMA TurnStep == ASSUME Plain, EngineInv, TurnInv, [Next]_vars PROVE TurnInv'
<1>1. TypeOK /\ FenceHolds
  BY DEF EngineInv
<1>2. (task # "archived" => Turns)'
  BY <1>1, Archived, TurnsStep DEF TurnInv
<1>3. Resting' /\ Waiting' /\ Failure'
  BY <1>1, RestingStep, WaitingStep, FailureStep DEF TurnInv, Waiting
<1> QED
  BY <1>2, <1>3 DEF TurnInv

-----------------------------------------------------------------------------
(* Somebody to wait for.                                                     *)

UnderWay ==
  \E s \in Step : status[s] \in {"in_progress", "blocked"} \/ (status[s] = "pending" /\ claimed[s])

\* Somebody works, or an execution of advanceTask will find what is next.
Alive ==
  \/ UnderWay
  \/ \E r \in Run : run[r].at \in {"read", "finish"}
  \/ \E s \in Step : InTodo(s) /\ status[s] = "pending"

Open == {"pending", "assigned", "in_progress", "blocked"}
AliveInv == task \in Open => Alive

\* Of some steps one has the lowest order.
LEMMA LowestOrder ==
  ASSUME NEW S \in SUBSET Step, S # {}
  PROVE  \E s \in S : \A t \in S : order[s] <= order[t]
<1> DEFINE N == {order[s] : s \in S}
<1>1. N \subseteq Nat /\ N # {}
  BY TaskConstants DEF TaskConstants
<1>2. PICK m \in N : \A n \in N : ~(<<n, m>> \in OpToRel(<, Nat))
  <2> HIDE DEF N
  <2> QED
    BY <1>1, NatLessThanWellFounded, WFMin
<1>3. \A n \in N : ~(n < m)
  BY <1>1, <1>2 DEF OpToRel
<1>4. PICK s \in S : order[s] = m
  OBVIOUS
<1>5. \A t \in S : order[t] \in Nat /\ ~(order[t] < m)
  BY <1>1, <1>3
<1>6. m \in Nat
  BY <1>1
<1> HIDE DEF N
<1>7. \A t \in S : order[s] <= order[t]
  BY <1>4, <1>5, <1>6
<1> QED
  BY <1>7

\* Every step leaves somebody at work, or to find what is next.
LEMMA AliveStep ==
  ASSUME Plain, "death" \notin Faults, EngineInv, TurnInv, AliveInv, [Next]_vars, task' \in Open
  PROVE  Alive'
<1> USE DEF state
<1>1. TypeOK /\ \A s \in Step : ~Fenced(s)
  BY JobIds DEF EngineInv, Plain, FenceHolds, Fenced
<1>2. ASSUME UNCHANGED <<task, status, claimed, run>> PROVE Alive'
  BY <1>2 DEF AliveInv, Alive, UnderWay, InTodo
<1>3. ASSUME NEW s \in Step, status'[s] \in {"in_progress", "blocked"} PROVE Alive'
  BY <1>3 DEF Alive, UnderWay
<1>4. ASSUME NEW s \in Step, Activable(s), Activate(s) PROVE Alive'
  BY <1>1, <1>4 DEF Activable, Activate, Alive, UnderWay, TypeOK
<1>5. ASSUME NEW j, Advance(j) PROVE Alive'
  BY <1>1, <1>5, AdvanceRuns DEF Alive
<1>6. ASSUME ActivateScheduled PROVE Alive'
  BY <1>4, <1>6 DEF ActivateScheduled
<1>7. ASSUME NEW r \in Run, ReadPending(r) PROVE Alive'
  <2> DEFINE pending == {s \in Step : status[s] = "pending" /\ task # "archived"}
             next == {s \in pending : \A t \in pending : order[s] <= order[t]}
             to == IF pending = {} THEN "finish" ELSE "activate"
  <2>1. run' = [run EXCEPT ![r].at = to, ![r].todo = next] /\ UNCHANGED state
    BY <1>7 DEF ReadPending
  <2>2. pending # {} => \E s \in pending : \A t \in pending : order[s] <= order[t]
    BY LowestOrder
  <2>3. pending # {} => \E s \in Step : s \in next /\ status[s] = "pending"
    BY <2>2
  <2> HIDE DEF next, pending
  <2>4. run'[r].at = to /\ run'[r].todo = next
    BY <1>1, <2>1 DEF TypeOK, Memory
  <2>5. CASE pending = {}
    BY <2>4, <2>5 DEF Alive
  <2>6. CASE pending # {}
    BY <2>1, <2>3, <2>4, <2>6 DEF Alive, InTodo
  <2> QED
    BY <2>5, <2>6
<1>8. ASSUME NEW r \in Run, ActivateNext(r) PROVE Alive'
  <2>1. PICK s \in run[r].todo :
          /\ s \in Step
          /\ \A t \in run[r].todo : t # s => t \in run'[r].todo
          /\ \A q \in Run : run'[q].at = run[q].at /\ (q # r => run'[q] = run[q])
          /\ \/ Activable(s) /\ Activate(s)
             \/ ~Activable(s) /\ UNCHANGED state
    BY <1>1, <1>8, ActivatedRun
  <2>2. CASE ~Activable(s) /\ UNCHANGED state
    <3>1. task \in Open /\ Alive
      BY <2>2 DEF AliveInv
    <3>2. CASE UnderWay
      BY <2>2, <3>2 DEF Alive, UnderWay
    <3>3. CASE \E q \in Run : run[q].at \in {"read", "finish"}
      BY <2>1, <3>3 DEF Alive
    <3>4. ASSUME NEW t \in Step, InTodo(t), status[t] = "pending" PROVE Alive'
      <4>1. CASE t = s
        <5>1. claimed[s]
          BY <1>1, <2>2, <3>1, <3>4, <4>1 DEF Activable, Claim, Plain, Open
        <5> QED
          BY <2>2, <3>4, <4>1, <5>1 DEF Alive, UnderWay
      <4>2. CASE t # s
        <5>1. PICK q \in Run : t \in run[q].todo
          BY <3>4 DEF InTodo
        <5>2. t \in run'[q].todo
          BY <2>1, <4>2, <5>1
        <5> QED
          BY <2>2, <3>4, <5>2 DEF Alive, InTodo
      <4> QED
        BY <4>1, <4>2
    <3> QED
      BY <3>1, <3>2, <3>3, <3>4 DEF Alive
  <2> QED
    BY <1>4, <2>1, <2>2
<1>9. ASSUME NEW r \in Run, EmitJobs(r) PROVE Alive'
  <2>1. /\ run[r].at = "activate" /\ run[r].todo = {}
        /\ \A q \in Run \ {r} : run'[q] = run[q]
        /\ UNCHANGED state
    BY <1>1, <1>9 DEF EmitJobs, TypeOK
  <2>2. Alive
    BY <2>1 DEF AliveInv
  <2> QED
    BY <2>1, <2>2 DEF Alive, UnderWay, InTodo
<1>10. ASSUME NEW r \in Run, Finish(r) PROVE Alive'
  <2>1. run[r].at = "finish" /\ task \in Open /\ UNCHANGED <<status, claimed>>
        /\ \E s \in Step : status[s] \in Active
    BY <1>10 DEF Finish, Close, Open, Plain
  <2>2. \A s \in Step : status[s] # "pending"
    BY <2>1 DEF TurnInv, Turns, Finishing, Open
  <2>3. \E s \in Step : status'[s] \in {"in_progress", "blocked"}
    BY <2>1, <2>2 DEF Active
  <2> QED
    BY <1>3, <2>3
<1>11. ASSUME NEW s \in Step, StartStep(s) \/ RetryStep(s) \/ ForceRetryStep(s) PROVE Alive'
  <2>1. status'[s] = "in_progress"
    BY <1>1, <1>11 DEF StartStep, RetryStep, ForceRetryStep, TypeOK
  <2> QED
    BY <1>3, <2>1
<1>12. ASSUME NEW s \in Step, BlockStep(s) PROVE Alive'
  <2>1. status'[s] = "blocked"
    BY <1>1, <1>12 DEF BlockStep, Settle, TypeOK
  <2> QED
    BY <1>3, <2>1
<1>13. ASSUME NEW s \in Step, AssignOrReassignStep(s) PROVE Alive'
  BY <1>13 DEF AssignOrReassignStep, Plain, Alive, UnderWay
<1>14. ASSUME NEW s \in Step, CompleteStep(s) PROVE Alive'
  BY <1>5, <1>14 DEF CompleteStep
<1>15. ASSUME NEW j \in JobId, HandlerCompletes(j) PROVE Alive'
  BY <1>5, <1>15 DEF HandlerCompletes
<1>16. ASSUME NEW s \in Step, Fail(s) PROVE FALSE
  BY <1>16 DEF Fail, Open
<1>17. ASSUME NEW j \in JobId, HandlerFails(j) PROVE FALSE
  BY <1>17 DEF HandlerFails, Open
<1>18. ASSUME NEW r \in Run, RunDies(r) PROVE FALSE
  BY <1>18 DEF RunDies
<1>19. ~ArchiveOldTask /\ ~TurnSwitch /\ ~RecoverActivation
  BY DEF ArchiveOldTask, TurnSwitch, RecoverActivation, Plain, Open
<1>20. CASE UNCHANGED vars
  BY <1>2, <1>20 DEF vars
<1> QED
  BY <1>2, <1>6, <1>7, <1>8, <1>9, <1>10, <1>11, <1>12, <1>13, <1>14, <1>15, <1>16, <1>17,
     <1>18, <1>19, <1>20
     DEF Next, RunStep, HandlerEnds, WindowCloses, FailStep, TimeOut, CheckBpoTimeouts,
     CheckAutoTimeouts, RecoverHandler, RunHandler, HandlerThrows, FenceTimesOut, WorkerDies,
     ForgetJob

-----------------------------------------------------------------------------
(* What follows from it.                                                     *)

\* The steps of a task outside Store Onboarding keep their turns, unless an admin
\* overrides them.
THEOREM TurnInvariant == ASSUME Plain PROVE Spec => [](EngineInv /\ TurnInv)
<1>1. Init => TurnInv
  BY TurnInit
<1>2. EngineInv /\ TurnInv /\ [Next]_vars => TurnInv'
  BY TurnStep
<1> QED
  BY <1>1, <1>2, EngineInvariant, PTL DEF Spec

\* InTurn: a step is worked on only when each order before it has a step that is
\* done, whoever else is still executing advanceTask.
THEOREM InTurnHolds == ASSUME Plain PROVE Spec => []InTurn
<1>1. TurnInv => InTurn
  BY DEF TurnInv, Turns, Ordered, Reached, After, DoneIn, InTurn
<1> QED
  BY <1>1, TurnInvariant, PTL

\* FailedStays: a failed task stays failed until it is archived or an admin retries
\* a failed step.
THEOREM FailedStaysHolds == ASSUME Plain PROVE Spec => FailedStays
<1>1. EngineInv /\ TurnInv /\ [Next]_vars =>
        [task = "failed" /\ task' # "failed" =>
           \/ task' = "archived"
           \/ \E s \in Step : status[s] = "failed" /\ status'[s] = "in_progress"]_vars
  BY FailedStep
<1> QED
  BY <1>1, TurnInvariant, PTL DEF Spec, FailedStays

\* NeverStranded: where executions of advanceTask do not die, an open task waits for
\* somebody.
THEOREM NeverStrandedHolds == ASSUME Plain, "death" \notin Faults PROVE Spec => []NeverStranded
<1>1. Init => AliveInv
  <2> SUFFICES ASSUME Init, task \in Open PROVE Alive
    BY DEF AliveInv
  <2>1. PICK c \in Run : run = [r \in Run |-> IF r = c THEN Begun(NoJob) ELSE Idle]
    BY DEF Init, Open
  <2>2. run[c].at = "read"
    BY <2>1 DEF Begun
  <2> QED
    BY <2>2 DEF Alive
<1>2. EngineInv /\ TurnInv /\ AliveInv /\ [Next]_vars => AliveInv'
  BY AliveStep DEF AliveInv, Open
<1>3. TurnInv /\ AliveInv => NeverStranded
  <2> SUFFICES ASSUME TurnInv, AliveInv, task \in Open,
                      ~UnderWay
               PROVE  \E r \in Run : run[r].at # "idle"
    BY DEF NeverStranded, Open, UnderWay
  <2>1. \A r \in Run : run[r].at = "idle" => run[r].todo = {}
    BY DEF TurnInv, Resting
  <2> QED
    BY <2>1 DEF AliveInv, Alive, InTodo
<1> QED
  BY <1>1, <1>2, <1>3, TurnInvariant, PTL DEF Spec
=============================================================================
