------------------------------- MODULE MCTasks -------------------------------
(* Instances for TLC of two tasks, each by itself: one outside of Store      *)
(* Onboarding whose jobs may be lost, and one that is enrolled in it and     *)
(* recovered by it.                                                          *)
EXTENDS MCTaskEngine

CONSTANTS
  Runs  \* the executions of advanceTask of the second one

VARIABLES
  program,  \* the task that runs
  otask, ostatus, oclaimed, ogen, oexpired, ogate, oepoch, ojob, orun, odue

\* A manual step and an automatic one, with admins.
Onboarding ==
  INSTANCE TaskEngine WITH
    Step <- {a, b}, order <- InSequence, Automatic <- {b}, Registered <- {b}, Run <- Runs,
    Enrolled <- TRUE, Overrides <- TRUE, Faults <- {"lost", "death", "overrun"},
    MaxAttempts <- 1, MaxEpoch <- 1, MaxRetry <- 0,
    task <- otask, status <- ostatus, claimed <- oclaimed, gen <- ogen, expired <- oexpired,
    gate <- ogate, epoch <- oepoch, job <- ojob, run <- orun, due <- odue

onboardingVars == <<otask, ostatus, oclaimed, ogen, oexpired, ogate, oepoch, ojob, orun, odue>>

\* A task that nobody advances.
Waits == Init /\ task = "scheduled"
OnboardingWaits == Onboarding!Init /\ otask = "scheduled"

EitherInit ==
  \/ program = "onboarding" /\ Waits /\ Onboarding!Init
  \/ program = "other" /\ Init /\ OnboardingWaits

EitherNext ==
  \/ program = "onboarding" /\ Onboarding!Next /\ UNCHANGED <<program, vars>>
  \/ program = "other" /\ Next /\ UNCHANGED <<program, onboardingVars>>

\* The task that does not run has nothing to do that is owed fairness.
EitherSpec ==
  /\ EitherInit /\ [][EitherNext]_<<program, vars, onboardingVars>>
  /\ CronFairness /\ CalmFairness
  /\ Onboarding!RecoveryFairness /\ Onboarding!RunFairness /\ Onboarding!HandlerFairness

\* OutcomeStays of both tasks: no activation, cron job, sibling or handler that comes
\* late changes what a step has become.
OutcomesStay == OutcomeStays /\ Onboarding!OutcomeStays

\* A done task is settled, handlers are run and tasks are closed though calls are
\* lost: TaskEngine, of the enrolled task.
OnboardingSettled == Onboarding!DoneMeansSettled
OnboardingRecovered == Onboarding!HandlerRecovered
OnboardingClosed == Onboarding!ClosedInTheEnd
=============================================================================
