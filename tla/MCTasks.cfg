\* A task outside Store Onboarding: two people share its first step, the second one
\* is automatic, two executions of advanceTask at once.  And an enrolled one: lost
\* publications, executions of advanceTask that die, handlers that outlive their
\* transaction, the switch, admins.
CONSTANTS
  a = a
  b = b
  c = c
  NoJob = NoJob
  Step = {a, b, c}
  order <- SharedThenAuto
  Automatic = {c}
  Registered = {c}
  Run = {r1, r2}
  Enrolled = FALSE
  Overrides = FALSE
  Faults = {"lost", "stall"}
  MaxAttempts = 2
  MaxEpoch = 0
  MaxRetry = 1
  Runs = {r1}
SPECIFICATION EitherSpec
INVARIANTS InTurn OneWinner NeverStranded OnboardingSettled
PROPERTIES OutcomesStay FailedStays AutoEnds OnboardingRecovered OnboardingClosed
CHECK_DEADLOCK FALSE
