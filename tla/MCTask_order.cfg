\* The steps of an enrolled task run in order.
CONSTANTS
  a = a
  b = b
  c = c
  NoJob = NoJob
  Step = {a, b}
  order <- InSequence
  Automatic = {a, b}
  Registered = {a, b}
  Run = {r1, r2}
  Enrolled = TRUE
  Overrides = FALSE
  Faults = {}
  MaxAttempts = 2
  MaxEpoch = 0
  MaxRetry = 1
SPECIFICATION Spec
SYMMETRY RunSymmetry
INVARIANTS InTurn
CHECK_DEADLOCK FALSE
