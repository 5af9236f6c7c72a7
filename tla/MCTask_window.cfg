\* A blocked step is failed once its window has closed.
CONSTANTS
  a = a
  b = b
  c = c
  NoJob = NoJob
  Step = {a, b, c}
  order <- SharedThenAuto
  Automatic = {c}
  Registered = {c}
  Run = {r1, r2}
  Enrolled = FALSE
  Overrides = FALSE
  Faults = {}
  MaxAttempts = 2
  MaxEpoch = 0
  MaxRetry = 1
SPECIFICATION CronSpec
PROPERTIES WindowEndsBlocked
CHECK_DEADLOCK FALSE
