\* A digest of two notifications, two dispatchers that may die or be slow; an
\* order with two workers, two faults and a job of two attempts.
CONSTANTS
  Event = {1, 2}
  group <- OneDigest
  Long = {}
  Dispatcher = {d1, d2}
  MaxBundle = 2
  MaxAttempts = 2
  Faults = {"death", "stall"}
  Workers = {w1, w2}
  Attempts = 2
  MaxCalls = 2
SPECIFICATION EitherSpec
INVARIANTS SilentWhenOff WholeBundle TakenOnce
PROPERTIES NotificationEnds ForwardingEnds
CHECK_DEADLOCK FALSE
