\* Two requests and one recovery that die and are slow, two attempts; two workers,
\* two uploads, two accidents.
CONSTANTS
  Request = {r1, r2}
  Recovery = {p1}
  Attempt = {a1, a2}
  NoAttempt = NoAttempt
  Faults = {"death", "stall"}
  Workers = {w1, w2}
  MaxUploads = 2
  MaxEvents = 2
SPECIFICATION EitherSpec
INVARIANTS Permitted OneUpload Accounted
PROPERTIES NoFailureInDoubt Settled PricesEnd
CHECK_DEADLOCK FALSE
