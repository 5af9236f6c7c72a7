\* In one backend three stores to bind in two batches, or a page of two to unbind,
\* with 1 event; one store with 2; one store in two backends with 1.  Two workers, a
\* request that creates the execution, one that cancels it.
\* Two store tasks and two brand tasks, one hook at a time, one accident.
CONSTANTS
  s1 = s1
  w2 = w2
  p1 = p1
  p2 = p2
  Shops = {s1, s2, s3}
  Batches = {{s1, s2}, {s3}}
  Workers = {w1, w2}
  Processes = {p1, p2}
  Creator = Creator
  Canceller = Canceller
  Attempts = 2
  Patience = 2
  MaxEvents = 2
  StoreTasks = {t1, t2}
  Hooks = {h1}
  MaxBrandTasks = 2
  MaxDeaths = 1
SPECIFICATION EitherSpec
INVARIANTS PostedOnce RecordIsTrue BrandFirst
PROPERTIES DoubtStops WorkEnds
CHECK_DEADLOCK FALSE
