\* Two UPC callers, once each, of a resource that may be reserved to them.
SPECIFICATION FairSpec
CONSTANTS
  w1 = w1
  w2 = w2
  t1 = t1
  t2 = t2
  Worker = {w1, w2}
  Token = {t1, t2}
  NoToken = NoToken
  NoWorker = NoWorker
  Upc = {w1, w2}
  Reserved = TRUE
  Ttl = 1
  Stall = 1
  MaxCalls = 1
  MaxTries = 0
PROPERTIES SilentAfterLoss ImplementsFencedResource CallsReturn OrphansExpire
ACTION_CONSTRAINT InOrder
CHECK_DEADLOCK FALSE
