\* A pool of two brands, two workers, one recovery; one emergency of one store;
\* products turned off in two stores, one of which has to be looked up.
CONSTANTS
  Brands = {b1, b2}
  Workers = {w1, w2}
  Recoverers = {k1}
  Prepare = Prepare
  MaxEvents = 1
  Emergencies = {e1}
  Shops = {s1}
  Jobs = {j1, j2}
  Openers = {o1}
  Nobody = Nobody
  EmergencyEvents = 1
  Stores = {t1, t2}
  Deferred = {t2}
  TurnOffEvents = 2
SPECIFICATION OneSpec
INVARIANTS OneOpener CalledOnce DoneMeansOff
PROPERTIES ReportedOnce AllEnds
CHECK_DEADLOCK FALSE
