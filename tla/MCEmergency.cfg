CONSTANTS
  e1 = e1
  e2 = e2
  Emergencies = {e1, e2}
  Shops = {s1, s2}
  Jobs = {j1, j2}
  Openers = {o1}
  Nobody = Nobody
  MaxEvents = 2
SPECIFICATION MCSpec
SYMMETRY Alike
INVARIANTS Remembered OfflineMeansClosed
PROPERTIES ImplementsGuardedStores
CHECK_DEADLOCK FALSE
