\* One brand, one worker that dies once.
CONSTANTS
  Brands = {b1}
  Workers = {w1}
  Recoverers = {}
  Prepare = Prepare
  MaxEvents = 1
SPECIFICATION Spec
PROPERTIES ReportedComplete
CHECK_DEADLOCK FALSE
