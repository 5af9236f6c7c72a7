\* One upload; nothing goes wrong but the stop.
CONSTANTS
  Workers = {w1, w2}
  MaxUploads = 1
  MaxEvents = 0
SPECIFICATION Spec
PROPERTIES StopWaits
CHECK_DEADLOCK FALSE
