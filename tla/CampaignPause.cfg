\* One dialer, no fault: a pause while the dialer works.
SPECIFICATION Spec
CONSTANTS
  k1 = k1
  k2 = k2
  d1 = d1
  d2 = d2
  Entries = {k1, k2}
  Dialers = {d1}
  MaxTasks = 1
  Faults = {}
PROPERTY PauseStopsDialer
CHECK_DEADLOCK FALSE
