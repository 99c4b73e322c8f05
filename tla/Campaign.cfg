\* Two entries, two dialers, two tasks, every fault.
SPECIFICATION FairSpec
CONSTANTS
  k1 = k1
  k2 = k2
  d1 = d1
  d2 = d2
  Entries = {k1, k2}
  Dialers = {d1, d2}
  MaxTasks = 2
  Faults = {"crash", "db", "provider", "answer"}
INVARIANTS
  TypeOK
  RedialHasCause
  RecordedOutcomeTrue
PROPERTY LoadedEntryResolved
CHECK_DEADLOCK FALSE
