\* Three requests or tool calls, two numbers of which one is the
\* placeholder, one list, files of two rows.
SPECIFICATION Spec
CONSTANTS
  r1 = r1
  r2 = r2
  r3 = r3
  p1 = p1
  p2 = p2
  l1 = l1
  Requests = {r1, r2, r3}
  Phones = {p1, p2}
  Placeholder = p2
  Lists = {l1}
  MaxRows = 2
  Faults = {"abort", "row"}
SYMMETRY RequestSymmetry
INVARIANTS
  TypeOK
  ConfirmedIsStored
  MiscountHasCause
  ListedUntilRemoved
PROPERTY FailureHasCause
CHECK_DEADLOCK FALSE
