\* Two requests at a time, two checkouts, three events, two lines, a limit of
\* one minute and calls of one.
SPECIFICATION Spec
CONSTANTS
  r1 = r1
  r2 = r2
  l1 = l1
  l2 = l2
  Requests = {r1, r2}
  Lines = {l1, l2}
  Limit = 1
  MaxMinutes = 1
  MaxCheckouts = 2
  MaxEvents = 3
  Faults = {"abort"}
SYMMETRY Symmetry
INVARIANTS
  TypeOK
  MinutesBounded
  StatusFollowsStripe
  CustomerPaysSubscription
CHECK_DEADLOCK FALSE
