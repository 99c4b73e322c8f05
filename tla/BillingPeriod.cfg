\* One line and no checkout: a call of the second month.
SPECIFICATION Spec
CONSTANTS
  r1 = r1
  r2 = r2
  l1 = l1
  l2 = l2
  Requests = {r1}
  Lines = {l1}
  Limit = 1
  MaxMinutes = 1
  MaxCheckouts = 0
  MaxEvents = 0
  Faults = {}
PROPERTY MonthlyLimitApplies
CHECK_DEADLOCK FALSE
