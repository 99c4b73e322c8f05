\* Two requests at a time, three sessions, one link, two failures to the
\* lockout, and requests that fail anywhere.
SPECIFICATION Spec
CONSTANTS
  r1 = r1
  r2 = r2
  p1 = p1
  p2 = p2
  Requests = {r1, r2}
  Passwords = {p1, p2}
  Threshold = 2
  MaxSessions = 3
  MaxLinks = 1
  MaxAttempts = 3
  Faults = {"abort"}
SYMMETRY Symmetry
INVARIANTS
  TypeOK
  CutEndsSessions
  TokensUsedOnce
  GuessesBounded
PROPERTY LoginKeepsPassword
CHECK_DEADLOCK FALSE
