\* Two requests at a time, two tenants of one name, two e-mails, one number.
SPECIFICATION TenancySpec
CONSTANTS
  r1 = r1
  r2 = r2
  e1 = e1
  e2 = e2
  n1 = n1
  Handlers = {r1, r2}
  Emails = {e1, e2}
  Numbers = {n1}
  MaxTenants = 2
SYMMETRY Symmetry
INVARIANTS
  TenancyTypeOK
  EmailNamesOneAccount
  FreshRequestsSucceed
CHECK_DEADLOCK FALSE
