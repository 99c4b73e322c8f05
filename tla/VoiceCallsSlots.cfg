\* Three legs of one tenant, one slot, two handlers in the admission window:
\* the capacity of the pool is below the number of legs.
SPECIFICATION Spec
CONSTANTS
  c1 = c1
  c2 = c2
  c3 = c3
  t1 = t1
  Calls = {c1, c2, c3}
  Tenants = {t1}
  TenantOf <- OneTenant
  Limit = 1
  MaxAdmitting = 2
  Faults = {"crash", "provider", "webhook"}
  CallsOutliveTTL = FALSE
SYMMETRY CallSymmetry
PROPERTY PoolSpecHolds
CHECK_DEADLOCK FALSE
