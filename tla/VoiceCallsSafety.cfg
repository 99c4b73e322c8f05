\* Two legs of one tenant, every fault, one slot, two handlers in the
\* admission window.
SPECIFICATION FairSpecOpenAI
CONSTANTS
  c1 = c1
  c2 = c2
  c3 = c3
  t1 = t1
  Calls = {c1, c2}
  Tenants = {t1}
  TenantOf <- OneTenant
  Limit = 1
  MaxAdmitting = 2
  Faults = {"crash", "redis", "db", "openai"}
  CallsOutliveTTL = FALSE
INVARIANTS
  TypeOK
  LiveCallHoldsSlot
  LeakHasCause
  RecordsComplete
PROPERTY SlotEventuallyReleased
CHECK_DEADLOCK FALSE
