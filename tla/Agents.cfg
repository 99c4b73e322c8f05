\* Two requests at once on two versions, one call.
SPECIFICATION Spec
CONSTANTS
  m1 = m1
  m2 = m2
  c1 = c1
  t1 = t1
  t2 = t2
  Managers = {m1, m2}
  Calls = {c1}
  Texts = {t1, t2}
  NoText = NoText
  MaxVersion = 2
SYMMETRY ManagerSymmetry
INVARIANTS
  TypeOK
  OnlyReleasedVersionsServe
  ReleasesHold
PROPERTY
  RegistrySpecHolds
CHECK_DEADLOCK FALSE
