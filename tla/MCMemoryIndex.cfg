CONSTANTS
  Requests = {q1}
  Items = {i1}
  Texts = {t1, t2}
  None = None
  MaxVersion = 3
  MaxChanges = 3
SPECIFICATION IndexFairSpec
INVARIANT DocumentIsAVersion
PROPERTY IndexCatchesUp
CHECK_DEADLOCK FALSE
