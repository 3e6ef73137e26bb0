CONSTANTS
  Requests = {q1}
  Items = {i1, i2, i3}
  Texts = {t1, t2}
  None = None
  MaxVersion = 3
  MaxChanges = 6
SPECIFICATION Spec
INVARIANT HistoryIsComplete
PROPERTY MergeConsumesLiveItems
SYMMETRY Symmetry
CHECK_DEADLOCK FALSE
