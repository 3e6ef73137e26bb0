CONSTANTS
  Requests = {r1, r2}
  Models = {m1, m2}
  Docs = {d1}
  None = None
  Empty = Empty
  MaxVersion = 3
  MaxChanges = 3
SYMMETRY Symmetry
SPECIFICATION Spec
INVARIANTS VerifiedIsUsable OneLiveKey FreshIsOfChosenModel
CHECK_DEADLOCK FALSE
