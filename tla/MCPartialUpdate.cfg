CONSTANTS
  Requests = {q1}
  Items = {i1}
  Texts = {t1, t2}
  None = None
  MaxVersion = 2
  MaxChanges = 2
SPECIFICATION Spec
PROPERTY ChangesAreVersioned
SYMMETRY Symmetry
CHECK_DEADLOCK FALSE
