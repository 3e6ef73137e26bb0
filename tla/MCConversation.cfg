CONSTANTS
  Requests = {q1, q2}
  Keys = {k1, k2}
  None = None
  MaxRevision = 2
SPECIFICATION FairSpec
INVARIANTS EventsAlwaysFit DocumentHasEveryTurn
PROPERTIES ClosedIsFinal EndedIsFinalized
CHECK_DEADLOCK FALSE
