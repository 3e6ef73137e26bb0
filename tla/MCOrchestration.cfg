CONSTANTS
  Requests = {q1, q2}
  Runs = {m1}
  create = create
  update = update
  continue = continue
  item = item
  Calls = {update, continue}
  Objects = {item}
  Targets <- MCTargets
  Unchecked = {continue}
  Answers = {a1, a2}
  None = None
  MaxCalls = 2
  MaxVersion = 3
  MaxAttempts = 2
SPECIFICATION Spec
INVARIANTS ExecutedExactlyOnce CancelledRunOffersNothing OneAnswerPerRun
  
SYMMETRY Symmetry
CHECK_DEADLOCK FALSE
