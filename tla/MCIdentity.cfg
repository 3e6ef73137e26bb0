CONSTANTS
  Requests = {q1, q2}
  Passwords = {p1, p2}
  Addresses = {a1}
  None = None
  MaxSessions = 2
  MaxTokens = 2
  Threshold = 2
  MaxFailures = 2
SPECIFICATION Spec
SYMMETRY Symmetry
INVARIANTS RevokedHasNoRequest WrongAttemptsAreCounted OneUsableLink LinkIsUsedOnce AuditChainIsLinear
CHECK_DEADLOCK FALSE
