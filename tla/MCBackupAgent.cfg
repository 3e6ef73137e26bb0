CONSTANTS
  r1 = r1
  r2 = r2
  c1 = c1
  c2 = c2
  Records = {r1, r2}
  Checks = {c1, c2}
  RecordOf <- MCRecordOf
  NoJob = NoJob
  MaxAttempts = 2
  MaxRecordVersion = 5
  MaxCrashes = 2
SPECIFICATION AgentFairSpec
INVARIANTS RecordEndsWithItsJob BackupsNotRepeated
PROPERTY JobsSettle
CHECK_DEADLOCK FALSE
