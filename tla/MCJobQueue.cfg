CONSTANTS
  corrected = corrected
  reprocess = reprocess
  reindex = reindex
  Workers = {w1, w2}
  Events = {corrected}
  Jobs = {reprocess, reindex, export, purge}
  JobsOf <- MCJobsOf
  Follows <- MCFollows
  Purges = {purge}
  None = None
  MaxAttempts = 2
  DispatchLimit = 1
  ClaimLimit = 2
  MaxCrashes = 1
SPECIFICATION FairSpec
INVARIANTS OutboxAtomic RetryBudget StartsAccounted
PROPERTY WorkSettles
CHECK_DEADLOCK FALSE
