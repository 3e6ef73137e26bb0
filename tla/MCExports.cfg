CONSTANTS
  Ids = {e1, e2}
  Workers = {w1, w2}
  Null = Null
  MaxData = 2
  MaxExportAttempts = 1
  MaxRollbacks = 1
SPECIFICATION ExportFairSpec
INVARIANTS DownloadMatchesDigest
PROPERTIES ExpiredIsFinal RequestSettles FilesAreRemoved
CHECK_DEADLOCK FALSE
