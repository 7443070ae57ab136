SPECIFICATION FairSpec
CONSTANTS
  Delivery = {d1, d2}
  Whole = whole
  MaxAttempts = 3
  MaxPages = 4
  MaxDocuments = 2
  MaxFaults = 2
  MaxCrashes = 1
CHECK_DEADLOCK FALSE
INVARIANTS TypeOK SplitIsPartition NoPageJudgedTwice ScreenedFirst HalfSplitIsRemoved LossIsReported
PROPERTIES VerdictStands StoredFileIsJudged
