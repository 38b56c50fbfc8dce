SPECIFICATION MCSpec
CONSTANTS
  Jobs = 2
  Chunks <- MCChunks
  Admin = {a, b}
  First = a
  MaxReview = 2
  MaxFault = 1
INVARIANTS BulkSawWhatWentLive
CHECK_DEADLOCK FALSE
