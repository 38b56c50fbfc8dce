SPECIFICATION MCSpec
CONSTANTS
  Jobs = 2
  Chunks <- MCChunks
  Admin = {a, b}
  First = a
  MaxReview = 2
  MaxFault = 1
INVARIANTS TypeOK OneCallUnlessSwept JobsAgree
CHECK_DEADLOCK FALSE
PROPERTIES EditWins Settles
