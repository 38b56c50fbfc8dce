SPECIFICATION MCSpec
CONSTANTS
  Worker = {w1, w2}
  Edit = {e1, e2, s1}
  Synonym = {s1}
  MaxFault = 2
INVARIANTS TypeOK PublishedMeansIndexed
PROPERTIES CatchesUp
CHECK_DEADLOCK FALSE
