SPECIFICATION FairSpec
CONSTANTS
  Worker = {w1, w2}
  Edit = {e1, e2}
  Synonym = {}
  MaxFault = 0

PROPERTIES PickedUp
CHECK_DEADLOCK FALSE
