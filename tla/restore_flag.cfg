SPECIFICATION Spec
CONSTANTS
  Visitor = {v, w}
  Restorer = {r, s}
  MaxToggle = 1
  MaxFault = 1
INVARIANTS RejectedStaysClosed
CHECK_DEADLOCK FALSE
