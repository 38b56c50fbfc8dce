SPECIFICATION Spec
CONSTANTS
  Worker = {w1, w2}
  Request = {q1}
  Looked = {"count"}
  Campaign = {}
  Budget = 1
  EnvBudget = 0
  Audience = 0
  LastDay = 0
  MaxTrouble = 0
  MaxBilled = 2
INVARIANTS SpendCap
