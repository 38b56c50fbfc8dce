SPECIFICATION MCSpec
CONSTANTS
  t1 = t1
  t2 = t2
  t3 = t3
  p1 = p1
  p2 = p2
  Request = {r1, r2}
  Target = {t1, t2, t3}
  Provider = {p1, p2}
  Route <- MCRoute
  ProviderOf <- MCProviderOf
  MaxAttempts <- MCMaxAttempts
  Threshold = 2
  Window = 1
  Cooldown = 1
  AuthCooldown = 1
  Lease = 1
  Visitor = {v1, v2}
  Conv = {c1, c2, Solo}
  Signup = {s1}
  Solo = Solo
  Keep = 1
  SummarizeAfter = 2
  MaxId = 6
  LastSitting = 2
  MaxFault = 1
  Records = 5
  PageSize = 2
  OfferMax = 4
  PickWindow = 0
  MaxEdit = 2
  MaxSlip = 1
  MaxProposal = 2
SYMMETRY Symmetry
CHECK_DEADLOCK FALSE
INVARIANTS TypesOK RouteTrue NotOverheard Defended DeletedIsGone
           PickIsWhatWasPrinted PagesWhole ReplayedOnce
