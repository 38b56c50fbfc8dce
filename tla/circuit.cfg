SPECIFICATION MCFairSpec
CONSTANTS
  Worker = {w1, w2, w3}
  Threshold = 3
  Window = 2
  Cooldown = 2
  AuthCooldown = 3
  Lease = 2
  CallTicks = 2
  Message = {m1, m2}
  Poller = {p1, p2}
  Limit = 1
  PollWindow = 1
  LastSend = 1
INVARIANTS TypeOK SingleProbe RowConsistent
PROPERTIES CountsFailures ImplementsBreaker FinalUnlessCrossed Settles
