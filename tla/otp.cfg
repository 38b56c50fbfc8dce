SPECIFICATION MCSpec
CONSTANTS
  Challenge = {c1}
  Handler = {h1, h2, h3}
  TTL = 2
  ResendCooldown = 1
  Hour = 2
  MaxAttempts = 2
  MaxResends = 2
  HourlyLimit = 1
  Worker = {w1, w2}
  Request = {q1, q2}
  Campaign = {q1, q2}
  Aside = Aside
  Solo = Solo
  Lone = Lone
SYMMETRY Symmetry
INVARIANTS TypesOK AttemptsBounded CapUnlessBlurred CampaignsTrue
PROPERTIES ConsumedStaysConsumed
