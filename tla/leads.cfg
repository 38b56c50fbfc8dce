SPECIFICATION MCSpec
CONSTANTS
  Company = {k1, k2}
  Lead = {l1, l2, l3}
  Handler = {h1, h2}
  NoLead = NoLead
  Linked = {Linked}
  Invite = {l1, l2, l3}
  Session = {s1, s2}
  Staff = {a1, a2}
  InviteTTL = 1
  SessionTTL = 1
  Edit = {l1, l2, l3}
  Contact = {h1, h2}
  Reviewer = {b1}
  Seed = Seed
  Retyped = Retyped
SYMMETRY Symmetry
INVARIANTS TypeOK OneOwnerUnlessRaced ClaimedOnce EditTypesOK LinksTrue ReviewDecides
