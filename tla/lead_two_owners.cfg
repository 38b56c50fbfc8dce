SPECIFICATION Spec
CONSTANTS
  Company = {k1, k2}
  Lead = {l1, l2, l3}
  Handler = {h1, h2}
  NoLead = NoLead
SYMMETRY Symmetry
INVARIANTS OnlyOnePasses
