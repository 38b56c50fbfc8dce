--------------------------- MODULE MCLeadOwnership ---------------------------
EXTENDS LeadOwnership, TLC

Symmetry == Permutations(Lead) \cup Permutations(Handler)
===============================================================================
