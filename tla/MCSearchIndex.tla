--------------------------- MODULE MCSearchIndex ----------------------------
(***************************************************************************)
(* The instance of SearchIndex that TLC explores, in two slices: all the   *)
(* edits without a fault, and two of them with all the faults.  Fairness   *)
(* promises neither an edit nor a fault, so no slice holds up what it      *)
(* promises.                                                               *)
(***************************************************************************)
EXTENDS SearchIndex, FiniteSets

VARIABLE slice

MCInit == Init /\ slice \in {"edits", "faults"}

Within ==
  CASE slice = "edits" -> faults' = 0
    [] slice = "faults" -> Cardinality(content') <= 2

MCNext == Next /\ Within /\ UNCHANGED slice

MCSpec == /\ MCInit /\ [][MCNext]_<<vars, slice>>
          /\ \A w \in Worker : WF_vars(Work(w)) /\ WF_vars(Poll(w))
=============================================================================
