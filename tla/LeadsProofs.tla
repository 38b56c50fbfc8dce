----------------------------- MODULE LeadsProofs -----------------------------
(***************************************************************************)
(* Proofs about the leads of a company: LeadOwnership, then EditLink       *)
(* (Link!...), then EditReview (Review!...), each from an inductive        *)
(* invariant of its own and for every number of handlers, leads, invites,  *)
(* sessions and edits; at the end the specification that TLC runs, of      *)
(* which each of the three is a part.                                      *)
(***************************************************************************)
EXTENDS MCLeads, FiniteSetTheorems, TLAPS

-------------------------------------------------------------------------------
(* WHO OWNS THE COMPANY.  The inductive invariant.                           *)

\* A row that a verification holds is still as the UPDATE found it.
HeldUnverified ==
  \A h \in Handler : op[h].name = "verify" =>
    /\ op[h].lead \in Lead
    /\ lead[op[h].lead].status = "unverified"
    /\ lead[op[h].lead].company = op[h].company

\* A row is held by one verification.
HeldOnce ==
  \A g, h \in Handler :
    op[g].name = "verify" /\ op[h].name = "verify" /\ op[g].lead = op[h].lead => g = h

\* A lead that waits for its code has not been verified before.
UnverifiedHasNotWon ==
  \A l \in Lead : lead[l].status \in {"none", "unverified"} => wins[l] = 0

\* Overlapping claims have been noted.
RacesNoted ==
  \A k \in Company \ raced : \A g, h \in Handler : Claiming(g, k) /\ Claiming(h, k) => g = h

\* What a claim has looked for is still absent when it writes.
ClaimStands ==
  \A k \in Company \ raced : \A h \in Handler : Claiming(h, k) => Owners(k) = {}

IInv ==
  /\ TypeOK
  /\ HeldUnverified
  /\ HeldOnce
  /\ UnverifiedHasNotWon
  /\ ClaimedOnce
  /\ RacesNoted
  /\ ClaimStands
  /\ OneOwnerUnlessRaced

-------------------------------------------------------------------------------
(* Lemmas on the transactions.                                               *)

\* A transaction in the middle has the fields its name promises.
LEMMA OpTyping ==
  ASSUME TypeOK, NEW h \in Handler
  PROVE  /\ op[h] = Idle \/ op[h].name \in {"register", "add", "verify"}
         /\ op[h].name \in {"register", "add", "verify"} =>
              op[h] \in [name: {"register", "add", "verify"}, company: Company,
                         lead: Lead \cup {NoLead}]
         /\ Idle.name = "idle" /\ Idle \in Op
BY DEF TypeOK, Op, Idle

-------------------------------------------------------------------------------
(* Type correctness.                                                         *)

\* Type correctness of the first state.
LEMMA InitTyped == Init => TypeOK
<1> SUFFICES ASSUME Init PROVE TypeOK
  OBVIOUS
<1>1. (CHOOSE k \in Company : TRUE) \in Company
  BY CompanyAssumption
<1>2. [status: {"none"}, company: {CHOOSE k \in Company : TRUE}, released: {FALSE}]
        \subseteq Row
  BY <1>1 DEF Row, Status
<1>3. lead \in [Lead -> Row]
  BY <1>2 DEF Init
<1>4. op \in [Handler -> Op]
  BY DEF Init, Op, Idle
<1>5. QED
  BY <1>3, <1>4 DEF Init, TypeOK

\* Every step keeps the types; what a verification holds is a lead.
LEMMA StepTyped ==
  ASSUME TypeOK, HeldUnverified, [Next]_vars
  PROVE  TypeOK'
<1> USE DEF TypeOK
<1>i. Idle \in Op
  BY DEF Idle, Op
<1>b. ASSUME NEW h \in Handler, NEW n \in {"register", "add", "verify"}, NEW k \in Company,
             NEW l \in Lead \cup {NoLead}, Begin(h, n, k, l)
      PROVE  op' \in [Handler -> Op] /\ raced' \subseteq Company
  <2>1. [name |-> n, company |-> k, lead |-> l] \in Op
    BY DEF Op
  <2>2. QED
    BY <1>b, <2>1 DEF Begin
<1>e. ASSUME NEW h \in Handler, End(h)
      PROVE  op' \in [Handler -> Op]
  BY <1>e, <1>i DEF End
<1>n. ASSUME NEW k \in Company, NEW s \in Status, Insert(k, s)
      PROVE  lead' \in [Lead -> Row]
  <2>1. [status |-> s, company |-> k, released |-> FALSE] \in Row
    BY DEF Row
  <2>2. QED
    BY <1>n, <2>1 DEF Insert
<1>1. ASSUME NEW h \in Handler, NEW k \in Company, Register(h, k)
      PROVE  TypeOK'
  BY <1>1, <1>b DEF Register
<1>2. ASSUME NEW h \in Handler, NEW k \in Company, Add(h, k)
      PROVE  TypeOK'
  BY <1>2, <1>b DEF Add
<1>3. ASSUME NEW h \in Handler, NEW l \in Lead, Verify(h, l)
      PROVE  TypeOK'
  <2>1. lead[l].company \in Company
    BY DEF Row
  <2>2. QED
    BY <1>3, <2>1, <1>b DEF Verify
<1>4. ASSUME NEW h \in Handler, RegisterInsert(h)
      PROVE  TypeOK'
  <2>1. op[h].company \in Company
    BY <1>4, OpTyping DEF RegisterInsert
  <2>2. QED
    BY <1>4, <2>1, <1>n, <1>e DEF RegisterInsert, Status
<1>5. ASSUME NEW h \in Handler, AddInsert(h)
      PROVE  TypeOK'
  <2>1. op[h].company \in Company
    BY <1>5, OpTyping DEF AddInsert
  <2>2. QED
    BY <1>5, <2>1, <1>n, <1>e DEF AddInsert, Status
<1>6. ASSUME NEW h \in Handler, VerifyCommit(h)
      PROVE  TypeOK'
  <2>1. op[h].lead \in Lead
    BY <1>6 DEF VerifyCommit, HeldUnverified
  <2>2. [lead[op[h].lead] EXCEPT !.status = "verified"] \in Row
    BY <2>1 DEF Row, Status
  <2>3. lead' \in [Lead -> Row]
    BY <1>6, <2>1, <2>2 DEF VerifyCommit
  <2>4. wins' \in [Lead -> Nat]
    BY <1>6, <2>1 DEF VerifyCommit
  <2>5. QED
    BY <1>6, <2>3, <2>4, <1>e DEF VerifyCommit
<1>7. ASSUME NEW h \in Handler, Rollback(h)
      PROVE  TypeOK'
  BY <1>7, <1>e DEF Rollback
<1>8. ASSUME NEW l \in Lead, Complete(l)
      PROVE  TypeOK'
  <2>1. [lead[l] EXCEPT !.status = "completed"] \in Row
    BY DEF Row, Status
  <2>2. QED
    BY <1>8, <2>1 DEF Complete
<1>9. ASSUME NEW l \in Lead, Release(l)
      PROVE  TypeOK'
  <2>1. [lead[l] EXCEPT !.released = TRUE] \in Row
    BY DEF Row
  <2>2. QED
    BY <1>9, <2>1 DEF Release
<1>10. ASSUME NEW k \in Company, DeleteCompany(k)
       PROVE  TypeOK'
  <2>1. \A l \in Lead : [lead[l] EXCEPT !.status = "none", !.released = FALSE] \in Row
    BY DEF Row, Status
  <2>2. Removed(k) \in [Lead -> Row]
    BY <2>1 DEF Removed
  <2>3. Forgotten(k) \in [Lead -> Nat]
    BY DEF Forgotten
  <2>4. QED
    BY <1>10, <2>2, <2>3 DEF DeleteCompany
<1>11. CASE UNCHANGED vars
  BY <1>11 DEF vars
<1>12. QED
  BY <1>1, <1>2, <1>3, <1>4, <1>5, <1>6, <1>7, <1>8, <1>9, <1>10, <1>11 DEF Next

-------------------------------------------------------------------------------
(* What a step leaves alone.                                                 *)

\* No transaction begins: each goes on, or is over.
NoneBegins == raced' = raced /\ \A g \in Handler : op'[g] = op[g] \/ op'[g] = Idle

\* A transaction that ends ends alone.
LEMMA Ending ==
  ASSUME TypeOK, NEW h \in Handler, End(h), raced' = raced
  PROVE  NoneBegins /\ op'[h] = Idle /\ \A g \in Handler \ {h} : op'[g] = op[g]
BY DEF End, TypeOK, NoneBegins

\* A step in which none begins keeps what the transactions know of each other.
LEMMA ClaimsKept ==
  ASSUME HeldOnce, RacesNoted, NoneBegins
  PROVE  /\ HeldOnce' /\ RacesNoted'
         /\ \A g \in Handler, k \in Company : Claiming(g, k)' => Claiming(g, k)
<1>1. \A g \in Handler : op'[g].name # "idle" => op'[g] = op[g]
  BY DEF NoneBegins, Idle
<1>2. HeldOnce'
  BY <1>1 DEF HeldOnce
<1>3. \A g \in Handler, k \in Company : Claiming(g, k)' => Claiming(g, k)
  BY <1>1 DEF Claiming
<1>4. RacesNoted'
  BY <1>3 DEF RacesNoted, NoneBegins
<1>5. QED
  BY <1>2, <1>3, <1>4

\* A step in which none begins and no company gains an owner keeps the ownership.
LEMMA OwnersKept ==
  ASSUME HeldOnce, RacesNoted, ClaimStands, OneOwnerUnlessRaced, NoneBegins,
         \A k \in Company : Owners(k)' \subseteq Owners(k)
  PROVE  ClaimStands' /\ OneOwnerUnlessRaced'
<1>1. raced' = raced
  BY DEF NoneBegins
<1>2. ClaimStands'
  BY <1>1, ClaimsKept DEF ClaimStands
<1>3. OneOwnerUnlessRaced'
  BY <1>1 DEF OneOwnerUnlessRaced
<1>4. QED
  BY <1>2, <1>3

\* A claim that begins is noted when another one is under way.
LEMMA Beginning ==
  ASSUME TypeOK, HeldOnce, RacesNoted, ClaimStands, OneOwnerUnlessRaced,
         NEW h \in Handler, NEW n \in {"register", "add", "verify"}, NEW k \in Company,
         NEW l \in Lead \cup {NoLead}, Begin(h, n, k, l), UNCHANGED lead,
         n # "register" => Owners(k) = {},
         n = "verify" => l \in Lead /\ ~Held(l)
  PROVE  HeldOnce' /\ RacesNoted' /\ ClaimStands' /\ OneOwnerUnlessRaced'
<1>1. /\ op'[h] = [name |-> n, company |-> k, lead |-> l]
      /\ \A g \in Handler \ {h} : op'[g] = op[g]
      /\ raced \subseteq raced'
  BY DEF Begin, TypeOK
<1>2. \A m \in Company : Owners(m)' = Owners(m)
  BY DEF Owners, LiveOwner
<1>3. /\ \A g \in Handler \ {h}, m \in Company : Claiming(g, m)' <=> Claiming(g, m)
      /\ \A m \in Company : Claiming(h, m)' <=> n # "register" /\ m = k
  BY <1>1 DEF Claiming
<1>4. HeldOnce'
  <2>1. n = "verify" => \A g \in Handler : op[g].name = "verify" => op[g].lead # l
    BY DEF Held
  <2>2. QED
    BY <1>1, <2>1 DEF HeldOnce
<1>5. RacesNoted'
  <2>1. n # "register" /\ k \notin raced' => \A g \in Handler \ {h} : ~Claiming(g, k)
    BY DEF Begin
  <2>2. QED
    BY <1>1, <1>3, <2>1 DEF RacesNoted
<1>6. ClaimStands'
  BY <1>1, <1>2, <1>3 DEF ClaimStands
<1>7. OneOwnerUnlessRaced'
  BY <1>1, <1>2 DEF OneOwnerUnlessRaced
<1>8. QED
  BY <1>4, <1>5, <1>6, <1>7

\* A claim that is written makes its lead the one owner, if it was alone.
LEMMA Winning ==
  ASSUME TypeOK, HeldOnce, RacesNoted, ClaimStands, OneOwnerUnlessRaced,
         NEW h \in Handler, NEW k \in Company, Claiming(h, k), End(h), raced' = raced,
         NEW l \in Lead, \A m \in Lead \ {l} : lead'[m] = lead[m],
         lead'[l].company = k
  PROVE  ClaimStands' /\ OneOwnerUnlessRaced'
<1>1. /\ NoneBegins /\ op'[h] = Idle
  BY Ending
<1>2. \A m \in Company : Owners(m)' \subseteq Owners(m) \cup {l}
  BY DEF Owners, LiveOwner
<1>3. \A m \in Company \ {k} : Owners(m)' \subseteq Owners(m)
  BY DEF Owners, LiveOwner
<1>4. /\ \A g \in Handler, m \in Company : Claiming(g, m)' => Claiming(g, m)
      /\ ~Claiming(h, k)'
  BY <1>1, ClaimsKept DEF Claiming, Idle
<1>5. k \notin raced => Owners(k) = {} /\ \A g \in Handler : ~Claiming(g, k)'
  BY <1>4 DEF ClaimStands, RacesNoted
<1>6. ClaimStands'
  BY <1>3, <1>4, <1>5 DEF ClaimStands
<1>7. OneOwnerUnlessRaced'
  BY <1>2, <1>3, <1>5 DEF OneOwnerUnlessRaced
<1>8. QED
  BY <1>6, <1>7

-------------------------------------------------------------------------------
(* The invariant is inductive.                                               *)

LEMMA InitInvariant == Init => IInv
<1> SUFFICES ASSUME Init PROVE IInv
  OBVIOUS
<1>1. TypeOK
  BY InitTyped
<1>2. /\ \A l \in Lead : lead[l].status = "none" /\ wins[l] = 0
      /\ \A h \in Handler : op[h].name = "idle"
  BY DEF Init, Idle
<1>3. \A k \in Company : Owners(k) = {}
  BY <1>2 DEF Owners, LiveOwner
<1>4. HeldUnverified /\ HeldOnce /\ UnverifiedHasNotWon /\ ClaimedOnce
  BY <1>2 DEF HeldUnverified, HeldOnce, UnverifiedHasNotWon, ClaimedOnce
<1>5. RacesNoted /\ ClaimStands /\ OneOwnerUnlessRaced
  BY <1>2, <1>3 DEF RacesNoted, ClaimStands, OneOwnerUnlessRaced, Claiming
<1>6. QED
  BY <1>1, <1>4, <1>5 DEF IInv

\* What a step that changes neither leads nor wins keeps of them.
LEMMA LeadsUntouched ==
  ASSUME UnverifiedHasNotWon, ClaimedOnce, UNCHANGED <<lead, wins>>
  PROVE  UnverifiedHasNotWon' /\ ClaimedOnce'
BY DEF UnverifiedHasNotWon, ClaimedOnce

\* An INSERT takes a row nobody holds.
LEMMA Inserting ==
  ASSUME TypeOK, HeldUnverified, UnverifiedHasNotWon, ClaimedOnce, NoneBegins,
         NEW k \in Company, NEW s \in {"unverified", "verified"}, Insert(k, s), UNCHANGED wins
  PROVE  /\ HeldUnverified' /\ UnverifiedHasNotWon' /\ ClaimedOnce'
         /\ \E l \in Lead : /\ lead'[l].status = s /\ lead'[l].company = k
                           /\ \A m \in Lead \ {l} : lead'[m] = lead[m]
<1>1. PICK l \in Lead : /\ lead[l].status = "none"
                        /\ lead' = [lead EXCEPT ![l] = [status |-> s, company |-> k,
                                                        released |-> FALSE]]
  BY DEF Insert
<1>2. /\ lead'[l] = [status |-> s, company |-> k, released |-> FALSE]
      /\ \A m \in Lead \ {l} : lead'[m] = lead[m]
  BY <1>1 DEF TypeOK
<1>3. HeldUnverified'
  <2>1. \A g \in Handler : op'[g].name = "verify" => op'[g] = op[g] /\ op[g].lead # l
    BY <1>1 DEF NoneBegins, Idle, HeldUnverified
  <2>2. QED
    BY <1>2, <2>1 DEF HeldUnverified
<1>4. UnverifiedHasNotWon' /\ ClaimedOnce'
  BY <1>1, <1>2 DEF UnverifiedHasNotWon, ClaimedOnce
<1>5. QED
  BY <1>1, <1>2, <1>3, <1>4

\* Every step keeps the invariant.
LEMMA StepInvariant == IInv /\ [Next]_vars => IInv'
<1> SUFFICES ASSUME IInv, [Next]_vars PROVE IInv'
  OBVIOUS
<1>a. /\ TypeOK /\ HeldUnverified /\ HeldOnce /\ UnverifiedHasNotWon /\ ClaimedOnce
      /\ RacesNoted /\ ClaimStands /\ OneOwnerUnlessRaced
  BY DEF IInv
<1>t. TypeOK'
  BY <1>a, StepTyped
<1> DEFINE Others == /\ HeldUnverified /\ HeldOnce /\ UnverifiedHasNotWon /\ ClaimedOnce
                     /\ RacesNoted /\ ClaimStands /\ OneOwnerUnlessRaced
<1>1. ASSUME NEW h \in Handler, NEW k \in Company, Register(h, k)
      PROVE  Others'
  <2>1. HeldOnce' /\ RacesNoted' /\ ClaimStands' /\ OneOwnerUnlessRaced'
    BY <1>a, <1>1, Beginning DEF Register
  <2>2. HeldUnverified'
    BY <1>a, <1>1 DEF Register, Begin, HeldUnverified, TypeOK
  <2>3. QED
    BY <1>a, <1>1, <2>1, <2>2, LeadsUntouched DEF Register
<1>2. ASSUME NEW h \in Handler, NEW k \in Company, Add(h, k)
      PROVE  Others'
  <2>1. HeldOnce' /\ RacesNoted' /\ ClaimStands' /\ OneOwnerUnlessRaced'
    BY <1>a, <1>2, Beginning DEF Add
  <2>2. HeldUnverified'
    BY <1>a, <1>2 DEF Add, Begin, HeldUnverified, TypeOK
  <2>3. QED
    BY <1>a, <1>2, <2>1, <2>2, LeadsUntouched DEF Add
<1>3. ASSUME NEW h \in Handler, NEW l \in Lead, Verify(h, l)
      PROVE  Others'
  <2>1. /\ lead[l].company \in Company
        /\ Owners(lead[l].company) = {}
    BY <1>a, <1>3 DEF Verify, Owners, LiveOwner, TypeOK, Row
  <2>2. HeldOnce' /\ RacesNoted' /\ ClaimStands' /\ OneOwnerUnlessRaced'
    BY <1>a, <1>3, <2>1, Beginning DEF Verify
  <2>3. HeldUnverified'
    BY <1>a, <1>3 DEF Verify, Begin, HeldUnverified, TypeOK
  <2>4. QED
    BY <1>a, <1>3, <2>2, <2>3, LeadsUntouched DEF Verify
<1>4. ASSUME NEW h \in Handler, RegisterInsert(h)
      PROVE  Others'
  <2>1. NoneBegins /\ op[h].company \in Company
    BY <1>a, <1>4, Ending, OpTyping DEF RegisterInsert
  <2>2. /\ HeldUnverified' /\ UnverifiedHasNotWon' /\ ClaimedOnce'
        /\ \E l \in Lead : /\ lead'[l].status = "unverified"
                          /\ \A m \in Lead \ {l} : lead'[m] = lead[m]
    BY <1>a, <1>4, <2>1, Inserting DEF RegisterInsert
  <2>3. \A k \in Company : Owners(k)' \subseteq Owners(k)
    BY <2>2 DEF Owners, LiveOwner
  <2>4. QED
    BY <1>a, <2>1, <2>2, <2>3, ClaimsKept, OwnersKept
<1>5. ASSUME NEW h \in Handler, AddInsert(h)
      PROVE  Others'
  <2>1. /\ NoneBegins /\ op[h].company \in Company /\ Claiming(h, op[h].company)
        /\ raced' = raced
    BY <1>a, <1>5, Ending, OpTyping DEF AddInsert, Claiming
  <2>2. /\ HeldUnverified' /\ UnverifiedHasNotWon' /\ ClaimedOnce'
        /\ \E l \in Lead : /\ lead'[l].company = op[h].company
                          /\ \A m \in Lead \ {l} : lead'[m] = lead[m]
    BY <1>a, <1>5, <2>1, Inserting DEF AddInsert
  <2>3. ClaimStands' /\ OneOwnerUnlessRaced'
    BY <1>a, <1>5, <2>1, <2>2, Winning DEF AddInsert
  <2>4. QED
    BY <1>a, <2>1, <2>2, <2>3, ClaimsKept
<1>6. ASSUME NEW h \in Handler, VerifyCommit(h)
      PROVE  Others'
  <2> DEFINE l == op[h].lead
  <2>1. /\ l \in Lead /\ lead[l].status = "unverified"
        /\ lead[l].company = op[h].company /\ op[h].company \in Company
    BY <1>a, <1>6, OpTyping DEF VerifyCommit, HeldUnverified
  <2>2. /\ NoneBegins /\ op'[h] = Idle /\ raced' = raced
        /\ \A g \in Handler \ {h} : op'[g] = op[g]
        /\ Claiming(h, op[h].company)
    BY <1>a, <1>6, Ending DEF VerifyCommit, Claiming
  <2>3. /\ lead'[l].status = "verified" /\ lead'[l].company = lead[l].company
        /\ \A m \in Lead \ {l} : lead'[m] = lead[m]
        /\ wins'[l] = wins[l] + 1
        /\ \A m \in Lead \ {l} : wins'[m] = wins[m]
    BY <1>a, <1>6, <2>1 DEF VerifyCommit, TypeOK, Row
  <2>4. HeldUnverified'
    <3>1. \A g \in Handler : op'[g].name = "verify" => g # h /\ op'[g] = op[g]
      BY <2>2 DEF Idle
    <3>2. \A g \in Handler \ {h} : op[g].name = "verify" => op[g].lead # l
      BY <1>a, <1>6 DEF HeldOnce, VerifyCommit
    <3>3. QED
      BY <1>a, <2>3, <3>1, <3>2 DEF HeldUnverified
  <2>5. UnverifiedHasNotWon' /\ ClaimedOnce'
    <3>1. wins[l] = 0
      BY <1>a, <2>1 DEF UnverifiedHasNotWon
    <3>2. QED
      BY <1>a, <2>3, <3>1 DEF UnverifiedHasNotWon, ClaimedOnce
  <2>6. ClaimStands' /\ OneOwnerUnlessRaced'
    BY <1>a, <1>6, <2>1, <2>2, <2>3, Winning DEF VerifyCommit
  <2>7. QED
    BY <1>a, <2>2, <2>4, <2>5, <2>6, ClaimsKept
<1>7. ASSUME NEW h \in Handler, Rollback(h)
      PROVE  Others'
  <2>1. NoneBegins
    BY <1>a, <1>7, Ending DEF Rollback
  <2>2. \A k \in Company : Owners(k)' = Owners(k)
    BY <1>7 DEF Rollback, Owners, LiveOwner
  <2>3. HeldUnverified'
    BY <1>a, <1>7, <2>1 DEF Rollback, HeldUnverified, NoneBegins, Idle
  <2>4. QED
    BY <1>a, <1>7, <2>1, <2>2, <2>3, ClaimsKept, OwnersKept, LeadsUntouched DEF Rollback
<1>8. ASSUME NEW l \in Lead, \/ Complete(l)
                            \/ Release(l)
      PROVE  Others'
  <2>1. /\ NoneBegins /\ op' = op /\ wins' = wins
        /\ lead[l].status = "verified" /\ ~Held(l)
    BY <1>8 DEF Complete, Release, NoneBegins
  <2>2. /\ \A m \in Lead \ {l} : lead'[m] = lead[m]
        /\ lead'[l].status \in {"verified", "completed"}
        /\ lead'[l].company = lead[l].company
        /\ lead[l].released => lead'[l].released
    BY <1>a, <1>8 DEF Complete, Release, TypeOK, Row
  <2>3. \A k \in Company : Owners(k)' \subseteq Owners(k)
    BY <2>1, <2>2 DEF Owners, LiveOwner
  <2>4. HeldUnverified'
    BY <1>a, <2>1, <2>2 DEF HeldUnverified, Held
  <2>5. UnverifiedHasNotWon' /\ ClaimedOnce'
    BY <1>a, <2>1, <2>2 DEF UnverifiedHasNotWon, ClaimedOnce
  <2>6. QED
    BY <1>a, <2>1, <2>3, <2>4, <2>5, ClaimsKept, OwnersKept
<1>9. ASSUME NEW k \in Company, DeleteCompany(k)
      PROVE  Others'
  <2>1. /\ NoneBegins /\ op' = op
        /\ \A l \in Lead : lead[l].company = k => ~Held(l)
    BY <1>9 DEF DeleteCompany, NoneBegins
  <2>2. /\ \A l \in Lead : lead'[l].company = lead[l].company
        /\ \A l \in Lead : lead[l].company # k =>
             lead'[l] = lead[l] /\ wins'[l] = wins[l]
        /\ \A l \in Lead : lead[l].company = k => lead'[l].status = "none" /\ wins'[l] = 0
    BY <1>a, <1>9 DEF DeleteCompany, Removed, Forgotten, TypeOK, Row
  <2>3. \A m \in Company : Owners(m)' \subseteq Owners(m)
    BY <2>2 DEF Owners, LiveOwner
  <2>4. HeldUnverified'
    BY <1>a, <2>1, <2>2 DEF HeldUnverified, Held
  <2>5. UnverifiedHasNotWon' /\ ClaimedOnce'
    BY <1>a, <2>2 DEF UnverifiedHasNotWon, ClaimedOnce
  <2>6. QED
    BY <1>a, <2>1, <2>3, <2>4, <2>5, ClaimsKept, OwnersKept
<1>10. ASSUME UNCHANGED vars
       PROVE  Others'
  <2>1. UNCHANGED <<lead, op, raced, wins>>
    BY <1>10 DEF vars
  <2>2. QED
    BY <1>a, <2>1 DEF HeldUnverified, HeldOnce, UnverifiedHasNotWon, ClaimedOnce, RacesNoted,
                      ClaimStands, OneOwnerUnlessRaced, Claiming, Owners, LiveOwner
<1>11. Others'
  BY <1>1, <1>2, <1>3, <1>4, <1>5, <1>6, <1>7, <1>8, <1>9, <1>10 DEF Next
<1>12. QED
  BY <1>t, <1>11 DEF IInv

\* The invariant holds in every reachable state.
LEMMA Invariant == Spec => []IInv
BY InitInvariant, StepInvariant, PTL DEF Spec

-------------------------------------------------------------------------------
(* The theorems.                                                             *)

\* Type correctness of every reachable state, for every set of companies, leads and handlers.
THEOREM TypeCorrect == Spec => []TypeOK
<1>1. IInv => TypeOK
  BY DEF IInv
<1>2. QED
  BY <1>1, Invariant, PTL

\* A company that no two handlers have claimed at once has one owner at most, whatever
\* the number of visitors, administrators and campaigns: the check before each write is
\* enough as long as claims do not overlap.
THEOREM OneOwner == Spec => []OneOwnerUnlessRaced
<1>1. IInv => OneOwnerUnlessRaced
  BY DEF IInv
<1>2. QED
  BY <1>1, Invariant, PTL

\* One verification of a lead succeeds, whatever the number of handlers that were sent
\* its code: verify_contact()'s UPDATE decides, not its SELECT.
THEOREM VerifiedOnce == Spec => []ClaimedOnce
<1>1. IInv => ClaimedOnce
  BY DEF IInv
<1>2. QED
  BY <1>1, Invariant, PTL

-------------------------------------------------------------------------------
(* THE LINKS.  The inductive invariant.                                      *)

Works == {"due", "mint", "sessions", "release", "releasing"}
Deleting == {"sessions", "releasing"}

\* Only the booth and the panel mint and release.
StaffWorks == \A h \in Link!Actor : linking[h].name \in Works => h \in Staff

\* An invite that a transaction has deleted is unused until its commit, and deleted by it alone.
DeletedStay ==
  /\ \A h \in Link!Actor : linking[h].name \in Deleting
       => linking[h].invites \subseteq Link!UnusedInvites(linking[h].lead)
  /\ \A g, h \in Link!Actor : g # h /\ linking[g].name \in Deleting /\ linking[h].name \in Deleting
                              => linking[g].invites \cap linking[h].invites = {}

\* A session that a transaction has burned is open until its commit, and burned by it alone.
BurnedStay ==
  /\ \A h \in Link!Actor : linking[h].name = "submitting"
       => session[linking[h].session].state = "open"
  /\ \A g, h \in Link!Actor : linking[g].name = "submitting" /\ linking[h].name = "submitting"
                              /\ linking[g].session = linking[h].session => g = h

Live(s) == session[s].state \in {"open", "submitted"}

\* A session has used its invite up, and an edit comes of a session with its submission.
SessionsTrue ==
  \A s \in Session :
    /\ Live(s) => invite[session[s].invite].state = "used"
    /\ session[s].state \in {"none", "open"} => edits[s] = 0
    /\ edits[s] <= 1

\* Who is at the invites of a lead that nobody raced for is alone, and has seen all there is.
AloneAtWork ==
  \A l \in Linked \ minted :
    /\ \A g, h \in Staff : Link!AtWork(g, l) /\ Link!AtWork(h, l) => g = h
    /\ \A h \in Staff : Link!AtWork(h, l) =>
         /\ linking[h].name # "due" => Link!UnusedInvites(l) \subseteq linking[h].invites
         /\ linking[h].name \in Deleting => Link!OpenSessions(l) \subseteq linking[h].sessions

\* Whoever has an invite, a session or a request under way was verified.
KnownLeads ==
  /\ \A i \in Invite : invite[i].state \in {"unused", "used"} =>
       linked[invite[i].lead].status # "unverified"
  /\ \A s \in Session : session[s].state = "open" => linked[session[s].lead].status # "unverified"
  /\ \A s \in Session : session[s].state = "submitted"
       => linked[session[s].lead].status = "completed"
  /\ \A h \in Link!Actor : linking[h].name \in Works
       => linked[linking[h].lead].status # "unverified"

\* A lead is released while it is verified and nothing more; then nobody is at its invites.
ReleaseStands ==
  \A l \in Linked \ minted :
    /\ \A h \in Staff : Link!AtWork(h, l) =>
         /\ ~linked[l].released
         /\ linking[h].name \in {"release", "releasing"} => linked[l].status = "verified"
    /\ linked[l].released => linked[l].status = "verified"

LinkIInv ==
  /\ Link!TypeOK /\ StaffWorks /\ DeletedStay /\ BurnedStay /\ SessionsTrue
  /\ AloneAtWork /\ KnownLeads /\ ReleaseStands
  /\ Link!OneDoorUnlessRaced /\ Link!ReleasedIsShut /\ Link!OneSessionPerInvite
       /\ Link!SessionWithinInvite

-------------------------------------------------------------------------------
(* The fields of rows and of transactions.                                   *)

LEMMA OpFields ==
  ASSUME Link!TypeOK, NEW h \in Link!Actor
  PROVE  /\ linking[h].name \in {"idle", "due", "mint", "release", "sessions", "releasing", "open",
                                 "submit", "submitting"}
         /\ linking[h].name \in Works => linking[h].lead \in Linked
         /\ linking[h].name \in {"mint", "release", "sessions", "releasing"} =>
                   linking[h].invites \subseteq Invite
         /\ linking[h].name \in Deleting => linking[h].sessions \subseteq Session
         /\ linking[h].name = "open" => linking[h].invite \in Invite
         /\ linking[h].name \in {"submit", "submitting"} =>
                   linking[h].session \in Session
                     /\ linking[h] \in [name: {"submit", "submitting"}, session: Session]
<1>1. linking[h] \in Link!Op
  BY DEF Link!TypeOK
<1> QED BY <1>1 DEF Link!Op, Link!Idle, Works, Deleting

LEMMA InviteFields ==
  ASSUME Link!TypeOK, NEW i \in Invite
  PROVE  /\ invite[i] \in Link!InviteRow
         /\ invite[i].state \in {"none", "gone", "unused", "used"}
         /\ invite[i].state \in {"unused", "used"} =>
              /\ invite[i] \in [state: {"unused", "used"}, lead: Linked, left: 0..InviteTTL]
              /\ invite[i].lead \in Linked /\ invite[i].left \in 0..InviteTTL
<1>1. invite[i] \in Link!InviteRow
  BY DEF Link!TypeOK
<1> QED BY <1>1 DEF Link!InviteRow, Link!None, Link!Gone

LEMMA SessionFields ==
  ASSUME Link!TypeOK, NEW s \in Session
  PROVE  /\ session[s] \in Link!SessionRow
         /\ session[s].state \in {"none", "gone", "open", "submitted"}
         /\ session[s].state \in {"open", "submitted"} =>
              /\ session[s] \in [state: {"open", "submitted"}, invite: Invite, lead: Linked,
                                 left: 0..SessionTTL]
              /\ session[s].lead \in Linked /\ session[s].invite \in Invite
              /\ session[s].left \in 0..SessionTTL
<1>1. session[s] \in Link!SessionRow
  BY DEF Link!TypeOK
<1> QED BY <1>1 DEF Link!SessionRow, Link!None, Link!Gone

-------------------------------------------------------------------------------
(* A step that moves one transaction.                                        *)

Moves(h, next) ==
  /\ linking' = [linking EXCEPT ![h] = next]
  /\ next \in Link!Op

\* A step on leads that releases nobody, and verifies at most.
LeadsKept ==
  /\ linked' \in [Linked -> Link!LeadRow]
  /\ \A m \in Linked :
       /\ linked'[m].released = linked[m].released
       /\ \/ linked'[m].status = linked[m].status
          \/ linked[m].status = "unverified" /\ linked'[m].status = "verified"

LEMMA LeadsRest == Link!TypeOK /\ UNCHANGED linked => LeadsKept
  BY DEF Link!TypeOK, LeadsKept

\* What of the invariant speaks of the rows alone.
RowsTrue ==
  SessionsTrue /\ Link!OneDoorUnlessRaced /\ Link!ReleasedIsShut /\ Link!OneSessionPerInvite
  /\ Link!SessionWithinInvite

LEMMA RowsRest ==
  ASSUME RowsTrue, LeadsKept, UNCHANGED <<invite, session, edits>>, minted \subseteq minted'
  PROVE  RowsTrue'
<1> USE DEF RowsTrue
<1>1. SessionsTrue'
  BY DEF SessionsTrue, Live
<1>2. Link!OneDoorUnlessRaced'
  BY DEF Link!OneDoorUnlessRaced, Link!UnusedInvites, Link!OpenSessions
<1>3. Link!ReleasedIsShut'
  BY DEF Link!ReleasedIsShut, Link!UnusedInvites, Link!OpenSessions, LeadsKept
<1>4. Link!OneSessionPerInvite'
  BY DEF Link!OneSessionPerInvite
<1>5. Link!SessionWithinInvite'
  BY DEF Link!SessionWithinInvite
<1> QED BY <1>1, <1>2, <1>3, <1>4, <1>5

\* What of it speaks of one transaction at a time.
OneTrue(h) ==
  /\ linking[h].name \in Works => h \in Staff /\ linked[linking[h].lead].status # "unverified"
  /\ linking[h].name \in Deleting
       => linking[h].invites \subseteq Link!UnusedInvites(linking[h].lead)
  /\ linking[h].name = "submitting" => session[linking[h].session].state = "open"

LEMMA Ones == LinkIInv => \A h \in Link!Actor : OneTrue(h)
  BY DEF LinkIInv, StaffWorks, KnownLeads, DeletedStay, BurnedStay, OneTrue

\* A transaction that begins a stage which leaves the rows as they are.
LEMMA MoveKeeps ==
  ASSUME Link!EditLinkAssumption, LinkIInv, NEW h \in Link!Actor, NEW next, Moves(h, next),
         LeadsKept, UNCHANGED <<invite, session, edits>>, minted' \in SUBSET Linked, minted \subseteq minted',
         OneTrue(h)',
         next.name \in Deleting =>
           \A g \in Link!Actor \ {h} : linking[g].name \in Deleting
             => linking[g].invites \cap next.invites = {},
         next.name = "submitting" =>
           \A g \in Link!Actor \ {h} : ~(linking[g].name = "submitting"
             /\ linking[g].session = next.session),
         AloneAtWork', ReleaseStands'
  PROVE  LinkIInv'
<1>0. linking' \in [Link!Actor -> Link!Op] /\ linking'[h] = next
        /\ \A g \in Link!Actor \ {h} : linking'[g] = linking[g]
  BY DEF Moves, LinkIInv, Link!TypeOK
<1>1. Link!TypeOK'
  BY <1>0 DEF LinkIInv, Link!TypeOK, LeadsKept
<1>2. \A g \in Link!Actor : OneTrue(g)'
  <2> SUFFICES ASSUME NEW g \in Link!Actor, g # h PROVE OneTrue(g)'
    OBVIOUS
  <2>1. linking'[g] = linking[g]
    BY <1>0
  <2>2. linking[g].name \in Works => linking[g].lead \in Linked
    BY OpFields DEF LinkIInv
  <2>3. g \in Link!Actor /\ OneTrue(g)
    BY Ones
  <2> QED BY <2>1, <2>2, <2>3 DEF OneTrue, Link!UnusedInvites, LeadsKept
<1>3. StaffWorks' /\ KnownLeads'
  <2>1. StaffWorks' /\ \A g \in Link!Actor : linking'[g].name \in Works
          => linked'[linking'[g].lead].status # "unverified"
    BY <1>2 DEF OneTrue, StaffWorks
  <2>2. \A i \in Invite : invite[i].state \in {"unused", "used"} =>
          linked'[invite[i].lead].status # "unverified"
    BY InviteFields DEF KnownLeads, LinkIInv, LeadsKept
  <2>3. \A s \in Session : /\ session[s].state = "open" => linked'[session[s].lead].status # "unverified"
                           /\ session[s].state = "submitted"
                                => linked'[session[s].lead].status = "completed"
    BY SessionFields DEF KnownLeads, LinkIInv, LeadsKept
  <2> QED BY <2>1, <2>2, <2>3 DEF KnownLeads
<1>4. DeletedStay'
  BY <1>0, <1>2 DEF OneTrue, DeletedStay, LinkIInv
<1>5. BurnedStay'
  BY <1>0, <1>2 DEF OneTrue, BurnedStay, LinkIInv
<1>6. RowsTrue'
  BY RowsRest DEF LinkIInv, RowsTrue
<1> QED BY <1>1, <1>3, <1>4, <1>5, <1>6 DEF LinkIInv, RowsTrue

\* A transaction that is at nobody's invites, or leaves them.
LEMMA LeaveKeeps ==
  ASSUME LinkIInv, NEW h \in Link!Actor, NEW next, Moves(h, next), next.name \notin Works,
         UNCHANGED <<linked, invite, session, edits, minted>>
  PROVE  AloneAtWork' /\ ReleaseStands'
<1>1. \A g \in Staff : g # h => linking'[g] = linking[g]
  BY DEF Moves, LinkIInv, Link!TypeOK, Link!Actor
<1>2. linking'[h] = next
  BY DEF Moves, LinkIInv, Link!TypeOK
<1>3. \A g \in Staff, l \in Linked : Link!AtWork(g, l)'
        => linking'[g] = linking[g] /\ Link!AtWork(g, l)
  BY <1>1, <1>2 DEF Link!AtWork, Works
<1>4. AloneAtWork'
  BY <1>3 DEF LinkIInv, AloneAtWork, Link!UnusedInvites, Link!OpenSessions
<1>5. ReleaseStands'
  BY <1>3 DEF LinkIInv, ReleaseStands
<1> QED BY <1>4, <1>5

\* A transaction that goes on with the invites of the same lead.
LEMMA GoesOn ==
  ASSUME LinkIInv, NEW h \in Staff, NEW next, Moves(h, next),
         linking[h].name \in Works, next.name \in Works, next.lead = linking[h].lead,
         next.name \in {"release", "releasing"} => linking[h].name = "release",
         linking[h].lead \notin minted /\ next.name # "due"
           => Link!UnusedInvites(linking[h].lead) \subseteq next.invites,
         next.name \in Deleting => Link!OpenSessions(linking[h].lead) \subseteq next.sessions,
         UNCHANGED <<linked, invite, session, edits, minted>>
  PROVE  AloneAtWork' /\ ReleaseStands'
<1>1. \A g \in Staff : g # h => linking'[g] = linking[g]
  BY DEF Moves, LinkIInv, Link!TypeOK, Link!Actor
<1>2. linking'[h] = next
  BY DEF Moves, LinkIInv, Link!TypeOK, Link!Actor
<1>3. \A g \in Staff, l \in Linked : Link!AtWork(g, l)' => Link!AtWork(g, l)
  BY <1>1, <1>2 DEF Link!AtWork, Works
<1>4. AloneAtWork'
  <2>1. ASSUME NEW l \in Linked \ minted, NEW g \in Staff, Link!AtWork(g, l)'
        PROVE  /\ linking'[g].name # "due" => Link!UnusedInvites(l) \subseteq linking'[g].invites
               /\ linking'[g].name \in Deleting
                    => Link!OpenSessions(l) \subseteq linking'[g].sessions
    <3>1. CASE g = h
      BY <1>2, <2>1, <3>1 DEF Link!AtWork
    <3>2. CASE g # h
      BY <1>1, <1>3, <2>1, <3>2 DEF LinkIInv, AloneAtWork
    <3> QED BY <3>1, <3>2
  <2> QED BY <1>3, <2>1 DEF LinkIInv, AloneAtWork, Link!UnusedInvites, Link!OpenSessions
<1>5. ReleaseStands'
  <2>1. ASSUME NEW l \in Linked \ minted, NEW g \in Staff, Link!AtWork(g, l)'
        PROVE  /\ ~linked[l].released
               /\ linking'[g].name \in {"release", "releasing"} => linked[l].status = "verified"
    <3>1. CASE g = h
      BY <1>2, <1>3, <2>1, <3>1 DEF LinkIInv, ReleaseStands
    <3>2. CASE g # h
      BY <1>1, <1>3, <2>1, <3>2 DEF LinkIInv, ReleaseStands
    <3> QED BY <3>1, <3>2
  <2> QED BY <2>1 DEF LinkIInv, ReleaseStands
<1> QED BY <1>4, <1>5

\* A transaction that turns to the invites of a lead, which is not released.
LEMMA Begins ==
  ASSUME Link!EditLinkAssumption, LinkIInv, NEW h \in Staff, NEW l \in Linked, NEW next,
         Link!Begin(h, l, next), next \in Link!Op,
         next.name \in {"due", "release"}, next.lead = l,
         next.name = "release" => linked[l].status = "verified"
           /\ next.invites = Link!UnusedInvites(l),
         l \notin minted => ~linked[l].released,
         linked'[l].status # "unverified",
         LeadsKept, UNCHANGED <<invite, session, edits>>
  PROVE  LinkIInv'
<1>1. Moves(h, next) /\ minted' \in SUBSET Linked /\ minted \subseteq minted' /\ h \in Link!Actor
  BY DEF Link!Begin, Link!Become, Moves, LinkIInv, Link!TypeOK, Link!Actor
<1>2. \A g \in Staff : g # h => linking'[g] = linking[g]
  BY <1>1 DEF Moves, LinkIInv, Link!TypeOK, Link!Actor
<1>3. linking'[h] = next
  BY <1>1 DEF Moves, LinkIInv, Link!TypeOK, Link!Actor
<1>4. \A g \in Staff, m \in Linked : Link!AtWork(g, m)' => Link!AtWork(g, m) \/ (g = h /\ m = l)
  BY <1>2, <1>3 DEF Link!AtWork, Works
<1>5. l \notin minted' => \A g \in Staff : Link!AtWork(g, l)' => g = h
  <2> SUFFICES ASSUME NEW g \in Staff, Link!AtWork(g, l)', g # h PROVE l \in minted'
    OBVIOUS
  <2>1. Link!AtWork(g, l)
    BY <1>4
  <2> QED BY <2>1 DEF Link!Begin
<1>6. AloneAtWork'
  <2>1. ASSUME NEW m \in Linked \ minted', NEW g \in Staff, Link!AtWork(g, m)'
        PROVE  /\ linking'[g].name # "due" => Link!UnusedInvites(m) \subseteq linking'[g].invites
               /\ linking'[g].name \in Deleting
                    => Link!OpenSessions(m) \subseteq linking'[g].sessions
    <3>1. CASE g = h
      BY <1>3, <2>1, <3>1 DEF Link!AtWork, Deleting
    <3>2. CASE g # h
      <4>1. m \notin minted /\ linking'[g] = linking[g] /\ Link!AtWork(g, m)
        BY <1>1, <1>2, <2>1, <3>2 DEF Link!AtWork
      <4> QED BY <4>1 DEF LinkIInv, AloneAtWork
    <3> QED BY <3>1, <3>2
  <2>2. ASSUME NEW m \in Linked \ minted', NEW f \in Staff, NEW g \in Staff, Link!AtWork(f, m)', Link!AtWork(g, m)'
        PROVE  f = g
    <3>1. CASE m = l
      BY <1>5, <2>2, <3>1
    <3>2. CASE m # l
      <4>1. m \notin minted /\ Link!AtWork(f, m) /\ Link!AtWork(g, m)
        BY <1>1, <1>4, <2>2, <3>2
      <4> QED BY <4>1 DEF LinkIInv, AloneAtWork
    <3> QED BY <3>1, <3>2
  <2> QED BY <2>1, <2>2 DEF AloneAtWork, Link!UnusedInvites, Link!OpenSessions
<1>7. ReleaseStands'
  <2>1. ASSUME NEW m \in Linked \ minted', NEW g \in Staff, Link!AtWork(g, m)'
        PROVE  /\ ~linked'[m].released
               /\ linking'[g].name \in {"release", "releasing"} => linked'[m].status = "verified"
    <3>1. CASE g = h
      BY <1>1, <1>3, <2>1, <3>1 DEF Link!AtWork, LeadsKept
    <3>2. CASE g # h
      <4>1. m \notin minted /\ linking'[g] = linking[g] /\ Link!AtWork(g, m)
        BY <1>1, <1>2, <2>1, <3>2 DEF Link!AtWork
      <4> QED BY <4>1 DEF LinkIInv, ReleaseStands, LeadsKept
    <3> QED BY <3>1, <3>2
  <2>2. \A m \in Linked \ minted' : linked'[m].released => linked'[m].status = "verified"
    BY <1>1 DEF LinkIInv, ReleaseStands, LeadsKept
  <2> QED BY <2>1, <2>2 DEF ReleaseStands
<1>8. OneTrue(h)'
  BY <1>3 DEF OneTrue, Deleting, Works
<1>9. next.name \notin Deleting /\ next.name # "submitting"
  BY DEF Deleting
<1> QED BY <1>1, <1>6, <1>7, <1>8, <1>9, MoveKeeps

-------------------------------------------------------------------------------
(* The steps that leave the rows as they are.                                *)

LEMMA IInvTyped == LinkIInv => Link!TypeOK
  BY DEF LinkIInv

LEMMA ReissueKeeps ==
  ASSUME Link!EditLinkAssumption, LinkIInv, NEW h \in Staff, NEW l \in Linked, Link!Reissue(h, l)
  PROVE  LinkIInv'
<1>1. Link!Due(l) \in Link!Op /\ Link!Due(l).name = "due" /\ Link!Due(l).lead = l
  BY DEF Link!Due, Link!Op
<1>2. Link!Begin(h, l, Link!Due(l)) /\ ~linked[l].released /\ linked[l].status # "unverified"
      /\ UNCHANGED <<linked, invite, session, edits>>
  BY DEF Link!Reissue, Link!LiveOwner
<1> QED BY LeadsRest, IInvTyped, <1>1, <1>2, Begins

LEMMA RejectKeeps ==
  ASSUME Link!EditLinkAssumption, LinkIInv, NEW h \in Staff, NEW l \in Linked, Link!Reject(h, l)
  PROVE  LinkIInv'
<1>1. Link!Due(l) \in Link!Op /\ Link!Due(l).name = "due" /\ Link!Due(l).lead = l
  BY DEF Link!Due, Link!Op
<1>2. Link!Begin(h, l, Link!Due(l)) /\ UNCHANGED <<linked, invite, session, edits>>
  BY DEF Link!Reject
<1>3. linked[l].status = "completed"
  BY DEF Link!Reject, LinkIInv, KnownLeads
<1>4. l \notin minted => ~linked[l].released
  BY <1>3 DEF LinkIInv, ReleaseStands
<1> QED BY LeadsRest, IInvTyped, <1>1, <1>2, <1>3, <1>4, Begins

LEMMA ReleaseKeeps ==
  ASSUME Link!EditLinkAssumption, LinkIInv, NEW h \in Staff, NEW l \in Linked, Link!Release(h, l)
  PROVE  LinkIInv'
<1> DEFINE next == [name |-> "release", lead |-> l, invites |-> Link!UnusedInvites(l)]
<1>1. next \in Link!Op /\ next.name = "release" /\ next.lead = l
        /\ next.invites = Link!UnusedInvites(l)
  BY DEF Link!Op, Link!UnusedInvites
<1>2. Link!Begin(h, l, next) /\ linked[l].status = "verified" /\ ~linked[l].released
      /\ UNCHANGED <<linked, invite, session, edits>>
  BY DEF Link!Release
<1> HIDE DEF next
<1> QED BY LeadsRest, IInvTyped, <1>1, <1>2, Begins

\* The invites and sessions of a lead are ids.
LEMMA Ids == \A l \in Linked : Link!UnusedInvites(l) \subseteq Invite
        /\ Link!OpenSessions(l) \subseteq Session
  BY DEF Link!UnusedInvites, Link!OpenSessions

LEMMA MintKeeps ==
  ASSUME Link!EditLinkAssumption, LinkIInv, NEW h \in Staff, Link!Mint(h)
  PROVE  LinkIInv'
<1>0. h \in Link!Actor /\ Link!TypeOK
  BY DEF Link!Actor, LinkIInv
<1> DEFINE next == [name |-> "mint", lead |-> linking[h].lead, invites |-> Link!UnusedInvites(linking[h].lead)]
<1>1. linking[h].name = "due" /\ linking[h].lead \in Linked /\ linking[h].name \in Works
  BY <1>0, OpFields DEF Link!Mint, Works
<1>2. next \in Link!Op /\ next.name = "mint" /\ next.lead = linking[h].lead
      /\ next.invites = Link!UnusedInvites(linking[h].lead)
  BY <1>1, Ids DEF Link!Op
<1>3. Moves(h, next) /\ UNCHANGED <<linked, invite, session, edits, minted>>
  BY <1>2 DEF Link!Mint, Link!Become, Moves
<1> HIDE DEF next
<1>4. AloneAtWork' /\ ReleaseStands'
  BY <1>1, <1>2, <1>3, GoesOn DEF Works, Deleting
<1>5. linking'[h] = next
  BY <1>0, <1>3 DEF Moves, Link!TypeOK
<1>6. OneTrue(h)'
  BY <1>0, <1>1, <1>2, <1>3, <1>5, Ones DEF OneTrue, Works, Deleting
<1>7. next.name \notin Deleting /\ next.name # "submitting" /\ minted' \in SUBSET Linked
  BY <1>0, <1>2, <1>3 DEF Deleting, Link!TypeOK
<1> QED BY <1>0, <1>3, <1>4, <1>6, <1>7, LeadsRest, MoveKeeps

\* The two stages that hold what they have deleted.
LEMMA DeletesKeep ==
  ASSUME Link!EditLinkAssumption, LinkIInv, NEW h \in Staff,
         linking[h].name \in {"mint", "release"}, \A i \in linking[h].invites : ~Link!InviteHeld(i, h),
         NEW next, next \in Link!Op, Link!Become(h, next), next.name \in Deleting, next.lead
           = linking[h].lead,
         next.name = "releasing" => linking[h].name = "release",
         next.invites = linking[h].invites \cap Link!UnusedInvites(linking[h].lead),
         next.sessions = Link!OpenSessions(linking[h].lead),
         UNCHANGED <<linked, invite, session, edits, minted>>
  PROVE  LinkIInv'
<1>0. h \in Link!Actor /\ Link!TypeOK
  BY DEF Link!Actor, LinkIInv
<1>1. linking[h].lead \in Linked /\ linking[h].name \in Works
  BY <1>0, OpFields DEF Works
<1>2. Moves(h, next) /\ next.name \in Works /\ next.name # "submitting"
  BY DEF Link!Become, Moves, Deleting, Works
<1>3. linking'[h] = next
  BY <1>0, <1>2 DEF Moves, Link!TypeOK
<1>4. OneTrue(h)'
  BY <1>0, <1>1, <1>2, <1>3, Ones DEF OneTrue, Link!UnusedInvites
<1>5. \A g \in Link!Actor \ {h} : linking[g].name \in Deleting
        => linking[g].invites \cap next.invites = {}
  BY DEF Link!InviteHeld, Deleting
<1>6. minted' \in SUBSET Linked
  BY <1>0 DEF Link!TypeOK
<1>7. AloneAtWork' /\ ReleaseStands'
  <2>1. linking[h].lead \notin minted
          => Link!UnusedInvites(linking[h].lead) \subseteq linking[h].invites
    BY <1>0, <1>1 DEF LinkIInv, AloneAtWork, Link!AtWork
  <2> QED BY <1>1, <1>2, <2>1, GoesOn DEF Deleting
<1> QED BY <1>0, <1>2, <1>4, <1>5, <1>6, <1>7, LeadsRest, MoveKeeps

LEMMA DeleteInvitesKeeps ==
  ASSUME Link!EditLinkAssumption, LinkIInv, NEW h \in Staff, Link!DeleteInvites(h)
  PROVE  LinkIInv'
<1> DEFINE next == [name |-> "sessions", lead |-> linking[h].lead,
                    invites |-> linking[h].invites \cap Link!UnusedInvites(linking[h].lead),
                    sessions |-> Link!OpenSessions(linking[h].lead)]
<1>1. linking[h].name = "mint" /\ linking[h].lead \in Linked /\ linking[h].invites \subseteq Invite
  BY OpFields DEF Link!DeleteInvites, Works, Link!Actor, LinkIInv
<1>2. next \in Link!Op /\ next.name = "sessions" /\ next.lead = linking[h].lead
      /\ next.invites = linking[h].invites \cap Link!UnusedInvites(linking[h].lead)
      /\ next.sessions = Link!OpenSessions(linking[h].lead)
  BY <1>1, Ids DEF Link!Op
<1>3. Link!Become(h, next) /\ UNCHANGED <<linked, invite, session, edits, minted>>
      /\ \A i \in linking[h].invites : ~Link!InviteHeld(i, h)
  BY DEF Link!DeleteInvites
<1> HIDE DEF next
<1> QED BY <1>1, <1>2, <1>3, DeletesKeep DEF Deleting

LEMMA ReleaseInvitesKeeps ==
  ASSUME Link!EditLinkAssumption, LinkIInv, NEW h \in Staff, Link!ReleaseInvites(h)
  PROVE  LinkIInv'
<1> DEFINE next == [name |-> "releasing", lead |-> linking[h].lead,
                    invites |-> linking[h].invites \cap Link!UnusedInvites(linking[h].lead),
                    sessions |-> Link!OpenSessions(linking[h].lead)]
<1>1. linking[h].name = "release" /\ linking[h].lead \in Linked
        /\ linking[h].invites \subseteq Invite
  BY OpFields DEF Link!ReleaseInvites, Works, Link!Actor, LinkIInv
<1>2. next \in Link!Op /\ next.name = "releasing" /\ next.lead = linking[h].lead
      /\ next.invites = linking[h].invites \cap Link!UnusedInvites(linking[h].lead)
      /\ next.sessions = Link!OpenSessions(linking[h].lead)
  BY <1>1, Ids DEF Link!Op
<1>3. Link!Become(h, next) /\ UNCHANGED <<linked, invite, session, edits, minted>>
      /\ \A i \in linking[h].invites : ~Link!InviteHeld(i, h)
  BY DEF Link!ReleaseInvites
<1> HIDE DEF next
<1> QED BY <1>1, <1>2, <1>3, DeletesKeep DEF Deleting

\* A transaction that is at nobody's invites.
LEMMA AsideKeeps ==
  ASSUME Link!EditLinkAssumption, LinkIInv, NEW h \in Link!Actor, NEW next, next \in Link!Op,
         Link!Become(h, next),
         next.name \in {"idle", "open", "submit", "submitting"},
         next.name = "submitting" => /\ session[next.session].state = "open"
                                     /\ ~Link!SessionHeld(next.session, h),
         UNCHANGED <<linked, invite, session, edits, minted>>
  PROVE  LinkIInv'
<1>0. Link!TypeOK
  BY DEF LinkIInv
<1>1. Moves(h, next) /\ next.name \notin Works /\ next.name \notin Deleting
  BY DEF Link!Become, Moves, Works, Deleting
<1>2. linking'[h] = next
  BY <1>0, <1>1 DEF Moves, Link!TypeOK
<1>3. AloneAtWork' /\ ReleaseStands'
  BY <1>1, LeaveKeeps
<1>4. OneTrue(h)'
  BY <1>1, <1>2 DEF OneTrue
<1>5. next.name = "submitting" =>
        \A g \in Link!Actor \ {h} : ~(linking[g].name = "submitting"
          /\ linking[g].session = next.session)
  BY DEF Link!SessionHeld
<1>6. minted' \in SUBSET Linked
  BY <1>0 DEF Link!TypeOK
<1> QED BY <1>0, <1>1, <1>3, <1>4, <1>5, <1>6, LeadsRest, MoveKeeps

LEMMA IdleIs == Link!Idle \in Link!Op /\ Link!Idle.name = "idle"
  BY DEF Link!Idle, Link!Op

LEMMA OpenKeeps ==
  ASSUME Link!EditLinkAssumption, LinkIInv, NEW h \in Contact, Link!Open(h)
  PROVE  LinkIInv'
<1>1. PICK i \in Invite : Link!Become(h, [name |-> "open", invite |-> i])
  BY DEF Link!Open
<1>2. [name |-> "open", invite |-> i] \in Link!Op
  BY DEF Link!Op
<1>3. [name |-> "open", invite |-> i].name = "open" /\ h \in Link!Actor
  BY DEF Link!Actor
<1>4. UNCHANGED <<linked, invite, session, edits, minted>>
  BY DEF Link!Open
<1> QED BY <1>1, <1>2, <1>3, <1>4, AsideKeeps

LEMMA SubmitKeeps ==
  ASSUME Link!EditLinkAssumption, LinkIInv, NEW h \in Contact, Link!Submit(h)
  PROVE  LinkIInv'
<1>1. PICK s \in Session : Link!Become(h, [name |-> "submit", session |-> s])
  BY DEF Link!Submit
<1>2. [name |-> "submit", session |-> s] \in Link!Op
  BY DEF Link!Op
<1>3. [name |-> "submit", session |-> s].name = "submit" /\ h \in Link!Actor
  BY DEF Link!Actor
<1>4. UNCHANGED <<linked, invite, session, edits, minted>>
  BY DEF Link!Submit
<1> QED BY <1>1, <1>2, <1>3, <1>4, AsideKeeps

LEMMA RollbackKeeps ==
  ASSUME Link!EditLinkAssumption, LinkIInv, NEW h \in Link!Actor, Link!Rollback(h)
  PROVE  LinkIInv'
<1>1. Link!Become(h, Link!Idle) /\ UNCHANGED <<linked, invite, session, edits, minted>>
  BY DEF Link!Rollback
<1> QED BY <1>1, IdleIs, AsideKeeps

LEMMA SubmitBurnKeeps ==
  ASSUME Link!EditLinkAssumption, LinkIInv, NEW h \in Contact, Link!SubmitBurn(h)
  PROVE  LinkIInv'
<1>0. h \in Link!Actor /\ Link!TypeOK
  BY DEF Link!Actor, LinkIInv
<1>1. linking[h].name = "submit" /\ ~Link!SessionHeld(linking[h].session, h)
      /\ UNCHANGED <<linked, invite, session, edits, minted>>
  BY DEF Link!SubmitBurn
<1>2. linking[h].session \in Session
        /\ linking[h] \in [name: {"submit", "submitting"}, session: Session]
  BY <1>0, <1>1, OpFields
<1>3. CASE Link!Submittable(linking[h].session)
  <2> DEFINE next == [linking[h] EXCEPT !.name = "submitting"]
  <2>1. next \in [name: {"submit", "submitting"}, session: Session]
        /\ next.name = "submitting" /\ next.session = linking[h].session
    BY <1>2
  <2>2. next \in Link!Op
    BY <2>1 DEF Link!Op
  <2>3. Link!Become(h, next)
    BY <1>3 DEF Link!SubmitBurn
  <2> HIDE DEF next
  <2> QED BY <1>0, <1>1, <1>3, <2>1, <2>2, <2>3, AsideKeeps DEF Link!Submittable
<1>4. CASE ~Link!Submittable(linking[h].session)
  <2>1. Link!Become(h, Link!Idle)
    BY <1>4 DEF Link!SubmitBurn
  <2> QED BY <1>0, <1>1, <2>1, IdleIs, AsideKeeps
<1> QED BY <1>3, <1>4

\* The claim of a company: nobody was at the invites of its lead, which has none.
LEMMA VerifyKeeps ==
  ASSUME Link!EditLinkAssumption, LinkIInv, NEW h \in Staff, NEW l \in Linked, Link!Verify(h, l)
  PROVE  LinkIInv'
<1>1. Link!Due(l) \in Link!Op /\ Link!Due(l).name = "due" /\ Link!Due(l).lead = l
  BY DEF Link!Due, Link!Op
<1>2. Link!Begin(h, l, Link!Due(l))
        /\ UNCHANGED <<invite, session, edits>> /\ linked[l].status = "unverified"
  BY DEF Link!Verify
<1>3. l \notin minted => ~linked[l].released
  BY <1>2 DEF LinkIInv, ReleaseStands
<1>4. LeadsKept /\ linked'[l].status # "unverified"
  BY <1>2 DEF Link!Verify, LeadsKept, LinkIInv, Link!TypeOK, Link!LeadRow
<1> QED BY <1>1, <1>2, <1>3, <1>4, Begins

-------------------------------------------------------------------------------
(* The steps that change rows.                                               *)

\* Time changes what is left, and nothing else of a row.
LEMMA AgedRows ==
  ASSUME Link!EditLinkAssumption, Link!TypeOK
  PROVE  /\ \A i \in Invite :
              /\ Link!Aged(invite[i]) \in Link!InviteRow
              /\ Link!Aged(invite[i]).state = invite[i].state
              /\ invite[i].state \in {"unused", "used"} =>
                   /\ Link!Aged(invite[i]).lead = invite[i].lead
                   /\ Link!Aged(invite[i]).left =
                        IF invite[i].left > 0 THEN invite[i].left - 1 ELSE invite[i].left
         /\ \A s \in Session :
              /\ Link!Aged(session[s]) \in Link!SessionRow
              /\ Link!Aged(session[s]).state = session[s].state
              /\ session[s].state \in {"open", "submitted"} =>
                   /\ Link!Aged(session[s]).lead = session[s].lead
                   /\ Link!Aged(session[s]).invite = session[s].invite
              /\ session[s].state = "open" =>
                   Link!Aged(session[s]).left =
                     IF session[s].left > 0 THEN session[s].left - 1 ELSE session[s].left
<1>1. ASSUME NEW i \in Invite
      PROVE  /\ Link!Aged(invite[i]) \in Link!InviteRow
             /\ Link!Aged(invite[i]).state = invite[i].state
             /\ invite[i].state \in {"unused", "used"} =>
                  /\ Link!Aged(invite[i]).lead = invite[i].lead
                  /\ Link!Aged(invite[i]).left =
                       IF invite[i].left > 0 THEN invite[i].left - 1 ELSE invite[i].left
  <2>1. CASE invite[i].state \in {"unused", "used"}
    <3>1. invite[i] \in [state: {"unused", "used"}, lead: Linked, left: 0..InviteTTL]
      BY <2>1, InviteFields
    <3>2. CASE invite[i].left > 0
      <4>1. Link!Aged(invite[i]) = [invite[i] EXCEPT !.left = @ - 1]
        BY <2>1, <3>2 DEF Link!Aged
      <4>2. invite[i].left - 1 \in 0..InviteTTL
        BY <3>1, <3>2 DEF Link!EditLinkAssumption
      <4> QED BY <3>1, <3>2, <4>1, <4>2 DEF Link!InviteRow
    <3>3. CASE ~(invite[i].left > 0)
      BY <2>1, <3>1, <3>3 DEF Link!Aged, Link!InviteRow
    <3> QED BY <3>2, <3>3
  <2>2. CASE invite[i].state \in {"none", "gone"}
    BY <2>2, InviteFields DEF Link!Aged
  <2> QED BY <2>1, <2>2, InviteFields
<1>2. ASSUME NEW s \in Session
      PROVE  /\ Link!Aged(session[s]) \in Link!SessionRow
             /\ Link!Aged(session[s]).state = session[s].state
             /\ session[s].state \in {"open", "submitted"} =>
                  /\ Link!Aged(session[s]).lead = session[s].lead
                  /\ Link!Aged(session[s]).invite = session[s].invite
             /\ session[s].state = "open" =>
                  Link!Aged(session[s]).left =
                    IF session[s].left > 0 THEN session[s].left - 1 ELSE session[s].left
  <2>1. CASE session[s].state = "open" /\ session[s].left > 0
    <3>1. session[s] \in [state: {"open", "submitted"}, invite: Invite, lead: Linked, left: 0..SessionTTL]
      BY <2>1, SessionFields
    <3>2. Link!Aged(session[s]) = [session[s] EXCEPT !.left = @ - 1]
      BY <2>1 DEF Link!Aged
    <3>3. session[s].left - 1 \in 0..SessionTTL
      BY <2>1, <3>1 DEF Link!EditLinkAssumption
    <3> QED BY <2>1, <3>1, <3>2, <3>3 DEF Link!SessionRow
  <2>2. CASE ~(session[s].state = "open" /\ session[s].left > 0)
    BY <2>2, SessionFields DEF Link!Aged
  <2> QED BY <2>1, <2>2
<1> QED BY <1>1, <1>2

LEMMA TickKeeps ==
  ASSUME Link!EditLinkAssumption, LinkIInv, Link!Tick
  PROVE  LinkIInv'
<1>0. Link!TypeOK
  BY DEF LinkIInv
<1>1. UNCHANGED <<linked, edits, linking, minted>>
  BY DEF Link!Tick
<1>2. \A i \in Invite : /\ invite'[i] = Link!Aged(invite[i])
                        /\ invite'[i].state = invite[i].state
                        /\ invite[i].state \in {"unused", "used"}
                             => invite'[i].lead = invite[i].lead
  BY <1>0, AgedRows DEF Link!Tick
<1>3. \A s \in Session : /\ session'[s] = Link!Aged(session[s])
                         /\ session'[s].state = session[s].state
                         /\ session[s].state \in {"open", "submitted"} =>
                              /\ session'[s].lead = session[s].lead
                              /\ session'[s].invite = session[s].invite
  BY <1>0, AgedRows DEF Link!Tick
<1>4. \A l : Link!UnusedInvites(l)' = Link!UnusedInvites(l)
        /\ Link!OpenSessions(l)' = Link!OpenSessions(l)
  BY <1>2, <1>3 DEF Link!UnusedInvites, Link!OpenSessions
<1>5. Link!TypeOK'
  BY <1>0, <1>1, AgedRows DEF Link!TypeOK, Link!Tick
<1>6. \A h \in Link!Actor : linking'[h] = linking[h] /\ (linking[h].name = "submitting"
        => linking[h].session \in Session)
  BY <1>0, <1>1, OpFields
<1>7. StaffWorks' /\ DeletedStay'
  BY <1>1, <1>4 DEF LinkIInv, StaffWorks, DeletedStay
<1>8. BurnedStay'
  BY <1>1, <1>3, <1>6 DEF LinkIInv, BurnedStay
<1>9. SessionsTrue'
  BY <1>0, <1>1, <1>2, <1>3, SessionFields DEF LinkIInv, SessionsTrue, Live
<1>10. AloneAtWork' /\ ReleaseStands'
  BY <1>1, <1>4 DEF LinkIInv, AloneAtWork, ReleaseStands, Link!AtWork
<1>11. KnownLeads'
  BY <1>1, <1>2, <1>3 DEF LinkIInv, KnownLeads
<1>12. Link!OneDoorUnlessRaced' /\ Link!ReleasedIsShut'
  BY <1>1, <1>4 DEF LinkIInv, Link!OneDoorUnlessRaced, Link!ReleasedIsShut
<1>13. Link!OneSessionPerInvite'
  BY <1>3 DEF LinkIInv, Link!OneSessionPerInvite
<1>14. Link!SessionWithinInvite'
  <2> SUFFICES ASSUME NEW s \in Session, session[s].state = "open"
               PROVE  session'[s].left <= invite'[session'[s].invite].left
    BY <1>3 DEF Link!SessionWithinInvite
  <2> DEFINE i == session[s].invite
  <2>1. i \in Invite /\ session'[s].invite = i /\ invite[i].state = "used"
    BY <1>0, <1>3, SessionFields DEF LinkIInv, SessionsTrue, Live
  <2>2. session[s].left \in Nat /\ invite[i].left \in Nat /\ session[s].left <= invite[i].left
    BY <1>0, <2>1, SessionFields, InviteFields DEF LinkIInv, Link!SessionWithinInvite
  <2>3. session'[s].left = IF session[s].left > 0 THEN session[s].left - 1 ELSE session[s].left
    BY <1>0, <1>3, AgedRows
  <2>4. invite'[i].left = IF invite[i].left > 0 THEN invite[i].left - 1 ELSE invite[i].left
    BY <1>0, <1>2, <2>1, AgedRows
  <2> QED BY <2>1, <2>2, <2>3, <2>4
<1> QED BY <1>5, <1>7, <1>8, <1>9, <1>10, <1>11, <1>12, <1>13, <1>14 DEF LinkIInv

\* The press that burns an unused invite opens a session that was not there.
LEMMA BurnDoes ==
  ASSUME Link!EditLinkAssumption, LinkIInv, NEW h \in Contact, Link!Burn(h),
         Link!Burnable(linking[h].invite)
  PROVE  \E i \in Invite, s \in Session :
           /\ invite[i].state = "unused" /\ session[s].state = "none"
           /\ \A g \in Link!Actor \ {h} : linking[g].name \in Deleting
                => i \notin linking[g].invites
           /\ invite' \in [Invite -> Link!InviteRow] /\ session' \in [Session -> Link!SessionRow]
           /\ invite'[i].state = "used" /\ invite'[i].lead = invite[i].lead
           /\ invite'[i].left = invite[i].left
           /\ \A j \in Invite \ {i} : invite'[j] = invite[j]
           /\ session'[s].state = "open" /\ session'[s].invite = i
           /\ session'[s].lead = invite[i].lead /\ session'[s].left <= invite[i].left
           /\ \A t \in Session \ {s} : session'[t] = session[t]
<1> DEFINE i == linking[h].invite
<1>0. Link!TypeOK /\ h \in Link!Actor
  BY DEF LinkIInv, Link!Actor
<1>1. i \in Invite /\ invite[i].state = "unused" /\ ~Link!InviteHeld(i, h)
  BY <1>0, OpFields DEF Link!Burn, Link!Burnable
<1>2. invite[i] \in [state: {"unused", "used"}, lead: Linked, left: 0..InviteTTL]
  BY <1>0, <1>1, InviteFields
<1>3. PICK s \in Session :
        /\ session[s].state = "none"
        /\ session' = [session EXCEPT
             ![s] = [state |-> "open", invite |-> i, lead |-> invite[i].lead, left |-> Link!SessionLife(i)]]
        /\ invite' = [invite EXCEPT ![i].state = "used"]
  BY DEF Link!Burn
<1>4. Link!SessionLife(i) \in 0..SessionTTL /\ Link!SessionLife(i) <= invite[i].left
  BY <1>2 DEF Link!SessionLife, Link!EditLinkAssumption
<1> DEFINE new == [state |-> "open", invite |-> i, lead |-> invite[i].lead, left |-> Link!SessionLife(i)]
<1>5. new \in Link!SessionRow /\ new.state = "open" /\ new.invite = i /\ new.lead = invite[i].lead
      /\ new.left <= invite[i].left
  BY <1>1, <1>2, <1>4 DEF Link!SessionRow
<1>6. session'[s] = new /\ session' \in [Session -> Link!SessionRow]
      /\ \A t \in Session \ {s} : session'[t] = session[t]
  BY <1>0, <1>3, <1>5 DEF Link!TypeOK
<1> DEFINE old == [invite[i] EXCEPT !.state = "used"]
<1>7. old \in Link!InviteRow /\ old.state = "used" /\ old.lead = invite[i].lead
        /\ old.left = invite[i].left
  BY <1>2 DEF Link!InviteRow
<1>8. invite'[i] = old /\ invite' \in [Invite -> Link!InviteRow]
      /\ \A j \in Invite \ {i} : invite'[j] = invite[j]
  BY <1>0, <1>1, <1>3, <1>7 DEF Link!TypeOK
<1>9. \A g \in Link!Actor \ {h} : linking[g].name \in Deleting => i \notin linking[g].invites
  BY <1>1 DEF Link!InviteHeld, Deleting
<1> HIDE DEF i, new, old
<1> QED BY <1>1, <1>3, <1>5, <1>6, <1>7, <1>8, <1>9

LEMMA BurnKeeps ==
  ASSUME Link!EditLinkAssumption, LinkIInv, NEW h \in Contact, Link!Burn(h)
  PROVE  LinkIInv'
<1>0. Link!TypeOK /\ h \in Link!Actor
  BY DEF LinkIInv, Link!Actor
<1>1. CASE ~Link!Burnable(linking[h].invite)
  BY <1>0, <1>1, IdleIs, AsideKeeps DEF Link!Burn
<1>2. CASE Link!Burnable(linking[h].invite)
  <2>1. PICK i \in Invite, s \in Session :
          /\ invite[i].state = "unused" /\ session[s].state = "none"
          /\ \A g \in Link!Actor \ {h} : linking[g].name \in Deleting => i \notin linking[g].invites
          /\ invite' \in [Invite -> Link!InviteRow] /\ session' \in [Session -> Link!SessionRow]
          /\ invite'[i].state = "used" /\ invite'[i].lead = invite[i].lead
          /\ invite'[i].left = invite[i].left
          /\ \A j \in Invite \ {i} : invite'[j] = invite[j]
          /\ session'[s].state = "open" /\ session'[s].invite = i
          /\ session'[s].lead = invite[i].lead /\ session'[s].left <= invite[i].left
          /\ \A t \in Session \ {s} : session'[t] = session[t]
    BY <1>2, BurnDoes
  <2>2. linking' \in [Link!Actor -> Link!Op] /\ linking'[h] = Link!Idle
          /\ \A g \in Link!Actor \ {h} : linking'[g] = linking[g]
    BY <1>0, IdleIs DEF Link!Burn, Link!Become, Link!TypeOK
  <2>3. UNCHANGED <<linked, edits, minted>>
    BY DEF Link!Burn
  <2>4. invite[i].lead \in Linked
    BY <1>0, <2>1, InviteFields
  <2>5. \A m : Link!UnusedInvites(m)' = Link!UnusedInvites(m) \ {i}
    BY <2>1 DEF Link!UnusedInvites
  <2>6. \A m : Link!OpenSessions(m)' = Link!OpenSessions(m) \cup (IF m
          = invite[i].lead THEN {s} ELSE {})
    BY <2>1 DEF Link!OpenSessions
  <2>7. Link!TypeOK'
    BY <1>0, <2>1, <2>2, <2>3 DEF Link!TypeOK
  <2>8. \A g \in Link!Actor : linking'[g].name \in Works \cup {"submitting"}
          => linking'[g] = linking[g] /\ g # h
    BY <2>2, IdleIs DEF Works
  <2>9. StaffWorks'
    BY <2>8 DEF LinkIInv, StaffWorks
  <2>10. DeletedStay'
    <3>1. \A g \in Link!Actor : linking'[g].name \in Deleting => linking'[g] = linking[g] /\ g # h
      BY <2>8 DEF Works, Deleting
    <3> QED BY <2>1, <2>5, <3>1 DEF LinkIInv, DeletedStay
  <2>11. BurnedStay'
    <3>1. \A g \in Link!Actor : linking[g].name = "submitting"
            => linking[g].session \in Session \ {s}
      BY <1>0, <2>1, OpFields DEF LinkIInv, BurnedStay
    <3> QED BY <2>1, <2>8, <3>1 DEF LinkIInv, BurnedStay
  <2>12. SessionsTrue'
    <3>1. \A t \in Session \ {s} : Live(t) => session[t].invite \in Invite \ {i}
      BY <1>0, <2>1, SessionFields DEF LinkIInv, SessionsTrue, Live
    <3> QED BY <2>1, <2>3, <3>1 DEF LinkIInv, SessionsTrue, Live
  <2>13. \A g \in Staff, m \in Linked : Link!AtWork(g, m)'
           => linking'[g] = linking[g] /\ Link!AtWork(g, m) /\ g \in Link!Actor /\ g # h
    BY <2>8 DEF Link!AtWork, Works, Link!Actor
  <2>14. AloneAtWork'
    <3>1. ASSUME NEW l \in Linked \ minted, NEW g \in Staff, Link!AtWork(g, l)'
          PROVE  /\ linking'[g].name # "due" => Link!UnusedInvites(l)' \subseteq linking'[g].invites
                 /\ linking'[g].name \in Deleting
                      => Link!OpenSessions(l)' \subseteq linking'[g].sessions
      <4>1. linking'[g] = linking[g] /\ Link!AtWork(g, l) /\ g \in Link!Actor \ {h}
        BY <2>13, <3>1
      <4>2. /\ linking[g].name # "due" => Link!UnusedInvites(l) \subseteq linking[g].invites
            /\ linking[g].name \in Deleting => Link!OpenSessions(l) \subseteq linking[g].sessions
        BY <4>1 DEF LinkIInv, AloneAtWork
      <4>3. linking[g].name \in Deleting => l # invite[i].lead
        <5> SUFFICES ASSUME linking[g].name \in Deleting, l = invite[i].lead PROVE FALSE
          OBVIOUS
        <5>1. i \in Link!UnusedInvites(l)
          BY <2>1 DEF Link!UnusedInvites
        <5> QED BY <2>1, <4>1, <4>2, <5>1 DEF Deleting
      <4> QED BY <2>5, <2>6, <4>1, <4>2, <4>3
    <3> QED BY <2>3, <2>13, <3>1 DEF LinkIInv, AloneAtWork
  <2>15. KnownLeads'
    <3>1. \A g \in Link!Actor : linking'[g].name \in Works
            => linked[linking'[g].lead].status # "unverified"
      BY <2>8 DEF LinkIInv, KnownLeads
    <3>2. \A j \in Invite : invite'[j].state \in {"unused", "used"} =>
            linked[invite'[j].lead].status # "unverified"
      BY <2>1 DEF LinkIInv, KnownLeads
    <3>3. \A t \in Session : /\ session'[t].state = "open"
                                  => linked[session'[t].lead].status # "unverified"
                             /\ session'[t].state = "submitted"
                                  => linked[session'[t].lead].status = "completed"
      BY <2>1 DEF LinkIInv, KnownLeads
    <3> QED BY <2>3, <3>1, <3>2, <3>3 DEF KnownLeads
  <2>16. ReleaseStands'
    BY <2>3, <2>13 DEF LinkIInv, ReleaseStands
  <2>17. i \in Link!UnusedInvites(invite[i].lead)
    BY <2>1 DEF Link!UnusedInvites
  <2>18. Link!OneDoorUnlessRaced'
    <3> SUFFICES ASSUME NEW l \in Linked \ minted
                 PROVE  /\ \A j, k \in Link!UnusedInvites(l)' : j = k
                        /\ \A t, u \in Link!OpenSessions(l)' : t = u
                        /\ Link!UnusedInvites(l)' = {} \/ Link!OpenSessions(l)' = {}
      BY <2>3 DEF Link!OneDoorUnlessRaced
    <3>1. /\ \A j, k \in Link!UnusedInvites(l) : j = k
          /\ \A t, u \in Link!OpenSessions(l) : t = u
          /\ Link!UnusedInvites(l) = {} \/ Link!OpenSessions(l) = {}
      BY DEF LinkIInv, Link!OneDoorUnlessRaced
    <3>2. CASE l = invite[i].lead
      BY <2>5, <2>6, <2>17, <3>1, <3>2
    <3>3. CASE l # invite[i].lead
      BY <2>5, <2>6, <3>1, <3>3
    <3> QED BY <3>2, <3>3
  <2>19. Link!ReleasedIsShut'
    <3> SUFFICES ASSUME NEW l \in Linked \ minted, linked[l].released
                 PROVE  Link!UnusedInvites(l)' = {} /\ Link!OpenSessions(l)' = {}
      BY <2>3 DEF Link!ReleasedIsShut
    <3>1. Link!UnusedInvites(l) = {} /\ Link!OpenSessions(l) = {}
      BY DEF LinkIInv, Link!ReleasedIsShut
    <3> QED BY <2>5, <2>6, <2>17, <3>1
  <2>20. Link!OneSessionPerInvite' /\ Link!SessionWithinInvite'
    <3>1. \A t \in Session \ {s} : Live(t) => session[t].invite \in Invite \ {i}
      BY <1>0, <2>1, SessionFields DEF LinkIInv, SessionsTrue, Live
    <3>2. Link!OneSessionPerInvite'
      BY <2>1, <3>1 DEF LinkIInv, Link!OneSessionPerInvite, Live
    <3>3. Link!SessionWithinInvite'
      BY <2>1, <3>1 DEF LinkIInv, Link!SessionWithinInvite, Live
    <3> QED BY <3>2, <3>3
  <2> QED BY <2>7, <2>9, <2>10, <2>11, <2>12, <2>14, <2>15, <2>16, <2>18, <2>19, <2>20 DEF LinkIInv
<1> QED BY <1>1, <1>2

\* The commit of a transaction that has deleted the invites and the sessions of its lead, and
\* either inserts one invite or releases the lead.
Commits(h, new) ==
  /\ linking' \in [Link!Actor -> Link!Op] /\ linking'[h] = Link!Idle
       /\ \A g \in Link!Actor \ {h} : linking'[g] = linking[g]
  /\ UNCHANGED <<edits, minted>>
  /\ invite' \in [Invite -> Link!InviteRow] /\ session' \in [Session -> Link!SessionRow]
  /\ linked' \in [Linked -> Link!LeadRow]
  /\ \A j \in new : /\ j \in Invite /\ invite[j].state = "none"
                    /\ invite'[j].state = "unused" /\ invite'[j].lead = linking[h].lead
  /\ \A j, k \in new : j = k
  /\ \A j \in Invite \ new : invite'[j] = IF j \in linking[h].invites THEN Link!Gone ELSE invite[j]
  /\ \A s \in Session :
       session'[s] = IF s \in linking[h].sessions
         /\ s \in Link!OpenSessions(linking[h].lead) THEN Link!Gone ELSE session[s]
  /\ \A s \in linking[h].sessions : ~Link!SessionHeld(s, h)
  /\ \A m \in Linked : /\ linked'[m].status = linked[m].status
                       /\ linked'[m].released <=> linked[m].released \/ (m = linking[h].lead
                            /\ new = {})

LEMMA CommitKeeps ==
  ASSUME Link!EditLinkAssumption, LinkIInv, NEW h \in Staff, linking[h].name \in Deleting,
         NEW new, Commits(h, new),
         new = {} => linking[h].name = "releasing"
  PROVE  LinkIInv'
<1> DEFINE l == linking[h].lead
<1>0. Link!TypeOK /\ h \in Link!Actor /\ l \in Linked /\ Link!AtWork(h, l)
        /\ linking[h].name \in Works
  BY OpFields DEF LinkIInv, Link!Actor, Works, Deleting, Link!AtWork
<1> HIDE DEF l
<1>1. Link!Gone.state = "gone"
  BY DEF Link!Gone
<1>2. linking[h].invites \subseteq Link!UnusedInvites(linking[h].lead)
  BY <1>0 DEF LinkIInv, DeletedStay
<1>3. \A g \in Link!Actor : linking'[g].name \in Works \cup {"submitting"}
        => linking'[g] = linking[g] /\ g # h
  BY IdleIs DEF Works, Commits
<1>4. \A m : Link!UnusedInvites(m)' = (Link!UnusedInvites(m) \ linking[h].invites) \cup (IF m
        = linking[h].lead THEN new ELSE {})
  BY <1>1 DEF Link!UnusedInvites, Commits
<1>5. \A m : Link!OpenSessions(m)'
        = Link!OpenSessions(m) \ (linking[h].sessions \cap Link!OpenSessions(linking[h].lead))
  BY <1>1 DEF Link!OpenSessions, Commits
<1>6. Link!TypeOK'
  BY <1>0 DEF Link!TypeOK, Commits
<1>7. StaffWorks'
  BY <1>3 DEF LinkIInv, StaffWorks
<1>8. DeletedStay'
  <2>1. \A g \in Link!Actor : linking'[g].name \in Deleting => linking'[g] = linking[g] /\ g # h
    BY <1>3 DEF Works, Deleting
  <2>2. ASSUME NEW g \in Link!Actor, linking'[g].name \in Deleting, NEW j \in linking'[g].invites
        PROVE  j \in Invite /\ invite'[j].state = "unused" /\ invite'[j].lead = linking'[g].lead
    <3>1. linking'[g] = linking[g] /\ g # h
      BY <2>1, <2>2
    <3>2. linking[g].invites \subseteq Link!UnusedInvites(linking[g].lead)
            /\ linking[g].invites \cap linking[h].invites = {}
      BY <1>0, <2>2, <3>1 DEF LinkIInv, DeletedStay
    <3>3. j \in Link!UnusedInvites(linking[g].lead) /\ j \notin linking[h].invites
      BY <2>2, <3>1, <3>2
    <3>4. j \in Invite \ new /\ invite[j].state = "unused" /\ invite[j].lead = linking[g].lead
      BY <3>3 DEF Link!UnusedInvites, Commits
    <3> QED BY <3>1, <3>3, <3>4 DEF Commits
  <2> QED BY <2>1, <2>2 DEF LinkIInv, DeletedStay, Link!UnusedInvites
<1>9. BurnedStay'
  <2>1. ASSUME NEW g \in Link!Actor, linking'[g].name = "submitting"
        PROVE  session'[linking'[g].session].state = "open"
    <3>1. linking'[g] = linking[g] /\ g # h /\ linking[g].session \in Session
      BY <1>0, <1>3, <2>1, OpFields
    <3>2. linking[g].session \notin linking[h].sessions
      BY <2>1, <3>1 DEF Commits, Link!SessionHeld
    <3> QED BY <2>1, <3>1, <3>2 DEF LinkIInv, BurnedStay, Commits
  <2> QED BY <1>3, <2>1 DEF LinkIInv, BurnedStay
<1>10. \A s \in Session : Live(s)' => Live(s) /\ session'[s] = session[s]
  BY <1>1 DEF Live, Commits
<1>11. \A i \in Invite : invite[i].state = "used" => invite'[i] = invite[i]
  BY <1>2 DEF Link!UnusedInvites, Commits
<1>12. \A s \in Session : session'[s].state \in {"none", "open"} => session'[s] = session[s]
  BY <1>1 DEF Commits
<1>13. \A s \in Session : Live(s) => session[s].invite \in Invite /\ session[s].lead \in Linked
  BY <1>0, SessionFields DEF Live
<1>14. SessionsTrue'
  BY <1>10, <1>11, <1>12, <1>13 DEF LinkIInv, SessionsTrue, Commits
<1>15. Link!OneSessionPerInvite'
  BY <1>10 DEF LinkIInv, Link!OneSessionPerInvite, Live
<1>16. Link!SessionWithinInvite'
  BY <1>10, <1>11, <1>13 DEF LinkIInv, SessionsTrue, Link!SessionWithinInvite, Live
<1>17. \A g \in Staff, m \in Linked : Link!AtWork(g, m)'
         => linking'[g] = linking[g] /\ Link!AtWork(g, m) /\ g # h
  BY <1>3 DEF Link!AtWork, Works, Link!Actor
<1>18. linking[h].lead \notin minted =>
              /\ Link!UnusedInvites(linking[h].lead) \subseteq linking[h].invites
              /\ Link!OpenSessions(linking[h].lead) \subseteq linking[h].sessions
              /\ \A g \in Staff : Link!AtWork(g, linking[h].lead) => g = h
  BY <1>0 DEF l, LinkIInv, AloneAtWork, Deleting
<1>19. AloneAtWork'
  <2>1. ASSUME NEW m \in Linked \ minted, NEW g \in Staff, Link!AtWork(g, m)'
        PROVE  /\ linking'[g].name # "due" => Link!UnusedInvites(m)' \subseteq linking'[g].invites
               /\ linking'[g].name \in Deleting
                    => Link!OpenSessions(m)' \subseteq linking'[g].sessions
    <3>1. linking'[g] = linking[g] /\ Link!AtWork(g, m) /\ m # linking[h].lead
      BY <1>17, <1>18, <2>1
    <3>2. /\ linking[g].name # "due" => Link!UnusedInvites(m) \subseteq linking[g].invites
          /\ linking[g].name \in Deleting => Link!OpenSessions(m) \subseteq linking[g].sessions
      BY <3>1 DEF LinkIInv, AloneAtWork
    <3> QED BY <1>4, <1>5, <3>1, <3>2
  <2> QED BY <1>17, <2>1 DEF LinkIInv, AloneAtWork, Commits
<1>20. KnownLeads'
  <2>1. \A g \in Link!Actor : linking'[g].name \in Works
          => linking[g].lead \in Linked /\ linking'[g] = linking[g]
                                                            /\ linked[linking[g].lead].status # "unverified"
    BY <1>0, <1>3, OpFields DEF LinkIInv, KnownLeads
  <2>2. linked[linking[h].lead].status # "unverified"
    BY <1>0 DEF LinkIInv, KnownLeads
  <2>3. \A i \in Invite : invite'[i].state \in {"unused", "used"} =>
          invite'[i].lead \in Linked /\ linked[invite'[i].lead].status # "unverified"
    BY <1>0, <1>1, <2>2, InviteFields DEF LinkIInv, KnownLeads, Commits, l
  <2>4. \A s \in Session :
          /\ session'[s].state = "open" => linked[session'[s].lead].status # "unverified"
          /\ session'[s].state = "submitted" => linked[session'[s].lead].status = "completed"
    BY <1>10 DEF LinkIInv, KnownLeads, Live
  <2>5. \A s \in Session : Live(s)' => session'[s].lead \in Linked
    BY <1>10, <1>13
  <2> QED BY <2>1, <2>3, <2>4, <2>5 DEF KnownLeads, Commits, Live
<1>21. linking[h].lead \notin minted => /\ ~linked[linking[h].lead].released
                                        /\ new = {} => linked[linking[h].lead].status = "verified"
  BY <1>0 DEF l, LinkIInv, ReleaseStands
<1>22. ReleaseStands'
  <2>1. ASSUME NEW m \in Linked \ minted, NEW g \in Staff, Link!AtWork(g, m)'
        PROVE  /\ ~linked'[m].released
               /\ linking'[g].name \in {"release", "releasing"} => linked'[m].status = "verified"
    <3>1. linking'[g] = linking[g] /\ Link!AtWork(g, m) /\ m # linking[h].lead
      BY <1>17, <1>18, <2>1
    <3> QED BY <3>1 DEF LinkIInv, ReleaseStands, Commits
  <2>2. \A m \in Linked \ minted : linked'[m].released => linked'[m].status = "verified"
    BY <1>21 DEF LinkIInv, ReleaseStands, Commits
  <2>3. minted' = minted
    BY DEF Commits
  <2> QED BY <2>1, <2>2, <2>3 DEF ReleaseStands
<1>23. Link!OneDoorUnlessRaced'
  <2> SUFFICES ASSUME NEW m \in Linked \ minted
               PROVE  /\ \A j, k \in Link!UnusedInvites(m)' : j = k
                      /\ \A t, u \in Link!OpenSessions(m)' : t = u
                      /\ Link!UnusedInvites(m)' = {} \/ Link!OpenSessions(m)' = {}
    BY DEF Link!OneDoorUnlessRaced, Commits
  <2>1. /\ \A j, k \in Link!UnusedInvites(m) : j = k
        /\ \A t, u \in Link!OpenSessions(m) : t = u
        /\ Link!UnusedInvites(m) = {} \/ Link!OpenSessions(m) = {}
    BY DEF LinkIInv, Link!OneDoorUnlessRaced
  <2>2. \A j, k \in new : j = k
    BY DEF Commits
  <2>3. CASE m = linking[h].lead
    BY <1>4, <1>5, <1>18, <2>2, <2>3
  <2>4. CASE m # linking[h].lead
    BY <1>4, <1>5, <2>1, <2>4
  <2> QED BY <2>3, <2>4
<1>24. Link!ReleasedIsShut'
  <2> SUFFICES ASSUME NEW m \in Linked \ minted, linked'[m].released
               PROVE  Link!UnusedInvites(m)' = {} /\ Link!OpenSessions(m)' = {}
    BY DEF Link!ReleasedIsShut, Commits
  <2>1. CASE m = linking[h].lead
    <3>1. new = {}
      BY <1>21, <2>1 DEF Commits
    <3> QED BY <1>4, <1>5, <1>18, <2>1, <3>1
  <2>2. CASE m # linking[h].lead
    <3>1. linked[m].released
      BY <2>2 DEF Commits
    <3>2. Link!UnusedInvites(m) = {} /\ Link!OpenSessions(m) = {}
      BY <3>1 DEF LinkIInv, Link!ReleasedIsShut
    <3> QED BY <1>4, <1>5, <2>2, <3>2
  <2> QED BY <2>1, <2>2
<1> QED BY <1>6, <1>7, <1>8, <1>9, <1>14, <1>15, <1>16, <1>19, <1>20, <1>22, <1>23, <1>24 DEF LinkIInv

LEMMA GoneIsARow == Link!Gone \in Link!InviteRow /\ Link!Gone \in Link!SessionRow
  BY DEF Link!InviteRow, Link!SessionRow

LEMMA InsertInviteKeeps ==
  ASSUME Link!EditLinkAssumption, LinkIInv, NEW h \in Staff, Link!InsertInvite(h)
  PROVE  LinkIInv'
<1>0. Link!TypeOK /\ h \in Link!Actor /\ linking[h].name \in Deleting /\ linking[h].lead \in Linked
      /\ linking[h].invites \subseteq Invite /\ linking[h].sessions \subseteq Session
  BY OpFields DEF LinkIInv, Link!Actor, Deleting, Works, Link!InsertInvite
<1>1. PICK i \in Invite :
        /\ invite[i].state = "none"
        /\ invite' = [Link!Dropped(invite, linking[h].invites) EXCEPT
                        ![i] = [state |-> "unused", lead |-> linking[h].lead, left |-> InviteTTL]]
  BY DEF Link!InsertInvite
<1> DEFINE fresh == [state |-> "unused", lead |-> linking[h].lead, left |-> InviteTTL]
<1>2. fresh \in Link!InviteRow /\ fresh.state = "unused" /\ fresh.lead = linking[h].lead
  BY <1>0 DEF Link!InviteRow, Link!EditLinkAssumption
<1> HIDE DEF fresh
<1>3. Link!Dropped(invite, linking[h].invites) \in [Invite -> Link!InviteRow]
      /\ \A j \in Invite : Link!Dropped(invite, linking[h].invites)[j] =
                             IF j \in linking[h].invites THEN Link!Gone ELSE invite[j]
  BY <1>0, GoneIsARow DEF Link!Dropped, Link!TypeOK
<1>4. invite' \in [Invite -> Link!InviteRow] /\ invite'[i] = fresh
      /\ \A j \in Invite \ {i} : invite'[j]
           = IF j \in linking[h].invites THEN Link!Gone ELSE invite[j]
  BY <1>1, <1>2, <1>3 DEF fresh
<1>5. session' \in [Session -> Link!SessionRow]
      /\ \A s \in Session :
           session'[s] = IF s \in linking[h].sessions
             /\ s \in Link!OpenSessions(linking[h].lead) THEN Link!Gone ELSE session[s]
  BY <1>0, GoneIsARow DEF Link!InsertInvite, Link!Dropped, Link!TypeOK
<1>6. linking' \in [Link!Actor -> Link!Op] /\ linking'[h] = Link!Idle
        /\ \A g \in Link!Actor \ {h} : linking'[g] = linking[g]
  BY <1>0, IdleIs DEF Link!InsertInvite, Link!Become, Link!TypeOK
<1>7. UNCHANGED <<linked, edits, minted>> /\ \A s \in linking[h].sessions : ~Link!SessionHeld(s, h)
  BY DEF Link!InsertInvite
<1>8. Commits(h, {i})
  BY <1>0, <1>1, <1>2, <1>4, <1>5, <1>6, <1>7 DEF Commits, Link!TypeOK
<1> QED BY <1>0, <1>8, CommitKeeps

LEMMA ReleaseCommitKeeps ==
  ASSUME Link!EditLinkAssumption, LinkIInv, NEW h \in Staff, Link!ReleaseCommit(h)
  PROVE  LinkIInv'
<1>0. Link!TypeOK /\ h \in Link!Actor /\ linking[h].name \in Deleting
        /\ linking[h].name = "releasing" /\ linking[h].lead \in Linked
      /\ linking[h].invites \subseteq Invite /\ linking[h].sessions \subseteq Session
  BY OpFields DEF LinkIInv, Link!Actor, Deleting, Works, Link!ReleaseCommit
<1>1. invite' \in [Invite -> Link!InviteRow]
      /\ \A j \in Invite : invite'[j] = IF j \in linking[h].invites THEN Link!Gone ELSE invite[j]
  BY <1>0, GoneIsARow DEF Link!Dropped, Link!TypeOK, Link!ReleaseCommit
<1>2. session' \in [Session -> Link!SessionRow]
      /\ \A s \in Session :
           session'[s] = IF s \in linking[h].sessions
             /\ s \in Link!OpenSessions(linking[h].lead) THEN Link!Gone ELSE session[s]
  BY <1>0, GoneIsARow DEF Link!ReleaseCommit, Link!Dropped, Link!TypeOK
<1>3. linking' \in [Link!Actor -> Link!Op] /\ linking'[h] = Link!Idle
        /\ \A g \in Link!Actor \ {h} : linking'[g] = linking[g]
  BY <1>0, IdleIs DEF Link!ReleaseCommit, Link!Become, Link!TypeOK
<1>4. UNCHANGED <<edits, minted>> /\ \A s \in linking[h].sessions : ~Link!SessionHeld(s, h)
  BY DEF Link!ReleaseCommit
<1>5. linked' \in [Linked -> Link!LeadRow]
      /\ \A m \in Linked : /\ linked'[m].status = linked[m].status
                           /\ linked'[m].released <=> linked[m].released \/ m = linking[h].lead
  <2>1. linked' = [linked EXCEPT ![linking[h].lead].released = TRUE]
    BY DEF Link!ReleaseCommit
  <2>2. linked \in [Linked -> Link!LeadRow]
    BY <1>0 DEF Link!TypeOK
  <2> QED BY <1>0, <2>1, <2>2 DEF Link!LeadRow
<1>6. Commits(h, {})
  BY <1>1, <1>2, <1>3, <1>4, <1>5 DEF Commits
<1> QED BY <1>0, <1>6, CommitKeeps

LEMMA SubmitCommitKeeps ==
  ASSUME Link!EditLinkAssumption, LinkIInv, NEW h \in Contact, Link!SubmitCommit(h)
  PROVE  LinkIInv'
<1> DEFINE s == linking[h].session
           l == session[linking[h].session].lead
<1>0. Link!TypeOK /\ h \in Link!Actor /\ linking[h].name = "submitting" /\ s \in Session
        /\ session[s].state = "open"
  BY OpFields DEF LinkIInv, Link!Actor, Link!SubmitCommit, BurnedStay
<1>1. l \in Linked /\ session[s].invite \in Invite
      /\ session[s] \in [state: {"open", "submitted"}, invite: Invite, lead: Linked, left: 0..SessionTTL]
  BY <1>0, SessionFields
<1>2. ~Link!LeadHeld(l, h) /\ session' = [session EXCEPT ![s].state = "submitted"]
      /\ edits' = [edits EXCEPT ![s] = @ + 1]
      /\ linked' = [linked EXCEPT ![l].status = IF @ = "verified" THEN "completed" ELSE @]
      /\ linking' = [linking EXCEPT ![h] = Link!Idle] /\ UNCHANGED <<invite, minted>>
  BY DEF Link!SubmitCommit, Link!Become
<1> DEFINE done == [session[s] EXCEPT !.state = "submitted"]
<1>3. done \in Link!SessionRow /\ done.state = "submitted" /\ done.invite = session[s].invite
        /\ done.lead = l
  BY <1>1 DEF Link!SessionRow
<1> HIDE DEF s, l, done
<1>4. session' \in [Session -> Link!SessionRow] /\ session'[s] = done
      /\ \A t \in Session \ {s} : session'[t] = session[t]
  BY <1>0, <1>2, <1>3 DEF Link!TypeOK, done
<1>5. edits' \in [Session -> Nat] /\ edits'[s] = edits[s] + 1
      /\ \A t \in Session \ {s} : edits'[t] = edits[t]
  BY <1>0, <1>2 DEF Link!TypeOK
<1>6. linked' \in [Linked -> Link!LeadRow]
      /\ \A m \in Linked : /\ linked'[m].released = linked[m].released
                           /\ m # l => linked'[m] = linked[m]
      /\ linked'[l].status = IF linked[l].status = "verified" THEN "completed" ELSE linked[l].status
  <2>1. linked \in [Linked -> Link!LeadRow]
    BY <1>0 DEF Link!TypeOK
  <2> QED BY <1>1, <1>2, <2>1 DEF Link!LeadRow
<1>7. linking' \in [Link!Actor -> Link!Op] /\ linking'[h] = Link!Idle
        /\ \A g \in Link!Actor \ {h} : linking'[g] = linking[g]
  BY <1>0, <1>2, IdleIs DEF Link!TypeOK
<1>8. \A g \in Link!Actor : linking'[g].name \in Works \cup {"submitting"}
        => linking'[g] = linking[g] /\ g # h
  BY <1>7, IdleIs DEF Works
<1>9. \A m : Link!UnusedInvites(m)' = Link!UnusedInvites(m)
  BY <1>2 DEF Link!UnusedInvites
<1>10. \A m : Link!OpenSessions(m)' = Link!OpenSessions(m) \ {s}
  BY <1>0, <1>3, <1>4 DEF Link!OpenSessions
<1>11. linked[l].status # "unverified" /\ s \in Link!OpenSessions(l)
  BY <1>0 DEF LinkIInv, KnownLeads, Link!OpenSessions, s, l
<1>12. linked'[l].status = "completed"
  <2>1. linked[l].status \in {"unverified", "verified", "completed"}
    BY <1>0, <1>1 DEF Link!TypeOK, Link!LeadRow
  <2> QED BY <1>1, <1>6, <1>11, <2>1
<1>13. \A m \in Linked : linked[m].status # "unverified" => linked'[m].status # "unverified"
  BY <1>6, <1>12
<1>14. Link!TypeOK'
  BY <1>0, <1>2, <1>4, <1>5, <1>6, <1>7 DEF Link!TypeOK
<1>15. StaffWorks'
  BY <1>8 DEF LinkIInv, StaffWorks
<1>16. DeletedStay'
  <2>1. \A g \in Link!Actor : linking'[g].name \in Deleting => linking'[g] = linking[g]
    BY <1>8 DEF Works, Deleting
  <2> QED BY <1>2, <2>1 DEF LinkIInv, DeletedStay, Link!UnusedInvites
<1>17. BurnedStay'
  <2>1. \A g \in Link!Actor : linking'[g].name = "submitting"
          => linking[g].session \in Session /\ linking[g].session # s /\ linking'[g] = linking[g]
    BY <1>0, <1>8, OpFields DEF LinkIInv, BurnedStay, s
  <2> QED BY <1>4, <2>1 DEF LinkIInv, BurnedStay
<1>18. \A t \in Session : Live(t)' => Live(t) /\ session'[t].invite = session[t].invite
                                   /\ session'[t].lead = session[t].lead
  BY <1>0, <1>3, <1>4 DEF Live, l, s
<1>19. SessionsTrue'
  <2>1. edits[s] = 0
    BY <1>0 DEF LinkIInv, SessionsTrue
  <2>2. session'[s].state = "submitted" /\ edits'[s] = 1
    BY <1>3, <1>4, <1>5, <2>1
  <2>3. \A t \in Session : Live(t)' => invite'[session'[t].invite].state = "used"
    BY <1>2, <1>18 DEF LinkIInv, SessionsTrue
  <2>4. \A t \in Session \ {s} : /\ session'[t].state \in {"none", "open"} => edits'[t] = 0
                                 /\ edits'[t] <= 1
    BY <1>4, <1>5 DEF LinkIInv, SessionsTrue
  <2> QED BY <2>2, <2>3, <2>4 DEF SessionsTrue
<1>20. \A g \in Staff, m \in Linked : Link!AtWork(g, m)'
         => linking'[g] = linking[g] /\ Link!AtWork(g, m) /\ g # h /\ g \in Link!Actor
  BY <1>8 DEF Link!AtWork, Works, Link!Actor
<1>21. AloneAtWork'
  <2>1. minted' = minted
    BY <1>2
  <2>2. ASSUME NEW m \in Linked \ minted, NEW g \in Staff, Link!AtWork(g, m)'
        PROVE  /\ linking'[g].name # "due" => Link!UnusedInvites(m)' \subseteq linking'[g].invites
               /\ linking'[g].name \in Deleting
                    => Link!OpenSessions(m)' \subseteq linking'[g].sessions
    <3>1. linking'[g] = linking[g] /\ Link!AtWork(g, m)
      BY <1>20, <2>2
    <3>2. /\ linking[g].name # "due" => Link!UnusedInvites(m) \subseteq linking[g].invites
          /\ linking[g].name \in Deleting => Link!OpenSessions(m) \subseteq linking[g].sessions
      BY <3>1 DEF LinkIInv, AloneAtWork
    <3> QED BY <1>9, <1>10, <3>1, <3>2
  <2> QED BY <1>20, <2>1, <2>2 DEF LinkIInv, AloneAtWork
<1>22. KnownLeads'
  <2>1. \A g \in Link!Actor : linking'[g].name \in Works
          => linking[g].lead \in Linked /\ linking'[g] = linking[g]
                                                            /\ linked[linking[g].lead].status # "unverified"
    BY <1>0, <1>8, OpFields DEF LinkIInv, KnownLeads
  <2>2. \A i \in Invite : invite[i].state \in {"unused", "used"} =>
          invite[i].lead \in Linked /\ linked[invite[i].lead].status # "unverified"
    BY <1>0, InviteFields DEF LinkIInv, KnownLeads
  <2>3. \A t \in Session : session'[t].state = "open" =>
          session'[t].lead \in Linked /\ linked[session'[t].lead].status # "unverified"
    BY <1>0, <1>3, <1>4, SessionFields DEF LinkIInv, KnownLeads
  <2>4. \A t \in Session : session'[t].state = "submitted"
          => linked'[session'[t].lead].status = "completed"
    <3> SUFFICES ASSUME NEW t \in Session, session'[t].state = "submitted"
                 PROVE  linked'[session'[t].lead].status = "completed"
      OBVIOUS
    <3>1. CASE t = s
      BY <1>3, <1>4, <1>12, <3>1
    <3>2. CASE t # s
      <4>1. session'[t] = session[t] /\ session[t].lead \in Linked
              /\ linked[session[t].lead].status = "completed"
        BY <1>0, <1>4, <3>2, SessionFields DEF LinkIInv, KnownLeads
      <4> QED BY <1>6, <1>12, <4>1
    <3> QED BY <3>1, <3>2
  <2> QED BY <1>2, <1>13, <2>1, <2>2, <2>3, <2>4 DEF KnownLeads
<1>23. l \notin minted => ~linked[l].released
  BY <1>1, <1>11 DEF LinkIInv, Link!ReleasedIsShut
<1>24. ReleaseStands'
  <2>1. ASSUME NEW m \in Linked \ minted, NEW g \in Staff, Link!AtWork(g, m)'
        PROVE  /\ ~linked'[m].released
               /\ linking'[g].name \in {"release", "releasing"} => linked'[m].status = "verified"
    <3>1. linking'[g] = linking[g] /\ Link!AtWork(g, m) /\ g # h /\ g \in Link!Actor
      BY <1>20, <2>1
    <3>2. linking[g].name \in {"release", "releasing"} => m # l
      BY <1>2, <3>1 DEF Link!AtWork, Link!LeadHeld
    <3> QED BY <1>6, <3>1, <3>2 DEF LinkIInv, ReleaseStands
  <2>2. \A m \in Linked \ minted : linked'[m].released => linked'[m].status = "verified"
    BY <1>6, <1>23 DEF LinkIInv, ReleaseStands
  <2> QED BY <1>2, <2>1, <2>2 DEF ReleaseStands
<1>25. Link!OneDoorUnlessRaced'
  BY <1>2, <1>9, <1>10 DEF LinkIInv, Link!OneDoorUnlessRaced
<1>26. Link!ReleasedIsShut'
  BY <1>2, <1>6, <1>9, <1>10 DEF LinkIInv, Link!ReleasedIsShut
<1>27. Link!OneSessionPerInvite'
  BY <1>18 DEF LinkIInv, Link!OneSessionPerInvite, Live
<1>28. Link!SessionWithinInvite'
  <2>1. \A t \in Session : session'[t].state = "open" => t # s
    BY <1>3, <1>4
  <2> QED BY <1>2, <1>4, <2>1 DEF LinkIInv, Link!SessionWithinInvite
<1> QED BY <1>14, <1>15, <1>16, <1>17, <1>19, <1>21, <1>22, <1>24, <1>25, <1>26, <1>27,
       <1>28 DEF LinkIInv

LEMMA InitOK ==
  ASSUME Link!EditLinkAssumption, Link!Init
  PROVE  LinkIInv
<1>1. \A h \in Link!Actor : linking[h] = Link!Idle
  BY DEF Link!Init
<1>2. \A i \in Invite : invite[i].state = "none"
  BY DEF Link!Init, Link!None
<1>3. \A s \in Session : session[s].state = "none" /\ edits[s] = 0
  BY DEF Link!Init, Link!None
<1>4. \A l \in Linked : linked[l].status = "unverified" /\ ~linked[l].released
  BY DEF Link!Init
<1>5. \A l : Link!UnusedInvites(l) = {} /\ Link!OpenSessions(l) = {}
  BY <1>2, <1>3 DEF Link!UnusedInvites, Link!OpenSessions
<1>6. Link!TypeOK
  BY IdleIs DEF Link!Init, Link!TypeOK, Link!LeadRow, Link!InviteRow, Link!SessionRow
<1>7. StaffWorks /\ DeletedStay /\ BurnedStay
  BY <1>1, IdleIs DEF StaffWorks, DeletedStay, BurnedStay, Works, Deleting
<1>8. SessionsTrue /\ Link!OneSessionPerInvite /\ Link!SessionWithinInvite
  BY <1>3 DEF SessionsTrue, Link!OneSessionPerInvite, Link!SessionWithinInvite, Live
<1>9. \A h \in Staff, l \in Linked : ~Link!AtWork(h, l)
  BY <1>1, IdleIs DEF Link!AtWork, Link!Actor
<1>10. AloneAtWork /\ ReleaseStands
  BY <1>4, <1>9 DEF AloneAtWork, ReleaseStands
<1>11. KnownLeads
  BY <1>1, <1>2, <1>3, IdleIs DEF KnownLeads, Works
<1>12. Link!OneDoorUnlessRaced /\ Link!ReleasedIsShut
  BY <1>5 DEF Link!OneDoorUnlessRaced, Link!ReleasedIsShut
<1> QED BY <1>6, <1>7, <1>8, <1>10, <1>11, <1>12 DEF LinkIInv

LEMMA StepKeeps ==
  ASSUME Link!EditLinkAssumption, LinkIInv, [Link!Next]_(Link!vars)
  PROVE  LinkIInv'
<1>1. CASE UNCHANGED Link!vars
  <2> USE <1>1 DEF Link!vars
  <2>1. Link!TypeOK' /\ StaffWorks' /\ DeletedStay' /\ BurnedStay' /\ SessionsTrue'
    BY DEF LinkIInv, Link!TypeOK, StaffWorks, DeletedStay, BurnedStay, SessionsTrue, Live,
       Link!UnusedInvites
  <2>2. AloneAtWork' /\ KnownLeads' /\ ReleaseStands'
    BY DEF LinkIInv, AloneAtWork, KnownLeads, ReleaseStands, Link!AtWork, Link!UnusedInvites,
       Link!OpenSessions
  <2>3. Link!OneDoorUnlessRaced' /\ Link!ReleasedIsShut' /\ Link!OneSessionPerInvite'
          /\ Link!SessionWithinInvite'
    BY DEF LinkIInv, Link!OneDoorUnlessRaced, Link!ReleasedIsShut, Link!OneSessionPerInvite,
       Link!SessionWithinInvite,
           Link!UnusedInvites, Link!OpenSessions
  <2> QED BY <2>1, <2>2, <2>3 DEF LinkIInv
<1>2. ASSUME NEW h \in Staff, Link!StaffStep(h) PROVE LinkIInv'
  <2>1. CASE \E l \in Linked : Link!Verify(h, l) \/ Link!Reissue(h, l) \/ Link!Reject(h, l)
          \/ Link!Release(h, l)
    BY <2>1, VerifyKeeps, ReissueKeeps, RejectKeeps, ReleaseKeeps
  <2>2. CASE Link!Mint(h) \/ Link!DeleteInvites(h) \/ Link!InsertInvite(h)
    BY <2>2, MintKeeps, DeleteInvitesKeeps, InsertInviteKeeps
  <2>3. CASE Link!ReleaseInvites(h) \/ Link!ReleaseCommit(h)
    BY <2>3, ReleaseInvitesKeeps, ReleaseCommitKeeps
  <2> QED BY <1>2, <2>1, <2>2, <2>3 DEF Link!StaffStep
<1>3. ASSUME NEW h \in Contact, Link!ContactStep(h) PROVE LinkIInv'
  BY <1>3, OpenKeeps, BurnKeeps, SubmitKeeps, SubmitBurnKeeps, SubmitCommitKeeps DEF Link!ContactStep
<1>4. ASSUME NEW h \in Link!Actor, Link!Rollback(h) PROVE LinkIInv'
  BY <1>4, RollbackKeeps
<1>5. CASE Link!Tick
  BY <1>5, TickKeeps
<1> QED BY <1>1, <1>2, <1>3, <1>4, <1>5 DEF Link!Next

LEMMA Inductive ==
  ASSUME Link!EditLinkAssumption
  PROVE  Link!Spec => []LinkIInv
<1>1. Link!Init => LinkIInv
  BY InitOK
<1>2. LinkIInv /\ [Link!Next]_(Link!vars) => LinkIInv'
  BY StepKeeps
<1> QED BY <1>1, <1>2, PTL DEF Link!Spec

LEMMA LinkTypeCorrect ==
  ASSUME Link!EditLinkAssumption PROVE Link!Spec => []Link!TypeOK
<1>1. LinkIInv => Link!TypeOK
  BY DEF LinkIInv
<1> QED BY <1>1, Inductive, PTL

LEMMA LinkSafe ==
  ASSUME Link!EditLinkAssumption
  PROVE  Link!Spec => [](Link!OneDoorUnlessRaced /\ Link!ReleasedIsShut /\ Link!OneSessionPerInvite
                         /\ Link!OneEditPerSession /\ Link!SessionWithinInvite)
<1>1. LinkIInv => Link!OneDoorUnlessRaced /\ Link!ReleasedIsShut /\ Link!OneSessionPerInvite
                  /\ Link!OneEditPerSession /\ Link!SessionWithinInvite
  BY DEF LinkIInv, SessionsTrue, Link!OneEditPerSession
<1> QED BY <1>1, Inductive, PTL

-------------------------------------------------------------------------------
(* THE EDITS AND THEIR REVIEW.  The inductive invariant.                     *)

\* The chatbot has said it, or somebody has at least looked at it: a state that no step leaves.
Public(e) == edit[e].status \notin {"none", "pending", "superseded"}

\* A text that may be written, or that something was compared with.
Said(t) == t \in Edit => Public(t)

\* What a row replaces was said; what it proposes is its own, or what it confirms; and a
\* draft proposes its own.
ReviewRowsTrue ==
  \A e \in Edit : edit[e] \notin {Review!None, Review!Gone} =>
    /\ Said(edit[e].old)
    /\ edit[e].new \in {e, edit[e].old}
    /\ edit[e].status = "pending" => edit[e].new = e

\* What a handler has read stays true, whatever becomes of the row.
OpsTrue ==
  /\ \A h \in Contact : reviewing[h].name \in {"submit", "supersede"} => Said(reviewing[h].old)
  /\ \A h \in Reviewer : reviewing[h].name \in {"approve", "reject", "revert"}
       => edit[reviewing[h].edit] # Review!None
  /\ \A h \in Reviewer : reviewing[h].name = "approve" => reviewing[h].writes = reviewing[h].edit
  /\ \A h \in Reviewer : reviewing[h].name = "revert" => Said(reviewing[h].writes)

\* Each handler of the contacts does one thing, the panel's do the others.
Roles ==
  /\ \A h \in Contact : reviewing[h].name \in {"idle", "submit", "supersede"}
  /\ \A h \in Reviewer : reviewing[h].name \in {"idle", "approve", "reject", "revert"}

\* Whose each draft is, so that no two are of one handler: the one that is about to commit has
\* seen its own.
OneDraftEach ==
  \E owner \in [Edit -> Contact] :
    /\ \A e, f \in Review!Pending : owner[e] = owner[f] => e = f
    /\ \A h \in Contact : reviewing[h].name = "supersede" =>
         \A e \in Review!Pending : owner[e] = h => e \in reviewing[h].seen

ReviewIInv ==
  /\ Review!TypeOK /\ Said(text) /\ ReviewRowsTrue /\ OpsTrue /\ Roles /\ OneDraftEach
  /\ Review!AbandonedForSomething

-------------------------------------------------------------------------------
(* The fields of rows and of requests.                                       *)

LEMMA RowFields ==
  ASSUME Review!TypeOK, NEW e \in Edit
  PROVE  /\ edit[e] \in Review!Row
         /\ edit[e].status \in {"none", "gone", "pending", "approved", "rejected", "superseded", "reverted"}
         /\ edit[e].status = "none" <=> edit[e] = Review!None
         /\ edit[e].status = "gone" <=> edit[e] = Review!Gone
         /\ edit[e] \notin {Review!None, Review!Gone} =>
              /\ edit[e] \in [status: {"pending", "approved", "rejected", "superseded", "reverted"},
                              old: Review!Text, new: Review!Text]
              /\ edit[e].old \in Review!Text /\ edit[e].new \in Review!Text
<1>1. edit[e] \in Review!Row
  BY DEF Review!TypeOK
<1> QED BY <1>1 DEF Review!Row, Review!None, Review!Gone

LEMMA ReviewOpFields ==
  ASSUME Review!TypeOK, NEW h \in Review!Actor
  PROVE  /\ reviewing[h] \in Review!Op
         /\ reviewing[h].name \in {"submit", "supersede"}
              => reviewing[h].old \in Review!Text /\ reviewing[h].change \in BOOLEAN
         /\ reviewing[h].name = "supersede" => reviewing[h].seen \subseteq Edit
         /\ reviewing[h].name \in {"approve", "reject", "revert"}
              => reviewing[h].edit \in Edit /\ reviewing[h].writes \in Review!Text
<1>1. reviewing[h] \in Review!Op
  BY DEF Review!TypeOK
<1> QED BY <1>1 DEF Review!Op, Review!Idle

-------------------------------------------------------------------------------
(* A step of the rows: what was said stays said, and no row is unmade.       *)

Grows ==
  /\ edit' \in [Edit -> Review!Row]
  /\ \A e \in Edit : /\ Public(e) => edit'[e].status \notin {"none", "pending", "superseded"}
                     /\ edit[e] # Review!None => edit'[e] # Review!None

LEMMA SaidStays ==
  ASSUME Grows, NEW t, Said(t)
  PROVE  t \in Edit => edit'[t].status \notin {"none", "pending", "superseded"}
BY DEF Grows, Said

\* A handler that goes on from what it has read.
ReviewMoves(h, next) ==
  /\ reviewing' = [reviewing EXCEPT ![h] = next]
  /\ next \in Review!Op

\* What of the invariant speaks of one handler at a time.
ReviewOneTrue(h) ==
  /\ h \in Contact => reviewing[h].name \in {"idle", "submit", "supersede"}
  /\ h \in Reviewer => reviewing[h].name \in {"idle", "approve", "reject", "revert"}
  /\ reviewing[h].name \in {"submit", "supersede"} => Said(reviewing[h].old)
  /\ reviewing[h].name \in {"approve", "reject", "revert"} => edit[reviewing[h].edit] # Review!None
  /\ reviewing[h].name = "approve" => reviewing[h].writes = reviewing[h].edit
  /\ reviewing[h].name = "revert" => Said(reviewing[h].writes)

LEMMA ReviewOnes ==
  Review!EditReviewAssumption => (OpsTrue /\ Roles <=> \A h \in Review!Actor : ReviewOneTrue(h))
BY DEF Review!EditReviewAssumption, OpsTrue, Roles, ReviewOneTrue, Review!Actor

LEMMA OneStays ==
  ASSUME Review!TypeOK, Grows, NEW h \in Review!Actor, ReviewOneTrue(h), reviewing'[h]
           = reviewing[h]
  PROVE  ReviewOneTrue(h)'
<1>1. reviewing[h].name \in {"approve", "reject", "revert"} => reviewing[h].edit \in Edit
  BY ReviewOpFields
<1>2. reviewing[h].name \in {"approve", "reject", "revert"}
        => edit'[reviewing[h].edit] # Review!None
  BY <1>1 DEF Grows, ReviewOneTrue
<1>3. reviewing[h].name \in {"submit", "supersede"} =>
               (reviewing[h].old \in Edit
                 => edit'[reviewing[h].old].status \notin {"none", "pending", "superseded"})
  BY DEF ReviewOneTrue, Said, Grows
<1>4. reviewing[h].name = "revert" =>
               (reviewing[h].writes \in Edit
                 => edit'[reviewing[h].writes].status \notin {"none", "pending", "superseded"})
  BY DEF ReviewOneTrue, Said, Grows
<1> QED BY <1>2, <1>3, <1>4 DEF ReviewOneTrue, Said, Public

\* The handlers, when one of them moves and the rest wait.
LEMMA HandlersKeep ==
  ASSUME Review!EditReviewAssumption, ReviewIInv, Grows, NEW h \in Review!Actor, NEW next,
         ReviewMoves(h, next), ReviewOneTrue(h)'
  PROVE  reviewing' \in [Review!Actor -> Review!Op] /\ OpsTrue' /\ Roles'
<1>1. reviewing' \in [Review!Actor -> Review!Op]
        /\ \A g \in Review!Actor \ {h} : reviewing'[g] = reviewing[g]
  BY DEF ReviewMoves, ReviewIInv, Review!TypeOK
<1>2. \A g \in Review!Actor : ReviewOneTrue(g)
  BY ReviewOnes DEF ReviewIInv
<1>3. \A g \in Review!Actor : ReviewOneTrue(g)'
  BY <1>1, <1>2, OneStays DEF ReviewIInv
<1>4. OpsTrue' /\ Roles'
  BY <1>3 DEF Review!EditReviewAssumption, OpsTrue, Roles, ReviewOneTrue, Review!Actor
<1> QED BY <1>1, <1>4

\* The rows, when none is written.
LEMMA ReviewRowsRest ==
  ASSUME ReviewIInv, UNCHANGED edit
  PROVE  Grows /\ ReviewRowsTrue' /\ Review!AbandonedForSomething'
           /\ Review!Pending' = Review!Pending
<1>1. Grows /\ Review!AbandonedForSomething' /\ Review!Pending' = Review!Pending
  BY DEF ReviewIInv, Review!TypeOK, Grows, Public, Review!AbandonedForSomething, Review!Pending
<1>2. ReviewRowsTrue'
  BY DEF ReviewIInv, ReviewRowsTrue, Said, Public
<1> QED BY <1>1, <1>2

\* The drafts, when there are no new ones and nobody turns to superseding without looking.
LEMMA DraftsRest ==
  ASSUME ReviewIInv, \A e \in Edit : edit'[e].status = "pending" => edit[e].status = "pending",
         \A h \in Contact : reviewing'[h].name = "supersede" =>
           \/ reviewing'[h] = reviewing[h]
           \/ \A e \in Edit : edit'[e].status = "pending" => e \in reviewing'[h].seen
  PROVE  OneDraftEach'
<1>1. PICK owner \in [Edit -> Contact] :
        /\ \A e, f \in Review!Pending : owner[e] = owner[f] => e = f
        /\ \A h \in Contact : reviewing[h].name = "supersede" =>
             \A e \in Review!Pending : owner[e] = h => e \in reviewing[h].seen
  BY DEF ReviewIInv, OneDraftEach
<1>2. \A e \in Review!Pending' : e \in Review!Pending /\ e \in Edit /\ edit'[e].status = "pending"
  BY DEF Review!Pending
<1>3. \A e, f \in Review!Pending' : owner[e] = owner[f] => e = f
  BY <1>1, <1>2
<1>4. \A h \in Contact : reviewing'[h].name = "supersede" =>
        \A e \in Review!Pending' : owner[e] = h => e \in reviewing'[h].seen
  BY <1>1, <1>2
<1> QED BY <1>3, <1>4 DEF OneDraftEach

\* A step of one handler alone.
LEMMA ReadKeeps ==
  ASSUME Review!EditReviewAssumption, ReviewIInv, UNCHANGED <<edit, text>>,
         NEW h \in Review!Actor, NEW next, ReviewMoves(h, next),
         ReviewOneTrue(h)', next.name = "supersede" => next.seen = Review!Pending
  PROVE  ReviewIInv'
<1>1. Grows /\ ReviewRowsTrue' /\ Review!AbandonedForSomething' /\ Review!Pending' = Review!Pending
  BY ReviewRowsRest
<1>2. reviewing' \in [Review!Actor -> Review!Op] /\ OpsTrue' /\ Roles'
  BY <1>1, HandlersKeep
<1>3. reviewing'[h] = next /\ \A g \in Review!Actor \ {h} : reviewing'[g] = reviewing[g]
  BY DEF ReviewMoves, ReviewIInv, Review!TypeOK
<1>4. OneDraftEach'
  BY <1>3, DraftsRest DEF Review!Pending, Review!Actor
<1>5. Said(text)'
  BY DEF ReviewIInv, Said, Public
<1>6. Review!TypeOK'
  BY <1>2 DEF ReviewIInv, Review!TypeOK
<1> QED BY <1>1, <1>2, <1>4, <1>5, <1>6 DEF ReviewIInv

-------------------------------------------------------------------------------
(* The steps that write no row.                                              *)

LEMMA ReviewIInvTyped == ReviewIInv => Review!TypeOK
  BY DEF ReviewIInv

LEMMA Parts == Contact \subseteq Review!Actor /\ Reviewer \subseteq Review!Actor
  BY DEF Review!Actor

LEMMA ReviewSubmitKeeps ==
  ASSUME Review!EditReviewAssumption, ReviewIInv, NEW h \in Contact, Review!Submit(h)
  PROVE  ReviewIInv'
<1>0. PICK change \in BOOLEAN : Review!Become(h, [name |-> "submit", old |-> text, change |-> change])
  BY DEF Review!Submit
<1> DEFINE next == [name |-> "submit", old |-> text, change |-> change]
<1>1. next \in Review!Op /\ next.name = "submit" /\ next.old = text
  BY DEF Review!Op, ReviewIInv, Review!TypeOK
<1>2. reviewing' = [reviewing EXCEPT ![h] = next]
  BY <1>0 DEF Review!Become
<1> HIDE DEF next
<1>3. h \in Review!Actor /\ h \notin Reviewer /\ ReviewMoves(h, next) /\ UNCHANGED <<edit, text>>
  BY <1>1, <1>2, Parts DEF Review!EditReviewAssumption, ReviewMoves, Review!Submit
<1>4. reviewing'[h] = next
  BY <1>2, <1>3, ReviewIInvTyped DEF Review!TypeOK
<1>5. ReviewOneTrue(h)'
  BY <1>1, <1>3, <1>4 DEF ReviewOneTrue, ReviewIInv, Said, Public
<1> QED BY <1>1, <1>3, <1>5, ReadKeeps

LEMMA SupersedeKeeps ==
  ASSUME Review!EditReviewAssumption, ReviewIInv, NEW h \in Contact, Review!Supersede(h)
  PROVE  ReviewIInv'
<1>0. h \in Review!Actor /\ h \notin Reviewer /\ Review!TypeOK /\ reviewing[h].name = "submit"
  BY Parts DEF ReviewIInv, Review!EditReviewAssumption, Review!Supersede
<1> DEFINE next == [name |-> "supersede", old |-> reviewing[h].old, change |-> reviewing[h].change,
                    seen |-> Review!Pending]
<1>1. next \in Review!Op /\ next.name = "supersede" /\ next.old = reviewing[h].old
        /\ next.seen = Review!Pending
  BY <1>0, ReviewOpFields DEF Review!Op, Review!Pending
<1>2. reviewing' = [reviewing EXCEPT ![h] = next]
  BY DEF Review!Become, Review!Supersede
<1> HIDE DEF next
<1>3. ReviewMoves(h, next) /\ UNCHANGED <<edit, text>>
  BY <1>1, <1>2 DEF ReviewMoves, Review!Supersede
<1>4. reviewing'[h] = next
  BY <1>0, <1>2 DEF Review!TypeOK
<1>5. Said(reviewing[h].old)
  BY <1>0 DEF ReviewIInv, OpsTrue
<1>6. ReviewOneTrue(h)'
  BY <1>0, <1>1, <1>3, <1>4, <1>5 DEF ReviewOneTrue, Said, Public
<1> QED BY <1>0, <1>1, <1>3, <1>6, ReadKeeps

\* A draft proposes its own text.
LEMMA ReviewKeeps ==
  ASSUME Review!EditReviewAssumption, ReviewIInv, NEW h \in Reviewer, Review!Review(h)
  PROVE  ReviewIInv'
<1>0. PICK e \in Review!Pending, verdict \in {"approve", "reject"} :
        Review!Become(h, [name |-> verdict, edit |-> e, writes |-> edit[e].new])
  BY DEF Review!Review
<1> DEFINE next == [name |-> verdict, edit |-> e, writes |-> edit[e].new]
<1>1. e \in Edit /\ edit[e].status = "pending" /\ edit[e].new = e /\ edit[e] # Review!None
  <2>1. e \in Edit /\ edit[e].status = "pending"
    BY DEF Review!Pending
  <2>2. edit[e] \notin {Review!None, Review!Gone}
    BY <2>1 DEF Review!None, Review!Gone
  <2> QED BY <2>1, <2>2 DEF ReviewIInv, ReviewRowsTrue
<1>2. next \in Review!Op /\ next.name \in {"approve", "reject"} /\ next.edit = e /\ next.writes = e
  BY <1>1 DEF Review!Op, Review!Text
<1>3. reviewing' = [reviewing EXCEPT ![h] = next]
  BY <1>0 DEF Review!Become
<1> HIDE DEF next
<1>4. h \in Review!Actor /\ h \notin Contact /\ ReviewMoves(h, next) /\ UNCHANGED <<edit, text>>
  BY <1>2, <1>3, Parts DEF Review!EditReviewAssumption, ReviewMoves, Review!Review
<1>5. reviewing'[h] = next
  BY <1>3, <1>4, ReviewIInvTyped DEF Review!TypeOK
<1>6. ReviewOneTrue(h)'
  BY <1>1, <1>2, <1>4, <1>5 DEF ReviewOneTrue
<1> QED BY <1>2, <1>4, <1>6, ReadKeeps

LEMMA RevertKeeps ==
  ASSUME Review!EditReviewAssumption, ReviewIInv, NEW h \in Reviewer, Review!Revert(h)
  PROVE  ReviewIInv'
<1>0. PICK e \in Edit : /\ edit[e].status = "approved"
                        /\ Review!Become(h, [name |-> "revert", edit |-> e, writes |-> edit[e].old])
  BY DEF Review!Revert
<1> DEFINE next == [name |-> "revert", edit |-> e, writes |-> edit[e].old]
<1>1. edit[e] \notin {Review!None, Review!Gone}
  BY <1>0 DEF Review!None, Review!Gone
<1>2. Said(edit[e].old) /\ edit[e].old \in Review!Text
  BY <1>1, RowFields, ReviewIInvTyped DEF ReviewIInv, ReviewRowsTrue
<1>3. next \in Review!Op /\ next.name = "revert" /\ next.edit = e /\ next.writes = edit[e].old
  BY <1>2 DEF Review!Op
<1>4. reviewing' = [reviewing EXCEPT ![h] = next]
  BY <1>0 DEF Review!Become
<1> HIDE DEF next
<1>5. h \in Review!Actor /\ h \notin Contact /\ ReviewMoves(h, next) /\ UNCHANGED <<edit, text>>
  BY <1>3, <1>4, Parts DEF Review!EditReviewAssumption, ReviewMoves, Review!Revert
<1>6. reviewing'[h] = next
  BY <1>4, <1>5, ReviewIInvTyped DEF Review!TypeOK
<1>7. ReviewOneTrue(h)'
  BY <1>1, <1>2, <1>3, <1>5, <1>6 DEF ReviewOneTrue, Said, Public
<1> QED BY <1>3, <1>5, <1>7, ReadKeeps

LEMMA ReviewRollbackKeeps ==
  ASSUME Review!EditReviewAssumption, ReviewIInv, NEW h \in Review!Actor, Review!Rollback(h)
  PROVE  ReviewIInv'
<1>1. ReviewMoves(h, Review!Idle) /\ UNCHANGED <<edit, text>> /\ reviewing'[h] = Review!Idle
  BY DEF Review!Rollback, Review!Become, ReviewMoves, Review!Op, ReviewIInv, Review!TypeOK
<1>2. ReviewOneTrue(h)'
  BY <1>1 DEF ReviewOneTrue, Review!Idle
<1> QED BY <1>1, <1>2, ReadKeeps DEF Review!Idle

LEMMA RetypeKeeps ==
  ASSUME Review!EditReviewAssumption, ReviewIInv, Review!Retype
  PROVE  ReviewIInv'
<1>1. Grows /\ ReviewRowsTrue' /\ Review!AbandonedForSomething' /\ Review!Pending' = Review!Pending
  BY ReviewRowsRest DEF Review!Retype
<1>2. Review!TypeOK'
  BY DEF ReviewIInv, Review!TypeOK, Review!Retype, Review!Text
<1>3. Said(text)'
  BY DEF Review!EditReviewAssumption, Review!Retype, Said
<1>4. OpsTrue' /\ Roles'
  BY DEF ReviewIInv, OpsTrue, Roles, Review!Retype, Said, Public
<1>5. OneDraftEach'
  BY DraftsRest DEF Review!Retype
<1> QED BY <1>1, <1>2, <1>3, <1>4, <1>5 DEF ReviewIInv

-------------------------------------------------------------------------------
(* The steps that write the rows.                                            *)

\* A handler that writes a status no draft has on the row it has read.
LEMMA SetKeeps ==
  ASSUME Review!EditReviewAssumption, ReviewIInv, NEW h \in Reviewer,
         reviewing[h].name \in {"approve", "reject", "revert"},
         NEW status \in {"approved", "rejected", "reverted"}, Review!Set(reviewing[h].edit, status),
         Review!Become(h, Review!Idle),
         text' \in Review!Text, text' \in Edit
           => edit'[text'].status \notin {"none", "pending", "superseded"}
  PROVE  ReviewIInv'
<1>0. h \in Review!Actor /\ Review!TypeOK
  BY Parts DEF ReviewIInv
<1>1. PICK e \in Edit : reviewing[h].edit = e
  BY <1>0, ReviewOpFields
<1>2. edit[e] # Review!None
  BY <1>1 DEF ReviewIInv, OpsTrue
<1>3. /\ edit'[e] = IF edit[e] = Review!Gone THEN Review!Gone ELSE [edit[e] EXCEPT !.status = status]
      /\ \A f \in Edit \ {e} : edit'[f] = edit[f]
      /\ edit' = [edit EXCEPT ![e] = IF edit[e] = Review!Gone THEN Review!Gone ELSE [edit[e] EXCEPT !.status = status]]
  BY <1>0, <1>1 DEF Review!Set, Review!TypeOK
<1>4. edit[e] # Review!Gone =>
        /\ edit'[e] \in Review!Row /\ edit'[e].status = status
        /\ edit'[e].old = edit[e].old /\ edit'[e].new = edit[e].new
  <2> SUFFICES ASSUME edit[e] # Review!Gone
               PROVE  /\ edit'[e] \in Review!Row /\ edit'[e].status = status
                      /\ edit'[e].old = edit[e].old /\ edit'[e].new = edit[e].new
    OBVIOUS
  <2>1. edit[e] \in [status: {"pending", "approved", "rejected", "superseded", "reverted"},
                     old: Review!Text, new: Review!Text]
    BY <1>0, <1>2, RowFields
  <2>2. edit'[e] = [edit[e] EXCEPT !.status = status]
    BY <1>3
  <2>3. edit'[e] \in [status: {"pending", "approved", "rejected", "superseded", "reverted"},
                      old: Review!Text, new: Review!Text]
    BY <2>1, <2>2
  <2> QED BY <2>1, <2>2, <2>3 DEF Review!Row
<1>5. edit[e] = Review!Gone => edit'[e] = Review!Gone
  BY <1>3
<1>6. edit'[e].status \notin {"none", "pending", "superseded"} /\ edit'[e] # Review!None
  BY <1>4, <1>5 DEF Review!Gone, Review!None
<1>7. Grows
  <2>1. edit' \in [Edit -> Review!Row]
    BY <1>0, <1>3, <1>4 DEF Review!TypeOK, Review!Row
  <2> QED BY <1>3, <1>6, <2>1 DEF Grows, Public
<1>8. ReviewRowsTrue'
  <2> SUFFICES ASSUME NEW f \in Edit, edit'[f] \notin {Review!None, Review!Gone}
               PROVE  /\ Said(edit[f].old)
                      /\ edit'[f].old = edit[f].old /\ edit'[f].new = edit[f].new
                      /\ edit'[f].new \in {f, edit'[f].old}
                      /\ edit'[f].status = "pending" => edit'[f].new = f
    <3>1. \A f \in Edit : edit'[f] \notin {Review!None, Review!Gone} =>
            /\ edit'[f].old \in Edit =>
                 edit'[edit'[f].old].status \notin {"none", "pending", "superseded"}
            /\ edit'[f].new \in {f, edit'[f].old}
            /\ edit'[f].status = "pending" => edit'[f].new = f
      BY <1>7 DEF Grows, Said
    <3> QED BY <3>1 DEF ReviewRowsTrue, Said, Public
  <2>1. CASE f = e
    <3>1. edit[e] \notin {Review!None, Review!Gone}
      BY <1>2, <1>5, <2>1
    <3> QED BY <1>4, <1>6, <2>1, <3>1 DEF ReviewIInv, ReviewRowsTrue
  <2>2. CASE f # e
    BY <1>3, <2>2 DEF ReviewIInv, ReviewRowsTrue
  <2> QED BY <2>1, <2>2
<1>9. ReviewMoves(h, Review!Idle) /\ reviewing'[h] = Review!Idle
        /\ \A g \in Review!Actor \ {h} : reviewing'[g] = reviewing[g]
  BY <1>0 DEF Review!Become, ReviewMoves, Review!Op, Review!TypeOK
<1>10. reviewing' \in [Review!Actor -> Review!Op] /\ OpsTrue' /\ Roles'
  <2>1. ReviewOneTrue(h)'
    BY <1>9 DEF ReviewOneTrue, Review!Idle
  <2> QED BY <1>0, <1>7, <1>9, <2>1, HandlersKeep
<1>11. OneDraftEach'
  <2>1. h \notin Contact
    BY DEF Review!EditReviewAssumption
  <2> QED BY <1>3, <1>6, <1>9, <2>1, DraftsRest DEF Review!Actor
<1>12. Review!AbandonedForSomething'
  BY <1>6 DEF Review!AbandonedForSomething
<1>13. Review!TypeOK'
  BY <1>7, <1>10 DEF Review!TypeOK, Grows
<1>14. Said(text)'
  BY DEF Said, Public
<1> QED BY <1>8, <1>10, <1>11, <1>12, <1>13, <1>14 DEF ReviewIInv

LEMMA ApproveKeeps ==
  ASSUME Review!EditReviewAssumption, ReviewIInv, NEW h \in Reviewer, Review!Approve(h)
  PROVE  ReviewIInv'
<1>0. h \in Review!Actor /\ Review!TypeOK /\ reviewing[h].name = "approve"
        /\ text' = reviewing[h].writes
  BY Parts DEF ReviewIInv, Review!Approve
<1>1. PICK e \in Edit : reviewing[h].edit = e /\ reviewing[h].writes = e
  BY <1>0, ReviewOpFields DEF ReviewIInv, OpsTrue
<1>2. edit[e] # Review!None /\ text' = e
  BY <1>0, <1>1 DEF ReviewIInv, OpsTrue
<1>3. edit'[e] = IF edit[e] = Review!Gone THEN Review!Gone ELSE [edit[e] EXCEPT !.status = "approved"]
  BY <1>0, <1>1 DEF Review!Approve, Review!Set, Review!TypeOK
<1>4. edit[e] # Review!Gone => edit'[e].status = "approved"
  <2>1. edit[e] # Review!Gone =>
          edit[e] \in [status: {"pending", "approved", "rejected", "superseded", "reverted"},
                       old: Review!Text, new: Review!Text]
    BY <1>0, <1>2, RowFields
  <2> QED BY <1>3, <2>1
<1>5. edit'[e].status \notin {"none", "pending", "superseded"}
  BY <1>3, <1>4 DEF Review!Gone
<1>6. Review!Set(reviewing[h].edit, "approved") /\ Review!Become(h, Review!Idle)
  BY DEF Review!Approve
<1>7. text' \in Review!Text /\ (text' \in Edit
        => edit'[text'].status \notin {"none", "pending", "superseded"})
  BY <1>2, <1>5 DEF Review!Text
<1> QED BY <1>0, <1>6, <1>7, SetKeeps

\* Whatever a handler writes on its row, what was said stays said.
LEMMA SetGrows ==
  ASSUME ReviewIInv, NEW h \in Reviewer, reviewing[h].name \in {"reject", "revert"},
         NEW status \in {"rejected", "reverted"}, Review!Set(reviewing[h].edit, status),
         NEW t \in Review!Text, Said(t)
  PROVE  t \in Edit => edit'[t].status \notin {"none", "pending", "superseded"}
<1>0. h \in Review!Actor /\ Review!TypeOK
  BY Parts DEF ReviewIInv
<1>1. PICK e \in Edit : reviewing[h].edit = e
  BY <1>0, ReviewOpFields
<1>2. /\ edit'[e] = IF edit[e] = Review!Gone THEN Review!Gone ELSE [edit[e] EXCEPT !.status = status]
      /\ \A f \in Edit \ {e} : edit'[f] = edit[f]
  BY <1>0, <1>1 DEF Review!Set, Review!TypeOK
<1>3. edit[e] # Review!Gone /\ Public(e) => edit'[e].status = status
  <2>1. edit[e] # Review!Gone /\ Public(e) =>
          edit[e] \in [status: {"pending", "approved", "rejected", "superseded", "reverted"},
                       old: Review!Text, new: Review!Text]
    BY <1>0, RowFields DEF Public, Review!None
  <2> QED BY <1>2, <2>1
<1>4. Public(e) => edit'[e].status \notin {"none", "pending", "superseded"}
  BY <1>2, <1>3 DEF Review!Gone
<1> QED BY <1>2, <1>4 DEF Said, Public

LEMMA ReviewRejectKeeps ==
  ASSUME Review!EditReviewAssumption, ReviewIInv, NEW h \in Reviewer, Review!Reject(h)
  PROVE  ReviewIInv'
<1>1. reviewing[h].name = "reject" /\ Review!Set(reviewing[h].edit, "rejected")
        /\ Review!Become(h, Review!Idle) /\ text' = text
  BY DEF Review!Reject
<1>2. text \in Review!Text /\ Said(text)
  BY DEF ReviewIInv, Review!TypeOK
<1>3. text \in Edit => edit'[text].status \notin {"none", "pending", "superseded"}
  BY <1>1, <1>2, SetGrows
<1> QED BY <1>1, <1>2, <1>3, SetKeeps

LEMMA RevertCommitKeeps ==
  ASSUME Review!EditReviewAssumption, ReviewIInv, NEW h \in Reviewer, Review!RevertCommit(h)
  PROVE  ReviewIInv'
<1>1. reviewing[h].name = "revert" /\ Review!Set(reviewing[h].edit, "reverted")
        /\ Review!Become(h, Review!Idle)
      /\ text' = reviewing[h].writes
  BY DEF Review!RevertCommit
<1>2. PICK t \in Review!Text : reviewing[h].writes = t /\ Said(t)
  BY <1>1, ReviewOpFields, ReviewIInvTyped, Parts DEF ReviewIInv, OpsTrue
<1>3. t \in Edit => edit'[t].status \notin {"none", "pending", "superseded"}
  BY <1>1, <1>2, SetGrows
<1>4. text' = t
  BY <1>1, <1>2
<1>5. text' \in Review!Text /\ (text' \in Edit
        => edit'[text'].status \notin {"none", "pending", "superseded"})
  BY <1>3, <1>4
<1> QED BY <1>1, <1>5, SetKeeps

LEMMA DeleteKeeps ==
  ASSUME Review!EditReviewAssumption, ReviewIInv, Review!DeleteCompany
  PROVE  ReviewIInv'
<1>0. Review!TypeOK /\ text' = text
  BY DEF ReviewIInv, Review!DeleteCompany
<1>1. \A e \in Edit : edit'[e] = IF edit[e] = Review!None THEN Review!None ELSE Review!Gone
  BY DEF Review!DeleteCompany
<1>2. edit' \in [Edit -> Review!Row]
  BY DEF Review!DeleteCompany, Review!Row
<1>3. \A e \in Edit : /\ edit'[e] \in {Review!None, Review!Gone}
                      /\ edit'[e].status \notin {"pending", "superseded"}
                      /\ edit[e] # Review!None => edit'[e] # Review!None /\ edit'[e].status # "none"
  BY <1>1 DEF Review!None, Review!Gone
<1>4. Grows
  BY <1>2, <1>3 DEF Grows, Public, Review!None
<1>5. ReviewRowsTrue'
  BY <1>3 DEF ReviewRowsTrue
<1>6. Review!AbandonedForSomething'
  BY <1>3 DEF Review!AbandonedForSomething
<1>7. reviewing' = [h \in Review!Actor |-> IF h \in Contact THEN Review!Idle ELSE reviewing[h]]
  BY DEF Review!DeleteCompany
<1>8. Review!TypeOK'
  BY <1>0, <1>2, <1>7 DEF Review!TypeOK, Review!Op
<1>9. \A h \in Review!Actor : ReviewOneTrue(h)'
  <2>1. \A h \in Review!Actor : ReviewOneTrue(h)
    BY ReviewOnes DEF ReviewIInv
  <2> SUFFICES ASSUME NEW h \in Review!Actor PROVE ReviewOneTrue(h)'
    OBVIOUS
  <2>2. CASE h \in Contact
    <3>1. reviewing'[h] = Review!Idle /\ h \notin Reviewer
      BY <1>7, <2>2 DEF Review!EditReviewAssumption
    <3> QED BY <3>1 DEF ReviewOneTrue, Review!Idle
  <2>3. CASE h \notin Contact
    <3>1. reviewing'[h] = reviewing[h]
      BY <1>7, <2>3
    <3> QED BY <1>0, <1>4, <2>1, <3>1, OneStays
  <2> QED BY <2>2, <2>3
<1>10. OpsTrue' /\ Roles'
  BY <1>9 DEF Review!EditReviewAssumption, OpsTrue, Roles, ReviewOneTrue, Review!Actor
<1>11. OneDraftEach'
  <2>1. \A h \in Contact : reviewing'[h] = Review!Idle
    BY <1>7 DEF Review!Actor
  <2>2. \A h \in Contact : reviewing'[h].name # "supersede"
    BY <2>1 DEF Review!Idle
  <2> QED BY <1>3, <2>2, DraftsRest
<1>12. Said(text)'
  BY <1>0, <1>4 DEF ReviewIInv, Said, Grows, Public
<1> QED BY <1>5, <1>6, <1>8, <1>10, <1>11, <1>12 DEF ReviewIInv

\* The row that is inserted.
LEMMA Inserted ==
  ASSUME NEW e \in Edit, NEW old \in Review!Text, NEW change \in BOOLEAN
  PROVE  /\ Review!Submission(e, old, change) \in Review!Row
         /\ Review!Submission(e, old, change).status \in {"pending", "approved"}
         /\ Review!Submission(e, old, change).old = old
         /\ Review!Submission(e, old, change).new \in {e, old}
         /\ Review!Submission(e, old, change).status = "pending"
              => Review!Submission(e, old, change).new = e
<1>1. CASE change
  BY <1>1 DEF Review!Submission, Review!Row, Review!Text
<1>2. CASE ~change
  BY <1>2 DEF Review!Submission, Review!Row, Review!Text
<1> QED BY <1>1, <1>2

\* What an UPDATE that has seen these rows leaves.
LEMMA SupersededRow ==
  ASSUME Review!TypeOK, NEW seen, NEW f \in Edit
  PROVE  LET row == Review!Superseded(edit, seen)[f] IN
         /\ row \in Review!Row
         /\ row = edit[f] \/ (/\ edit[f].status = "pending" /\ row.status = "superseded"
                              /\ row.old = edit[f].old /\ row.new = edit[f].new)
         /\ f \in seen => row.status # "pending"
<1>1. edit[f].status = "pending" =>
        edit[f] \in [status: {"pending", "approved", "rejected", "superseded", "reverted"},
                     old: Review!Text, new: Review!Text]
  BY RowFields DEF Review!None, Review!Gone
<1>2. Review!Superseded(edit, seen)[f] = IF f \in seen /\ edit[f].status = "pending"
                                         THEN [edit[f] EXCEPT !.status = "superseded"] ELSE edit[f]
  BY DEF Review!Superseded
<1>3. CASE f \in seen /\ edit[f].status = "pending"
  <2>1. [edit[f] EXCEPT !.status = "superseded"] \in
          [status: {"pending", "approved", "rejected", "superseded", "reverted"}, old: Review!Text, new: Review!Text]
    BY <1>1, <1>3
  <2> QED BY <1>1, <1>2, <1>3, <2>1 DEF Review!Row
<1>4. CASE ~(f \in seen /\ edit[f].status = "pending")
  BY <1>2, <1>4, RowFields
<1> QED BY <1>3, <1>4

LEMMA ReviewSubmitCommitKeeps ==
  ASSUME Review!EditReviewAssumption, ReviewIInv, NEW h \in Contact, Review!SubmitCommit(h)
  PROVE  ReviewIInv'
<1>0. /\ h \in Review!Actor /\ h \notin Reviewer /\ Review!TypeOK /\ reviewing[h].name = "supersede"
      /\ reviewing[h].old \in Review!Text /\ reviewing[h].change \in BOOLEAN
           /\ Said(reviewing[h].old)
      /\ Review!Become(h, Review!Idle) /\ text' = text
  BY Parts, ReviewOpFields DEF Review!EditReviewAssumption, ReviewIInv, OpsTrue, Review!SubmitCommit
<1>1. PICK e \in Edit : edit[e] = Review!None /\ edit' = Review!Submitted(e, h)
  BY DEF Review!SubmitCommit
<1>2. PICK old \in Review!Text, change \in BOOLEAN, seen \in {reviewing[h].seen} : reviewing[h].old = old /\ reviewing[h].change = change
                                                                            /\ reviewing[h].seen = seen
  BY <1>0
<1>3. edit' = [Review!Superseded(edit, seen) EXCEPT ![e] = Review!Submission(e, old, change)]
  BY <1>1, <1>2 DEF Review!Submitted
<1>4. DOMAIN Review!Superseded(edit, seen) = Edit
  BY DEF Review!Superseded
<1>5. edit'[e] = Review!Submission(e, old, change)
        /\ \A f \in Edit \ {e} : edit'[f] = Review!Superseded(edit, seen)[f]
  BY <1>3, <1>4
<1>6. /\ edit'[e] \in Review!Row /\ edit'[e].status \in {"pending", "approved"}
      /\ edit'[e].old = old /\ edit'[e].new \in {e, old}
      /\ edit'[e].status = "pending" => edit'[e].new = e
  BY <1>5, Inserted
<1>7. \A f \in Edit \ {e} :
        /\ edit'[f] \in Review!Row
        /\ edit'[f] = edit[f] \/ (/\ edit[f].status = "pending" /\ edit'[f].status = "superseded"
                                  /\ edit'[f].old = edit[f].old /\ edit'[f].new = edit[f].new)
        /\ f \in seen => edit'[f].status # "pending"
  BY <1>0, <1>5, SupersededRow
<1>8. edit' \in [Edit -> Review!Row]
  <2>1. DOMAIN edit' = Edit /\ \A f \in Edit : edit'[f] \in Review!Row
    BY <1>3, <1>4, <1>6, <1>7
  <2>2. edit' = [f \in Edit |-> edit'[f]]
    BY <1>3, <1>4 DEF Review!Superseded
  <2> QED BY <2>1, <2>2
<1>9. Grows
  BY <1>1, <1>6, <1>7, <1>8 DEF Grows, Public, Review!None
<1>10. Said(old)
  BY <1>0, <1>2
<1>11. ReviewRowsTrue'
  <2>1. \A f \in Edit : edit'[f] \notin {Review!None, Review!Gone} =>
          /\ Said(edit'[f].old)
          /\ edit'[f].new \in {f, edit'[f].old}
          /\ edit'[f].status = "pending" => edit'[f].new = f
    <3> SUFFICES ASSUME NEW f \in Edit, edit'[f] \notin {Review!None, Review!Gone}
                 PROVE  /\ Said(edit'[f].old)
                        /\ edit'[f].new \in {f, edit'[f].old}
                        /\ edit'[f].status = "pending" => edit'[f].new = f
      OBVIOUS
    <3>1. CASE f = e
      BY <1>6, <1>10, <3>1
    <3>2. CASE f # e /\ edit'[f] = edit[f]
      BY <3>2 DEF ReviewIInv, ReviewRowsTrue
    <3>3. CASE f # e /\ edit'[f] # edit[f]
      <4>1. /\ edit[f].status = "pending" /\ edit'[f].status = "superseded"
            /\ edit'[f].old = edit[f].old /\ edit'[f].new = edit[f].new
        BY <1>7, <3>3
      <4>2. edit[f] \notin {Review!None, Review!Gone}
        BY <4>1 DEF Review!None, Review!Gone
      <4> QED BY <4>1, <4>2 DEF ReviewIInv, ReviewRowsTrue
    <3> QED BY <3>1, <3>2, <3>3
  <2>2. \A f \in Edit : edit'[f] \notin {Review!None, Review!Gone} =>
          (edit'[f].old \in Edit => edit'[edit'[f].old].status \notin {"none", "pending", "superseded"})
    BY <1>9, <2>1 DEF Grows, Said
  <2> QED BY <2>1, <2>2 DEF ReviewRowsTrue, Said, Public
<1>12. ReviewMoves(h, Review!Idle) /\ reviewing'[h] = Review!Idle
         /\ \A g \in Review!Actor \ {h} : reviewing'[g] = reviewing[g]
  BY <1>0 DEF Review!Become, ReviewMoves, Review!Op, Review!TypeOK
<1>13. reviewing' \in [Review!Actor -> Review!Op] /\ OpsTrue' /\ Roles'
  <2>1. ReviewOneTrue(h)'
    BY <1>12 DEF ReviewOneTrue, Review!Idle
  <2> QED BY <1>0, <1>9, <1>12, <2>1, HandlersKeep
<1>14. Review!AbandonedForSomething'
  BY <1>6 DEF Review!AbandonedForSomething
<1>15. Review!TypeOK'
  BY <1>0, <1>8, <1>13 DEF Review!TypeOK
<1>16. Said(text)'
  BY <1>0, <1>9 DEF ReviewIInv, Said, Grows, Public
<1>17. OneDraftEach'
  <2>1. PICK owner \in [Edit -> Contact] :
          /\ \A f, g \in Review!Pending : owner[f] = owner[g] => f = g
          /\ \A k \in Contact : reviewing[k].name = "supersede" =>
               \A f \in Review!Pending : owner[f] = k => f \in reviewing[k].seen
    BY DEF ReviewIInv, OneDraftEach
  <2>2. PICK owned \in [Edit -> Contact] : owned = [owner EXCEPT ![e] = h]
    BY <2>1
  <2>3. owned[e] = h /\ \A f \in Edit \ {e} : owned[f] = owner[f]
    BY <2>1, <2>2
  <2>4. \A f \in Review!Pending' : f = e \/ (f \in Review!Pending /\ f \in Edit \ {e}
          /\ f \notin seen)
    BY <1>7 DEF Review!Pending
  <2>5. \A f \in Review!Pending \ seen : owner[f] # h
    BY <1>0, <1>2, <2>1
  <2>6. \A f, g \in Review!Pending' : owned[f] = owned[g] => f = g
    BY <2>1, <2>3, <2>4, <2>5
  <2>7. \A k \in Contact : reviewing'[k].name = "supersede" => k # h /\ reviewing'[k] = reviewing[k]
    BY <1>12, Parts DEF Review!Idle
  <2>8. \A k \in Contact : reviewing'[k].name = "supersede" =>
          \A f \in Review!Pending' : owned[f] = k => f \in reviewing'[k].seen
    BY <2>1, <2>3, <2>4, <2>7
  <2> QED BY <2>6, <2>8 DEF OneDraftEach
<1> QED BY <1>11, <1>13, <1>14, <1>15, <1>16, <1>17 DEF ReviewIInv

-------------------------------------------------------------------------------
(* The specification.                                                        *)

LEMMA ReviewInitOK ==
  ASSUME Review!EditReviewAssumption, Review!Init
  PROVE  ReviewIInv
<1> DEFINE empty == [e \in Edit |-> Review!None]
<1>0. text = Seed /\ reviewing = [h \in Review!Actor |-> Review!Idle] /\ Seed \notin Edit
  BY DEF Review!EditReviewAssumption, Review!Init
<1>1. \/ edit = empty
      \/ \E e \in Edit : edit = [empty EXCEPT ![e] = Review!Submission(e, Seed, TRUE)]
  BY DEF Review!Init
<1>2. \A e \in Edit : /\ Review!Submission(e, Seed, TRUE) \in Review!Row
                      /\ Review!Submission(e, Seed, TRUE).status = "pending"
                      /\ Review!Submission(e, Seed, TRUE).old = Seed
                      /\ Review!Submission(e, Seed, TRUE).new = e
  BY DEF Review!Submission, Review!Row, Review!Text
<1>3. edit \in [Edit -> Review!Row]
  BY <1>1, <1>2 DEF Review!Row
<1>4. \A e \in Edit : edit[e] = Review!None \/ (/\ edit[e].status = "pending"
                                                /\ edit[e].old = Seed /\ edit[e].new = e)
  BY <1>1, <1>2
<1>5. \A e, f \in Edit : edit[e].status = "pending" /\ edit[f].status = "pending" => e = f
  <2>1. CASE edit = empty
    BY <2>1 DEF Review!None
  <2>2. CASE \E e \in Edit : edit = [empty EXCEPT ![e] = Review!Submission(e, Seed, TRUE)]
    <3>1. PICK e \in Edit : edit = [empty EXCEPT ![e] = Review!Submission(e, Seed, TRUE)]
      BY <2>2
    <3>2. \A f \in Edit \ {e} : edit[f] = Review!None
      BY <3>1
    <3> QED BY <3>2 DEF Review!None
  <2> QED BY <1>1, <2>1, <2>2
<1>6. Review!TypeOK
  BY <1>0, <1>3 DEF Review!TypeOK, Review!Text, Review!Op
<1>7. Said(text) /\ ReviewRowsTrue
  BY <1>0, <1>4 DEF Said, ReviewRowsTrue
<1>8. \A h \in Review!Actor : ReviewOneTrue(h)
  BY <1>0 DEF ReviewOneTrue, Review!Idle
<1>9. OpsTrue /\ Roles
  BY <1>8, ReviewOnes
<1>10. OneDraftEach
  <2>1. PICK h \in Contact : TRUE
    BY DEF Review!EditReviewAssumption
  <2>2. PICK owner \in [Edit -> Contact] : owner = [e \in Edit |-> h]
    BY <2>1
  <2>3. \A e, f \in Review!Pending : owner[e] = owner[f] => e = f
    BY <1>5 DEF Review!Pending
  <2>4. \A g \in Contact : reviewing[g].name # "supersede"
    BY <1>0, Parts DEF Review!Idle
  <2> QED BY <2>3, <2>4 DEF OneDraftEach
<1>11. Review!AbandonedForSomething
  BY <1>4 DEF Review!AbandonedForSomething, Review!None
<1> QED BY <1>6, <1>7, <1>9, <1>10, <1>11 DEF ReviewIInv

LEMMA NextKeeps ==
  ASSUME Review!EditReviewAssumption, ReviewIInv, [Review!Next]_(Review!vars)
  PROVE  ReviewIInv'
<1>1. CASE \E h \in Contact : Review!Submit(h) \/ Review!Supersede(h) \/ Review!SubmitCommit(h)
  BY <1>1, ReviewSubmitKeeps, SupersedeKeeps, ReviewSubmitCommitKeeps
<1>2. CASE \E h \in Reviewer : Review!Review(h) \/ Review!Approve(h) \/ Review!Reject(h)
        \/ Review!Revert(h) \/ Review!RevertCommit(h)
  BY <1>2, ReviewKeeps, ApproveKeeps, ReviewRejectKeeps, RevertKeeps, RevertCommitKeeps
<1>3. CASE \E h \in Review!Actor : Review!Rollback(h)
  BY <1>3, ReviewRollbackKeeps
<1>4. CASE Review!Retype
  BY <1>4, RetypeKeeps
<1>5. CASE Review!DeleteCompany
  BY <1>5, DeleteKeeps
<1>6. CASE UNCHANGED Review!vars
  <2>1. UNCHANGED <<edit, text, reviewing>>
    BY <1>6 DEF Review!vars
  <2>2. Grows /\ ReviewRowsTrue' /\ Review!AbandonedForSomething'
          /\ Review!Pending' = Review!Pending
    BY <2>1, ReviewRowsRest
  <2>3. Review!TypeOK' /\ Said(text)' /\ OpsTrue' /\ Roles'
    BY <2>1 DEF ReviewIInv, Review!TypeOK, Said, Public, OpsTrue, Roles
  <2>4. OneDraftEach'
    BY <2>1, DraftsRest
  <2> QED BY <2>2, <2>3, <2>4 DEF ReviewIInv
<1> QED BY <1>1, <1>2, <1>3, <1>4, <1>5, <1>6 DEF Review!Next

\* Finiteness and size of a set mean the same in the review's module as here.
LEMMA SameSize ==
  /\ \A S : Review!Cardinality(S) = Cardinality(S)
  /\ \A S : Review!IsFiniteSet(S) <=> IsFiniteSet(S)
<1>1. \A S : Review!Cardinality(S) = Cardinality(S)
  BY DEF Review!Cardinality, Cardinality
<1>2. \A S : Review!IsFiniteSet(S) <=> IsFiniteSet(S)
  BY DEF Review!IsFiniteSet, IsFiniteSet
<1> QED BY <1>1, <1>2

\* The invariant says what the review promises.
LEMMA Promises ==
  ASSUME Review!EditReviewAssumption, ReviewIInv
  PROVE  Review!PublishedWasReviewed /\ Review!PendingBounded /\ Review!AbandonedForSomething
<1>1. Review!PublishedWasReviewed
  BY DEF ReviewIInv, Said, Public, Review!PublishedWasReviewed
<1>2. Review!PendingBounded
  <2>1. PICK owner \in [Edit -> Contact] : \A e, f \in Review!Pending : owner[e] = owner[f] => e = f
    BY DEF ReviewIInv, OneDraftEach
  <2>2. PICK given : given = [e \in Review!Pending |-> owner[e]]
    OBVIOUS
  <2>3. Review!Pending \subseteq Edit
    BY DEF Review!Pending
  <2>4. given \in [Review!Pending -> Contact] /\ \A e, f \in Review!Pending : given[e] = given[f]
          => e = f
    BY <2>1, <2>2, <2>3
  <2>5. given \in Injection(Review!Pending, Contact)
    BY <2>4 DEF Injection, IsInjective
  <2>6. IsFiniteSet(Contact)
    BY SameSize DEF Review!EditReviewAssumption
  <2>7. Cardinality(Review!Pending) <= Cardinality(Contact)
    BY <2>5, <2>6, SameSize, FS_Injection
  <2> QED BY <2>7, SameSize DEF Review!PendingBounded
<1>3. Review!AbandonedForSomething
  BY DEF ReviewIInv
<1> QED BY <1>1, <1>2, <1>3

LEMMA ReviewInductive ==
  ASSUME Review!EditReviewAssumption
  PROVE  Review!Spec => []ReviewIInv
<1>1. Review!Init => ReviewIInv
  BY ReviewInitOK
<1>2. ReviewIInv /\ [Review!Next]_(Review!vars) => ReviewIInv'
  BY NextKeeps
<1> QED BY <1>1, <1>2, PTL DEF Review!Spec

LEMMA ReviewTypeCorrect ==
  ASSUME Review!EditReviewAssumption
  PROVE  Review!Spec => []Review!TypeOK
BY ReviewInductive, ReviewIInvTyped, PTL

LEMMA ReviewSafe ==
  ASSUME Review!EditReviewAssumption
  PROVE  Review!Spec => [](Review!PublishedWasReviewed /\ Review!PendingBounded
           /\ Review!AbandonedForSomething)
<1>1. ReviewIInv => Review!PublishedWasReviewed /\ Review!PendingBounded
        /\ Review!AbandonedForSomething
  BY Promises
<1> QED BY <1>1, ReviewInductive, PTL

-------------------------------------------------------------------------------
(* THE THREE TOGETHER: a behaviour that TLC explores moves one of them, in   *)
(* its slice, and leaves the others at rest, so it is a behaviour of each.   *)
(* The theorems are about every behaviour of each, in a slice or not.        *)

LEMMA EachIsAPart == MCSpec => Spec /\ Link!Spec /\ Review!Spec
<1>1. MCInit => Init /\ Link!Init /\ Review!Init
  BY DEF MCInit
<1>2. [MCNext]_<<vars, linkVars, reviewVars, focus>> =>
        [Next]_vars /\ [Link!Next]_(Link!vars) /\ [Review!Next]_(Review!vars)
  <2>1. /\ UNCHANGED linkVars => UNCHANGED Link!vars
        /\ UNCHANGED reviewVars => UNCHANGED Review!vars
    BY DEF linkVars, reviewVars, Link!vars, Review!vars
  <2> QED BY <2>1 DEF MCNext
<1> QED BY <1>1, <1>2, PTL DEF MCSpec, Spec, Link!Spec, Review!Spec

\* The rows and transactions of the links and of the review are well-typed, for any number
\* of leads, invites, sessions and edits.
THEOREM EditsTypeCorrect == Link!Spec /\ Review!Spec => []EditTypesOK
<1>1. Link!TypeOK /\ Review!TypeOK => EditTypesOK
  BY DEF EditTypesOK
<1> QED BY <1>1, LeadsAssumption, LinkTypeCorrect, ReviewTypeCorrect, PTL

\* issue_edit_invite(), open_edit_session(), submit_edit_session() and release_lead(): a lead
\* that nobody raced for has one live door at a time and none once it is released, and an
\* invite is good for one session, a session for one edit, and not for longer than the invite,
\* whatever the number of leads, staff, contacts and rows.
THEOREM LinksStayTrue == Link!Spec => []LinksTrue
<1>1. /\ Link!OneDoorUnlessRaced /\ Link!ReleasedIsShut
      /\ Link!OneSessionPerInvite /\ Link!OneEditPerSession /\ Link!SessionWithinInvite
      => LinksTrue
  BY DEF LinksTrue
<1> QED BY <1>1, LeadsAssumption, LinkSafe, PTL

\* review_edit(), revert_edit() and submit_edit_session(): the chatbot says no text whose row
\* still waits or was superseded unseen, the drafts are at most as many as the handlers that
\* submit, and a draft is superseded for something, whatever the number of each.
THEOREM ReviewHasDecided == Review!Spec => []ReviewDecides
<1>1. /\ Review!PublishedWasReviewed /\ Review!PendingBounded /\ Review!AbandonedForSomething
      => ReviewDecides
  BY DEF ReviewDecides
<1> QED BY <1>1, LeadsAssumption, ReviewSafe, PTL
===============================================================================
