---------------------------- MODULE LeadOwnership ----------------------------
(***************************************************************************)
(* Who owns a company (app/services/leads.py, and the campaign runner of   *)
(* app/services/campaigns.py): the rows of company_leads.                   *)
(*                                                                         *)
(* A company is owned by a lead that is verified or completed and not      *)
(* released.  Three paths make an owner: a booth visitor registers a       *)
(* contact and verifies the code, an administrator adds a contact, a       *)
(* campaign invents a lead for a company nobody registered.  Each looks    *)
(* for an owner in one statement and writes in a later one, and no unique   *)
(* index stands behind them, so each is two steps and the steps of         *)
(* different handlers interleave.  verify_contact() looks inside its       *)
(* UPDATE, but a subquery sees only what was committed when the statement  *)
(* began, and the write is visible only after the commit.                  *)
(***************************************************************************)
EXTENDS Naturals

CONSTANTS Company, Lead, Handler,
          NoLead         \* not a lead

ASSUME NoLeadAssumption == NoLead \notin Lead

ASSUME CompanyAssumption == Company # {}

VARIABLES companies,  \* the rows of companies
          lead,       \* lead[l]: the company_leads row
          op,         \* op[h]: the transaction handler h is in the middle of
          raced,      \* history: companies that two handlers were claiming at once
          wins        \* history: wins[l]: how many verifications of l succeeded

vars == <<companies, lead, op, raced, wins>>

Status == {"none", "unverified", "verified", "completed"}

Row == [status: Status, company: Company, released: BOOLEAN]

Op == [name: {"idle"}]
      \cup [name: {"register", "add", "verify"}, company: Company, lead: Lead \cup {NoLead}]

Idle == [name |-> "idle"]

TypeOK ==
  /\ companies \subseteq Company
  /\ lead \in [Lead -> Row]
  /\ op \in [Handler -> Op]
  /\ raced \subseteq Company
  /\ wins \in [Lead -> Nat]

Init ==
  /\ companies = Company
  /\ lead \in [Lead -> [status: {"none"}, company: {CHOOSE k \in Company : TRUE},
                        released: {FALSE}]]
  /\ op = [h \in Handler |-> Idle]
  /\ raced = {}
  /\ wins = [l \in Lead |-> 0]

\* _live_owner()
LiveOwner(l) == lead[l].status \in {"verified", "completed"} /\ ~lead[l].released

Owners(k) == {l \in Lead : lead[l].company = k /\ LiveOwner(l)}

Claiming(h, k) == op[h].name \in {"add", "verify"} /\ op[h].company = k

\* h starts to claim k; the history notes who else is at it.
Begin(h, name, k, l) ==
  /\ op' = [op EXCEPT ![h] = [name |-> name, company |-> k, lead |-> l]]
  /\ raced' = IF name # "register" /\ \E g \in Handler \ {h} : Claiming(g, k)
              THEN raced \cup {k} ELSE raced

End(h) == op' = [op EXCEPT ![h] = Idle]

\* INSERT of a new lead of k.
Insert(k, status) ==
  \E l \in Lead :
    /\ lead[l].status = "none"
    /\ lead' = [lead EXCEPT ![l] = [status |-> status, company |-> k, released |-> FALSE]]

-------------------------------------------------------------------------------
(* register_contact(): the check, then (after the one-time code is sent) the *)
(* INSERT of an unverified lead.                                             *)

Register(h, k) ==
  /\ op[h] = Idle
  /\ k \in companies /\ Owners(k) = {}
  /\ Begin(h, "register", k, NoLead)
  /\ UNCHANGED <<companies, lead, wins>>

RegisterInsert(h) ==
  /\ op[h].name = "register"
  /\ Insert(op[h].company, "unverified")
  /\ End(h)
  /\ UNCHANGED <<companies, raced, wins>>

-------------------------------------------------------------------------------
(* admin_add_contact() and _ensure_campaign_lead(): the same check, and the  *)
(* INSERT of a verified lead.                                                *)

\* An administrator's form that trusts the page it was opened from.
AddUnchecked(h, k) ==
  /\ op[h] = Idle
  /\ k \in companies
  /\ Begin(h, "add", k, NoLead)
  /\ UNCHANGED <<companies, lead, wins>>

Add(h, k) ==
  /\ op[h] = Idle
  /\ k \in companies /\ Owners(k) = {}
  /\ Begin(h, "add", k, NoLead)
  /\ UNCHANGED <<companies, lead, wins>>

AddInsert(h) ==
  /\ op[h].name = "add"
  /\ Insert(op[h].company, "verified")
  /\ End(h)
  /\ UNCHANGED <<companies, raced, wins>>

-------------------------------------------------------------------------------
(* verify_contact(), from the moment the code was accepted: the conditional  *)
(* UPDATE, then its commit.  The UPDATE holds the row until the commit, so a *)
(* second one of the same lead waits for it.                                 *)

Held(l) == \E h \in Handler : op[h].name = "verify" /\ op[h].lead = l

\* The UPDATE without AND status = 'unverified': the SELECT above has checked it.
VerifyTwice(h, l) ==
  /\ op[h] = Idle
  /\ lead[l].status # "none" /\ ~Held(l)
  /\ Owners(lead[l].company) \subseteq {l}
  /\ Begin(h, "verify", lead[l].company, l)
  /\ UNCHANGED <<companies, lead, wins>>

Verify(h, l) ==
  /\ op[h] = Idle
  /\ lead[l].status = "unverified" /\ ~Held(l)
  /\ Owners(lead[l].company) \subseteq {l}
  /\ Begin(h, "verify", lead[l].company, l)
  /\ UNCHANGED <<companies, lead, wins>>

VerifyCommit(h) ==
  /\ op[h].name = "verify"
  /\ lead' = [lead EXCEPT ![op[h].lead].status = "verified"]
  /\ wins' = [wins EXCEPT ![op[h].lead] = @ + 1]
  /\ End(h)
  /\ UNCHANGED <<companies, raced>>

-------------------------------------------------------------------------------
(* The other writers of company_leads; each is one conditional statement, or *)
(* one transaction that waits for a row another one holds.                   *)

\* submit_edit_session(), the part that concerns the lead; a status nothing reads.
CompleteMisspelt(l) ==
  /\ lead[l].status = "verified" /\ ~Held(l)
  /\ lead' = [lead EXCEPT ![l].status = "complete"]
  /\ UNCHANGED <<companies, op, raced, wins>>

\* submit_edit_session(), the part that concerns the lead.
Complete(l) ==
  /\ lead[l].status = "verified" /\ ~Held(l)
  /\ lead' = [lead EXCEPT ![l].status = "completed"]
  /\ UNCHANGED <<companies, op, raced, wins>>

\* release_lead()
Release(l) ==
  /\ lead[l].status = "verified" /\ ~lead[l].released /\ ~Held(l)
  /\ lead' = [lead EXCEPT ![l].released = TRUE]
  /\ UNCHANGED <<companies, op, raced, wins>>

Removed(k) == [l \in Lead |-> IF lead[l].company = k
                              THEN [lead[l] EXCEPT !.status = "none", !.released = FALSE]
                              ELSE lead[l]]

Forgotten(k) == [l \in Lead |-> IF lead[l].company = k THEN 0 ELSE wins[l]]

\* delete_company() removes a company from this feature; delete_companies() removes
\* its companies row as well.
DeleteCompany(k) ==
  /\ \A l \in Lead : lead[l].company = k => ~Held(l)
  /\ \/ UNCHANGED companies
     \/ companies' = companies \ {k}
  /\ lead' = Removed(k)
  /\ wins' = Forgotten(k)
  /\ UNCHANGED <<op, raced>>

\* The handler dies, or the database refuses: the transaction is rolled back.
Rollback(h) ==
  /\ op[h] # Idle
  /\ End(h)
  /\ UNCHANGED <<companies, lead, raced, wins>>

Next ==
  \/ \E h \in Handler :
       \/ \E k \in Company : Register(h, k) \/ Add(h, k)
       \/ \E l \in Lead : Verify(h, l)
       \/ RegisterInsert(h) \/ AddInsert(h) \/ VerifyCommit(h)
       \/ Rollback(h)
  \/ \E l \in Lead : Complete(l) \/ Release(l)
  \/ \E k \in Company : DeleteCompany(k)

Spec == Init /\ [][Next]_vars

-------------------------------------------------------------------------------
(* What the feature promises.                                                *)

\* A company has one owner at a time, unless two handlers were claiming it at the
\* same moment: no order of registrations, releases, deletions and campaigns that
\* do not overlap gives a company away twice.
OneOwnerUnlessRaced ==
  \A k \in Company \ raced : \A l, m \in Owners(k) : l = m

\* One verification of a lead succeeds, however often its code is sent: "already
\* verified" is decided by the UPDATE and not by the SELECT before it.
ClaimedOnce == \A l \in Lead : wins[l] <= 1

\* "Two booths verifying the same company at the same second both pass their own
\* SELECT; only one of them can pass this WHERE."
OnlyOnePasses ==
  \A k \in Company : \A l, m \in Owners(k) : wins[l] > 0 /\ wins[m] > 0 => l = m
===============================================================================
