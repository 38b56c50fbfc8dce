------------------------------- MODULE EditLink -------------------------------
(***************************************************************************)
(* The one-time edit link of one company (app/services/leads.py): the      *)
(* invite a lead gets and the session its burn opens, until the session    *)
(* submits.  What becomes of the submission is module EditReview.           *)
(*                                                                         *)
(* The transactions are several statements at READ COMMITTED.  A statement *)
(* sees what was committed when it began; a row written and not committed  *)
(* is held, and a statement that needs it waits and then looks at its      *)
(* WHERE again.  What a transaction writes shows at its commit.  A step    *)
(* below ends where such a wait or a stale snapshot can matter:            *)
(*   mint     the request finds or makes the lead | DELETE invites         *)
(*            | DELETE sessions | INSERT invite, commit                    *)
(*   release  UPDATE lead, DELETE invites | DELETE sessions | commit       *)
(*   open     SELECT | UPDATE invite, INSERT session, commit               *)
(*   submit   SELECTs | UPDATE session | UPDATE lead, INSERT edit, commit  *)
(***************************************************************************)
EXTENDS Naturals

CONSTANTS Lead, Invite, Session,    \* ids that may be minted
          Staff,        \* handlers of the booth's and the panel's requests
          Contact,      \* handlers of the contacts' requests
          InviteTTL, SessionTTL

\* What an instance of this module has to assume of its constants.
EditLinkAssumption ==
  /\ InviteTTL \in Nat \ {0} /\ SessionTTL \in Nat \ {0}
  /\ Staff \cap Contact = {}

VARIABLES lead,     \* lead[l]: status and release of the company's leads
          invite,   \* invite[i]: the edit_invites row
          session,  \* session[s]: the edit_sessions row
          edits,    \* edits[s]: the dataset_edits rows that session s inserted
          op,       \* op[h]: the transaction handler h is in the middle of
          raced     \* history: leads that two requests minted for or released at once

vars == <<lead, invite, session, edits, op, raced>>

Actor == Staff \cup Contact

LeadRow == [status: {"unverified", "verified", "completed"}, released: BOOLEAN]

\* A row that is not there yet, and one that was deleted.
None == [state |-> "none"]
Gone == [state |-> "gone"]

InviteRow == {None, Gone} \cup [state: {"unused", "used"}, lead: Lead, left: 0..InviteTTL]
SessionRow == {None, Gone} \cup [state: {"open", "submitted"}, invite: Invite, lead: Lead,
                                left: 0..SessionTTL]
Idle == [name |-> "idle"]

Op == {Idle}
      \cup [name: {"due"}, lead: Lead]
      \cup [name: {"mint", "release"}, lead: Lead, invites: SUBSET Invite]
      \cup [name: {"sessions", "releasing"}, lead: Lead, invites: SUBSET Invite,
            sessions: SUBSET Session]
      \cup [name: {"open"}, invite: Invite]
      \cup [name: {"submit", "submitting"}, session: Session]

TypeOK ==
  /\ lead \in [Lead -> LeadRow]
  /\ invite \in [Invite -> InviteRow]
  /\ session \in [Session -> SessionRow]
  /\ edits \in [Session -> Nat]
  /\ op \in [Actor -> Op]
  /\ raced \subseteq Lead

Init ==
  /\ lead = [l \in Lead |-> [status |-> "unverified", released |-> FALSE]]
  /\ invite = [i \in Invite |-> None]
  /\ session = [s \in Session |-> None]
  /\ edits = [s \in Session |-> 0]
  /\ op = [h \in Actor |-> Idle]
  /\ raced = {}

Become(h, next) == op' = [op EXCEPT ![h] = next]

LiveOwner(l) == lead[l].status # "unverified" /\ ~lead[l].released

UnusedInvites(l) == {i \in Invite : invite[i].state = "unused" /\ invite[i].lead = l}
OpenSessions(l) == {s \in Session : session[s].state = "open" /\ session[s].lead = l}

-------------------------------------------------------------------------------
(* Rows that a transaction has written and not yet committed.                *)

InviteHeld(i, h) ==
  \E g \in Actor \ {h} : op[g].name \in {"sessions", "releasing"} /\ i \in op[g].invites
SessionHeld(s, h) ==
  \E g \in Actor \ {h} : op[g].name = "submitting" /\ op[g].session = s
LeadHeld(l, h) ==
  \E g \in Actor \ {h} : op[g].name \in {"release", "releasing"} /\ op[g].lead = l

-------------------------------------------------------------------------------
(* create_invite(), and the requests that end in it.                          *)

AtWork(h, l) ==
  /\ op[h].name \in {"due", "mint", "sessions", "release", "releasing"}
  /\ op[h].lead = l

\* h turns to the invites of l; the history notes who else is at them.
Begin(h, l, next) ==
  /\ op[h] = Idle
  /\ Become(h, next)
  /\ raced' = IF \E g \in Staff \ {h} : AtWork(g, l) THEN raced \cup {l} ELSE raced

Due(l) == [name |-> "due", lead |-> l]

\* verify_contact() or admin_add_contact() has committed its claim of the company.
Verify(h, l) ==
  /\ lead[l].status = "unverified"
  /\ \A m \in Lead : ~LiveOwner(m)
  /\ lead' = [lead EXCEPT ![l].status = "verified"]
  /\ Begin(h, l, Due(l))
  /\ UNCHANGED <<invite, session, edits>>

\* reissue_invite(), or a campaign, has found the company's owner.
Reissue(h, l) ==
  /\ LiveOwner(l)
  /\ Begin(h, l, Due(l))
  /\ UNCHANGED <<lead, invite, session, edits>>

\* review_edit() has rejected what one of the lead's sessions submitted.
Reject(h, l) ==
  /\ \E s \in Session : session[s].state = "submitted" /\ session[s].lead = l
  /\ Begin(h, l, Due(l))
  /\ UNCHANGED <<lead, invite, session, edits>>

\* DELETE FROM edit_invites: what the statement sees.  Nobody asks about the lead.
Mint(h) ==
  /\ op[h].name = "due"
  /\ Become(h, [name |-> "mint", lead |-> op[h].lead, invites |-> UnusedInvites(op[h].lead)])
  /\ UNCHANGED <<lead, invite, session, edits, raced>>

\* The sessions of the old page are left alone.
DeleteInvitesOnly(h) ==
  /\ op[h].name = "mint"
  /\ \A i \in op[h].invites : ~InviteHeld(i, h)
  /\ Become(h, [name |-> "sessions", lead |-> op[h].lead,
                invites |-> op[h].invites \cap UnusedInvites(op[h].lead),
                sessions |-> {}])
  /\ UNCHANGED <<lead, invite, session, edits, raced>>

\* The invites it saw are its own now, if nobody burned them first; then
\* DELETE FROM edit_sessions: what that statement saw.
DeleteInvites(h) ==
  /\ op[h].name = "mint"
  /\ \A i \in op[h].invites : ~InviteHeld(i, h)
  /\ Become(h, [name |-> "sessions", lead |-> op[h].lead,
                invites |-> op[h].invites \cap UnusedInvites(op[h].lead),
                sessions |-> OpenSessions(op[h].lead)])
  /\ UNCHANGED <<lead, invite, session, edits, raced>>

Dropped(rows, gone) ==
  [r \in DOMAIN rows |-> IF r \in gone THEN Gone ELSE rows[r]]

InsertInvite(h) ==
  /\ op[h].name = "sessions"
  /\ \A s \in op[h].sessions : ~SessionHeld(s, h)
  /\ session' = Dropped(session, op[h].sessions \cap OpenSessions(op[h].lead))
  /\ \E i \in Invite :
       /\ invite[i].state = "none"
       /\ invite' = [Dropped(invite, op[h].invites) EXCEPT
                       ![i] = [state |-> "unused", lead |-> op[h].lead, left |-> InviteTTL]]
  /\ Become(h, Idle)
  /\ UNCHANGED <<lead, edits, raced>>

-------------------------------------------------------------------------------
(* release_lead()                                                            *)

Release(h, l) ==
  /\ lead[l].status = "verified" /\ ~lead[l].released
  /\ ~LeadHeld(l, h)
  /\ Begin(h, l, [name |-> "release", lead |-> l, invites |-> UnusedInvites(l)])
  /\ UNCHANGED <<lead, invite, session, edits>>

ReleaseInvites(h) ==
  /\ op[h].name = "release"
  /\ \A i \in op[h].invites : ~InviteHeld(i, h)
  /\ Become(h, [name |-> "releasing", lead |-> op[h].lead,
                invites |-> op[h].invites \cap UnusedInvites(op[h].lead),
                sessions |-> OpenSessions(op[h].lead)])
  /\ UNCHANGED <<lead, invite, session, edits, raced>>

ReleaseCommit(h) ==
  /\ op[h].name = "releasing"
  /\ \A s \in op[h].sessions : ~SessionHeld(s, h)
  /\ lead' = [lead EXCEPT ![op[h].lead].released = TRUE]
  /\ invite' = Dropped(invite, op[h].invites)
  /\ session' = Dropped(session, op[h].sessions \cap OpenSessions(op[h].lead))
  /\ Become(h, Idle)
  /\ UNCHANGED <<edits, raced>>

-------------------------------------------------------------------------------
(* open_invite(): the SELECT and its checks, then the conditional burn and   *)
(* the session in one transaction.  A session never outlives its invite.     *)

Open(h) ==
  /\ op[h] = Idle
  /\ \E i \in Invite :
       /\ invite[i].state = "unused" /\ invite[i].left > 0
       /\ Become(h, [name |-> "open", invite |-> i])
  /\ UNCHANGED <<lead, invite, session, edits, raced>>

\* UPDATE edit_invites ... WHERE used_at IS NULL
Burnable(i) == invite[i].state = "unused"

SessionLife(i) == IF SessionTTL < invite[i].left THEN SessionTTL ELSE invite[i].left

Burn(h) ==
  /\ op[h].name = "open"
  /\ LET i == op[h].invite IN
       /\ ~InviteHeld(i, h)
       /\ IF Burnable(i)
          THEN \E s \in Session :
                 /\ session[s].state = "none"
                 /\ session' = [session EXCEPT
                      ![s] = [state |-> "open", invite |-> i, lead |-> invite[i].lead,
                              left |-> SessionLife(i)]]
                 /\ invite' = [invite EXCEPT ![i].state = "used"]
          ELSE UNCHANGED <<invite, session>>
  /\ Become(h, Idle)
  /\ UNCHANGED <<lead, edits, raced>>

-------------------------------------------------------------------------------
(* submit_edit_session(): session_view() reads the session, the conditional  *)
(* UPDATE burns it.                                                          *)

Submit(h) ==
  /\ op[h] = Idle
  /\ \E s \in Session :
       /\ session[s].state = "open" /\ session[s].left > 0
       /\ Become(h, [name |-> "submit", session |-> s])
  /\ UNCHANGED <<lead, invite, session, edits, raced>>

\* A submit that trusts session_view().
SubmittableAgain(s) == session[s].state # "gone"

\* UPDATE edit_sessions ... WHERE submitted_at IS NULL
Submittable(s) == session[s].state = "open"

\* The second submit finds a dead page.
SubmitBurn(h) ==
  /\ op[h].name = "submit"
  /\ ~SessionHeld(op[h].session, h)
  /\ Become(h, IF Submittable(op[h].session)
               THEN [op[h] EXCEPT !.name = "submitting"] ELSE Idle)
  /\ UNCHANGED <<lead, invite, session, edits, raced>>

SubmitCommit(h) ==
  /\ op[h].name = "submitting"
  /\ LET s == op[h].session
         l == session[s].lead IN
       /\ ~LeadHeld(l, h)
       /\ session' = [session EXCEPT ![s].state = "submitted"]
       /\ edits' = [edits EXCEPT ![s] = @ + 1]
       /\ lead' = [lead EXCEPT ![l].status = IF @ = "verified" THEN "completed" ELSE @]
  /\ Become(h, Idle)
  /\ UNCHANGED <<invite, raced>>

-------------------------------------------------------------------------------

\* A dead worker, a lost connection or a deadlock victim: nothing was written.
Rollback(h) ==
  /\ op[h] # Idle
  /\ Become(h, Idle)
  /\ UNCHANGED <<lead, invite, session, edits, raced>>

\* The clock moves on for what still has a time to run.
Aged(r) == IF r.state \in {"unused", "used", "open"} /\ r.left > 0
           THEN [r EXCEPT !.left = @ - 1] ELSE r

Tick ==
  /\ invite' = [i \in Invite |-> Aged(invite[i])]
  /\ session' = [s \in Session |-> Aged(session[s])]
  /\ UNCHANGED <<lead, edits, op, raced>>

StaffStep(h) ==
  \/ \E l \in Lead : Verify(h, l) \/ Reissue(h, l) \/ Reject(h, l) \/ Release(h, l)
  \/ Mint(h) \/ DeleteInvites(h) \/ InsertInvite(h)
  \/ ReleaseInvites(h) \/ ReleaseCommit(h)

ContactStep(h) ==
  \/ Open(h) \/ Burn(h)
  \/ Submit(h) \/ SubmitBurn(h) \/ SubmitCommit(h)

Next ==
  \/ \E h \in Staff : StaffStep(h)
  \/ \E h \in Contact : ContactStep(h)
  \/ \E h \in Actor : Rollback(h)
  \/ Tick

Spec == Init /\ [][Next]_vars

-------------------------------------------------------------------------------
(* What the one-time link promises.                                          *)

\* "There is never a second door into the same company": whatever is burned,
\* submitted, re-issued, rejected, rolled back or released, a lead has one unused
\* invite or one open page, unless two requests were minting for it at once.
OneDoorUnlessRaced ==
  \A l \in Lead \ raced :
    /\ \A i, j \in UnusedInvites(l) : i = j
    /\ \A s, t \in OpenSessions(l) : s = t
    /\ UnusedInvites(l) = {} \/ OpenSessions(l) = {}

\* A released lead has no door at all: its "live invite dies with it", and so does
\* the page that was opened while the release was under way.
ReleasedIsShut ==
  \A l \in Lead \ raced :
    lead[l].released => UnusedInvites(l) = {} /\ OpenSessions(l) = {}

\* "A hundred simultaneous presses produce exactly one session."
OneSessionPerInvite ==
  \A s, t \in Session :
    {session[s].state, session[t].state} \subseteq {"open", "submitted"}
    /\ session[s].invite = session[t].invite => s = t

\* "A double-submit produces exactly one row."
OneEditPerSession == \A s \in Session : edits[s] <= 1

\* A session "never [goes] past the invite's own expiry".
SessionWithinInvite ==
  \A s \in Session : session[s].state = "open" =>
                   session[s].left <= invite[session[s].invite].left
===============================================================================
