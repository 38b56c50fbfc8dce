------------------------------ MODULE MCLeads ------------------------------
(***************************************************************************)
(* The leads of a company for TLC, in three parts: who owns the company,   *)
(* the links a lead is sent, and the edits that wait for review.  A        *)
(* submission of EditLink, a session burned with one dataset_edits row, is *)
(* a Submit of EditReview, and a verified lead of LeadOwnership the lead   *)
(* of EditLink; none of them reads anything else of another's, so a        *)
(* behaviour explores one part while the others rest.                      *)
(***************************************************************************)
EXTENDS LeadOwnership, TLC

\* For TLC the leads of the first part lend their names to the invites and the edits of the
\* others, the handlers theirs to the contacts: one symmetry serves all.
CONSTANTS Linked,            \* the leads whose links are explored
          Invite, Session, Staff, InviteTTL, SessionTTL,
          Edit, Contact, Reviewer, Seed, Retyped

VARIABLES linked, invite, session, edits, linking, minted,
          edit, text, reviewing,
          focus     \* which of the three parts

linkVars == <<linked, invite, session, edits, linking, minted>>
reviewVars == <<edit, text, reviewing>>

Link == INSTANCE EditLink WITH Lead <- Linked, lead <- linked, op <- linking, raced <- minted
Review == INSTANCE EditReview WITH op <- reviewing, Staff <- Reviewer

ASSUME LeadsAssumption == Link!EditLinkAssumption /\ Review!EditReviewAssumption

Symmetry == Permutations(Lead) \cup Permutations(Handler) \cup Permutations(Session)

MCInit == /\ Init /\ Link!Init /\ Review!Init
          /\ focus \in {"owner", "link", "review"}
          /\ focus # "review" => \A e \in Edit : edit[e] = Review!None

\* A text typed into the dataset editor stands beside two edits, not three.
Retypes == text' = Retyped => \E e \in Edit : edit'[e] = Review!None

MCNext ==
  /\ UNCHANGED focus
  /\ \/ focus = "owner" /\ Next /\ UNCHANGED <<linkVars, reviewVars>>
     \/ focus = "link" /\ Link!Next /\ UNCHANGED <<vars, reviewVars>>
     \/ focus = "review" /\ Review!Next /\ Retypes /\ UNCHANGED <<vars, linkVars>>

MCSpec == MCInit /\ [][MCNext]_<<vars, linkVars, reviewVars, focus>>

EditTypesOK == /\ focus = "link" => Link!TypeOK
               /\ focus = "review" => Review!TypeOK

\* One live door at a time, none once the lead is released; and the page and the press are
\* good for one thing each, and not for longer than the link.
LinksTrue ==
  focus = "link" =>
    /\ Link!OneDoorUnlessRaced /\ Link!ReleasedIsShut
    /\ Link!OneSessionPerInvite /\ Link!OneEditPerSession /\ Link!SessionWithinInvite

\* What the chatbot says was reviewed, and what a newer word of the contact's does to the
\* drafts before it.
ReviewDecides == focus = "review" =>
                   /\ Review!PublishedWasReviewed
                   /\ Review!PendingBounded /\ Review!AbandonedForSomething
===============================================================================
