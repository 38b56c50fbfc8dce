------------------------------ MODULE EditReview ------------------------------
(***************************************************************************)
(* The edits of one company (dataset_edits, app/services/leads.py): what a *)
(* contact's session submits, the review that publishes it, the revert     *)
(* that takes it back, and the text they all write.                         *)
(*                                                                         *)
(* The sessions themselves are module EditLink's; here a submission is a   *)
(* burned session.  review_edit() and revert_edit() read a status and then *)
(* write by id alone, and submit_edit_session() diffs against fields read   *)
(* before its transaction begins, so each is two steps or three, cut where  *)
(* another handler's commit can come between.                               *)
(***************************************************************************)
EXTENDS Naturals, FiniteSets

CONSTANTS Edit,         \* ids that may be minted
          Staff,        \* handlers of the panel's requests
          Contact,      \* handlers of the contacts' submissions
          Seed,         \* the company's text at the start
          Retyped       \* a text typed into the dataset editor

\* What an instance of this module has to assume of its constants.
EditReviewAssumption ==
  /\ Seed # Retyped /\ {Seed, Retyped} \cap Edit = {}
  /\ Staff \cap Contact = {} /\ Contact # {} /\ IsFiniteSet(Contact) /\ IsFiniteSet(Edit)

VARIABLES edit,     \* edit[e]: the dataset_edits row; what it proposes is named e
          text,     \* what companies holds, and the chatbot says
          op        \* op[h]: what handler h is in the middle of

vars == <<edit, text, op>>

Actor == Staff \cup Contact
Text == Edit \cup {Seed, Retyped}

\* A row that is not there yet, and one that was deleted.
None == [status |-> "none"]
Gone == [status |-> "gone"]

Row == {None, Gone} \cup [status: {"pending", "approved", "rejected", "superseded", "reverted"},
                    old: Text, new: Text]

Idle == [name |-> "idle"]

Op == {Idle}
      \cup [name: {"submit"}, old: Text, change: BOOLEAN]
      \cup [name: {"supersede"}, old: Text, change: BOOLEAN, seen: SUBSET Edit]
      \cup [name: {"approve", "reject", "revert"}, edit: Edit, writes: Text]

TypeOK ==
  /\ edit \in [Edit -> Row]
  /\ text \in Text
  /\ op \in [Actor -> Op]

\* The row a submission inserts: a draft, or the contact's word for the live text.
Submission(e, old, change) ==
  [status |-> IF change THEN "pending" ELSE "approved", old |-> old,
   new |-> IF change THEN e ELSE old]

\* A company of the imported list, or one that propose_company() has just inserted
\* with its text as the first draft.
Init ==
  /\ LET empty == [e \in Edit |-> None] IN
       \/ edit = empty
       \/ \E e \in Edit : edit = [empty EXCEPT ![e] = Submission(e, Seed, TRUE)]
  /\ text = Seed
  /\ op = [h \in Actor |-> Idle]

Become(h, next) == op' = [op EXCEPT ![h] = next]

Pending == {e \in Edit : edit[e].status = "pending"}

-------------------------------------------------------------------------------
(* submit_edit_session(), from the live fields it diffs against.  The form   *)
(* differs from them (a change) or not (a confirmation).                     *)

Submit(h) ==
  /\ op[h] = Idle
  /\ \E change \in BOOLEAN : Become(h, [name |-> "submit", old |-> text, change |-> change])
  /\ UNCHANGED <<edit, text>>

\* UPDATE dataset_edits SET status = 'superseded': the rows the statement saw, which
\* are still pending once nobody else holds them.
Supersede(h) ==
  /\ op[h].name = "submit"
  /\ Become(h, [name |-> "supersede", old |-> op[h].old, change |-> op[h].change,
                seen |-> Pending])
  /\ UNCHANGED <<edit, text>>

\* Approved rows of the company are superseded with the pending ones.
SupersededAll(rows, seen) ==
  [e \in Edit |-> IF rows[e].status \in {"pending", "approved"}
                  THEN [rows[e] EXCEPT !.status = "superseded"] ELSE rows[e]]

Superseded(rows, seen) ==
  [e \in Edit |-> IF e \in seen /\ rows[e].status = "pending"
                  THEN [rows[e] EXCEPT !.status = "superseded"] ELSE rows[e]]

Submitted(e, h) ==
  [Superseded(edit, op[h].seen) EXCEPT ![e] = Submission(e, op[h].old, op[h].change)]

SubmitCommit(h) ==
  /\ op[h].name = "supersede"
  /\ \E e \in Edit :
       /\ edit[e] = None
       /\ edit' = Submitted(e, h)
  /\ Become(h, Idle)
  /\ UNCHANGED text

-------------------------------------------------------------------------------
(* review_edit() and revert_edit(): the row is read, and what it holds is    *)
(* written over whatever is there by then.                                   *)

\* Written by a submission that has not committed: a review has to wait.
Held(e) == \E h \in Contact : op[h].name = "supersede" /\ e \in op[h].seen

\* A row that is written back whether or not it is still there.
SetAnyway(e, status) == edit' = [edit EXCEPT ![e] = [@ EXCEPT !.status = status]]

\* The UPDATE of dataset_edits by id; a deleted row stays deleted.
Set(e, status) ==
  edit' = [edit EXCEPT ![e] = IF @ = Gone THEN Gone ELSE [@ EXCEPT !.status = status]]

Review(h) ==
  /\ op[h] = Idle
  /\ \E e \in Pending, verdict \in {"approve", "reject"} :
       Become(h, [name |-> verdict, edit |-> e, writes |-> edit[e].new])
  /\ UNCHANGED <<edit, text>>

Approve(h) ==
  /\ op[h].name = "approve" /\ ~Held(op[h].edit)
  /\ text' = op[h].writes
  /\ Set(op[h].edit, "approved")
  /\ Become(h, Idle)

Reject(h) ==
  /\ op[h].name = "reject" /\ ~Held(op[h].edit)
  /\ Set(op[h].edit, "rejected")
  /\ Become(h, Idle)
  /\ UNCHANGED text

Revert(h) ==
  /\ op[h] = Idle
  /\ \E e \in Edit :
       /\ edit[e].status = "approved"
       /\ Become(h, [name |-> "revert", edit |-> e, writes |-> edit[e].old])
  /\ UNCHANGED <<edit, text>>

RevertCommit(h) ==
  /\ op[h].name = "revert"
  /\ text' = op[h].writes
  /\ Set(op[h].edit, "reverted")
  /\ Become(h, Idle)

-------------------------------------------------------------------------------
(* The other writers.                                                        *)

\* set_public_content() and the dataset editor write the same column.
Retype ==
  /\ text' = Retyped
  /\ UNCHANGED <<edit, op>>

\* delete_company(): the queue goes, with the sessions that have not burned yet; the
\* companies row and its text stay.
DeleteCompany ==
  /\ \A h \in Contact : op[h].name # "supersede"
  /\ edit' = [e \in Edit |-> IF edit[e] = None THEN None ELSE Gone]
  /\ op' = [h \in Actor |-> IF h \in Contact THEN Idle ELSE op[h]]
  /\ UNCHANGED text

\* A dead worker, a lost connection or a deadlock victim: nothing was written.
Rollback(h) ==
  /\ op[h] # Idle
  /\ Become(h, Idle)
  /\ UNCHANGED <<edit, text>>

Next ==
  \/ \E h \in Contact : Submit(h) \/ Supersede(h) \/ SubmitCommit(h)
  \/ \E h \in Staff : Review(h) \/ Approve(h) \/ Reject(h) \/ Revert(h) \/ RevertCommit(h)
  \/ \E h \in Actor : Rollback(h)
  \/ Retype
  \/ DeleteCompany

Spec == Init /\ [][Next]_vars

-------------------------------------------------------------------------------
(* What the review promises.                                                 *)

\* "Nothing reaches companies until a human approves it", and the queue tells the
\* truth about what did: however submissions, reviews and reverts overlap, the live
\* text is never that of an edit whose row still waits, or says that nobody looked at
\* it before a newer one came.
PublishedWasReviewed ==
  \A e \in Edit : text = e => edit[e].status \notin {"none", "pending", "superseded"}

\* Each submission replaces every draft that was committed before its own UPDATE:
\* only submissions that overlap can leave a second draft in front of the reviewer.
PendingBounded == Cardinality(Pending) <= Cardinality(Contact)

\* A draft is abandoned only for a newer word of the contact's: what was superseded
\* has left something that was not.
AbandonedForSomething ==
  (\E e \in Edit : edit[e].status = "superseded")
    => \E e \in Edit : edit[e].status \notin {"none", "superseded"}

\* A reverted edit "leaves the approved list so it cannot be reverted twice onto a
\* newer text".
NotRevertedTwice ==
  [][\A h \in Staff : op[h].name = "revert" /\ RevertCommit(h)
        => edit[op[h].edit].status # "reverted" \/ text = op[h].writes]_vars
===============================================================================
