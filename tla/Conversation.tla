---------------------------- MODULE Conversation ----------------------------
(***************************************************************************)
(* Conversations and the visitors who own them                             *)
(* (src/app/services/conversations.py, as src/app/routers/chat.py and      *)
(* src/app/routers/otp.py call it).  A chat request names a conversation   *)
(* by an unsigned cookie and its visitor by a session; it checks the       *)
(* owner, makes the row, reads the rolling summary, appends its turn, and  *)
(* after the answer is sent refreshes the summary.  Each of these is a     *)
(* transaction of its own, and most swallow their faults.                  *)
(*                                                                         *)
(* A booth's browser is shared: a sitting is one person's stay at it, and  *)
(* between two of them more than HISTORY_WINDOW_MINUTES pass.  Nothing is  *)
(* under way at that moment, since a request and its background work end   *)
(* long before the window does.                                            *)
(***************************************************************************)
EXTENDS Naturals, FiniteSets

CONSTANTS
  Visitor,      \* people who can register
  Conv,         \* conversation ids
  Request,      \* chat requests under way at the same time
  Signup,       \* registrations under way at the same time
  Keep,         \* newest messages that are never folded (2 * HISTORY_TURNS)
  Threshold,    \* SUMMARIZE_AFTER_MESSAGES
  MaxId,        \* bound on messages
  LastSitting,  \* bound on sittings
  MaxFault      \* bound on database faults

Anon == "anonymous"   \* the empty visitor_id

\* What an instance of this module has to assume of its constants.
ConversationAssumption ==
  /\ Anon \notin Visitor
  /\ IsFiniteSet(Request) /\ Request \cap Signup = {}
  /\ {Keep, Threshold, MaxId, LastSitting, MaxFault} \subseteq Nat

VARIABLES
  conv,     \* [Conv -> its conversations row]
  log,      \* the messages: id, conversation, sitting, author, and whether it was defended
  lastId,
  person,   \* [Visitor -> "new", "known", "deleted"]
  task,     \* [Request \cup Signup -> where it is]
  sitting,
  faults,
  kept,     \* ghost: conversations in which a fault once skipped the forgetting of a summary
  late      \* ghost: conversations a deleted person's own request or registration may make again

vars == <<conv, log, lastId, person, task, sitting, faults, kept, late>>

NoConv == [exists |-> FALSE, owner |-> Anon, fresh |-> FALSE, count |-> 0,
           summary |-> {}, upto |-> 0]
Idle == [pc |-> "idle", conv |-> {}, who |-> Anon, sure |-> FALSE, heard |-> {},
         newest |-> 0, summary |-> {}, upto |-> 0]

Init ==
  /\ conv = [c \in Conv |-> NoConv]
  /\ log = {} /\ lastId = 0
  /\ person = [v \in Visitor |-> "new"]
  /\ task = [t \in Request \cup Signup |-> Idle]
  /\ sitting = 0 /\ faults = 0
  /\ kept = {} /\ late = {}

Busy(t) == task[t].pc # "idle"
On(t, c) == task[t].conv = {c}
Of(c) == {m \in log : m.conv = c}
Newest(S) == IF S = {} THEN 0 ELSE CHOOSE i \in {m.id : m \in S} : \A m \in S : m.id =< i
Fault == faults < MaxFault /\ faults' = faults + 1

\* t moves on; a step that changes whose c is, or whether c is, leaves no other request sure.
Move(t, r) == task' = [task EXCEPT ![t] = r]
MoveOver(t, r, C) ==
  task' = [u \in DOMAIN task |->
             IF u = t THEN r
             ELSE IF task[u].conv \cap C # {} THEN [task[u] EXCEPT !.sure = FALSE] ELSE task[u]]

(* One chat request *)

\* continuable_conversation_id: no row or no owner is as good as one's own.
Continuable(c, v) == ~conv[c].exists \/ conv[c].owner \in {Anon, v}

\* The cookie's conversation, or a new id when that one is somebody else's; a fault keeps it.
\* "sure" is a signed-in visitor's expectation that this conversation is, or will be, theirs.
Arrive(r, v, c) ==
  /\ r \in Request /\ ~Busy(r)
  /\ v # Anon => person[v] = "known"
  /\ lastId + 2 * Cardinality({u \in Request : Busy(u)}) + 2 =< MaxId
  /\ \/ /\ Continuable(c, v)
        /\ Move(r, [Idle EXCEPT !.pc = "create", !.conv = {c}, !.who = v,
                      !.sure = v # Anon /\ (conv[c].exists => conv[c].owner = v)])
        /\ UNCHANGED faults
     \/ /\ ~Continuable(c, v)
        /\ \E d \in Conv : /\ ~conv[d].exists /\ \A u \in DOMAIN task : ~On(u, d)
                           /\ Move(r, [Idle EXCEPT !.pc = "create", !.conv = {d}, !.who = v,
                                                   !.sure = v # Anon])
        /\ UNCHANGED faults
     \/ Fault /\ Move(r, [Idle EXCEPT !.pc = "create", !.conv = {c}, !.who = v])
  /\ UNCHANGED <<conv, log, lastId, person, sitting, kept, late>>

\* _ensure_conversation: INSERT OR IGNORE with this owner.
Ensured(c, v) == IF conv[c].exists THEN conv[c]
                 ELSE [NoConv EXCEPT !.exists = TRUE, !.owner = v, !.fresh = TRUE]

\* get_or_create_conversation.
Create(r) ==
  /\ task[r].pc = "create"
  /\ \E c \in task[r].conv :
       \/ /\ conv' = [conv EXCEPT ![c] = Ensured(c, task[r].who)]
          /\ MoveOver(r, [task[r] EXCEPT !.pc = "look"], IF conv[c].exists THEN {} ELSE {c})
          /\ UNCHANGED faults
       \/ Fault /\ Move(r, [task[r] EXCEPT !.pc = "look", !.sure = FALSE]) /\ UNCHANGED conv
  /\ UNCHANGED <<log, lastId, person, sitting, kept, late>>

\* For comparison: the summary goes to the model however long the row was quiet.
LookAnyway(r) ==
  /\ task[r].pc = "look"
  /\ \E c \in task[r].conv :
       \/ /\ conv[c].exists
          /\ Move(r, [task[r] EXCEPT !.pc = "ask", !.heard = conv[c].summary])
          /\ UNCHANGED <<faults, kept>>
       \/ /\ Fault /\ Move(r, [task[r] EXCEPT !.pc = "ask"])
          /\ kept' = kept \cup {c}
  /\ UNCHANGED <<conv, log, lastId, person, sitting, late>>

\* get_summary: a fresh row's summary goes to the model; a quiet one's is to be forgotten.
Look(r) ==
  /\ task[r].pc = "look"
  /\ \E c \in task[r].conv :
       \/ /\ conv[c].exists /\ conv[c].fresh
          /\ Move(r, [task[r] EXCEPT !.pc = "ask", !.heard = conv[c].summary])
          /\ UNCHANGED <<faults, kept>>
       \/ /\ ~(conv[c].exists /\ conv[c].fresh)
          /\ Move(r, [task[r] EXCEPT !.pc = "forget", !.newest = Newest(Of(c))])
          /\ UNCHANGED <<faults, kept>>
       \/ /\ Fault /\ Move(r, [task[r] EXCEPT !.pc = "ask"])
          /\ kept' = kept \cup {c}
  /\ UNCHANGED <<conv, log, lastId, person, sitting, late>>

\* _forget_stale_summary: the summary goes, and so does what it was made from.
Erased(c, newest) == [conv[c] EXCEPT !.summary = {}, !.upto = newest]

\* Its UPDATE, of no row when there is none.
Forget(r) ==
  /\ task[r].pc = "forget"
  /\ \E c \in task[r].conv :
       \/ /\ conv' = IF conv[c].exists THEN [conv EXCEPT ![c] = Erased(c, task[r].newest)] ELSE conv
          /\ UNCHANGED <<faults, kept>>
       \/ Fault /\ UNCHANGED conv /\ kept' = kept \cup {c}
  /\ Move(r, [task[r] EXCEPT !.pc = "ask", !.newest = 0])
  /\ UNCHANGED <<log, lastId, person, sitting, late>>

\* _append: the row is ensured, without an owner; one transaction.
Append(r) ==
  /\ task[r].pc \in {"ask", "answer"}
  /\ LET next == [task[r] EXCEPT !.pc = IF @ = "ask" THEN "answer" ELSE "read", !.heard = {}] IN
     \E c \in task[r].conv :
       \/ /\ conv' = [conv EXCEPT ![c] = [Ensured(c, Anon) EXCEPT !.fresh = TRUE, !.count = @ + 1]]
          /\ lastId' = lastId + 1
          /\ log' = log \cup {[id |-> lastId', conv |-> c, sit |-> sitting,
                               by |-> task[r].who, sure |-> task[r].sure]}
          /\ MoveOver(r, next, IF conv[c].exists THEN {} ELSE {c})
          /\ UNCHANGED faults
       \/ Fault /\ Move(r, next) /\ UNCHANGED <<conv, log, lastId>>
  /\ UNCHANGED <<person, sitting, kept, late>>

\* No answer was found for it (answered=False), or the request fails and nothing is refreshed.
Unanswered(r) ==
  /\ task[r].pc \in {"ask", "answer"}
  /\ Move(r, IF task[r].pc = "answer" THEN [task[r] EXCEPT !.pc = "read"] ELSE Idle)
  /\ UNCHANGED <<conv, log, lastId, person, sitting, faults, kept, late>>

\* The messages that would be folded: all but the newest Keep of those past the line.
Fold(c, upto) ==
  LET pending == {m \in Of(c) : m.id > upto} IN
  {m \in pending : Cardinality({n \in pending : n.id > m.id}) >= Keep}

\* update_summary up to its call of the model: the row, and the messages since (a message
\* that comes between the two SELECTs might as well have come before the first).
Read(r) ==
  /\ task[r].pc = "read"
  /\ \E c \in task[r].conv :
       LET fold == Fold(c, conv[c].upto) IN
       IF conv[c].exists /\ conv[c].count >= Threshold /\ fold # {}
       THEN Move(r, [task[r] EXCEPT !.pc = "fold", !.upto = Newest(fold),
                       !.summary = conv[c].summary \cup {m.sit : m \in fold}])
       ELSE Move(r, Idle)
  /\ UNCHANGED <<conv, log, lastId, person, sitting, faults, kept, late>>

\* The model has answered: set_summary, whatever has happened to the row meanwhile.
Store(r) ==
  /\ task[r].pc = "fold"
  /\ \E c \in task[r].conv :
       conv' = IF conv[c].exists
               THEN [conv EXCEPT ![c].summary = task[r].summary, ![c].upto = task[r].upto]
               ELSE conv
  /\ Move(r, Idle)
  /\ UNCHANGED <<log, lastId, person, sitting, faults, kept, late>>

\* The model fails, or the process dies before it answers.
Abandon(r) ==
  /\ task[r].pc \in {"read", "fold"}
  /\ Move(r, Idle)
  /\ UNCHANGED <<conv, log, lastId, person, sitting, faults, kept, late>>

(* Registration, deletion, retention *)

\* upsert_visitor for a verified number; the claim of the cookie's conversation comes after.
Register(s, v, c) ==
  /\ s \in Signup /\ ~Busy(s)
  /\ person[v] # "deleted"
  /\ person' = [person EXCEPT ![v] = "known"]
  /\ Move(s, [Idle EXCEPT !.pc = "attach", !.conv = {c}, !.who = v])
  /\ UNCHANGED <<conv, log, lastId, sitting, faults, kept, late>>

\* For comparison: the claim does not ask whose the conversation is.
ClaimableAnyones(c, v) == conv[c].exists
\* The WHERE clause of attach_visitor.
Claimable(c, v) == conv[c].exists /\ conv[c].owner \in {Anon, v}

Attach(s) ==
  /\ task[s].pc = "attach"
  /\ \E c \in task[s].conv :
       LET v == task[s].who IN
       \/ /\ Claimable(c, v)
          /\ conv' = [conv EXCEPT ![c].owner = v]
          /\ MoveOver(s, Idle, IF conv[c].owner = Anon THEN {c} ELSE {})
          /\ UNCHANGED faults
       \/ ~Claimable(c, v) /\ Move(s, Idle) /\ UNCHANGED <<conv, faults>>
       \/ Fault /\ Move(s, Idle) /\ UNCHANGED conv
  /\ UNCHANGED <<log, lastId, person, sitting, kept, late>>

\* The rows of these conversations and their messages, in one transaction.
Removed(C) ==
  /\ conv' = [c \in Conv |-> IF c \in C THEN NoConv ELSE conv[c]]
  /\ log' = {m \in log : m.conv \notin C}
  /\ task' = [u \in DOMAIN task |->
                IF task[u].conv \cap C # {} THEN [task[u] EXCEPT !.sure = FALSE] ELSE task[u]]

\* delete_conversation_for_visitor by its owner; an administrator's delete_conversation.
Delete(c) ==
  /\ conv[c].exists
  /\ Removed({c})
  /\ UNCHANGED <<lastId, person, sitting, faults, kept, late>>

\* For comparison: the person and the sessions, but not the conversations.
BelongingsNone(v) == {}
Belongings(v) == {c \in Conv : conv[c].exists /\ conv[c].owner = v}

\* delete_visitor, with the sessions: no later request is this person's.
DeleteVisitor(v) ==
  /\ person[v] = "known"
  /\ person' = [person EXCEPT ![v] = "deleted"]
  /\ Removed(Belongings(v))
  /\ late' = late \cup UNION {task[u].conv : u \in {w \in DOMAIN task : task[w].who = v}}
  /\ UNCHANGED <<lastId, sitting, faults, kept>>

\* purge_expired: a conversation that has been quiet for longer than the retention, or the
\* messages of one that are older than it.
Purge(c) ==
  /\ conv[c].exists
  /\ \/ ~conv[c].fresh /\ Removed({c})
     \/ /\ \E m \in Of(c) : m.sit < sitting
        /\ log' = {m \in log : m.conv = c => m.sit = sitting}
        /\ UNCHANGED <<conv, task>>
  /\ UNCHANGED <<lastId, person, sitting, faults, kept, late>>

\* The browser is left alone for longer than the window.
Leave ==
  /\ sitting < LastSitting /\ \A t \in DOMAIN task : ~Busy(t)
  /\ sitting' = sitting + 1
  /\ conv' = [c \in Conv |-> [conv[c] EXCEPT !.fresh = FALSE]]
  /\ UNCHANGED <<log, lastId, person, task, faults, kept, late>>

Serve(r) == Create(r) \/ Look(r) \/ Forget(r) \/ Append(r) \/ Unanswered(r)
            \/ Read(r) \/ Store(r) \/ Abandon(r)

Next ==
  \/ Leave
  \/ \E r \in Request : Serve(r) \/ \E v \in Visitor \cup {Anon}, c \in Conv : Arrive(r, v, c)
  \/ \E s \in Signup : Attach(s) \/ \E v \in Visitor, c \in Conv : Register(s, v, c)
  \/ \E c \in Conv : Delete(c) \/ Purge(c)
  \/ \E v \in Visitor : DeleteVisitor(v)

Spec == Init /\ [][Next]_vars

TypeOK ==
  /\ \A c \in Conv : /\ conv[c].owner \in Visitor \cup {Anon}
                     /\ conv[c].upto \in 0..lastId
                     /\ conv[c].summary \subseteq 0..sitting
                     /\ conv[c].count >= Cardinality(Of(c))
                     /\ ~conv[c].exists => conv[c] = NoConv
  /\ \A m \in log : m.id \in 1..lastId /\ m.by \in Visitor \cup {Anon}
  /\ lastId \in 0..MaxId /\ sitting \in 0..LastSitting /\ faults \in 0..MaxFault
  /\ \A t \in DOMAIN task : Cardinality(task[t].conv) = IF Busy(t) THEN 1 ELSE 0

\* Nobody hears the person before them: what the model is told of a conversation's older
\* part holds only words of this sitting (_history_for: "BOTH HALVES ARE BOUNDED BY
\* HISTORY_WINDOW_MINUTES"), unless a swallowed fault skipped the forgetting.
NotOverheard ==
  \A r \in Request : task[r].heard \subseteq {sitting} \/ task[r].conv \subseteq kept

\* What a signed-in visitor says in a conversation of theirs, or in a new one, stays theirs:
\* no registration moves it to another name and no row holds it without an owner, unless the
\* row went, came or changed hands under the request, or a fault hid it.
Defended ==
  \A m \in log : m.sure => conv[m.conv].exists /\ conv[m.conv].owner = m.by

\* A deleted person owns nothing and nothing they said under their name is left, but for
\* what a request or registration of theirs brought back that was under way at the time.
DeletedIsGone ==
  \A v \in Visitor : person[v] = "deleted" =>
    /\ \A c \in Conv : conv[c].owner = v => c \in late
    /\ \A m \in log : m.by = v /\ m.sure => m.conv \in late

===============================================================================
