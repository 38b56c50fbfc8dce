------------------------------ MODULE IngestProofs ------------------------------
(***************************************************************************)
(* Theorems about Ingest, for every number of jobs, cards, administrators, *)
(* reviews and faults: type correctness, that one job at a time talks to   *)
(* the model, that a job, its cards, its file and what is live agree, and  *)
(* that the edit wins.                                                     *)
(***************************************************************************)
EXTENDS Ingest, WellFoundedInduction, TLAPS

-------------------------------------------------------------------------------
(* The inductive invariant: the claims of the model stage.                   *)

Unwritten == {"none", "queued", "extracting"}
Early == Unwritten \cup {"extracted"}

\* A task has claimed the job it names, from Claim until it picks another.
Inside(t) == task[t].at \in {"chunk", "call", "apply", "leave"}
Holds(t) == Inside(t) \/ task[t].at = "finish" \/ (task[t].at = "tidy" /\ task[t].then = "finish")

\* The job that a task holds was claimed, by this task alone, and has the slot unless it
\* was swept.
HoldersClaimed ==
  \A t \in Job : Holds(t) => job[task[t].job].status \notin Early

ClaimedOnce ==
  \A t, u \in Job : t # u /\ Holds(t) /\ Holds(u) => task[t].job # task[u].job

InsideHasSlot ==
  \A t \in Job : Inside(t) => job[task[t].job].status \in Slot \/ task[t].job \in swept

OneSlot == \A i, j \in Job : job[i].status \in Slot /\ job[j].status \in Slot => i = j

ClaimsRight == HoldersClaimed /\ ClaimedOnce /\ InsideHasSlot /\ OneSlot

\* No task is on its way before there is an upload that it could have started with.
UnbornIsOff == \A j \in Job : job[j].status = "none" => task[j].at = "off"

-------------------------------------------------------------------------------
(* The inductive invariant: the cards and their reviewers.                   *)

\* A document that was not read has no card, and nothing of it is live.
UnreadHasNoCard ==
  \A c \in Card : job[c[1]].status \in Unwritten => card[c] = None /\ live[c] = 0

Inserting(a) == admin[a].at = "insert"

\* An approval that has claimed its card holds it alone, as it found it.
InsertHolds ==
  /\ \A a \in Admin : Inserting(a) =>
       card[admin[a].card] # None /\ card[admin[a].card].status = "pending"
  /\ \A a, b \in Admin : a # b /\ Inserting(a) /\ Inserting(b) => admin[a].card # admin[b].card

\* A bulk approval goes through the cards of one job.
BulkOfOneJob ==
  \A a \in Admin :
    /\ admin[a].at = "bulk" => admin[a].rest \subseteq CardsOf(admin[a].job)
    /\ Inserting(a) => admin[a].rest \subseteq CardsOf(admin[a].card[1])

\* A text that went live, or is about to, behind the back of an approval is known as raced.
RacesKnown ==
  \A a \in Admin : Inserting(a) =>
    LET text == card[admin[a].card].text IN
    /\ TextLive(text) => text \in raced
    /\ \A b \in Admin \ {a} : Inserting(b) /\ card[admin[b].card].text = text => text \in raced

CardsRight ==
  /\ UnreadHasNoCard
  /\ LiveIffApproved
  /\ InsertHolds
  /\ BulkOfOneJob
  /\ CancelledHasNoPending
  /\ NothingWaitsForNobody
  /\ RacesKnown
  /\ OneRowPerTextUnlessRaced

IInv ==
  /\ TypeOK
  /\ ClaimsRight
  /\ UnbornIsOff
  /\ CardsRight
  /\ FileIsFollowed
  /\ ReadyHasWork

-------------------------------------------------------------------------------
(* Lemmas about the data.                                                    *)

LEMMA LessIsWellFounded ==
  \E R : IsWellFoundedOn(R, Nat) /\ \A x, y \in Nat : x < y => <<x, y>> \in R
<1>1. \A x, y \in Nat : x < y => <<x, y>> \in OpToRel(<, Nat)
  BY Zenon DEF OpToRel
<1> QED BY <1>1, NatLessThanWellFounded, Zenon

LEMMA MinIsMember == ASSUME NEW S \in SUBSET Nat, S # {} PROVE Min(S) \in S
<1>1. PICK R : IsWellFoundedOn(R, Nat) /\ \A x, y \in Nat : x < y => <<x, y>> \in R
  BY LessIsWellFounded, Zenon
<1>2. PICK x \in S : \A y \in S : ~ (<<y, x>> \in R)
  <2>1. IsWellFoundedOn(R, Nat) /\ S \subseteq Nat
    BY <1>1
  <2> QED BY <2>1, WFMin, Zenon
<1>3. \A y \in S : x <= y
  <2> SUFFICES ASSUME NEW y \in S PROVE x <= y
    OBVIOUS
  <2>1. x \in Nat /\ y \in Nat /\ (y < x => <<y, x>> \in R)
    BY <1>1
  <2> QED BY <1>2, <2>1
<1> QED BY <1>3 DEF Min

LEMMA TaskFields ==
  ASSUME NEW k \in Task
  PROVE  /\ k.at \in {"due", "reading", "wrote", "refused", "next", "claim", "local", "leave",
                    "finish", "tidy", "chunk", "call", "apply"} => k.job \in Job
         /\ k.at \in {"chunk", "call", "apply"} => k.todo \in Todo
         /\ k.at = "apply" => k.good \in BOOLEAN
         /\ k.at = "tidy" => k.then \in {"off", "pick", "finish"}
  BY DEF Task, Off

LEMMA TaskForms ==
  ASSUME NEW j \in Job
  PROVE  /\ Off \in Task /\ [at |-> "pick"] \in Task
         /\ \A at \in {"due", "reading", "wrote", "refused", "next", "claim", "local", "leave",
                     "finish"} : [at |-> at, job |-> j] \in Task
         /\ \A then \in {"off", "pick", "finish"} : [at |-> "tidy", job |-> j, then |-> then] \in Task
         /\ \A todo \in Todo : [at |-> "chunk", job |-> j, todo |-> todo] \in Task
         /\ \A todo \in Todo : \A good \in BOOLEAN :
              [at |-> "apply", job |-> j, todo |-> todo, good |-> good] \in Task
  BY DEF Task

LEMMA CallForm ==
  ASSUME NEW k \in Task, k.at = "chunk"
  PROVE  /\ [k EXCEPT !.at = "call"] \in Task
         /\ [k EXCEPT !.at = "call"].at = "call" /\ [k EXCEPT !.at = "call"].job = k.job
<1>1. k \in [at: {"chunk", "call"}, job: Job, todo: Todo]
  BY DEF Task, Off
<1> QED BY <1>1 DEF Task

LEMMA RequestFields ==
  ASSUME NEW q \in Request
  PROVE  /\ q.at = "insert" => q.card \in Card /\ q.rest \in Todo /\ q.bulk \in BOOLEAN
         /\ q.at = "bulk" => q.job \in Job /\ q.rest \in Todo
         /\ q.at \in {"unlink", "tidy"} => q.job \in Job
  BY DEF Request, Idle

LEMMA RequestForms ==
  /\ Idle \in Request
  /\ \A c \in Card : \A rest \in Todo : \A bulk \in BOOLEAN :
       [at |-> "insert", card |-> c, rest |-> rest, bulk |-> bulk] \in Request
  /\ \A j \in Job : \A rest \in Todo : [at |-> "bulk", job |-> j, rest |-> rest] \in Request
  /\ \A j \in Job : [at |-> "tidy", job |-> j] \in Request
  /\ \A j \in Job : [at |-> "unlink", job |-> j] \in Request
  BY DEF Request

LEMMA CardShape ==
  ASSUME NEW c \in Card
  PROVE  c[1] \in Job /\ c[2] \in Nat /\ c = <<c[1], c[2]>> /\ c \in CardsOf(c[1])
         /\ c[2] \in Text
  BY DEF Card, CardsOf, Job, Text

-------------------------------------------------------------------------------
(* Lemmas about what the actions are built from.                             *)

\* The row of job j is now at s, and no other row has moved.
JobGoes(j, s) ==
  /\ job' \in [Job -> JobRow]
  /\ job'[j].status = s
  /\ \A i \in Job : i # j => job'[i] = job[i]

StatusesKept == job' \in [Job -> JobRow] /\ \A i \in Job : job'[i].status = job[i].status

LEMMA RowMoves ==
  ASSUME NEW r \in JobRow, r.status \in Active \cup Finished
  PROVE  /\ \A s \in Active \cup Finished :
              /\ [r EXCEPT !.status = s] \in JobRow /\ [r EXCEPT !.status = s].status = s
         /\ \A b \in BOOLEAN : [r EXCEPT !.fresh = b] \in JobRow
                               /\ [r EXCEPT !.fresh = b].status = r.status
<1>1. r \in [status: Active \cup Finished, hash: Job, fresh: BOOLEAN]
  BY DEF JobRow, None, Gone, Active, Finished, Slot
<1> QED BY <1>1 DEF JobRow

LEMMA JobEnds ==
  ASSUME job \in [Job -> JobRow], NEW j \in Job, NEW s \in Active \cup Finished,
         job[j].status \in Active \cup Finished, job' = [job EXCEPT ![j].status = s]
  PROVE  JobGoes(j, s)
<1>1. PICK r \in JobRow : r = job[j]
  OBVIOUS
<1>2. PICK q \in JobRow : q = [r EXCEPT !.status = s] /\ q.status = s
  BY <1>1, RowMoves
<1>3. job' = [job EXCEPT ![j] = q]
  BY <1>1, <1>2
<1> QED BY <1>2, <1>3 DEF JobGoes

LEMMA JobMoves ==
  ASSUME job \in [Job -> JobRow], NEW j \in Job, NEW s \in Active \cup Finished,
         job[j].status \in Active \cup Finished, job' = Moved(j, s)
  PROVE  JobGoes(j, s)
<1>1. PICK r \in JobRow : r = job[j]
  OBVIOUS
<1>2. PICK q \in JobRow : q = [r EXCEPT !.status = s] /\ q.status = s
  BY <1>1, RowMoves
<1>3. PICK p \in JobRow : p = [q EXCEPT !.fresh = TRUE] /\ p.status = s
  BY <1>2, RowMoves
<1>4. job' = [job EXCEPT ![j] = p]
  BY <1>1, <1>2, <1>3 DEF Moved
<1> QED BY <1>3, <1>4 DEF JobGoes

LEMMA JobBeats ==
  ASSUME job \in [Job -> JobRow], NEW j \in Job, NEW b \in BOOLEAN,
         job[j].status \in Active \cup Finished, job' = [job EXCEPT ![j].fresh = b]
  PROVE  StatusesKept
<1>1. PICK r \in JobRow : r = job[j]
  OBVIOUS
<1>2. PICK q \in JobRow : q = [r EXCEPT !.fresh = b] /\ q.status = r.status
  BY <1>1, RowMoves
<1>3. job' = [job EXCEPT ![j] = q]
  BY <1>1, <1>2
<1> QED BY <1>1, <1>2, <1>3 DEF StatusesKept

LEMMA JobTidied ==
  ASSUME job \in [Job -> JobRow], NEW j \in Job, job' = Tidied(j)
  PROVE  \/ job' = job /\ (job[j].status # "ready" \/ Pending(j) # {})
         \/ JobGoes(j, "done") /\ job[j].status = "ready" /\ Pending(j) = {}
  BY JobEnds DEF Tidied, Active, Finished

\* The model does not write over what an administrator has edited or decided.
EditKept(c) ==
  card[c] # None /\ card'[c] # None /\ (card[c].edited \/ card[c].status # "pending")
    => card'[c].model = card[c].model

\* The row stays, in its status and with its text.
Kept(c) ==
  /\ card'[c] = None <=> card[c] = None
  /\ card[c] # None => /\ card'[c].status = card[c].status /\ card'[c].text = card[c].text
                       /\ card'[c].ai = "waiting" => card[c].ai = "waiting"
  /\ EditKept(c)

CardsLocal(j) ==
  /\ card' \in [Card -> CardRow]
  /\ \A c \in Card : Kept(c) /\ (IF c[1] = j THEN card'[c] # None => card'[c].ai # "waiting"
                                ELSE card'[c] = card[c])

LEMMA RowFields ==
  ASSUME NEW r \in CardRow
  PROVE  /\ r = None \/ (r # None /\ r \in [status: {"pending", "approved", "rejected"},
             ai: {"waiting"} \cup Over, text: Text, model: BOOLEAN, edited: BOOLEAN,
             label: BOOLEAN, saw: {"nothing", "local", "model"}])
         /\ r.status = "pending" \/ r.status = "approved" \/ r.status = "rejected" => r # None
         /\ r # None => r.status # "none"
  BY DEF CardRow, None

\* A row with one field written is a row, and its other fields are what they were.
Agree(q, r, fields) ==
  /\ q \in CardRow /\ q # None
  /\ "status" \in fields => q.status = r.status
  /\ "ai" \in fields => q.ai = r.ai
  /\ "text" \in fields => q.text = r.text
  /\ "model" \in fields => q.model = r.model
  /\ "edited" \in fields => q.edited = r.edited
  /\ "saw" \in fields => q.saw = r.saw

LEMMA RowWrites ==
  ASSUME NEW r \in CardRow, r # None
  PROVE  /\ \A x \in {"pending", "approved", "rejected"} : \E q :
              /\ q = [r EXCEPT !.status = x] /\ q.status = x
              /\ Agree(q, r, {"ai", "text", "model", "edited", "saw"})
         /\ \A x \in {"waiting"} \cup Over : \E q :
              /\ q = [r EXCEPT !.ai = x] /\ q.ai = x
              /\ Agree(q, r, {"status", "text", "model", "edited", "saw"})
         /\ \A x \in Text : \E q :
              /\ q = [r EXCEPT !.text = x] /\ q.text = x
              /\ Agree(q, r, {"status", "ai", "model", "edited", "saw"})
         /\ \A x \in BOOLEAN : \E q :
              /\ q = [r EXCEPT !.model = x] /\ q.model = x
              /\ Agree(q, r, {"status", "ai", "text", "edited", "saw"})
         /\ \A x \in BOOLEAN : \E q :
              /\ q = [r EXCEPT !.edited = x] /\ q.edited = x
              /\ Agree(q, r, {"status", "ai", "text", "model", "saw"})
         /\ \A x \in BOOLEAN : \E q :
              /\ q = [r EXCEPT !.label = x]
              /\ Agree(q, r, {"status", "ai", "text", "model", "edited", "saw"})
         /\ \A x \in {"nothing", "local", "model"} : \E q :
              /\ q = [r EXCEPT !.saw = x] /\ q.saw = x
              /\ Agree(q, r, {"status", "ai", "text", "model", "edited"})
<1>1. r \in [status: {"pending", "approved", "rejected"}, ai: {"waiting"} \cup Over, text: Text,
            model: BOOLEAN, edited: BOOLEAN, label: BOOLEAN, saw: {"nothing", "local", "model"}]
  BY RowFields
<1>2. \A q : q \in [status: {"pending", "approved", "rejected"}, ai: {"waiting"} \cup Over,
             text: Text, model: BOOLEAN, edited: BOOLEAN, label: BOOLEAN,
             saw: {"nothing", "local", "model"}] => q \in CardRow /\ q # None
  BY DEF CardRow, None
<1>3. ASSUME NEW x \in {"pending", "approved", "rejected"}
      PROVE  \E q : /\ q = [r EXCEPT !.status = x] /\ q.status = x
                   /\ Agree(q, r, {"ai", "text", "model", "edited", "saw"})
  <2>1. PICK q : q = [r EXCEPT !.status = x]
    OBVIOUS
  <2>2. q \in [status: {"pending", "approved", "rejected"}, ai: {"waiting"} \cup Over, text: Text,
              model: BOOLEAN, edited: BOOLEAN, label: BOOLEAN, saw: {"nothing", "local", "model"}]
    BY <1>1, <2>1
  <2>3. /\ q.status = x /\ q.ai = r.ai /\ q.text = r.text
        /\ q.model = r.model /\ q.edited = r.edited /\ q.saw = r.saw
    BY <1>1, <2>1
  <2> QED BY <1>2, <2>1, <2>2, <2>3 DEF Agree
<1>4. ASSUME NEW x \in {"waiting"} \cup Over
      PROVE  \E q : /\ q = [r EXCEPT !.ai = x] /\ q.ai = x
                   /\ Agree(q, r, {"status", "text", "model", "edited", "saw"})
  <2>1. PICK q : q = [r EXCEPT !.ai = x]
    OBVIOUS
  <2>2. q \in [status: {"pending", "approved", "rejected"}, ai: {"waiting"} \cup Over, text: Text,
              model: BOOLEAN, edited: BOOLEAN, label: BOOLEAN, saw: {"nothing", "local", "model"}]
    BY <1>1, <2>1
  <2>3. /\ q.status = r.status /\ q.ai = x /\ q.text = r.text
        /\ q.model = r.model /\ q.edited = r.edited /\ q.saw = r.saw
    BY <1>1, <2>1
  <2> QED BY <1>2, <2>1, <2>2, <2>3 DEF Agree
<1>5. ASSUME NEW x \in Text
      PROVE  \E q : /\ q = [r EXCEPT !.text = x] /\ q.text = x
                   /\ Agree(q, r, {"status", "ai", "model", "edited", "saw"})
  <2>1. PICK q : q = [r EXCEPT !.text = x]
    OBVIOUS
  <2>2. q \in [status: {"pending", "approved", "rejected"}, ai: {"waiting"} \cup Over, text: Text,
              model: BOOLEAN, edited: BOOLEAN, label: BOOLEAN, saw: {"nothing", "local", "model"}]
    BY <1>1, <2>1
  <2>3. /\ q.status = r.status /\ q.ai = r.ai /\ q.text = x
        /\ q.model = r.model /\ q.edited = r.edited /\ q.saw = r.saw
    BY <1>1, <2>1
  <2> QED BY <1>2, <2>1, <2>2, <2>3 DEF Agree
<1>6. ASSUME NEW x \in BOOLEAN
      PROVE  \E q : /\ q = [r EXCEPT !.model = x] /\ q.model = x
                   /\ Agree(q, r, {"status", "ai", "text", "edited", "saw"})
  <2>1. PICK q : q = [r EXCEPT !.model = x]
    OBVIOUS
  <2>2. q \in [status: {"pending", "approved", "rejected"}, ai: {"waiting"} \cup Over, text: Text,
              model: BOOLEAN, edited: BOOLEAN, label: BOOLEAN, saw: {"nothing", "local", "model"}]
    BY <1>1, <2>1
  <2>3. /\ q.status = r.status /\ q.ai = r.ai /\ q.text = r.text
        /\ q.model = x /\ q.edited = r.edited /\ q.saw = r.saw
    BY <1>1, <2>1
  <2> QED BY <1>2, <2>1, <2>2, <2>3 DEF Agree
<1>7. ASSUME NEW x \in BOOLEAN
      PROVE  \E q : /\ q = [r EXCEPT !.edited = x] /\ q.edited = x
                   /\ Agree(q, r, {"status", "ai", "text", "model", "saw"})
  <2>1. PICK q : q = [r EXCEPT !.edited = x]
    OBVIOUS
  <2>2. q \in [status: {"pending", "approved", "rejected"}, ai: {"waiting"} \cup Over, text: Text,
              model: BOOLEAN, edited: BOOLEAN, label: BOOLEAN, saw: {"nothing", "local", "model"}]
    BY <1>1, <2>1
  <2>3. /\ q.status = r.status /\ q.ai = r.ai /\ q.text = r.text
        /\ q.model = r.model /\ q.edited = x /\ q.saw = r.saw
    BY <1>1, <2>1
  <2> QED BY <1>2, <2>1, <2>2, <2>3 DEF Agree
<1>8. ASSUME NEW x \in BOOLEAN
      PROVE  \E q : /\ q = [r EXCEPT !.label = x]
                   /\ Agree(q, r, {"status", "ai", "text", "model", "edited", "saw"})
  <2>1. PICK q : q = [r EXCEPT !.label = x]
    OBVIOUS
  <2>2. q \in [status: {"pending", "approved", "rejected"}, ai: {"waiting"} \cup Over, text: Text,
              model: BOOLEAN, edited: BOOLEAN, label: BOOLEAN, saw: {"nothing", "local", "model"}]
    BY <1>1, <2>1
  <2>3. /\ q.status = r.status /\ q.ai = r.ai /\ q.text = r.text
        /\ q.model = r.model /\ q.edited = r.edited /\ q.saw = r.saw
    BY <1>1, <2>1
  <2> QED BY <1>2, <2>1, <2>2, <2>3 DEF Agree
<1>9. ASSUME NEW x \in {"nothing", "local", "model"}
      PROVE  \E q : /\ q = [r EXCEPT !.saw = x] /\ q.saw = x
                   /\ Agree(q, r, {"status", "ai", "text", "model", "edited"})
  <2>1. PICK q : q = [r EXCEPT !.saw = x]
    OBVIOUS
  <2>2. q \in [status: {"pending", "approved", "rejected"}, ai: {"waiting"} \cup Over, text: Text,
              model: BOOLEAN, edited: BOOLEAN, label: BOOLEAN, saw: {"nothing", "local", "model"}]
    BY <1>1, <2>1
  <2>3. /\ q.status = r.status /\ q.ai = r.ai /\ q.text = r.text
        /\ q.model = r.model /\ q.edited = r.edited /\ q.saw = x
    BY <1>1, <2>1
  <2> QED BY <1>2, <2>1, <2>2, <2>3 DEF Agree
<1> QED BY <1>3, <1>4, <1>5, <1>6, <1>7, <1>8, <1>9

LEMMA CardsTurnLocal ==
  ASSUME card \in [Card -> CardRow], NEW j \in Job, card' = AllLocal(j)
  PROVE  CardsLocal(j)
<1> SUFFICES ASSUME NEW c \in Card
             PROVE  /\ card'[c] \in CardRow /\ Kept(c)
                    /\ c[1] = j => (card'[c] # None => card'[c].ai # "waiting")
                    /\ c[1] # j => card'[c] = card[c]
  BY DEF CardsLocal, AllLocal
<1>1. CASE c \in Waiting(j)
  <2>1. PICK r \in CardRow : r = card[c] /\ r # None
    BY <1>1 DEF Waiting
  <2>2. card'[c] = [r EXCEPT !.ai = "local"] /\ c[1] = j
    BY <1>1, <2>1 DEF AllLocal, Waiting, CardsOf
  <2>3. /\ [r EXCEPT !.ai = "local"] \in CardRow
        /\ [r EXCEPT !.ai = "local"] # None /\ [r EXCEPT !.ai = "local"].ai = "local"
        /\ [r EXCEPT !.ai = "local"].status = r.status
        /\ [r EXCEPT !.ai = "local"].text = r.text
        /\ [r EXCEPT !.ai = "local"].model = r.model
    BY <2>1 DEF CardRow, Over, None
  <2> QED BY <2>1, <2>2, <2>3 DEF Kept, EditKept
<1>2. CASE c \notin Waiting(j)
  <2>1. card'[c] = card[c]
    BY <1>2 DEF AllLocal
  <2>2. c[1] = j => c \in CardsOf(j)
    BY DEF CardsOf
  <2> QED BY <1>2, <2>1, <2>2 DEF Kept, EditKept, Waiting
<1> QED BY <1>1, <1>2

LEMMA JobLeavesLocal ==
  ASSUME job \in [Job -> JobRow], card \in [Card -> CardRow], NEW j \in Job, LeaveLocal(j)
  PROVE  \/ job' = job /\ card' = card
         \/ JobGoes(j, "ready") /\ CardsLocal(j) /\ job[j].status = "extracted"
  BY JobEnds, CardsTurnLocal DEF LeaveLocal, Active, Finished, Slot

-------------------------------------------------------------------------------
(* What each action does, and that it keeps every variable in its type.      *)

TaskGoes(t, k) ==
  /\ task' \in [Job -> Task]
  /\ task'[t] = k
  /\ \A u \in Job : u # t => task'[u] = task[u]

AdminGoes(a, q) ==
  /\ admin' \in [Admin -> Request]
  /\ admin'[a] = q
  /\ \A b \in Admin : b # a => admin'[b] = admin[b]

LEMMA TaskMoves ==
  ASSUME task \in [Job -> Task], NEW t \in Job, NEW k \in Task, Goto(t, k)
  PROVE  TaskGoes(t, k)
  BY DEF Goto, TaskGoes

LEMMA AdminMoves ==
  ASSUME admin \in [Admin -> Request], NEW a \in Admin, NEW q \in Request, Answer(a, q)
  PROVE  AdminGoes(a, q)
  BY DEF Answer, AdminGoes

LEMMA CreateDoes ==
  ASSUME TypeOK, NEW j \in Job, Create(j)
  PROVE  /\ TypeOK'
         /\ job[j] = None /\ JobGoes(j, "queued") /\ TaskGoes(j, [at |-> "due", job |-> j])
         /\ \A i \in Job : i # j => file'[i] = file[i]
<1>1. PICK hash \in 1..j :
        job' = [job EXCEPT ![j] = [status |-> "queued", hash |-> hash, fresh |-> TRUE]]
  BY DEF Create
<1>2. hash \in Job
  BY <1>1, IngestAssumption DEF Job
<1>3. [status |-> "queued", hash |-> hash, fresh |-> TRUE] \in JobRow
  BY <1>2 DEF JobRow, Active
<1>4. JobGoes(j, "queued")
  BY <1>1, <1>3 DEF JobGoes, TypeOK
<1>5. TaskGoes(j, [at |-> "due", job |-> j])
  BY TaskMoves, TaskForms DEF Create, TypeOK
<1> QED BY <1>4, <1>5 DEF Create, TypeOK, JobGoes, TaskGoes, history

LEMMA StartDoes ==
  ASSUME TypeOK, NEW j \in Job, Start(j)
  PROVE  /\ TypeOK'
         /\ task[j].at = "due"
         /\ \/ /\ job[j].status = "queued" /\ JobGoes(j, "extracting")
               /\ TaskGoes(j, [at |-> "reading", job |-> j])
            \/ job' = job /\ TaskGoes(j, Off)
<1>1. CASE job[j].status = "queued"
  <2>1. JobGoes(j, "extracting")
    BY <1>1, JobMoves DEF Start, TypeOK, Active
  <2>2. TaskGoes(j, [at |-> "reading", job |-> j])
    BY <1>1, TaskMoves, TaskForms DEF Start, TypeOK
  <2> QED BY <1>1, <2>1, <2>2 DEF Start, TypeOK, JobGoes, TaskGoes, history
<1>2. CASE job[j].status # "queued"
  <2>1. TaskGoes(j, Off)
    BY <1>2, TaskMoves, TaskForms DEF Start, TypeOK
  <2> QED BY <1>2, <2>1 DEF Start, TypeOK, TaskGoes, history
<1> QED BY <1>1, <1>2

LEMMA BeatDoes ==
  ASSUME TypeOK, NEW j \in Job, Beat(j)
  PROVE  TypeOK' /\ StatusesKept
<1>1. StatusesKept
  BY JobBeats DEF Beat, TypeOK, Active
<1> QED BY <1>1 DEF Beat, TypeOK, StatusesKept, history

LEMMA WriteDoes ==
  ASSUME TypeOK, NEW j \in Job, Write(j)
  PROVE  /\ TypeOK'
         /\ task[j].at = "reading"
         /\ \/ /\ job[j].status = "extracting" /\ JobGoes(j, "extracted")
               /\ TaskGoes(j, [at |-> "wrote", job |-> j])
               /\ \A c \in Card :
                    IF c[1] = j THEN card'[c] # None /\ card'[c].status = "pending"
                    ELSE card'[c] = card[c]
            \/ /\ job[j].status # "extracting" /\ job' = job /\ card' = card
               /\ TaskGoes(j, [at |-> "refused", job |-> j])
<1>1. CASE job[j].status = "extracting"
  <2>1. JobGoes(j, "extracted")
    BY <1>1, JobMoves DEF Write, TypeOK, Active
  <2>2. TaskGoes(j, [at |-> "wrote", job |-> j])
    BY <1>1, TaskMoves, TaskForms DEF Write, TypeOK
  <2>3. PICK label \in [CardsOf(j) -> BOOLEAN] :
          card' = [c \in Card |-> IF c \in CardsOf(j) THEN NewCard(c, label[c]) ELSE card[c]]
    BY <1>1 DEF Write
  <2>4. ASSUME NEW c \in Card
        PROVE  /\ card'[c] \in CardRow
               /\ IF c[1] = j THEN card'[c] # None /\ card'[c].status = "pending"
                  ELSE card'[c] = card[c]
    <3>1. CASE c[1] = j
      <4>1. card'[c] = NewCard(c, label[c]) /\ label[c] \in BOOLEAN
        BY <2>3, <3>1 DEF CardsOf
      <4>2. NewCard(c, label[c]) \in CardRow /\ NewCard(c, label[c]) # None
            /\ NewCard(c, label[c]).status = "pending"
        BY <4>1, CardShape DEF NewCard, CardRow, Over, None
      <4> QED BY <3>1, <4>1, <4>2
    <3>2. CASE c[1] # j
      BY <2>3, <3>2 DEF CardsOf, TypeOK
    <3> QED BY <3>1, <3>2
  <2>5. card' \in [Card -> CardRow]
    BY <2>3, <2>4
  <2> QED BY <1>1, <2>1, <2>2, <2>4, <2>5 DEF Write, TypeOK, JobGoes, TaskGoes, history
<1>2. CASE job[j].status # "extracting"
  <2>1. TaskGoes(j, [at |-> "refused", job |-> j])
    BY <1>2, TaskMoves, TaskForms DEF Write, TypeOK
  <2> QED BY <1>2, <2>1 DEF Write, TypeOK, TaskGoes, history
<1> QED BY <1>1, <1>2

LEMMA RefuseDoes ==
  ASSUME TypeOK, NEW j \in Job, Refuse(j)
  PROVE  /\ TypeOK'
         /\ task[j].at = "reading" /\ TaskGoes(j, [at |-> "refused", job |-> j])
         /\ \/ job[j].status = "extracting" /\ JobGoes(j, "failed")
            \/ job[j].status # "extracting" /\ job' = job
<1>1. TaskGoes(j, [at |-> "refused", job |-> j])
  BY TaskMoves, TaskForms DEF Refuse, TypeOK
<1>2. \/ job[j].status = "extracting" /\ JobGoes(j, "failed")
      \/ job[j].status # "extracting" /\ job' = job
  BY JobEnds DEF Refuse, TypeOK, Active, Finished
<1> QED BY <1>1, <1>2 DEF Refuse, TypeOK, JobGoes, TaskGoes, history

LEMMA UnlinkDoes ==
  ASSUME TypeOK, NEW j \in Job, Unlink(j) \/ UnlinkFails(j)
  PROVE  /\ TypeOK'
         /\ \A i \in Job : file'[i] => file[i]
         /\ ~file'[j] \/ j \in orphaned'
         /\ orphaned \subseteq orphaned' /\ (faults' = 0 => faults = 0)
         /\ task[j].at \in {"wrote", "refused"}
         /\ TaskGoes(j, [at |-> "next", job |-> j]) \/ TaskGoes(j, Off)
<1>1. /\ TaskGoes(j, [at |-> "next", job |-> j]) \/ TaskGoes(j, Off)
      /\ task[j].at \in {"wrote", "refused"}
  BY TaskMoves, TaskForms DEF Unlink, UnlinkFails, Unlinking, TypeOK
<1>2. CASE Unlink(j)
  <2>1. file' = [file EXCEPT ![j] = FALSE]
    BY <1>2 DEF Unlink, Unlinked
  <2> QED BY <1>1, <1>2, <2>1 DEF Unlink, TypeOK, TaskGoes, history
<1>3. CASE UnlinkFails(j)
  <2>1. faults' \in 0..MaxFault /\ faults' # 0
    BY <1>3, IngestAssumption DEF UnlinkFails, Fault, TypeOK
  <2> QED BY <1>1, <1>3, <2>1 DEF UnlinkFails, TypeOK, TaskGoes
<1> QED BY <1>2, <1>3

LEMMA ContinueDoes ==
  ASSUME TypeOK, NEW j \in Job, Continue(j)
  PROVE  /\ TypeOK'
         /\ task[j].at = "next"
         /\ \/ TaskGoes(j, [at |-> "pick"]) /\ job' = job /\ card' = card
            \/ /\ TaskGoes(j, [at |-> "tidy", job |-> j, then |-> "off"])
               /\ \/ job' = job /\ card' = card
                  \/ JobGoes(j, "ready") /\ CardsLocal(j) /\ job[j].status = "extracted"
<1>1. \/ TaskGoes(j, [at |-> "pick"]) /\ job' = job /\ card' = card
      \/ TaskGoes(j, [at |-> "tidy", job |-> j, then |-> "off"]) /\ LeaveLocal(j)
  BY TaskMoves, TaskForms DEF Continue, TypeOK
<1>2. LeaveLocal(j) => \/ job' = job /\ card' = card
                       \/ JobGoes(j, "ready") /\ CardsLocal(j) /\ job[j].status = "extracted"
  BY JobLeavesLocal DEF TypeOK
<1> QED BY <1>1, <1>2 DEF Continue, TypeOK, JobGoes, TaskGoes, CardsLocal, history

LEMMA ResumeDoes ==
  ASSUME TypeOK, NEW t \in Job, Resume(t)
  PROVE  TypeOK' /\ task[t] = Off /\ TaskGoes(t, [at |-> "pick"])
<1>1. TaskGoes(t, [at |-> "pick"])
  BY TaskMoves, TaskForms DEF Resume, TypeOK
<1> QED BY <1>1 DEF Resume, TypeOK, TaskGoes, history

LEMMA PickDoes ==
  ASSUME TypeOK, NEW t \in Job, Pick(t)
  PROVE  /\ TypeOK'
         /\ task[t].at = "pick"
         /\ \E k \in Task : k.at \in {"off", "claim", "local"} /\ TaskGoes(t, k)
<1>1. \E k \in Task : k.at \in {"off", "claim", "local"} /\ TaskGoes(t, k)
  <2>1. CASE Extracted = {}
    BY <2>1, TaskMoves, TaskForms DEF Pick, TypeOK, Off
  <2>2. CASE Extracted # {}
    <3>1. Extracted \in SUBSET Nat
      BY IngestAssumption DEF Extracted, Job
    <3>2. PICK j \in Job : j = Min(Extracted)
      BY <2>2, <3>1, MinIsMember DEF Extracted
    <3>3. PICK at \in {"claim", "local"} : Goto(t, [at |-> at, job |-> j])
      BY <2>2, <3>2 DEF Pick
    <3>4. TaskGoes(t, [at |-> at, job |-> j])
      BY <3>3, TaskMoves, TaskForms DEF TypeOK
    <3> QED BY <3>4, TaskForms
  <2> QED BY <2>1, <2>2
<1> QED BY <1>1 DEF Pick, TypeOK, TaskGoes, history

LEMMA LocalDoes ==
  ASSUME TypeOK, NEW t \in Job, Local(t)
  PROVE  /\ TypeOK'
         /\ task[t].at = "local" /\ task[t].job \in Job
         /\ TaskGoes(t, [at |-> "tidy", job |-> task[t].job, then |-> "pick"])
         /\ \/ job' = job /\ card' = card
            \/ /\ JobGoes(task[t].job, "ready") /\ CardsLocal(task[t].job)
               /\ job[task[t].job].status = "extracted"
<1>1. task[t].at = "local" /\ task[t].job \in Job
  BY TaskFields DEF Local, TypeOK
<1>2. TaskGoes(t, [at |-> "tidy", job |-> task[t].job, then |-> "pick"])
  BY <1>1, TaskMoves, TaskForms DEF Local, TypeOK
<1>3. \/ job' = job /\ card' = card
      \/ /\ JobGoes(task[t].job, "ready") /\ CardsLocal(task[t].job)
         /\ job[task[t].job].status = "extracted"
  BY <1>1, JobLeavesLocal DEF Local, TypeOK
<1> QED BY <1>1, <1>2, <1>3 DEF Local, TypeOK, JobGoes, TaskGoes, CardsLocal, history

LEMMA ClaimDoes ==
  ASSUME TypeOK, NEW t \in Job, Claim(t)
  PROVE  /\ TypeOK'
         /\ task[t].at = "claim" /\ task[t].job \in Job
         /\ \/ job' = job /\ (TaskGoes(t, [at |-> "pick"]) \/ TaskGoes(t, Off))
            \/ /\ job[task[t].job].status = "extracted" /\ ~SlotTaken
               /\ JobGoes(task[t].job, "proposing")
               /\ TaskGoes(t, [at |-> "chunk", job |-> task[t].job, todo |-> Waiting(task[t].job)])
<1>1. PICK j \in Job : task[t].at = "claim" /\ task[t].job = j
  BY TaskFields DEF Claim, TypeOK
<1>2. CASE job[j].status # "extracted" \/ SlotTaken
  <2>1. job' = job /\ (TaskGoes(t, [at |-> "pick"]) \/ TaskGoes(t, Off))
    BY <1>1, <1>2, TaskMoves, TaskForms DEF Claim, TypeOK
  <2> QED BY <1>1, <2>1 DEF Claim, TypeOK, TaskGoes, history
<1>3. CASE job[j].status = "extracted" /\ ~SlotTaken
  <2>1. JobGoes(j, "proposing")
    BY <1>1, <1>3, JobMoves DEF Claim, TypeOK, Active, Slot
  <2>2. Waiting(j) \in Todo
    BY DEF Waiting, CardsOf, Todo
  <2>3. TaskGoes(t, [at |-> "chunk", job |-> j, todo |-> Waiting(j)])
    BY <1>1, <1>3, <2>2, TaskMoves, TaskForms DEF Claim, TypeOK
  <2> QED BY <1>1, <1>3, <2>1, <2>3 DEF Claim, TypeOK, JobGoes, TaskGoes, history
<1> QED BY <1>2, <1>3

LEMMA AskDoes ==
  ASSUME TypeOK, NEW t \in Job, Ask(t)
  PROVE  /\ TypeOK'
         /\ task[t].at = "chunk"
         /\ \E k \in Task : /\ k.at \in {"leave", "call", "finish"} /\ k.job = task[t].job
                           /\ TaskGoes(t, k)
<1>1. PICK q \in Task : q = task[t] /\ q.at = "chunk" /\ q.job \in Job
  BY TaskFields DEF Ask, TypeOK
<1>2. \E k \in Task : /\ k.at \in {"leave", "call", "finish"} /\ k.job = q.job
                    /\ TaskGoes(t, k)
  <2>1. CASE task[t].todo = {}
    <3>1. TaskGoes(t, [at |-> "leave", job |-> q.job])
      BY <1>1, <2>1, TaskMoves, TaskForms DEF Ask, TypeOK
    <3> QED BY <3>1, <1>1, TaskForms
  <2>2. CASE task[t].todo # {} /\ Ours(t)
    <3>1. PICK k \in Task : k = [q EXCEPT !.at = "call"] /\ k.at = "call" /\ k.job = q.job
      BY <1>1, CallForm
    <3>2. Goto(t, k)
      BY <1>1, <2>2, <3>1 DEF Ask
    <3> QED BY <3>1, <3>2, TaskMoves DEF TypeOK
  <2>3. CASE task[t].todo # {} /\ ~Ours(t)
    <3>1. TaskGoes(t, [at |-> "finish", job |-> q.job])
      BY <1>1, <2>3, TaskMoves, TaskForms DEF Ask, TypeOK
    <3> QED BY <3>1, <1>1, TaskForms
  <2> QED BY <2>1, <2>2, <2>3
<1> QED BY <1>1, <1>2 DEF Ask, TypeOK, TaskGoes, history

LEMMA ReplyDoes ==
  ASSUME TypeOK, NEW t \in Job, Reply(t)
  PROVE  /\ TypeOK'
         /\ task[t].at = "call"
         /\ \E k \in Task : /\ k.at \in {"leave", "apply", "finish"} /\ k.job = task[t].job
                           /\ TaskGoes(t, k)
<1>1. PICK j \in Job, todo \in Todo : task[t].at = "call" /\ task[t].job = j /\ task[t].todo = todo
  BY TaskFields DEF Reply, TypeOK
<1>2. \/ Goto(t, [at |-> "finish", job |-> j])
      \/ Goto(t, [at |-> "leave", job |-> j])
      \/ \E good \in BOOLEAN : Goto(t, [at |-> "apply", job |-> j, todo |-> todo, good |-> good])
  BY <1>1 DEF Reply
<1>3. \E k \in Task : k.at \in {"leave", "apply", "finish"} /\ k.job = j /\ Goto(t, k)
  BY <1>2, TaskForms
<1>4. \E k \in Task : k.at \in {"leave", "apply", "finish"} /\ k.job = j /\ TaskGoes(t, k)
  BY <1>3, TaskMoves DEF TypeOK
<1> QED BY <1>1, <1>4 DEF Reply, TypeOK, TaskGoes, history

LEMMA AnswerKeeps ==
  ASSUME NEW r \in CardRow, r # None, NEW good \in BOOLEAN
  PROVE  /\ Answered(r, good) \in CardRow /\ Answered(r, good) # None
         /\ Answered(r, good).status = r.status /\ Answered(r, good).text = r.text
         /\ Answered(r, good).ai = "waiting" => r.ai = "waiting"
         /\ r.edited \/ r.status # "pending" => Answered(r, good).model = r.model
<1>1. CASE r.ai # "waiting"
  BY <1>1 DEF Answered
<1>2. CASE r.ai = "waiting"
  <2>1. PICK ai \in Over, model \in BOOLEAN :
          /\ ai = IF good THEN "done" ELSE "failed"
          /\ model = (r.model \/ (good /\ r.status = "pending" /\ ~r.edited))
    BY RowFields DEF Over
  <2>a. PICK p : /\ p = [r EXCEPT !.ai = ai] /\ p.ai = ai
                 /\ Agree(p, r, {"status", "text", "model", "edited", "saw"})
    BY RowWrites
  <2>2. PICK q : /\ q = [p EXCEPT !.model = model] /\ q.model = model
                 /\ Agree(q, p, {"status", "ai", "text", "edited", "saw"})
    <3>1. p \in CardRow /\ p # None
      BY <2>a DEF Agree
    <3> QED BY <3>1, RowWrites
  <2>b. Answered(r, good) = q
    BY <1>2, <2>1, <2>a, <2>2 DEF Answered
  <2>3. /\ Answered(r, good) = q /\ q \in CardRow /\ q # None /\ q.ai = ai /\ q.model = model
        /\ q.status = r.status /\ q.text = r.text
    BY <2>a, <2>2, <2>b DEF Agree
  <2>4. r.model \in BOOLEAN /\ ai # "waiting"
    BY RowFields DEF Over
  <2>5. r.edited \/ r.status # "pending" => model = r.model
    BY <2>1, <2>4, RowFields
  <2> QED BY <2>3, <2>4, <2>5
<1> QED BY <1>1, <1>2

LEMMA ApplyDoes ==
  ASSUME TypeOK, NEW t \in Job, Apply(t)
  PROVE  /\ TypeOK'
         /\ task[t].at = "apply" /\ task[t].job \in Job
         /\ StatusesKept
         /\ \A c \in Card : Kept(c)
         /\ \E k \in Task : k.at = "chunk" /\ k.job = task[t].job /\ TaskGoes(t, k)
<1>1. PICK j \in Job, todo \in Todo, good \in BOOLEAN :
        task[t].at = "apply" /\ task[t].job = j /\ task[t].todo = todo /\ task[t].good = good
  BY TaskFields DEF Apply, TypeOK
<1>2. StatusesKept
  <2>1. CASE job[j].status \in Slot
    BY <1>1, <2>1, JobBeats DEF Apply, TypeOK, Active
  <2>2. CASE job[j].status \notin Slot
    BY <1>1, <2>2 DEF Apply, TypeOK, StatusesKept
  <2> QED BY <2>1, <2>2
<1>3. PICK x : x = Current(t)
  OBVIOUS
<1>4. \E k \in Task : k.at = "chunk" /\ k.job = j /\ TaskGoes(t, k)
  <2>1. PICK left \in Todo : left = todo \ {x}
    BY DEF Todo
  <2>2. Goto(t, [at |-> "chunk", job |-> j, todo |-> left])
    BY <1>1, <1>3, <2>1 DEF Apply
  <2> QED BY <2>1, <2>2, TaskForms, TaskMoves DEF TypeOK
<1>5. card' = [card EXCEPT ![x] = IF @ = None THEN None ELSE Answered(@, good)]
  BY <1>1, <1>3 DEF Apply
<1>6. ASSUME NEW c \in Card PROVE card'[c] \in CardRow /\ Kept(c)
  <2>1. PICK r \in CardRow : r = card[c]
    BY DEF TypeOK
  <2>2. CASE c = x /\ r # None
    <3>1. card'[c] = Answered(r, good)
      BY <1>5, <2>1, <2>2 DEF TypeOK
    <3> QED BY <2>1, <2>2, <3>1, AnswerKeeps DEF Kept, EditKept
  <2>3. CASE ~(c = x /\ r # None)
    <3>1. card'[c] = card[c]
      BY <1>5, <2>1, <2>3 DEF TypeOK
    <3> QED BY <3>1, <2>1 DEF Kept, EditKept
  <2> QED BY <2>2, <2>3
<1>7. card' \in [Card -> CardRow]
  BY <1>5, <1>6 DEF TypeOK
<1> QED BY <1>1, <1>2, <1>4, <1>6, <1>7 DEF Apply, TypeOK, TaskGoes, StatusesKept, history

LEMMA LeaveDoes ==
  ASSUME TypeOK, NEW t \in Job, Leave(t)
  PROVE  /\ TypeOK'
         /\ task[t].at = "leave" /\ task[t].job \in Job
         /\ TaskGoes(t, [at |-> "tidy", job |-> task[t].job, then |-> "finish"])
         /\ \/ job[task[t].job].status # "proposing" /\ job' = job /\ card' = card
            \/ /\ JobGoes(task[t].job, "ready") /\ CardsLocal(task[t].job)
               /\ job[task[t].job].status = "proposing"
<1>1. PICK j \in Job : task[t].at = "leave" /\ task[t].job = j
  BY TaskFields DEF Leave, TypeOK
<1>2. TaskGoes(t, [at |-> "tidy", job |-> j, then |-> "finish"])
  BY <1>1, TaskMoves, TaskForms DEF Leave, TypeOK
<1>3. \/ job[j].status # "proposing" /\ job' = job /\ card' = card
      \/ JobGoes(j, "ready") /\ CardsLocal(j) /\ job[j].status = "proposing"
  BY <1>1, JobEnds, CardsTurnLocal DEF Leave, TypeOK, Active, Slot
<1> QED BY <1>1, <1>2, <1>3 DEF Leave, TypeOK, JobGoes, TaskGoes, CardsLocal, history

LEMMA TidyDoes ==
  ASSUME TypeOK, NEW t \in Job, Tidy(t)
  PROVE  /\ TypeOK'
         /\ task[t].at = "tidy" /\ task[t].job \in Job
         /\ \E k \in Task :
              /\ TaskGoes(t, k)
              /\ \/ k.at \in {"off", "pick"}
                 \/ k.at = "finish" /\ task[t].then = "finish" /\ k.job = task[t].job
         /\ \/ /\ job' = job
               /\ job[task[t].job].status # "ready" \/ Pending(task[t].job) # {}
            \/ JobGoes(task[t].job, "done") /\ job[task[t].job].status = "ready"
<1>1. PICK j \in Job : task[t].at = "tidy" /\ task[t].job = j
                      /\ task[t].then \in {"off", "pick", "finish"}
  BY TaskFields DEF Tidy, TypeOK
<1>2. \E k \in Task :
        /\ TaskGoes(t, k)
        /\ \/ k.at \in {"off", "pick"}
           \/ k.at = "finish" /\ task[t].then = "finish" /\ k.job = j
  BY <1>1, TaskMoves, TaskForms DEF Tidy, TypeOK, Off
<1>3. \/ job' = job /\ (job[j].status # "ready" \/ Pending(j) # {})
      \/ JobGoes(j, "done") /\ job[j].status = "ready"
  BY <1>1, JobTidied DEF Tidy, TypeOK
<1> QED BY <1>1, <1>2, <1>3 DEF Tidy, TypeOK, JobGoes, TaskGoes, history

LEMMA FinishDoes ==
  ASSUME TypeOK, NEW t \in Job, Finish(t)
  PROVE  /\ TypeOK'
         /\ task[t].at = "finish" /\ task[t].job \in Job
         /\ TaskGoes(t, [at |-> "pick"])
         /\ \/ job' = job /\ card' = card
            \/ /\ JobGoes(task[t].job, "cancelled") /\ CardsLocal(task[t].job)
               /\ job[task[t].job].status = "cancelling"
<1>1. PICK j \in Job : task[t].at = "finish" /\ task[t].job = j
  BY TaskFields DEF Finish, TypeOK
<1>2. TaskGoes(t, [at |-> "pick"])
  BY TaskMoves, TaskForms DEF Finish, TypeOK
<1>3. \/ job' = job /\ card' = card
      \/ JobGoes(j, "cancelled") /\ CardsLocal(j) /\ job[j].status = "cancelling"
  BY <1>1, JobEnds, CardsTurnLocal DEF Finish, TypeOK, Active, Slot, Finished
<1> QED BY <1>1, <1>2, <1>3 DEF Finish, TypeOK, JobGoes, TaskGoes, CardsLocal, history

LEMMA AgeDoes ==
  ASSUME TypeOK, NEW j \in Job, Age(j)
  PROVE  TypeOK' /\ StatusesKept /\ (faults' = 0 => faults = 0)
<1>1. StatusesKept
  BY JobBeats DEF Age, TypeOK, Sweepable, Slot, Active
<1>2. faults' \in 0..MaxFault /\ (faults' = 0 => faults = 0)
  BY IngestAssumption DEF Age, Fault, TypeOK
<1> QED BY <1>1, <1>2 DEF Age, TypeOK, StatusesKept

LEMMA DieDoes ==
  ASSUME TypeOK, NEW t \in Job, Die(t)
  PROVE  /\ TypeOK'
         /\ TaskGoes(t, Off) /\ faults' # 0
         /\ orphaned \subseteq orphaned'
         /\ task[t].at \in {"wrote", "refused"} => t \in orphaned'
<1>1. TaskGoes(t, Off)
  BY TaskMoves, TaskForms DEF Die, TypeOK
<1>2. faults' \in 0..MaxFault /\ faults' # 0
  BY IngestAssumption DEF Die, Fault, TypeOK
<1>3. /\ orphaned' \subseteq Job /\ orphaned \subseteq orphaned'
      /\ task[t].at \in {"wrote", "refused"} => t \in orphaned'
  BY DEF Die, TypeOK
<1> QED BY <1>1, <1>2, <1>3 DEF Die, TypeOK, TaskGoes

LEMMA RecoverDoes ==
  ASSUME TypeOK, NEW j \in Job, Recover(j)
  PROVE  /\ TypeOK'
         /\ job[j].status \in Sweepable
         /\ JobGoes(j, IF job[j].status = "cancelling" THEN "cancelled" ELSE "failed")
         /\ CardsLocal(j)
         /\ sweeping \subseteq sweeping' /\ (Unread(j) => j \in sweeping')
         /\ swept \subseteq swept' /\ (Attended(j) => j \in swept')
<1>1. PICK s \in Active \cup Finished :
        s = IF job[j].status = "cancelling" THEN "cancelled" ELSE "failed"
  BY DEF Finished
<1>2. job[j].status \in Active \cup Finished /\ job' = [job EXCEPT ![j].status = s]
  BY <1>1 DEF Recover, Sweepable, Slot, Active
<1>3. JobGoes(j, s)
  BY <1>2, JobEnds DEF TypeOK
<1>4. CardsLocal(j)
  BY CardsTurnLocal DEF Recover, TypeOK
<1>5. /\ sweeping' \subseteq Job /\ sweeping \subseteq sweeping'
      /\ Unread(j) => j \in sweeping'
  BY DEF Recover, TypeOK
<1>6. swept' \subseteq Job /\ swept \subseteq swept' /\ (Attended(j) => j \in swept')
  BY DEF Recover, TypeOK
<1> QED BY <1>1, <1>3, <1>4, <1>5, <1>6 DEF Recover, TypeOK, JobGoes, CardsLocal

LEMMA SweepDoes ==
  ASSUME TypeOK, NEW j \in Job, SweepUnlink(j) \/ SweepFails(j)
  PROVE  /\ TypeOK'
         /\ UNCHANGED <<job, card, live, task, admin, faults, swept, raced>>
         /\ sweeping' = sweeping \ {j} /\ orphaned \subseteq orphaned'
         /\ \A i \in Job : file'[i] => file[i]
         /\ ~file'[j] \/ j \in orphaned'
<1>1. CASE SweepUnlink(j)
  <2>1. file' = [file EXCEPT ![j] = FALSE]
    BY <1>1 DEF SweepUnlink, Unlinked
  <2> QED BY <1>1, <2>1 DEF SweepUnlink, TypeOK
<1>2. CASE SweepFails(j)
  BY <1>2 DEF SweepFails, TypeOK
<1> QED BY <1>1, <1>2

LEMMA PurgeDoes ==
  ASSUME TypeOK, NEW j \in Job, Purge(j)
  PROVE  /\ TypeOK'
         /\ job[j].status \in Finished /\ Unlocked(j)
         /\ JobGoes(j, "gone")
         /\ \A c \in Card : card'[c] = IF c[1] = j THEN None ELSE card[c]
<1>1. JobGoes(j, "gone")
  BY DEF Purge, TypeOK, JobGoes, JobRow, Gone
<1>2. \A c \in Card : card'[c] = IF c[1] = j THEN None ELSE card[c]
  BY DEF Purge, CardsOf
<1>3. card' \in [Card -> CardRow]
  BY DEF Purge, TypeOK, CardRow
<1> QED BY <1>1, <1>2, <1>3 DEF Purge, TypeOK, JobGoes, history

LEMMA CancelDoes ==
  ASSUME TypeOK, NEW a \in Admin, NEW j \in Job, Cancel(a, j)
  PROVE  /\ TypeOK'
         /\ job[j].status \in Cancellable /\ Unlocked(j)
         /\ JobGoes(j, IF job[j].status = "proposing" THEN "cancelling" ELSE "cancelled")
         /\ \A c \in Card :
              IF c[1] = j /\ card[c].status = "pending"
                THEN /\ card'[c] # None /\ card'[c].status = "rejected"
                     /\ card'[c].model = card[c].model
                ELSE card'[c] = card[c]
         /\ admin[a] = Idle
         /\ \/ AdminGoes(a, [at |-> "unlink", job |-> j])
            \/ admin' = admin /\ ~Unread(j)
<1>1. PICK s \in Active \cup Finished :
        s = IF job[j].status = "proposing" THEN "cancelling" ELSE "cancelled"
  BY DEF Finished, Active, Slot
<1>2. job[j].status \in Active \cup Finished /\ job' = Moved(j, s)
  BY <1>1 DEF Cancel, Cancellable, Slot, Active
<1>3. JobGoes(j, s)
  BY <1>2, JobMoves DEF TypeOK
<1>4. ASSUME NEW c \in Card
      PROVE  /\ card'[c] \in CardRow
             /\ IF c[1] = j /\ card[c].status = "pending"
                  THEN /\ card'[c] # None /\ card'[c].status = "rejected"
                       /\ card'[c].model = card[c].model
                  ELSE card'[c] = card[c]
  <2>1. PICK r \in CardRow : r = card[c]
    BY DEF TypeOK
  <2>2. CASE c[1] = j /\ r.status = "pending"
    <3>1. r # None
      BY <2>2, RowFields
    <3>2. PICK q : /\ q = [r EXCEPT !.status = "rejected"] /\ q.status = "rejected"
                   /\ Agree(q, r, {"ai", "text", "model", "edited", "saw"})
      BY <3>1, RowWrites
    <3>3. card'[c] = q
      BY <2>1, <2>2, <3>2 DEF Cancel, Pending, CardsOf
    <3> QED BY <2>1, <2>2, <3>2, <3>3 DEF Agree
  <2>3. CASE ~(c[1] = j /\ r.status = "pending")
    <3>1. card'[c] = card[c]
      BY <2>1, <2>3 DEF Cancel, Pending, CardsOf
    <3> QED BY <2>1, <2>3, <3>1
  <2> QED BY <2>2, <2>3
<1>5. card' \in [Card -> CardRow]
  BY <1>4 DEF Cancel
<1>6. \/ AdminGoes(a, [at |-> "unlink", job |-> j])
      \/ admin' = admin /\ ~Unread(j)
  BY AdminMoves, RequestForms DEF Cancel, TypeOK
<1>7. admin' \in [Admin -> Request]
  BY <1>6 DEF AdminGoes, TypeOK
<1> QED BY <1>1, <1>3, <1>4, <1>5, <1>6, <1>7 DEF Cancel, Free, TypeOK, JobGoes, history

LEMMA AdminUnlinkDoes ==
  ASSUME TypeOK, NEW a \in Admin, AdminUnlink(a)
  PROVE  /\ TypeOK'
         /\ admin[a].at = "unlink" /\ AdminGoes(a, Idle)
         /\ UNCHANGED <<job, card, live, task, history>>
         /\ file' = [file EXCEPT ![admin[a].job] = FALSE]
<1>1. admin[a].at = "unlink" /\ admin[a].job \in Job
  BY RequestFields DEF AdminUnlink, TypeOK
<1>2. AdminGoes(a, Idle)
  BY AdminMoves, RequestForms DEF AdminUnlink, TypeOK
<1> QED BY <1>1, <1>2 DEF AdminUnlink, Unlinked, AdminGoes, TypeOK, history

LEMMA SeenKeeps ==
  ASSUME NEW r \in CardRow, r # None
  PROVE  Agree(Seen(r), r, {"status", "ai", "text", "model", "edited"})
<1>1. CASE r.saw = "nothing"
  <2>1. PICK x \in {"nothing", "local", "model"} : x = Contents(r)
    BY DEF Contents
  <2>2. PICK q : /\ q = [r EXCEPT !.saw = x] /\ q.saw = x
                 /\ Agree(q, r, {"status", "ai", "text", "model", "edited"})
    BY RowWrites
  <2>3. Seen(r) = q
    BY <1>1, <2>1, <2>2 DEF Seen
  <2> QED BY <2>2, <2>3
<1>2. CASE r.saw # "nothing"
  BY <1>2 DEF Seen, Agree
<1> QED BY <1>1, <1>2

\* One card is written; the others are as they were.
CardGoes(c, r) ==
  /\ card' \in [Card -> CardRow]
  /\ card'[c] = r
  /\ \A d \in Card : d # c => card'[d] = card[d]

LEMMA CardWritten ==
  ASSUME card \in [Card -> CardRow], NEW c \in Card, NEW r \in CardRow,
         card' = [card EXCEPT ![c] = r]
  PROVE  CardGoes(c, r)
  BY DEF CardGoes

LEMMA ReviewCounts ==
  ASSUME TypeOK, Review PROVE reviews' \in 0..MaxReview
  BY IngestAssumption DEF TypeOK, Review

LEMMA MarkSeenDoes ==
  ASSUME TypeOK, NEW a \in Admin, NEW c \in Card, MarkSeen(a, c)
  PROVE  TypeOK' /\ \A d \in Card : Kept(d)
<1>1. PICK r \in CardRow : r = card[c] /\ r # None
  BY RowFields DEF TypeOK, MarkSeen, Open
<1>2. PICK q : q = Seen(r) /\ Agree(q, r, {"status", "ai", "text", "model", "edited"})
  BY <1>1, SeenKeeps
<1>3. CardGoes(c, q)
  <2>1. q \in CardRow /\ card' = [card EXCEPT ![c] = q]
    BY <1>1, <1>2 DEF MarkSeen, Agree
  <2> QED BY <2>1, CardWritten DEF TypeOK
<1>4. \A d \in Card : Kept(d)
  BY <1>1, <1>2, <1>3 DEF CardGoes, Agree, Kept, EditKept
<1>5. reviews' \in 0..MaxReview
  BY ReviewCounts DEF MarkSeen, Open
<1> QED BY <1>3, <1>4, <1>5 DEF MarkSeen, TypeOK, CardGoes

LEMMA EditDoes ==
  ASSUME TypeOK, NEW a \in Admin, NEW c \in Card, Edit(a, c)
  PROVE  /\ TypeOK'
         /\ ~Locked(c) /\ card[c].status = "pending"
         /\ \E r : /\ CardGoes(c, r) /\ r # None /\ r.status = "pending"
                   /\ r.ai = card[c].ai /\ r.model = card[c].model
<1>1. PICK r \in CardRow : r = card[c] /\ r # None /\ r.status = "pending"
  BY RowFields DEF TypeOK, Edit, Open
<1>2. PICK q : q = Seen(r) /\ Agree(q, r, {"status", "ai", "text", "model", "edited"})
  BY <1>1, SeenKeeps
<1>3. PICK p : p = [q EXCEPT !.edited = TRUE]
               /\ Agree(p, q, {"status", "ai", "text", "model", "saw"})
  <2>1. q \in CardRow /\ q # None
    BY <1>2 DEF Agree
  <2> QED BY <2>1, RowWrites
<1>4. PICK o : o = [p EXCEPT !.text = 0]
               /\ Agree(o, p, {"status", "ai", "model", "edited", "saw"})
  <2>1. p \in CardRow /\ p # None /\ 0 \in Text
    BY <1>3 DEF Agree, Text
  <2> QED BY <2>1, RowWrites
<1>5. /\ o \in CardRow /\ o # None /\ o.status = "pending" /\ o.ai = r.ai /\ o.model = r.model
  BY <1>1, <1>2, <1>3, <1>4 DEF Agree
<1>6. card' = [card EXCEPT ![c] = o]
  BY <1>1, <1>2, <1>3, <1>4 DEF Edit
<1>7. CardGoes(c, o)
  BY <1>5, <1>6, CardWritten DEF TypeOK
<1>8. reviews' \in 0..MaxReview
  BY ReviewCounts DEF Edit, Open
<1> QED BY <1>1, <1>5, <1>7, <1>8 DEF Edit, Open, TypeOK, CardGoes

LEMMA RejectDoes ==
  ASSUME TypeOK, NEW a \in Admin, NEW c \in Card, Reject(a, c)
  PROVE  /\ TypeOK'
         /\ ~Locked(c) /\ card[c].status = "pending" /\ admin[a] = Idle
         /\ \E r : CardGoes(c, r) /\ r # None /\ r.status = "rejected" /\ r.model = card[c].model
         /\ AdminGoes(a, [at |-> "tidy", job |-> c[1]])
<1>1. PICK r \in CardRow : r = card[c] /\ r # None /\ r.status = "pending"
  BY RowFields DEF TypeOK, Reject, Open
<1>2. PICK q : /\ q = [r EXCEPT !.status = "rejected"] /\ q.status = "rejected"
               /\ Agree(q, r, {"ai", "text", "model", "edited", "saw"})
  BY <1>1, RowWrites
<1>3. CardGoes(c, q) /\ q # None /\ q.model = r.model
  <2>1. q \in CardRow /\ card' = [card EXCEPT ![c] = q] /\ q # None /\ q.model = r.model
    BY <1>1, <1>2 DEF Reject, Agree
  <2> QED BY <2>1, CardWritten DEF TypeOK
<1>4. AdminGoes(a, [at |-> "tidy", job |-> c[1]])
  BY AdminMoves, RequestForms, CardShape DEF Reject, TypeOK
<1>5. reviews' \in 0..MaxReview
  BY ReviewCounts DEF Reject, Open
<1> QED BY <1>1, <1>2, <1>3, <1>4, <1>5 DEF Reject, Open, Free, TypeOK, CardGoes, AdminGoes

\* An approval claims its card, and knows whom it races.
Publishes(a, c) ==
  /\ card' = card
  /\ card[c] # None /\ card[c].status = "pending"
  /\ ~TextLive(card[c].text)
  /\ raced \subseteq raced' /\ raced' \subseteq Text
  /\ Checking(card[c].text) => card[c].text \in raced'
  /\ Inserting(a)' /\ admin'[a].card = c

LEMMA ClaimedDoes ==
  ASSUME TypeOK, NEW a \in Admin, NEW c \in Card, NEW rest \in Todo, NEW bulk \in BOOLEAN,
         Claimed(a, c, rest, bulk)
  PROVE  /\ Publishes(a, c)
         /\ AdminGoes(a, [at |-> "insert", card |-> c, rest |-> rest, bulk |-> bulk])
<1>1. AdminGoes(a, [at |-> "insert", card |-> c, rest |-> rest, bulk |-> bulk])
  BY AdminMoves, RequestForms DEF Claimed, TypeOK
<1>2. Inserting(a)' /\ admin'[a].card = c
  BY <1>1 DEF AdminGoes, Inserting
<1>3. card[c] # None /\ card[c].text \in Text
  <2>1. card[c] \in CardRow /\ card[c].status = "pending"
    BY DEF Claimed, Approvable, TypeOK
  <2> QED BY <2>1, RowFields
<1>4. /\ raced \subseteq raced' /\ raced' \subseteq Text
      /\ Checking(card[c].text) => card[c].text \in raced'
  BY <1>3 DEF Claimed, TypeOK
<1> QED BY <1>1, <1>2, <1>3, <1>4 DEF Claimed, Approvable, Publishes

LEMMA RefusedDoes ==
  ASSUME TypeOK, NEW a \in Admin, NEW c \in Card, NEW q \in Request, Refused(a, c, q)
  PROVE  /\ card' \in [Card -> CardRow] /\ raced' = raced
         /\ \A d \in Card : Kept(d)
         /\ AdminGoes(a, q)
<1>1. AdminGoes(a, q) /\ raced' = raced
  BY AdminMoves DEF Refused, TypeOK
<1>2. CASE card' = card
  BY <1>1, <1>2 DEF TypeOK, Kept, EditKept
<1>3. CASE Approvable(c) /\ card' = [card EXCEPT ![c].label = TRUE]
  <2>1. PICK r \in CardRow : r = card[c] /\ r # None
    BY <1>3, RowFields DEF TypeOK, Approvable
  <2>2. PICK p : p = [r EXCEPT !.label = TRUE]
                 /\ Agree(p, r, {"status", "ai", "text", "model", "edited", "saw"})
    BY <2>1, RowWrites
  <2>3. CardGoes(c, p)
    <3>1. p \in CardRow /\ card' = [card EXCEPT ![c] = p]
      BY <1>3, <2>1, <2>2 DEF Agree
    <3> QED BY <3>1, CardWritten DEF TypeOK
  <2>4. \A d \in Card : Kept(d)
    BY <2>1, <2>2, <2>3 DEF CardGoes, Agree, Kept, EditKept
  <2> QED BY <1>1, <2>3, <2>4 DEF CardGoes
<1> QED BY <1>2, <1>3 DEF Refused

LEMMA ApproveDoes ==
  ASSUME TypeOK, NEW a \in Admin, NEW c \in Card, Approve(a, c)
  PROVE  /\ TypeOK'
         /\ admin[a] = Idle /\ ~Locked(c)
         /\ \/ /\ Publishes(a, c)
               /\ AdminGoes(a, [at |-> "insert", card |-> c, rest |-> {}, bulk |-> FALSE])
            \/ raced' = raced /\ AdminGoes(a, Idle) /\ \A d \in Card : Kept(d)
<1>1. CASE Claimed(a, c, {}, FALSE)
  <2>1. /\ Publishes(a, c)
        /\ AdminGoes(a, [at |-> "insert", card |-> c, rest |-> {}, bulk |-> FALSE])
    <3>1. {} \in Todo
      BY DEF Todo
    <3> QED BY <1>1, <3>1, ClaimedDoes
  <2> QED BY <2>1 DEF Approve, Free, Publishes, AdminGoes, TypeOK
<1>2. CASE Refused(a, c, Idle)
  <2>1. /\ card' \in [Card -> CardRow] /\ raced' = raced
        /\ \A d \in Card : Kept(d)
        /\ AdminGoes(a, Idle)
    BY <1>2, RefusedDoes, RequestForms
  <2> QED BY <2>1 DEF Approve, Free, AdminGoes, TypeOK
<1> QED BY <1>1, <1>2 DEF Approve

LEMMA CommitDoes ==
  ASSUME TypeOK, NEW a \in Admin, Commit(a),
         card[admin[a].card] # None, live[admin[a].card] = 0
  PROVE  /\ TypeOK'
         /\ Inserting(a) /\ admin[a].card \in Card
         /\ live'[admin[a].card] = 1
         /\ \A d \in Card : d # admin[a].card => live'[d] = live[d]
         /\ \E r : /\ CardGoes(admin[a].card, r) /\ r # None /\ r.status = "approved"
                   /\ r.text = card[admin[a].card].text /\ r.model = card[admin[a].card].model
         /\ \/ AdminGoes(a, [at |-> "bulk", job |-> admin[a].card[1], rest |-> admin[a].rest])
            \/ AdminGoes(a, [at |-> "tidy", job |-> admin[a].card[1]])
<1>1. PICK c \in Card, rest \in Todo, bulk \in BOOLEAN :
        /\ admin[a].at = "insert" /\ admin[a].card = c /\ admin[a].rest = rest
        /\ admin[a].bulk = bulk
  BY RequestFields DEF Commit, TypeOK
<1>2. PICK r \in CardRow : r = card[c] /\ r # None
  BY <1>1 DEF TypeOK
<1>3. PICK q : q = (IF bulk THEN r ELSE Seen(r)) /\ Agree(q, r, {"text", "model"})
  BY <1>2, SeenKeeps DEF Agree
<1>4. PICK p : /\ p = [q EXCEPT !.status = "approved"] /\ p.status = "approved"
               /\ Agree(p, q, {"ai", "text", "model", "edited", "saw"})
  <2>1. q \in CardRow /\ q # None
    BY <1>3 DEF Agree
  <2> QED BY <2>1, RowWrites
<1>5. p \in CardRow /\ p # None /\ p.status = "approved" /\ p.text = r.text /\ p.model = r.model
  BY <1>3, <1>4 DEF Agree
<1>6. card' = [card EXCEPT ![c] = p]
  BY <1>1, <1>2, <1>3, <1>4 DEF Commit
<1>7. CardGoes(c, p)
  BY <1>5, <1>6, CardWritten DEF TypeOK
<1>8. /\ live' \in [Card -> 0..1] /\ live'[c] = 1
      /\ \A d \in Card : d # c => live'[d] = live[d]
  BY <1>1 DEF Commit, TypeOK
<1>9. \/ AdminGoes(a, [at |-> "bulk", job |-> c[1], rest |-> rest])
      \/ AdminGoes(a, [at |-> "tidy", job |-> c[1]])
  BY <1>1, AdminMoves, RequestForms, CardShape DEF Commit, TypeOK
<1> QED BY <1>1, <1>2, <1>5, <1>7, <1>8, <1>9 DEF Commit, TypeOK, CardGoes, AdminGoes, Inserting, history

LEMMA ApproveSeenDoes ==
  ASSUME TypeOK, NEW a \in Admin, NEW j \in Job, ApproveSeen(a, j)
  PROVE  /\ TypeOK'
         /\ admin[a] = Idle
         /\ BulkReady(j) \subseteq CardsOf(j)
         /\ AdminGoes(a, [at |-> "bulk", job |-> j, rest |-> BulkReady(j)])
<1>1. BulkReady(j) \subseteq CardsOf(j) /\ BulkReady(j) \in Todo
  BY DEF BulkReady, Pending, CardsOf, Todo
<1>2. AdminGoes(a, [at |-> "bulk", job |-> j, rest |-> BulkReady(j)])
  BY <1>1, AdminMoves, RequestForms DEF ApproveSeen, TypeOK
<1> QED BY <1>1, <1>2 DEF ApproveSeen, Free, TypeOK, AdminGoes, history

LEMMA FirstOfJob ==
  ASSUME NEW j \in Job, NEW rest, rest \subseteq CardsOf(j), rest # {}
  PROVE  <<j, Min({d[2] : d \in rest})>> \in rest
<1>1. {d[2] : d \in rest} \in SUBSET Nat /\ {d[2] : d \in rest} # {}
  BY CardShape DEF CardsOf
<1>2. PICK d \in rest : d[2] = Min({e[2] : e \in rest})
  BY <1>1, MinIsMember
<1>3. d = <<j, d[2]>>
  BY CardShape DEF CardsOf
<1> QED BY <1>2, <1>3

LEMMA ApproveNextDoes ==
  ASSUME TypeOK, BulkOfOneJob, NEW a \in Admin, ApproveNext(a)
  PROVE  /\ TypeOK'
         /\ admin[a].at = "bulk" /\ admin[a].job \in Job
         /\ \/ card' = card /\ raced' = raced /\ AdminGoes(a, [at |-> "tidy", job |-> admin[a].job])
            \/ \E c \in CardsOf(admin[a].job) : \E rest \in SUBSET CardsOf(admin[a].job) :
                 /\ ~Locked(c)
                 /\ \/ /\ Publishes(a, c)
                       /\ AdminGoes(a, [at |-> "insert", card |-> c, rest |-> rest, bulk |-> TRUE])
                    \/ /\ raced' = raced /\ \A d \in Card : Kept(d)
                       /\ AdminGoes(a, [at |-> "bulk", job |-> admin[a].job, rest |-> rest])
<1>1. PICK j \in Job, todo \in Todo : /\ admin[a].at = "bulk" /\ admin[a].job = j
                                     /\ admin[a].rest = todo /\ todo \subseteq CardsOf(j)
  BY RequestFields DEF ApproveNext, TypeOK, BulkOfOneJob
<1>2. CASE todo = {}
  <2>1. card' = card /\ raced' = raced /\ AdminGoes(a, [at |-> "tidy", job |-> j])
    BY <1>1, <1>2, AdminMoves, RequestForms DEF ApproveNext, TypeOK
  <2> QED BY <1>1, <2>1 DEF ApproveNext, AdminGoes, TypeOK
<1>3. CASE todo # {}
  <2>1. PICK c \in todo : c = <<j, Min({d[2] : d \in todo})>>
    BY <1>1, <1>3, FirstOfJob
  <2>2. PICK rest \in SUBSET CardsOf(j) : rest = todo \ {c} /\ rest \in Todo
    BY <1>1 DEF Todo
  <2>3. c \in CardsOf(j) /\ c \in Card
    BY <1>1 DEF CardsOf
  <2>4. /\ ~Locked(c)
        /\ \/ Claimed(a, c, rest, TRUE)
           \/ Refused(a, c, [at |-> "bulk", job |-> j, rest |-> rest])
    BY <1>1, <1>3, <2>1, <2>2 DEF ApproveNext
  <2>5. CASE Claimed(a, c, rest, TRUE)
    <3>1. /\ Publishes(a, c)
          /\ AdminGoes(a, [at |-> "insert", card |-> c, rest |-> rest, bulk |-> TRUE])
      BY <2>2, <2>3, <2>5, ClaimedDoes
    <3>2. TypeOK'
      BY <3>1 DEF ApproveNext, Publishes, AdminGoes, TypeOK
    <3> QED BY <1>1, <2>3, <2>4, <3>1, <3>2
  <2>6. CASE Refused(a, c, [at |-> "bulk", job |-> j, rest |-> rest])
    <3>1. /\ card' \in [Card -> CardRow] /\ raced' = raced
          /\ \A d \in Card : Kept(d)
          /\ AdminGoes(a, [at |-> "bulk", job |-> j, rest |-> rest])
      BY <2>2, <2>3, <2>6, RefusedDoes, RequestForms
    <3>2. TypeOK'
      BY <3>1 DEF ApproveNext, AdminGoes, TypeOK
    <3> QED BY <1>1, <2>3, <2>4, <3>1, <3>2
  <2> QED BY <2>4, <2>5, <2>6
<1> QED BY <1>2, <1>3

LEMMA AdminTidyDoes ==
  ASSUME TypeOK, NEW a \in Admin, AdminTidy(a)
  PROVE  /\ TypeOK'
         /\ admin[a].at = "tidy" /\ admin[a].job \in Job /\ AdminGoes(a, Idle)
         /\ \/ /\ job' = job
               /\ job[admin[a].job].status # "ready" \/ Pending(admin[a].job) # {}
            \/ JobGoes(admin[a].job, "done") /\ job[admin[a].job].status = "ready"
<1>1. PICK j \in Job : admin[a].at = "tidy" /\ admin[a].job = j
  BY RequestFields DEF AdminTidy, TypeOK
<1>2. AdminGoes(a, Idle)
  BY AdminMoves, RequestForms DEF AdminTidy, TypeOK
<1>3. \/ job' = job /\ (job[j].status # "ready" \/ Pending(j) # {})
      \/ JobGoes(j, "done") /\ job[j].status = "ready"
  BY <1>1, JobTidied DEF AdminTidy, TypeOK
<1> QED BY <1>1, <1>2, <1>3 DEF AdminTidy, TypeOK, JobGoes, AdminGoes, history

LEMMA RequestDiesDoes ==
  ASSUME TypeOK, NEW a \in Admin, RequestDies(a)
  PROVE  /\ TypeOK' /\ AdminGoes(a, Idle) /\ faults' # 0
         /\ orphaned \subseteq orphaned'
         /\ admin[a].at = "unlink" => admin[a].job \in orphaned'
<1>1. AdminGoes(a, Idle)
  BY AdminMoves, RequestForms DEF RequestDies, TypeOK
<1>2. faults' \in 0..MaxFault /\ faults' # 0
  BY IngestAssumption DEF RequestDies, Fault, TypeOK
<1>3. /\ orphaned' \subseteq Job /\ orphaned \subseteq orphaned'
      /\ admin[a].at = "unlink" => admin[a].job \in orphaned'
  BY RequestFields DEF RequestDies, TypeOK
<1> QED BY <1>1, <1>2, <1>3 DEF RequestDies, TypeOK, AdminGoes

-------------------------------------------------------------------------------
(* The claims of the model stage.  Every action but Claim only ends them.    *)

\* A job that was claimed is past it for good, as one that was created, and no job enters
\* the slot.
NoneEnters ==
  \A j \in Job : /\ job[j].status \notin Early => job'[j].status \notin Early
                 /\ job'[j].status = "none" => job[j].status = "none"
                 /\ job'[j].status \in Slot => job[j].status \in Slot

NoneLeaves == \A j \in Job : job[j].status \in Slot => job'[j].status \in Slot

\* The tasks that hold a job, or are inside the stage with it, did before.
NoneClaims ==
  \A t \in Job : /\ Holds(t)' => Holds(t) /\ task'[t].job = task[t].job
                 /\ Inside(t)' => Inside(t)

ClaimsOnlyEnd ==
  /\ NoneEnters
  /\ swept \subseteq swept'
  /\ NoneClaims
  /\ \A t \in Job : Inside(t)' /\ job[task[t].job].status \in Slot =>
       job'[task[t].job].status \in Slot \/ task[t].job \in swept'

LEMMA HoldersName ==
  ASSUME TypeOK, NEW t \in Job, Holds(t) PROVE task[t].job \in Job
  BY TaskFields DEF TypeOK, Holds, Inside

LEMMA ClaimsEnd ==
  ASSUME TypeOK, ClaimsRight, ClaimsOnlyEnd PROVE ClaimsRight'
<1>1. HoldersClaimed'
  BY HoldersName DEF ClaimsRight, HoldersClaimed, ClaimsOnlyEnd, NoneEnters, NoneClaims
<1>2. ClaimedOnce'
  BY DEF ClaimsRight, ClaimedOnce, ClaimsOnlyEnd, NoneClaims
<1>3. InsideHasSlot'
  <2> SUFFICES ASSUME NEW t \in Job, Inside(t)'
               PROVE  job'[task'[t].job].status \in Slot \/ task'[t].job \in swept'
    BY DEF InsideHasSlot
  <2>1. Holds(t)'
    BY DEF Holds
  <2> QED BY <2>1 DEF ClaimsRight, InsideHasSlot, ClaimsOnlyEnd, NoneClaims
<1>4. OneSlot'
  BY DEF ClaimsRight, OneSlot, ClaimsOnlyEnd, NoneEnters
<1> QED BY <1>1, <1>2, <1>3, <1>4 DEF ClaimsRight

LEMMA QuietlyEnds ==
  ASSUME TypeOK, NoneEnters, NoneLeaves, NoneClaims, swept \subseteq swept'
  PROVE  ClaimsOnlyEnd
<1> SUFFICES ASSUME NEW t \in Job, Inside(t)', job[task[t].job].status \in Slot
             PROVE  job'[task[t].job].status \in Slot
  BY DEF ClaimsOnlyEnd
<1>1. Holds(t)
  BY DEF NoneClaims, Holds
<1> QED BY <1>1, HoldersName DEF NoneLeaves

\* A move of a job from r to s that has nothing to do with the slot.
Outside(r, s) ==
  r \notin Slot /\ s \notin Slot /\ s # "none" /\ (r \in Early \/ s \notin Early)

LEMMA MovesOutside ==
  /\ Outside("none", "queued") /\ Outside("queued", "extracting")
  /\ Outside("extracting", "extracted") /\ Outside("extracting", "failed")
  /\ Outside("extracted", "ready") /\ Outside("ready", "done")
  /\ \A r \in Finished : Outside(r, "gone")
  BY DEF Outside, Slot, Early, Unwritten, Finished

\* Three ways in which a job may go on: it stays, it beats, or it moves outside the slot.
LEMMA JobGoesOn ==
  /\ job' = job => NoneEnters /\ NoneLeaves
  /\ StatusesKept => NoneEnters /\ NoneLeaves
  /\ \A j \in Job : \A s : JobGoes(j, s) /\ s # "none" /\ (job[j].status \in Early \/ s \notin Early)
       => /\ s \notin Slot \/ job[j].status \in Slot => NoneEnters
          /\ job[j].status \notin Slot \/ s \in Slot => NoneLeaves
  /\ \A j \in Job : \A s : JobGoes(j, s) /\ Outside(job[j].status, s) => NoneEnters /\ NoneLeaves
  BY DEF NoneEnters, NoneLeaves, StatusesKept, JobGoes, Outside

LEMMA TaskGoesOn ==
  /\ task' = task => NoneClaims
  /\ \A t \in Job : \A k :
       /\ TaskGoes(t, k)
       /\ \/ k.at \notin {"chunk", "call", "apply", "leave", "finish", "tidy"}
          \/ k.at = "tidy" /\ k.then # "finish"
          \/ k.job = task[t].job /\ (k.at \in {"finish", "tidy"} \/ Inside(t)) /\ Holds(t)
       => NoneClaims
  BY DEF NoneClaims, TaskGoes, Holds, Inside

LEMMA ReadClaims ==
  ASSUME TypeOK, ClaimsRight, NEW j \in Job, Create(j) \/ Read(j) \/ UnlinkFails(j)
  PROVE  ClaimsOnlyEnd
<1>1. CASE Create(j)
  <2>0. job[j].status = "none" /\ JobGoes(j, "queued")
    <3>1. job[j] = None /\ JobGoes(j, "queued")
      BY <1>1, CreateDoes
    <3> QED BY <3>1 DEF None
  <2>1. NoneEnters /\ NoneLeaves
    BY <2>0, JobGoesOn, MovesOutside
  <2>2. NoneClaims
    BY <1>1, CreateDoes, TaskGoesOn
  <2> QED BY <1>1, <2>1, <2>2, QuietlyEnds DEF Create, history
<1>2. CASE Start(j)
  <2>1. NoneEnters /\ NoneLeaves
    BY <1>2, StartDoes, JobGoesOn, MovesOutside
  <2>2. NoneClaims
    BY <1>2, StartDoes, TaskGoesOn DEF Off
  <2> QED BY <1>2, <2>1, <2>2, QuietlyEnds DEF Start, history
<1>3. CASE Beat(j)
  <2>1. NoneEnters /\ NoneLeaves
    BY <1>3, BeatDoes, JobGoesOn
  <2>2. NoneClaims
    BY <1>3, TaskGoesOn DEF Beat
  <2> QED BY <1>3, <2>1, <2>2, QuietlyEnds DEF Beat, history
<1>4. CASE Write(j)
  <2>0. job' = job \/ (job[j].status = "extracting" /\ JobGoes(j, "extracted"))
    BY <1>4, WriteDoes
  <2>1. NoneEnters /\ NoneLeaves
    BY <2>0, JobGoesOn, MovesOutside
  <2>2. NoneClaims
    BY <1>4, WriteDoes, TaskGoesOn
  <2> QED BY <1>4, <2>1, <2>2, QuietlyEnds DEF Write, history
<1>5. CASE Refuse(j)
  <2>1. NoneEnters /\ NoneLeaves
    BY <1>5, RefuseDoes, JobGoesOn, MovesOutside
  <2>2. NoneClaims
    BY <1>5, RefuseDoes, TaskGoesOn
  <2> QED BY <1>5, <2>1, <2>2, QuietlyEnds DEF Refuse, history
<1>6. CASE Unlink(j) \/ UnlinkFails(j)
  <2>1. NoneEnters /\ NoneLeaves
    BY <1>6, JobGoesOn DEF Unlink, UnlinkFails
  <2>2. NoneClaims
    BY <1>6, UnlinkDoes, TaskGoesOn DEF Off
  <2> QED BY <1>6, <2>1, <2>2, QuietlyEnds DEF Unlink, UnlinkFails, history
<1>7. CASE Continue(j)
  <2>1. NoneEnters /\ NoneLeaves
    BY <1>7, ContinueDoes, JobGoesOn, MovesOutside
  <2>2. NoneClaims
    BY <1>7, ContinueDoes, TaskGoesOn
  <2> QED BY <1>7, <2>1, <2>2, QuietlyEnds DEF Continue, history
<1> QED BY <1>1, <1>2, <1>3, <1>4, <1>5, <1>6, <1>7 DEF Read

\* A task that leaves the stage takes the slot from nobody else.
LEMMA SlotGivenUp ==
  ASSUME TypeOK, ClaimsRight, NEW t \in Job, Holds(t), ~Inside(t)', NEW s, s \notin Early \cup Slot,
         JobGoes(task[t].job, s), NoneClaims, swept \subseteq swept'
  PROVE  ClaimsOnlyEnd
<1>1. PICK j \in Job : j = task[t].job
  BY HoldersName
<1>2. NoneEnters
  <2>1. s # "none"
    BY DEF Early, Unwritten
  <2> QED BY <1>1, <2>1, JobGoesOn
<1>3. ASSUME NEW u \in Job, Inside(u)', job[task[u].job].status \in Slot
      PROVE  job'[task[u].job].status \in Slot
  <2>1. u # t /\ Holds(u) /\ task[u].job \in Job
    BY <1>3, HoldersName DEF NoneClaims, Holds
  <2>2. task[u].job # j
    BY <1>1, <2>1 DEF ClaimsRight, ClaimedOnce
  <2> QED BY <1>1, <1>3, <2>1, <2>2 DEF JobGoes
<1> QED BY <1>2, <1>3 DEF ClaimsOnlyEnd

LEMMA LoopClaims ==
  ASSUME TypeOK, ClaimsRight, NEW t \in Job, ~Claim(t), Loop(t) \/ Die(t) \/ Resume(t)
  PROVE  ClaimsOnlyEnd
<1>1. CASE Pick(t)
  <2>1. NoneClaims
    BY <1>1, PickDoes, TaskGoesOn
  <2> QED BY <1>1, <2>1, JobGoesOn, QuietlyEnds DEF Pick, history
<1>2. CASE Local(t)
  <2>1. NoneEnters /\ NoneLeaves
    BY <1>2, LocalDoes, JobGoesOn, MovesOutside
  <2>2. NoneClaims
    BY <1>2, LocalDoes, TaskGoesOn
  <2> QED BY <1>2, <2>1, <2>2, QuietlyEnds DEF Local, history
<1>3. CASE Ask(t)
  <2>1. NoneClaims
    BY <1>3, AskDoes, TaskGoesOn DEF Inside, Holds
  <2> QED BY <1>3, <2>1, JobGoesOn, QuietlyEnds DEF Ask, history
<1>4. CASE Reply(t)
  <2>1. NoneClaims
    BY <1>4, ReplyDoes, TaskGoesOn DEF Inside, Holds
  <2> QED BY <1>4, <2>1, JobGoesOn, QuietlyEnds DEF Reply, history
<1>5. CASE Apply(t)
  <2>1. NoneEnters /\ NoneLeaves
    BY <1>5, ApplyDoes, JobGoesOn
  <2>2. NoneClaims
    BY <1>5, ApplyDoes, TaskGoesOn DEF Inside, Holds
  <2> QED BY <1>5, <2>1, <2>2, QuietlyEnds DEF Apply, history
<1>6. CASE Leave(t)
  <2>0. Holds(t) /\ ~Inside(t)'
    <3>1. /\ task[t].at = "leave"
          /\ TaskGoes(t, [at |-> "tidy", job |-> task[t].job, then |-> "finish"])
      BY <1>6, LeaveDoes
    <3>2. task'[t].at = "tidy"
      BY <3>1 DEF TaskGoes
    <3> QED BY <3>1, <3>2 DEF Inside, Holds
  <2>1. NoneClaims /\ Holds(t) /\ ~Inside(t)'
    BY <1>6, <2>0, LeaveDoes, TaskGoesOn
  <2>2. swept' = swept
    BY <1>6 DEF Leave, history
  <2>3. CASE job' = job
    BY <2>1, <2>2, <2>3, JobGoesOn, QuietlyEnds
  <2>4. CASE JobGoes(task[t].job, "ready")
    <3>1. "ready" \notin Early \cup Slot
      BY DEF Early, Unwritten, Slot
    <3> QED BY <2>1, <2>2, <2>4, <3>1, SlotGivenUp
  <2> QED BY <1>6, <2>3, <2>4, LeaveDoes
<1>7. CASE Tidy(t)
  <2>1. NoneEnters /\ NoneLeaves
    BY <1>7, TidyDoes, JobGoesOn, MovesOutside
  <2>2. NoneClaims
    BY <1>7, TidyDoes, TaskGoesOn DEF Holds
  <2> QED BY <1>7, <2>1, <2>2, QuietlyEnds DEF Tidy, history
<1>8. CASE Finish(t)
  <2>1. NoneClaims /\ Holds(t) /\ ~Inside(t)'
    BY <1>8, FinishDoes, TaskGoesOn DEF Inside, Holds, TaskGoes
  <2>2. swept' = swept
    BY <1>8 DEF Finish, history
  <2>3. CASE job' = job
    BY <2>1, <2>2, <2>3, JobGoesOn, QuietlyEnds
  <2>4. CASE JobGoes(task[t].job, "cancelled")
    <3>1. "cancelled" \notin Early \cup Slot
      BY DEF Early, Unwritten, Slot
    <3> QED BY <2>1, <2>2, <2>4, <3>1, SlotGivenUp
  <2> QED BY <1>8, <2>3, <2>4, FinishDoes
<1>9. CASE Die(t)
  <2>1. NoneClaims
    BY <1>9, DieDoes, TaskGoesOn DEF Off
  <2> QED BY <1>9, <2>1, JobGoesOn, QuietlyEnds DEF Die
<1>10. CASE Resume(t)
  <2>1. NoneClaims
    BY <1>10, ResumeDoes, TaskGoesOn
  <2> QED BY <1>10, <2>1, JobGoesOn, QuietlyEnds DEF Resume, history
<1> QED BY <1>1, <1>2, <1>3, <1>4, <1>5, <1>6, <1>7, <1>8, <1>9, <1>10 DEF Loop

LEMMA TimeClaims ==
  ASSUME TypeOK, ClaimsRight, NEW j \in Job,
         Age(j) \/ Recover(j) \/ Purge(j) \/ SweepUnlink(j) \/ SweepFails(j)
  PROVE  ClaimsOnlyEnd
<1>1. CASE Age(j)
  <2>1. NoneEnters /\ NoneLeaves
    BY <1>1, AgeDoes, JobGoesOn
  <2> QED BY <1>1, <2>1, TaskGoesOn, QuietlyEnds DEF Age
<1>2. CASE Recover(j)
  <2>1. PICK s \in {"cancelled", "failed"} : JobGoes(j, s)
    BY <1>2, RecoverDoes
  <2>2. NoneEnters
    BY <2>1, JobGoesOn DEF Early, Unwritten, Slot
  <2>3. NoneClaims /\ swept \subseteq swept'
    BY <1>2, RecoverDoes, TaskGoesOn DEF Recover
  <2>4. ASSUME NEW t \in Job, Inside(t)', job[task[t].job].status \in Slot
        PROVE  job'[task[t].job].status \in Slot \/ task[t].job \in swept'
    <3>1. Inside(t) /\ task[t].job \in Job
      BY <2>3, <2>4, HoldersName DEF NoneClaims, Holds
    <3>2. CASE task[t].job = j
      <4>1. Attended(j)
        <5>1. task[t] \in Task
          BY DEF TypeOK
        <5>2. task[t] # Off /\ "job" \in DOMAIN task[t]
          BY <3>1, <5>1 DEF Inside, Task, Off
        <5> QED BY <3>2, <5>2 DEF Attended
      <4> QED BY <1>2, <3>2, <4>1, RecoverDoes
    <3>3. CASE task[t].job # j
      BY <2>1, <2>4, <3>1, <3>3 DEF JobGoes
    <3> QED BY <3>2, <3>3
  <2> QED BY <2>2, <2>3, <2>4 DEF ClaimsOnlyEnd
<1>3. CASE Purge(j)
  <2>1. NoneEnters /\ NoneLeaves
    BY <1>3, PurgeDoes, JobGoesOn, MovesOutside
  <2> QED BY <1>3, <2>1, TaskGoesOn, QuietlyEnds DEF Purge, history
<1>4. CASE SweepUnlink(j) \/ SweepFails(j)
  BY <1>4, SweepDoes, JobGoesOn, TaskGoesOn, QuietlyEnds
<1> QED BY <1>1, <1>2, <1>3, <1>4

LEMMA AdminClaims ==
  ASSUME TypeOK, ClaimsRight, BulkOfOneJob, NEW a \in Admin,
         \/ \E j \in Job : Cancel(a, j) \/ ApproveSeen(a, j)
         \/ \E c \in Card : MarkSeen(a, c) \/ Edit(a, c) \/ Reject(a, c) \/ Approve(a, c)
         \/ Commit(a) \/ ApproveNext(a) \/ AdminTidy(a) \/ AdminUnlink(a) \/ RequestDies(a)
  PROVE  ClaimsOnlyEnd
<1>1. CASE \E j \in Job : Cancel(a, j)
  <2>1. PICK j \in Job : Cancel(a, j)
    BY <1>1
  <2>2. PICK s : /\ s = (IF job[j].status = "proposing" THEN "cancelling" ELSE "cancelled")
                 /\ JobGoes(j, s) /\ job[j].status \in Cancellable
    BY <2>1, CancelDoes
  <2>3. /\ s # "none" /\ (job[j].status \in Early \/ s \notin Early)
        /\ s \notin Slot \/ job[j].status \in Slot
        /\ job[j].status \notin Slot \/ s \in Slot
    BY <2>2 DEF Early, Unwritten, Slot, Cancellable
  <2>4. NoneEnters /\ NoneLeaves
    BY <2>2, <2>3, JobGoesOn
  <2> QED BY <2>1, <2>4, TaskGoesOn, QuietlyEnds DEF Cancel, history
<1>2. CASE AdminTidy(a)
  <2>1. NoneEnters /\ NoneLeaves
    BY <1>2, AdminTidyDoes, JobGoesOn, MovesOutside
  <2> QED BY <1>2, <2>1, TaskGoesOn, QuietlyEnds DEF AdminTidy, history
<1>3. CASE /\ ~ \E j \in Job : Cancel(a, j)
           /\ ~ AdminTidy(a)
  <2>1. job' = job /\ task' = task /\ swept' = swept
    BY <1>3 DEF ApproveSeen, MarkSeen, Edit, Reject, Approve, Commit, ApproveNext, AdminUnlink,
                   RequestDies, history
  <2> QED BY <2>1, JobGoesOn, TaskGoesOn, QuietlyEnds
<1> QED BY <1>1, <1>2, <1>3

\* A task that is off stays so while its job is not created.
LEMMA OffGoesOn ==
  ASSUME UnbornIsOff, \A j \in Job : job'[j].status = "none" => job[j].status = "none",
         \/ task' = task
         \/ \E t \in Job : \E k : TaskGoes(t, k) /\ (task[t].at # "off" \/ job'[t].status # "none")
  PROVE  UnbornIsOff'
  BY DEF UnbornIsOff, TaskGoes

LEMMA ClaimClaims ==
  ASSUME TypeOK, ClaimsRight, NEW t \in Job, Claim(t) PROVE ClaimsRight'
<1>1. swept' = swept
  BY DEF Claim, history
<1>2. CASE job' = job /\ (TaskGoes(t, [at |-> "pick"]) \/ TaskGoes(t, Off))
  <2>1. NoneClaims
    BY <1>2, TaskGoesOn DEF Off
  <2> QED BY <1>1, <1>2, <2>1, JobGoesOn, QuietlyEnds, ClaimsEnd
<1>3. CASE /\ task[t].job \in Job
           /\ job[task[t].job].status = "extracted" /\ ~SlotTaken
           /\ JobGoes(task[t].job, "proposing")
           /\ TaskGoes(t, [at |-> "chunk", job |-> task[t].job, todo |-> Waiting(task[t].job)])
  <2>1. PICK j \in Job : j = task[t].job
    BY <1>3
  <2>2. /\ job[j].status = "extracted" /\ job'[j].status = "proposing"
        /\ \A i \in Job : i # j => job'[i].status = job[i].status
        /\ \A i \in Job : job[i].status \notin Slot
    BY <1>3, <2>1 DEF JobGoes, SlotTaken
  <2>3. /\ Inside(t)' /\ Holds(t)' /\ task'[t].job = j
        /\ \A u \in Job : u # t => /\ task'[u] = task[u] /\ (Holds(u)' <=> Holds(u))
                                   /\ (Inside(u)' <=> Inside(u))
    BY <1>3, <2>1 DEF TaskGoes, Inside, Holds
  <2>4. \A u \in Job : u # t /\ Holds(u) => task[u].job \in Job /\ task[u].job # j
    BY <2>2, HoldersName DEF ClaimsRight, HoldersClaimed, Early
  <2>5. HoldersClaimed'
    BY <2>2, <2>3, <2>4 DEF ClaimsRight, HoldersClaimed, Early, Unwritten
  <2>6. ClaimedOnce'
    BY <2>3, <2>4 DEF ClaimsRight, ClaimedOnce
  <2>7. InsideHasSlot'
    BY <1>1, <2>2, <2>3, <2>4 DEF ClaimsRight, InsideHasSlot, Slot, Holds
  <2>8. OneSlot'
    BY <2>2 DEF OneSlot
  <2> QED BY <2>5, <2>6, <2>7, <2>8 DEF ClaimsRight
<1> QED BY <1>2, <1>3, ClaimDoes

-------------------------------------------------------------------------------
(* The cards and their reviewers.                                            *)

Held == {"extracted"} \cup Slot
Cancelled == {"cancelling", "cancelled"}

\* What a step that publishes nothing does to a card and the job it is of.
CardGoesOn(c) ==
  /\ card'[c] # None =>
       \/ /\ card[c] # None /\ (card'[c].status = "approved" <=> card[c].status = "approved")
          /\ card[c].status = "approved" => card'[c].text = card[c].text
       \/ job[c[1]].status \in Unwritten /\ card'[c].status = "pending"
  /\ Locked(c) => /\ card'[c] # None /\ card'[c].status = "pending"
                  /\ card'[c].text = card[c].text
  /\ job'[c[1]].status \in Unwritten => job[c[1]].status \in Unwritten /\ card'[c] = None
  /\ job'[c[1]].status \in Cancelled => card'[c].status # "pending"
  /\ job'[c[1]].status \notin Held /\ card'[c].status = "pending" => card'[c].ai # "waiting"

NobodyPublishes ==
  /\ live' = live /\ raced' = raced
  /\ \A a \in Admin : Inserting(a)' => Inserting(a) /\ admin'[a].card = admin[a].card

LEMMA PendingIsCard ==
  ASSUME TypeOK, NEW c \in Card, card[c].status \in {"pending", "approved", "rejected"}
  PROVE  card[c] # None
  BY RowFields DEF TypeOK

LEMMA InsertNames ==
  ASSUME TypeOK, NEW a \in Admin, Inserting(a) PROVE admin[a].card \in Card
  BY RequestFields DEF TypeOK, Inserting

LEMMA CardsGoOn ==
  ASSUME TypeOK, CardsRight, NobodyPublishes, \A c \in Card : CardGoesOn(c), BulkOfOneJob'
  PROVE  CardsRight'
<1>1. UnreadHasNoCard'
  BY DEF CardsRight, UnreadHasNoCard, CardGoesOn, NobodyPublishes
<1>2. LiveIffApproved'
  <2> SUFFICES ASSUME NEW c \in Card, card'[c] # None
               PROVE  live[c] = IF card'[c].status = "approved" THEN 1 ELSE 0
    BY DEF LiveIffApproved, NobodyPublishes
  <2> QED BY DEF CardsRight, UnreadHasNoCard, LiveIffApproved, CardGoesOn
<1>3. InsertHolds'
  <2>1. ASSUME NEW a \in Admin, Inserting(a)'
        PROVE  card'[admin'[a].card] # None /\ card'[admin'[a].card].status = "pending"
    <3>1. Inserting(a) /\ admin'[a].card = admin[a].card /\ admin[a].card \in Card
      BY <2>1, InsertNames DEF NobodyPublishes
    <3>2. Locked(admin[a].card)
      BY <3>1 DEF Locked, Inserting
    <3> QED BY <3>1, <3>2 DEF CardGoesOn
  <2>2. ASSUME NEW a \in Admin, NEW b \in Admin, a # b, Inserting(a)', Inserting(b)'
        PROVE  admin'[a].card # admin'[b].card
    BY <2>2 DEF CardsRight, InsertHolds, NobodyPublishes
  <2> QED BY <2>1, <2>2 DEF InsertHolds
<1>4. CancelledHasNoPending'
  <2>1. \A j \in Job, c \in Card : c[1] = j /\ job'[j].status \in Cancelled => card'[c].status # "pending"
    BY DEF CardGoesOn
  <2> QED BY <2>1 DEF CancelledHasNoPending, Pending, CardsOf, Cancelled
<1>5. NothingWaitsForNobody'
  <2>1. \A j \in Job, c \in Card : c[1] = j /\ job'[j].status \notin Held
          => ~(card'[c].status = "pending" /\ card'[c].ai = "waiting")
    BY DEF CardGoesOn
  <2> QED BY <2>1 DEF NothingWaitsForNobody, Pending, Waiting, CardsOf, Held
<1>6. \A c \in Card : card'[c] # None /\ live[c] > 0 =>
        card[c] # None /\ card'[c].text = card[c].text
  BY DEF CardsRight, UnreadHasNoCard, LiveIffApproved, CardGoesOn
<1>7. RacesKnown'
  <2> SUFFICES ASSUME NEW a \in Admin, Inserting(a)',
                      NEW text, text = card'[admin'[a].card].text
               PROVE  /\ TextLive(text)' => text \in raced
                      /\ \A b \in Admin \ {a} : Inserting(b)' /\ card'[admin'[b].card].text = text
                           => text \in raced
    BY DEF RacesKnown, NobodyPublishes
  <2>1. \A b \in Admin : Inserting(b)' =>
          /\ Inserting(b) /\ admin'[b].card = admin[b].card /\ admin[b].card \in Card
          /\ card'[admin[b].card].text = card[admin[b].card].text
    <3> SUFFICES ASSUME NEW b \in Admin, Inserting(b)'
                 PROVE  /\ Inserting(b) /\ admin'[b].card = admin[b].card /\ admin[b].card \in Card
                        /\ card'[admin[b].card].text = card[admin[b].card].text
      OBVIOUS
    <3>1. Inserting(b) /\ admin'[b].card = admin[b].card /\ admin[b].card \in Card
      BY InsertNames DEF NobodyPublishes
    <3>2. Locked(admin[b].card)
      BY <3>1 DEF Locked, Inserting
    <3> QED BY <3>1, <3>2 DEF CardGoesOn
  <2>2. TextLive(text)' => TextLive(text)
    BY <1>6 DEF TextLive, NobodyPublishes
  <2> QED BY <2>1, <2>2 DEF CardsRight, RacesKnown
<1>8. OneRowPerTextUnlessRaced'
  BY <1>6 DEF CardsRight, OneRowPerTextUnlessRaced, NobodyPublishes
<1> QED BY <1>1, <1>2, <1>3, <1>4, <1>5, <1>7, <1>8 DEF CardsRight

\* The job of a kept card does not go back, is not newly cancelled, and leaves the model
\* stage only when the card no longer waits for it.
LEMMA KeptGoesOn ==
  ASSUME TypeOK, CardsRight, NEW c \in Card, Kept(c),
         job'[c[1]].status \in Unwritten => job[c[1]].status \in Unwritten,
         job'[c[1]].status \in Cancelled => job[c[1]].status \in Cancelled,
         job'[c[1]].status \notin Held =>
           \/ job[c[1]].status \notin Held
           \/ card'[c] # None => card'[c].ai # "waiting"
  PROVE  CardGoesOn(c)
<1>0. c[1] \in Job /\ c \in CardsOf(c[1])
  BY CardShape
<1>1. card'[c] # None => /\ card[c] # None /\ card'[c].status = card[c].status
                         /\ card'[c].text = card[c].text
  BY DEF Kept
<1>2. Locked(c) => /\ card'[c] # None /\ card'[c].status = "pending"
                   /\ card'[c].text = card[c].text
  BY DEF Locked, CardsRight, InsertHolds, Inserting, Kept
<1>3. job'[c[1]].status \in Unwritten => job[c[1]].status \in Unwritten /\ card'[c] = None
  BY DEF CardsRight, UnreadHasNoCard, Kept
<1>4. card'[c].status = "pending" => card'[c] # None
  BY DEF None
<1>5. job'[c[1]].status \in Cancelled => card'[c].status # "pending"
  BY <1>0, <1>1, <1>4 DEF CardsRight, CancelledHasNoPending, Pending, Cancelled
<1>6. job[c[1]].status \notin Held /\ card[c] # None /\ card[c].status = "pending"
        => card[c].ai # "waiting"
  BY <1>0 DEF CardsRight, NothingWaitsForNobody, Pending, Waiting, Held
<1>7. job'[c[1]].status \notin Held /\ card'[c].status = "pending" => card'[c].ai # "waiting"
  BY <1>1, <1>4, <1>6 DEF Kept
<1> QED BY <1>1, <1>2, <1>3, <1>5, <1>7 DEF CardGoesOn

LEMMA KeptAll == card' = card => \A c \in Card : Kept(c)
  BY DEF Kept, EditKept

\* A move that leaves the cards of the job as they are.
Onward(r, s) ==
  /\ s \in Unwritten => r \in Unwritten
  /\ s \in Cancelled => r \in Cancelled
  /\ s \notin Held => r \notin Held

\* One that first turns the cards of the job local.
OnwardLocal(r, s) ==
  /\ s \in Unwritten => r \in Unwritten
  /\ s \in Cancelled => r \in Cancelled

LEMMA MovesOnward ==
  /\ Onward("none", "queued") /\ Onward("queued", "extracting")
  /\ Onward("extracting", "failed") /\ Onward("extracted", "proposing")
  /\ Onward("ready", "done")
  /\ OnwardLocal("extracted", "ready") /\ OnwardLocal("proposing", "ready")
  /\ OnwardLocal("cancelling", "cancelled") /\ \A r : OnwardLocal(r, "failed")
  BY DEF Onward, OnwardLocal, Unwritten, Cancelled, Held, Slot

LEMMA KeptCards ==
  ASSUME TypeOK, CardsRight, \A c \in Card : Kept(c),
         \/ job' = job
         \/ StatusesKept
         \/ \E j \in Job : \E s : JobGoes(j, s) /\ Onward(job[j].status, s)
         \/ \E j \in Job : \E s : JobGoes(j, s) /\ OnwardLocal(job[j].status, s) /\ CardsLocal(j)
  PROVE  \A c \in Card : CardGoesOn(c)
<1> SUFFICES ASSUME NEW c \in Card PROVE CardGoesOn(c)
  OBVIOUS
<1>0. c[1] \in Job
  BY CardShape
<1>1. CASE job' = job \/ StatusesKept
  BY <1>0, <1>1, KeptGoesOn DEF StatusesKept
<1>2. CASE \E j \in Job : \E s : JobGoes(j, s) /\ Onward(job[j].status, s)
  <2>0. PICK j \in Job : \E s : JobGoes(j, s) /\ Onward(job[j].status, s)
    BY <1>2
  <2>1. PICK s : JobGoes(j, s) /\ Onward(job[j].status, s)
    BY <2>0
  <2>2. /\ job'[c[1]].status \in Unwritten => job[c[1]].status \in Unwritten
        /\ job'[c[1]].status \in Cancelled => job[c[1]].status \in Cancelled
        /\ job'[c[1]].status \notin Held => job[c[1]].status \notin Held
    BY <1>0, <2>1 DEF JobGoes, Onward
  <2> QED BY <2>2, KeptGoesOn
<1>3. CASE \E j \in Job : \E s : JobGoes(j, s) /\ OnwardLocal(job[j].status, s) /\ CardsLocal(j)
  <2>0. PICK j \in Job : \E s : JobGoes(j, s) /\ OnwardLocal(job[j].status, s) /\ CardsLocal(j)
    BY <1>3
  <2>1. PICK s : JobGoes(j, s) /\ OnwardLocal(job[j].status, s) /\ CardsLocal(j)
    BY <2>0
  <2>2. /\ job'[c[1]].status \in Unwritten => job[c[1]].status \in Unwritten
        /\ job'[c[1]].status \in Cancelled => job[c[1]].status \in Cancelled
    BY <1>0, <2>1 DEF JobGoes, OnwardLocal
  <2>3. job'[c[1]].status \notin Held =>
          \/ job[c[1]].status \notin Held
          \/ card'[c] # None => card'[c].ai # "waiting"
    BY <1>0, <2>1 DEF JobGoes, CardsLocal
  <2> QED BY <2>2, <2>3, KeptGoesOn
<1> QED BY <1>1, <1>2, <1>3

\* The reviewers stay where they are, or one of them ends or goes to tidy up.
AdminsQuiet ==
  \/ admin' = admin
  \/ \E a \in Admin : \E q : AdminGoes(a, q) /\ q.at \notin {"insert", "bulk"}

LEMMA QuietCards ==
  ASSUME TypeOK, CardsRight, live' = live, raced' = raced, AdminsQuiet,
         \A c \in Card : CardGoesOn(c)
  PROVE  CardsRight'
<1>1. NobodyPublishes /\ BulkOfOneJob'
  <2>1. CASE admin' = admin
    BY <2>1 DEF NobodyPublishes, CardsRight, BulkOfOneJob, Inserting
  <2>2. CASE \E a \in Admin : \E q : AdminGoes(a, q) /\ q.at \notin {"insert", "bulk"}
    <3>0. PICK a \in Admin : \E q : AdminGoes(a, q) /\ q.at \notin {"insert", "bulk"}
      BY <2>2
    <3>1. PICK q : AdminGoes(a, q) /\ q.at \notin {"insert", "bulk"}
      BY <3>0
    <3>2. \A b \in Admin : admin'[b] = admin[b] \/ admin'[b].at \notin {"insert", "bulk"}
      BY <3>1 DEF AdminGoes
    <3>3. NobodyPublishes
      BY <3>2 DEF NobodyPublishes, Inserting
    <3>4. BulkOfOneJob'
      BY <3>2 DEF CardsRight, BulkOfOneJob, Inserting
    <3> QED BY <3>3, <3>4
  <2> QED BY <2>1, <2>2 DEF AdminsQuiet
<1> QED BY <1>1, CardsGoOn

LEMMA KeptStep ==
  ASSUME TypeOK, CardsRight, \A c \in Card : Kept(c), live' = live, raced' = raced, AdminsQuiet,
         \/ job' = job
         \/ StatusesKept
         \/ \E j \in Job : \E s : JobGoes(j, s) /\ Onward(job[j].status, s)
         \/ \E j \in Job : \E s : JobGoes(j, s) /\ OnwardLocal(job[j].status, s) /\ CardsLocal(j)
  PROVE  CardsRight' /\ \A c \in Card : EditKept(c)
<1>1. \A c \in Card : CardGoesOn(c)
  BY KeptCards
<1>2. CardsRight'
  BY <1>1, QuietCards
<1> QED BY <1>2 DEF Kept

\* The text of a document that is read: until then it had no card.
LEMMA WriteCards ==
  ASSUME TypeOK, CardsRight, NEW j \in Job, Write(j)
  PROVE  CardsRight' /\ \A c \in Card : EditKept(c)
<1>1. live' = live /\ raced' = raced /\ AdminsQuiet
  BY DEF Write, history, AdminsQuiet
<1>2. CASE job' = job /\ card' = card
  BY <1>1, <1>2, KeptAll, KeptStep
<1>3. CASE /\ job[j].status = "extracting" /\ JobGoes(j, "extracted")
           /\ \A c \in Card :
                IF c[1] = j THEN card'[c] # None /\ card'[c].status = "pending"
                ELSE card'[c] = card[c]
  <2>1. ASSUME NEW c \in Card PROVE CardGoesOn(c) /\ EditKept(c)
    <3>1. CASE c[1] = j
      <4>1. job[c[1]].status \in Unwritten /\ job'[c[1]].status = "extracted"
        BY <1>3, <3>1 DEF Unwritten, JobGoes
      <4>2. card[c] = None
        BY <4>1 DEF CardsRight, UnreadHasNoCard
      <4>3. ~Locked(c)
        BY <4>2 DEF Locked, CardsRight, InsertHolds, Inserting
      <4>4. "extracted" \notin Unwritten /\ "extracted" \notin Cancelled /\ "extracted" \in Held
        BY DEF Unwritten, Cancelled, Held
      <4> QED BY <1>3, <3>1, <4>1, <4>2, <4>3, <4>4 DEF CardGoesOn, EditKept
    <3>2. CASE c[1] # j
      <4>1. card'[c] = card[c] /\ job'[c[1]] = job[c[1]]
        BY <1>3, <3>2, CardShape DEF JobGoes
      <4>2. Kept(c)
        BY <4>1 DEF Kept, EditKept
      <4> QED BY <4>1, <4>2, KeptGoesOn DEF Kept
    <3> QED BY <3>1, <3>2
  <2> QED BY <1>1, <2>1, QuietCards
<1> QED BY <1>2, <1>3, WriteDoes

LEMMA ReadCards ==
  ASSUME TypeOK, CardsRight, NEW j \in Job, Create(j) \/ Read(j) \/ UnlinkFails(j)
  PROVE  CardsRight' /\ \A c \in Card : EditKept(c)
<1>1. CASE Create(j)
  <2>1. JobGoes(j, "queued") /\ job[j].status = "none"
    <3>1. JobGoes(j, "queued") /\ job[j] = None
      BY <1>1, CreateDoes
    <3> QED BY <3>1 DEF None
  <2>2. Onward(job[j].status, "queued")
    BY <2>1, MovesOnward
  <2> QED BY <1>1, <2>1, <2>2, KeptAll, KeptStep DEF Create, history, AdminsQuiet
<1>2. CASE Start(j)
  <2>1. job' = job \/ (JobGoes(j, "extracting") /\ Onward(job[j].status, "extracting"))
    BY <1>2, StartDoes, MovesOnward
  <2> QED BY <1>2, <2>1, KeptAll, KeptStep DEF Start, history, AdminsQuiet
<1>3. CASE Beat(j)
  BY <1>3, BeatDoes, KeptAll, KeptStep DEF Beat, history, AdminsQuiet
<1>4. CASE Write(j)
  BY <1>4, WriteCards
<1>5. CASE Refuse(j)
  <2>1. job' = job \/ (JobGoes(j, "failed") /\ Onward(job[j].status, "failed"))
    BY <1>5, RefuseDoes, MovesOnward
  <2> QED BY <1>5, <2>1, KeptAll, KeptStep DEF Refuse, history, AdminsQuiet
<1>6. CASE Unlink(j) \/ UnlinkFails(j)
  BY <1>6, KeptAll, KeptStep DEF Unlink, UnlinkFails, history, AdminsQuiet
<1>7. CASE Continue(j)
  <2>1. \/ job' = job /\ card' = card
        \/ JobGoes(j, "ready") /\ CardsLocal(j) /\ OnwardLocal(job[j].status, "ready")
    BY <1>7, ContinueDoes, MovesOnward
  <2>2. \A c \in Card : Kept(c)
    BY <2>1, KeptAll DEF CardsLocal
  <2> QED BY <1>7, <2>1, <2>2, KeptStep DEF Continue, history, AdminsQuiet
<1> QED BY <1>1, <1>2, <1>3, <1>4, <1>5, <1>6, <1>7 DEF Read

LEMMA LoopCards ==
  ASSUME TypeOK, CardsRight, NEW t \in Job, Loop(t) \/ Die(t) \/ Resume(t)
  PROVE  CardsRight' /\ \A c \in Card : EditKept(c)
<1>0. live' = live /\ raced' = raced /\ AdminsQuiet
  BY DEF Loop, Pick, Local, Claim, Ask, Reply, Apply, Leave, Tidy, Finish, Die, Resume, history,
         AdminsQuiet
<1>1. CASE Pick(t) \/ Ask(t) \/ Reply(t) \/ Die(t) \/ Resume(t)
  BY <1>0, <1>1, KeptAll, KeptStep DEF Pick, Ask, Reply, Die, Resume
<1>2. CASE Local(t)
  <2>1. PICK j \in Job : \/ job' = job /\ card' = card
                         \/ JobGoes(j, "ready") /\ CardsLocal(j) /\ OnwardLocal(job[j].status, "ready")
    BY <1>2, LocalDoes, MovesOnward
  <2>2. \A c \in Card : Kept(c)
    BY <2>1, KeptAll DEF CardsLocal
  <2> QED BY <1>0, <2>1, <2>2, KeptStep
<1>3. CASE Claim(t)
  <2>1. card' = card
    BY <1>3 DEF Claim
  <2>2. PICK j \in Job : \/ job' = job
                         \/ JobGoes(j, "proposing") /\ job[j].status = "extracted"
    BY <1>3, ClaimDoes
  <2>3. job' = job \/ (JobGoes(j, "proposing") /\ Onward(job[j].status, "proposing"))
    BY <2>2, MovesOnward
  <2> QED BY <1>0, <2>1, <2>3, KeptAll, KeptStep
<1>4. CASE Apply(t)
  BY <1>0, <1>4, ApplyDoes, KeptStep
<1>5. CASE Leave(t)
  <2>1. PICK j \in Job : \/ job' = job /\ card' = card
                         \/ JobGoes(j, "ready") /\ CardsLocal(j) /\ job[j].status = "proposing"
    BY <1>5, LeaveDoes
  <2>2. \/ job' = job /\ card' = card
        \/ JobGoes(j, "ready") /\ CardsLocal(j) /\ OnwardLocal(job[j].status, "ready")
    BY <2>1, MovesOnward
  <2>3. \A c \in Card : Kept(c)
    BY <2>1, KeptAll DEF CardsLocal
  <2> QED BY <1>0, <2>2, <2>3, KeptStep
<1>6. CASE Tidy(t)
  <2>1. card' = card
    BY <1>6 DEF Tidy
  <2>2. PICK j \in Job : job' = job \/ (JobGoes(j, "done") /\ job[j].status = "ready")
    BY <1>6, TidyDoes
  <2>3. job' = job \/ (JobGoes(j, "done") /\ Onward(job[j].status, "done"))
    BY <2>2, MovesOnward
  <2> QED BY <1>0, <2>1, <2>3, KeptAll, KeptStep
<1>7. CASE Finish(t)
  <2>1. PICK j \in Job : \/ job' = job /\ card' = card
                         \/ JobGoes(j, "cancelled") /\ CardsLocal(j) /\ job[j].status = "cancelling"
    BY <1>7, FinishDoes
  <2>2. \/ job' = job /\ card' = card
        \/ JobGoes(j, "cancelled") /\ CardsLocal(j) /\ OnwardLocal(job[j].status, "cancelled")
    BY <2>1, MovesOnward
  <2>3. \A c \in Card : Kept(c)
    BY <2>1, KeptAll DEF CardsLocal
  <2> QED BY <1>0, <2>2, <2>3, KeptStep
<1> QED BY <1>1, <1>2, <1>3, <1>4, <1>5, <1>6, <1>7 DEF Loop

LEMMA TimeCards ==
  ASSUME TypeOK, CardsRight, NEW j \in Job,
         Age(j) \/ Recover(j) \/ Purge(j) \/ SweepUnlink(j) \/ SweepFails(j)
  PROVE  CardsRight' /\ \A c \in Card : EditKept(c)
<1>0. live' = live /\ raced' = raced /\ AdminsQuiet
  BY SweepDoes DEF Age, Recover, Purge, history, AdminsQuiet
<1>1. CASE Age(j)
  BY <1>0, <1>1, AgeDoes, KeptAll, KeptStep DEF Age
<1>2. CASE Recover(j)
  <2>1. /\ JobGoes(j, IF job[j].status = "cancelling" THEN "cancelled" ELSE "failed")
        /\ CardsLocal(j)
    BY <1>2, RecoverDoes
  <2>2. OnwardLocal(job[j].status, IF job[j].status = "cancelling" THEN "cancelled" ELSE "failed")
    BY MovesOnward
  <2>3. \A c \in Card : Kept(c)
    BY <2>1 DEF CardsLocal
  <2> QED BY <1>0, <2>1, <2>2, <2>3, KeptStep
<1>3. CASE Purge(j)
  <2>1. /\ job[j].status \in Finished /\ Unlocked(j) /\ JobGoes(j, "gone")
        /\ \A c \in Card : card'[c] = IF c[1] = j THEN None ELSE card[c]
    BY <1>3, PurgeDoes
  <2>2. ASSUME NEW c \in Card PROVE CardGoesOn(c) /\ EditKept(c)
    <3>1. CASE c[1] = j
      <4>1. card'[c] = None /\ card'[c].status = "none" /\ job'[c[1]].status = "gone"
        BY <2>1, <3>1 DEF JobGoes, None
      <4>2. ~Locked(c)
        BY <2>1, <3>1 DEF Unlocked, CardsOf
      <4> QED BY <4>1, <4>2 DEF CardGoesOn, EditKept, Unwritten
    <3>2. CASE c[1] # j
      <4>1. card'[c] = card[c] /\ job'[c[1]] = job[c[1]]
        BY <2>1, <3>2, CardShape DEF JobGoes
      <4>2. Kept(c)
        BY <4>1 DEF Kept, EditKept
      <4> QED BY <4>1, <4>2, KeptGoesOn DEF Kept
    <3> QED BY <3>1, <3>2
  <2> QED BY <1>0, <2>2, QuietCards
<1>4. CASE SweepUnlink(j) \/ SweepFails(j)
  BY <1>0, <1>4, SweepDoes, KeptAll, KeptStep
<1> QED BY <1>1, <1>2, <1>3, <1>4

LEMMA CancelCards ==
  ASSUME TypeOK, CardsRight, NEW a \in Admin, NEW j \in Job, Cancel(a, j)
  PROVE  CardsRight' /\ \A c \in Card : EditKept(c)
<1>0. live' = live /\ raced' = raced /\ AdminsQuiet
  <2>1. PICK q : q = [at |-> "unlink", job |-> j] /\ (AdminGoes(a, q) \/ admin' = admin)
    BY CancelDoes
  <2>2. q.at = "unlink"
    BY <2>1
  <2> QED BY <2>1, <2>2 DEF Cancel, history, AdminsQuiet
<1>1. PICK s \in Cancelled : JobGoes(j, s)
  BY CancelDoes DEF Cancelled
<1>2. /\ Unlocked(j)
      /\ \A c \in Card :
           IF c[1] = j /\ card[c].status = "pending"
             THEN /\ card'[c] # None /\ card'[c].status = "rejected"
                  /\ card'[c].model = card[c].model
             ELSE card'[c] = card[c]
  BY CancelDoes
<1>3. ASSUME NEW c \in Card PROVE CardGoesOn(c) /\ EditKept(c)
  <2>1. CASE c[1] = j
    <3>1. ~Locked(c)
      BY <1>2, <2>1 DEF Unlocked, CardsOf
    <3>2. job'[c[1]].status \in Cancelled /\ job'[c[1]].status \notin Unwritten
      BY <1>1, <2>1 DEF JobGoes, Cancelled, Unwritten
    <3>3. CASE card[c].status = "pending"
      <4>1. card[c] # None
        BY <3>3, PendingIsCard
      <4>2. card'[c] # None /\ card'[c].status = "rejected" /\ card'[c].model = card[c].model
        BY <1>2, <2>1, <3>3
      <4> QED BY <3>1, <3>2, <3>3, <4>1, <4>2 DEF CardGoesOn, EditKept
    <3>4. CASE card[c].status # "pending"
      <4>1. card'[c] = card[c]
        BY <1>2, <3>4
      <4> QED BY <3>1, <3>2, <3>4, <4>1 DEF CardGoesOn, EditKept
    <3> QED BY <3>3, <3>4
  <2>2. CASE c[1] # j
    <3>1. card'[c] = card[c] /\ job'[c[1]] = job[c[1]]
      BY <1>1, <1>2, <2>2, CardShape DEF JobGoes
    <3>2. Kept(c)
      BY <3>1 DEF Kept, EditKept
    <3> QED BY <3>1, <3>2, KeptGoesOn DEF Kept
  <2> QED BY <2>1, <2>2
<1> QED BY <1>0, <1>3, QuietCards

\* A reviewer writes a pending card that nobody holds.
LEMMA ReviewCards ==
  ASSUME TypeOK, CardsRight, NEW c \in Card, ~Locked(c), card[c].status = "pending", NEW r,
         CardGoes(c, r), r # None, r.model = card[c].model,
         r.status = "rejected" \/ (r.status = "pending" /\ r.ai = card[c].ai),
         job' = job, live' = live, raced' = raced, AdminsQuiet
  PROVE  CardsRight' /\ \A d \in Card : EditKept(d)
<1>1. ASSUME NEW d \in Card PROVE CardGoesOn(d) /\ EditKept(d)
  <2>1. CASE d = c
    <3>0. c[1] \in Job /\ c \in CardsOf(c[1])
      BY CardShape
    <3>1. card[c] # None
      BY PendingIsCard
    <3>2. job[c[1]].status \notin Unwritten
      BY <3>1 DEF CardsRight, UnreadHasNoCard
    <3>3. job[c[1]].status \notin Cancelled
      BY <3>0 DEF CardsRight, CancelledHasNoPending, Pending, Cancelled
    <3>4. job[c[1]].status \notin Held => card[c].ai # "waiting"
      BY <3>0, <3>1 DEF CardsRight, NothingWaitsForNobody, Pending, Waiting, Held
    <3>5. card'[c] = r
      BY DEF CardGoes
    <3> QED BY <2>1, <3>1, <3>2, <3>3, <3>4, <3>5 DEF CardGoesOn, EditKept
  <2>2. CASE d # c
    <3>1. card'[d] = card[d]
      BY <2>2 DEF CardGoes
    <3>2. Kept(d)
      BY <3>1 DEF Kept, EditKept
    <3> QED BY <3>2, KeptGoesOn DEF Kept
  <2> QED BY <2>1, <2>2
<1> QED BY <1>1, QuietCards

\* An approval that claims its card.
LEMMA PublishCards ==
  ASSUME TypeOK, CardsRight, NEW a \in Admin, NEW c \in Card, Publishes(a, c), ~Locked(c),
         job' = job, live' = live, BulkOfOneJob',
         \A b \in Admin : b # a => admin'[b] = admin[b]
  PROVE  CardsRight'
<1>1. \A b \in Admin : Inserting(b)' =>
        \/ b = a /\ admin'[b].card = c
        \/ b # a /\ Inserting(b) /\ admin'[b].card = admin[b].card /\ admin[b].card # c
  BY DEF Publishes, Inserting, Locked
<1>2. InsertHolds'
  <2>1. \A b \in Admin : Inserting(b)' =>
          card'[admin'[b].card] # None /\ card'[admin'[b].card].status = "pending"
    BY <1>1 DEF CardsRight, InsertHolds, Publishes
  <2>2. ASSUME NEW b \in Admin, NEW d \in Admin, b # d, Inserting(b)', Inserting(d)'
        PROVE  admin'[b].card # admin'[d].card
    BY <1>1, <2>2 DEF CardsRight, InsertHolds
  <2> QED BY <2>1, <2>2 DEF InsertHolds
<1>3. ASSUME NEW b \in Admin, b # a, Inserting(b), card[admin[b].card].text = card[c].text
      PROVE  card[c].text \in raced'
  BY <1>3 DEF Checking, Inserting, Publishes
<1>4. RacesKnown'
  <2> SUFFICES ASSUME NEW b \in Admin, Inserting(b)',
                      NEW text, text = card[admin'[b].card].text
               PROVE  /\ TextLive(text) => text \in raced'
                      /\ \A d \in Admin \ {b} : Inserting(d)' /\ card[admin'[d].card].text = text
                           => text \in raced'
    BY DEF RacesKnown, Publishes, TextLive
  <2>1. CASE b = a
    <3>1. text = card[c].text
      BY <1>1, <2>1
    <3>2. ~TextLive(text)
      BY <3>1 DEF Publishes
    <3>3. ASSUME NEW d \in Admin \ {b}, Inserting(d)', card[admin'[d].card].text = text
          PROVE  text \in raced'
      BY <1>1, <1>3, <2>1, <3>1, <3>3
    <3> QED BY <3>2, <3>3
  <2>2. CASE b # a
    <3>1. Inserting(b) /\ admin'[b].card = admin[b].card /\ text = card[admin[b].card].text
      BY <1>1, <2>2
    <3>2. TextLive(text) => text \in raced'
      BY <3>1 DEF CardsRight, RacesKnown, Publishes
    <3>3. ASSUME NEW d \in Admin \ {b}, Inserting(d)', card[admin'[d].card].text = text
          PROVE  text \in raced'
      <4>1. CASE d = a
        BY <1>1, <1>3, <2>2, <3>1, <3>3, <4>1
      <4>2. CASE d # a
        <5>1. Inserting(d) /\ card[admin[d].card].text = text
          BY <1>1, <3>3, <4>2
        <5> QED BY <3>1, <5>1 DEF CardsRight, RacesKnown, Publishes
      <4> QED BY <4>1, <4>2
    <3> QED BY <3>2, <3>3
  <2> QED BY <2>1, <2>2
<1>5. UnreadHasNoCard' /\ LiveIffApproved'
  BY DEF CardsRight, UnreadHasNoCard, LiveIffApproved, Publishes
<1>6. CancelledHasNoPending' /\ NothingWaitsForNobody'
  BY DEF CardsRight, CancelledHasNoPending, NothingWaitsForNobody, Pending, Waiting, Publishes
<1>7. OneRowPerTextUnlessRaced'
  BY DEF CardsRight, OneRowPerTextUnlessRaced, Publishes
<1> QED BY <1>2, <1>4, <1>5, <1>6, <1>7 DEF CardsRight

\* The INSERTs of an approval: its card was pending and is nowhere live.
LEMMA CommitCards ==
  ASSUME TypeOK, CardsRight, NEW a \in Admin, Commit(a)
  PROVE  CardsRight' /\ \A c \in Card : EditKept(c)
<1>1. PICK c \in Card : /\ Inserting(a) /\ admin[a].card = c /\ card[c] # None
                        /\ card[c].status = "pending"
  BY InsertNames DEF Commit, Inserting, CardsRight, InsertHolds
<1>2. live[c] = 0
  BY <1>1 DEF CardsRight, LiveIffApproved
<1>3. /\ live'[c] = 1
      /\ \A d \in Card : d # c => live'[d] = live[d]
  BY <1>1, <1>2, CommitDoes
<1>4. PICK r : /\ CardGoes(c, r) /\ r # None /\ r.status = "approved"
               /\ r.text = card[c].text /\ r.model = card[c].model
  BY <1>1, <1>2, CommitDoes
<1>5. /\ card'[c] # None /\ card'[c].status = "approved" /\ card'[c].text = card[c].text
      /\ card'[c].model = card[c].model
      /\ \A d \in Card : d # c => card'[d] = card[d]
  BY <1>4 DEF CardGoes
<1>6. job' = job /\ raced' = raced
  BY DEF Commit, history
<1>7. PICK q : /\ AdminGoes(a, q)
               /\ \/ q.at = "bulk" /\ q.job = c[1] /\ q.rest = admin[a].rest
                  \/ q.at = "tidy"
  <2>1. \/ AdminGoes(a, [at |-> "bulk", job |-> c[1], rest |-> admin[a].rest])
        \/ AdminGoes(a, [at |-> "tidy", job |-> c[1]])
    BY <1>1, <1>2, CommitDoes
  <2> QED BY <2>1
<1>8. \A b \in Admin : Inserting(b)' =>
        b # a /\ Inserting(b) /\ admin'[b].card = admin[b].card /\ admin[b].card # c
                              /\ admin[b].card \in Card
  BY <1>1, <1>7, InsertNames DEF AdminGoes, Inserting, CardsRight, InsertHolds
<1>9. UnreadHasNoCard'
  BY <1>1, <1>3, <1>5, <1>6 DEF CardsRight, UnreadHasNoCard
<1>10. LiveIffApproved'
  BY <1>3, <1>5 DEF CardsRight, LiveIffApproved
<1>11. InsertHolds'
  <2>1. \A b \in Admin : Inserting(b)' =>
          card'[admin'[b].card] # None /\ card'[admin'[b].card].status = "pending"
    BY <1>5, <1>8 DEF CardsRight, InsertHolds
  <2>2. ASSUME NEW b \in Admin, NEW d \in Admin, b # d, Inserting(b)', Inserting(d)'
        PROVE  admin'[b].card # admin'[d].card
    BY <1>8, <2>2 DEF CardsRight, InsertHolds
  <2> QED BY <2>1, <2>2 DEF InsertHolds
<1>12. BulkOfOneJob'
  <2> SUFFICES ASSUME NEW b \in Admin
               PROVE  /\ admin'[b].at = "bulk" => admin'[b].rest \subseteq CardsOf(admin'[b].job)
                      /\ Inserting(b)' => admin'[b].rest \subseteq CardsOf(admin'[b].card[1])
    BY DEF BulkOfOneJob
  <2>1. CASE b = a
    BY <1>1, <1>7, <2>1 DEF AdminGoes, CardsRight, BulkOfOneJob, Inserting
  <2>2. CASE b # a
    BY <1>7, <2>2 DEF AdminGoes, CardsRight, BulkOfOneJob, Inserting
  <2> QED BY <2>1, <2>2
<1>13. CancelledHasNoPending' /\ NothingWaitsForNobody'
  BY <1>5, <1>6 DEF CardsRight, CancelledHasNoPending, NothingWaitsForNobody, Pending, Waiting,
                    CardsOf
<1>14. \A text : TextLive(text)' => TextLive(text) \/ text = card[c].text
  BY <1>3, <1>5 DEF TextLive
<1>15. RacesKnown'
  <2> SUFFICES ASSUME NEW b \in Admin, Inserting(b)',
                      NEW text, text = card'[admin'[b].card].text
               PROVE  /\ TextLive(text)' => text \in raced
                      /\ \A d \in Admin \ {b} : Inserting(d)' /\ card'[admin'[d].card].text = text
                           => text \in raced
    BY <1>6 DEF RacesKnown
  <2>1. b # a /\ Inserting(b) /\ text = card[admin[b].card].text
    BY <1>5, <1>8
  <2>2. TextLive(text) => text \in raced
    BY <2>1 DEF CardsRight, RacesKnown
  <2>3. text = card[c].text => text \in raced
    BY <1>1, <2>1 DEF CardsRight, RacesKnown
  <2>4. ASSUME NEW d \in Admin \ {b}, Inserting(d)', card'[admin'[d].card].text = text
        PROVE  text \in raced
    <3>1. Inserting(d) /\ card[admin[d].card].text = text
      BY <1>5, <1>8, <2>4
    <3> QED BY <2>1, <3>1 DEF CardsRight, RacesKnown
  <2> QED BY <1>14, <2>2, <2>3, <2>4
<1>16. OneRowPerTextUnlessRaced'
  <2>1. TextLive(card[c].text) => card[c].text \in raced
    BY <1>1 DEF CardsRight, RacesKnown
  <2>2. \A d \in Card : d # c /\ card[d] # None /\ live[d] > 0 /\ card[d].text = card[c].text
          => card[c].text \in raced
    BY <2>1 DEF TextLive
  <2> SUFFICES ASSUME NEW d \in Card, NEW e \in Card, d # e, card'[d] # None, card'[e] # None,
                      live'[d] > 0, live'[e] > 0, card'[d].text = card'[e].text
               PROVE  card'[d].text \in raced
    BY <1>6 DEF OneRowPerTextUnlessRaced
  <2>3. CASE d = c
    BY <1>3, <1>5, <2>2, <2>3
  <2>4. CASE e = c
    BY <1>3, <1>5, <2>2, <2>4
  <2>5. CASE d # c /\ e # c
    BY <1>3, <1>5, <2>5 DEF CardsRight, OneRowPerTextUnlessRaced
  <2> QED BY <2>3, <2>4, <2>5
<1>17. \A d \in Card : EditKept(d)
  BY <1>5 DEF EditKept
<1> QED BY <1>9, <1>10, <1>11, <1>12, <1>13, <1>15, <1>16, <1>17 DEF CardsRight

\* A reviewer who begins or goes on with a bulk approval.
LEMMA BulkGoesOn ==
  ASSUME TypeOK, CardsRight, NEW a \in Admin, NEW q, AdminGoes(a, q),
         q.at # "insert", q.at = "bulk" => q.rest \subseteq CardsOf(q.job),
         live' = live, raced' = raced, job' = job, \A c \in Card : Kept(c)
  PROVE  CardsRight' /\ \A c \in Card : EditKept(c)
<1>1. NobodyPublishes
  BY DEF NobodyPublishes, AdminGoes, Inserting
<1>2. BulkOfOneJob'
  <2> SUFFICES ASSUME NEW b \in Admin
               PROVE  /\ admin'[b].at = "bulk" => admin'[b].rest \subseteq CardsOf(admin'[b].job)
                      /\ Inserting(b)' => admin'[b].rest \subseteq CardsOf(admin'[b].card[1])
    BY DEF BulkOfOneJob
  <2>1. CASE b = a
    BY <2>1 DEF AdminGoes, Inserting
  <2>2. CASE b # a
    BY <2>2 DEF AdminGoes, CardsRight, BulkOfOneJob, Inserting
  <2> QED BY <2>1, <2>2
<1>3. \A c \in Card : CardGoesOn(c)
  BY KeptCards
<1> QED BY <1>1, <1>2, <1>3, CardsGoOn DEF Kept

LEMMA ClaimGoesOn ==
  ASSUME TypeOK, CardsRight, NEW a \in Admin, NEW c \in Card, Publishes(a, c), ~Locked(c),
         NEW q, AdminGoes(a, q), q.at = "insert", q.card = c, q.rest \subseteq CardsOf(c[1]),
         live' = live, job' = job
  PROVE  CardsRight' /\ \A d \in Card : EditKept(d)
<1>1. BulkOfOneJob'
  <2> SUFFICES ASSUME NEW b \in Admin
               PROVE  /\ admin'[b].at = "bulk" => admin'[b].rest \subseteq CardsOf(admin'[b].job)
                      /\ Inserting(b)' => admin'[b].rest \subseteq CardsOf(admin'[b].card[1])
    BY DEF BulkOfOneJob
  <2>1. CASE b = a
    BY <2>1 DEF AdminGoes, Inserting
  <2>2. CASE b # a
    BY <2>2 DEF AdminGoes, CardsRight, BulkOfOneJob, Inserting
  <2> QED BY <2>1, <2>2
<1>2. CardsRight'
  BY <1>1, PublishCards DEF AdminGoes
<1>3. \A d \in Card : Kept(d)
  BY KeptAll DEF Publishes
<1> QED BY <1>2, <1>3 DEF Kept

LEMMA ApproveCards ==
  ASSUME TypeOK, CardsRight, NEW a \in Admin, NEW c \in Card, Approve(a, c)
  PROVE  CardsRight' /\ \A d \in Card : EditKept(d)
<1>1. ~Locked(c) /\ job' = job /\ live' = live
  BY DEF Approve
<1>2. CASE /\ Publishes(a, c)
           /\ AdminGoes(a, [at |-> "insert", card |-> c, rest |-> {}, bulk |-> FALSE])
  <2>1. PICK q : /\ q = [at |-> "insert", card |-> c, rest |-> {}, bulk |-> FALSE]
                 /\ AdminGoes(a, q)
    BY <1>2
  <2>2. q.at = "insert" /\ q.card = c /\ q.rest \subseteq CardsOf(c[1])
    BY <2>1
  <2> QED BY <1>1, <1>2, <2>1, <2>2, ClaimGoesOn
<1>3. CASE raced' = raced /\ AdminGoes(a, Idle) /\ \A d \in Card : Kept(d)
  <2>1. Idle.at # "insert" /\ Idle.at # "bulk"
    BY DEF Idle
  <2> QED BY <1>1, <1>3, <2>1, BulkGoesOn
<1> QED BY <1>2, <1>3, ApproveDoes

LEMMA ApproveNextCards ==
  ASSUME TypeOK, CardsRight, NEW a \in Admin, ApproveNext(a)
  PROVE  CardsRight' /\ \A d \in Card : EditKept(d)
<1>0. BulkOfOneJob
  BY DEF CardsRight
<1>1. job' = job /\ live' = live
  BY DEF ApproveNext
<1>2. PICK j \in Job : j = admin[a].job
  BY <1>0, ApproveNextDoes
<1>3. CASE card' = card /\ raced' = raced /\ AdminGoes(a, [at |-> "tidy", job |-> j])
  <2>1. PICK q : q = [at |-> "tidy", job |-> j] /\ AdminGoes(a, q)
    BY <1>3
  <2>2. q.at = "tidy"
    BY <2>1
  <2> QED BY <1>1, <1>3, <2>1, <2>2, KeptAll, BulkGoesOn
<1>4. ASSUME NEW c \in CardsOf(j), NEW rest \in SUBSET CardsOf(j), ~Locked(c),
             \/ /\ Publishes(a, c)
                /\ AdminGoes(a, [at |-> "insert", card |-> c, rest |-> rest, bulk |-> TRUE])
             \/ /\ raced' = raced /\ \A d \in Card : Kept(d)
                /\ AdminGoes(a, [at |-> "bulk", job |-> j, rest |-> rest])
      PROVE  CardsRight' /\ \A d \in Card : EditKept(d)
  <2>1. c \in Card /\ c[1] = j
    BY DEF CardsOf
  <2>2. CASE /\ Publishes(a, c)
             /\ AdminGoes(a, [at |-> "insert", card |-> c, rest |-> rest, bulk |-> TRUE])
    <3>1. PICK q : /\ q = [at |-> "insert", card |-> c, rest |-> rest, bulk |-> TRUE]
                   /\ AdminGoes(a, q)
      BY <2>2
    <3>2. q.at = "insert" /\ q.card = c /\ q.rest \subseteq CardsOf(c[1])
      BY <2>1, <3>1
    <3> QED BY <1>1, <1>4, <2>1, <2>2, <3>1, <3>2, ClaimGoesOn
  <2>3. CASE /\ raced' = raced /\ \A d \in Card : Kept(d)
             /\ AdminGoes(a, [at |-> "bulk", job |-> j, rest |-> rest])
    <3>1. PICK q : q = [at |-> "bulk", job |-> j, rest |-> rest] /\ AdminGoes(a, q)
      BY <2>3
    <3>2. q.at = "bulk" /\ q.rest \subseteq CardsOf(q.job)
      BY <3>1
    <3> QED BY <1>1, <2>3, <3>1, <3>2, BulkGoesOn
  <2> QED BY <1>4, <2>2, <2>3
<1>5. \/ card' = card /\ raced' = raced /\ AdminGoes(a, [at |-> "tidy", job |-> j])
      \/ \E c \in CardsOf(j) : \E rest \in SUBSET CardsOf(j) :
           /\ ~Locked(c)
           /\ \/ /\ Publishes(a, c)
                 /\ AdminGoes(a, [at |-> "insert", card |-> c, rest |-> rest, bulk |-> TRUE])
              \/ /\ raced' = raced /\ \A d \in Card : Kept(d)
                 /\ AdminGoes(a, [at |-> "bulk", job |-> j, rest |-> rest])
  BY <1>0, <1>2, ApproveNextDoes
<1> QED BY <1>3, <1>4, <1>5

LEMMA AdminCards ==
  ASSUME TypeOK, CardsRight, NEW a \in Admin,
         \/ \E j \in Job : Cancel(a, j) \/ ApproveSeen(a, j)
         \/ \E c \in Card : MarkSeen(a, c) \/ Edit(a, c) \/ Reject(a, c) \/ Approve(a, c)
         \/ Commit(a) \/ ApproveNext(a) \/ AdminTidy(a) \/ AdminUnlink(a) \/ RequestDies(a)
  PROVE  CardsRight' /\ \A c \in Card : EditKept(c)
<1>1. ASSUME NEW j \in Job, ApproveSeen(a, j)
      PROVE  CardsRight' /\ \A c \in Card : EditKept(c)
  <2>1. job' = job /\ card' = card /\ live' = live /\ raced' = raced
    BY <1>1 DEF ApproveSeen, history
  <2>2. PICK q : /\ q = [at |-> "bulk", job |-> j, rest |-> BulkReady(j)] /\ AdminGoes(a, q)
                 /\ BulkReady(j) \subseteq CardsOf(j)
    BY <1>1, ApproveSeenDoes
  <2>3. q.at = "bulk" /\ q.rest \subseteq CardsOf(q.job)
    BY <2>2
  <2> QED BY <2>1, <2>2, <2>3, KeptAll, BulkGoesOn
<1>2. ASSUME NEW c \in Card, MarkSeen(a, c)
      PROVE  CardsRight' /\ \A d \in Card : EditKept(d)
  BY <1>2, MarkSeenDoes, KeptStep DEF MarkSeen, AdminsQuiet
<1>3. ASSUME NEW c \in Card, Edit(a, c)
      PROVE  CardsRight' /\ \A d \in Card : EditKept(d)
  <2>1. PICK r : /\ CardGoes(c, r) /\ r # None /\ r.status = "pending" /\ r.ai = card[c].ai
                 /\ r.model = card[c].model /\ ~Locked(c) /\ card[c].status = "pending"
    BY <1>3, EditDoes
  <2>2. job' = job /\ live' = live /\ raced' = raced /\ AdminsQuiet
    BY <1>3 DEF Edit, AdminsQuiet
  <2> QED BY <2>1, <2>2, ReviewCards
<1>4. ASSUME NEW c \in Card, Reject(a, c)
      PROVE  CardsRight' /\ \A d \in Card : EditKept(d)
  <2>1. PICK r : /\ CardGoes(c, r) /\ r # None /\ r.status = "rejected"
                 /\ r.model = card[c].model /\ ~Locked(c) /\ card[c].status = "pending"
    BY <1>4, RejectDoes
  <2>2. job' = job /\ live' = live /\ raced' = raced
    BY <1>4 DEF Reject
  <2>3. AdminsQuiet
    <3>1. PICK q : q = [at |-> "tidy", job |-> c[1]] /\ AdminGoes(a, q)
      BY <1>4, RejectDoes
    <3>2. q.at = "tidy"
      BY <3>1
    <3> QED BY <3>1, <3>2 DEF AdminsQuiet
  <2> QED BY <2>1, <2>2, <2>3, ReviewCards
<1>5. ASSUME AdminTidy(a) PROVE CardsRight' /\ \A c \in Card : EditKept(c)
  <2>1. card' = card /\ live' = live /\ raced' = raced
    BY <1>5 DEF AdminTidy, history
  <2>2. AdminsQuiet
    BY <1>5, AdminTidyDoes DEF AdminsQuiet, Idle
  <2>3. PICK j \in Job : job' = job \/ (JobGoes(j, "done") /\ job[j].status = "ready")
    BY <1>5, AdminTidyDoes
  <2>4. job' = job \/ (JobGoes(j, "done") /\ Onward(job[j].status, "done"))
    BY <2>3, MovesOnward
  <2> QED BY <2>1, <2>2, <2>4, KeptAll, KeptStep
<1>6. ASSUME AdminUnlink(a) \/ RequestDies(a)
      PROVE  CardsRight' /\ \A c \in Card : EditKept(c)
  <2>1. job' = job /\ card' = card /\ live' = live /\ raced' = raced
    BY <1>6 DEF AdminUnlink, RequestDies, history
  <2>2. AdminsQuiet
    BY <1>6, AdminUnlinkDoes, RequestDiesDoes DEF AdminsQuiet, Idle
  <2> QED BY <2>1, <2>2, KeptAll, KeptStep
<1> QED BY <1>1, <1>2, <1>3, <1>4, <1>5, <1>6, CancelCards, ApproveCards, CommitCards,
           ApproveNextCards

-------------------------------------------------------------------------------
(* The documents on the disk.                                                *)

Reading == {"queued", "extracting"}
AtUnlink == {"wrote", "refused"}
Cancels(a, j) == admin[a] = [at |-> "unlink", job |-> j]

ReadersStay ==
  \A i \in Job : job[i].status \in Reading =>
    \/ job'[i].status \in Reading \/ task'[i].at \in AtUnlink \/ ~file'[i]
    \/ i \in sweeping' \/ \E a \in Admin : Cancels(a, i)'

UnlinkersStay ==
  \A i \in Job : task[i].at \in AtUnlink =>
    task'[i].at \in AtUnlink \/ i \in orphaned' \/ ~file'[i]

SweepStays == \A i \in Job : i \in sweeping => i \in sweeping' \cup orphaned' \/ ~file'[i]

CancelsStay ==
  \A a \in Admin : \A i \in Job : Cancels(a, i) => Cancels(a, i)' \/ i \in orphaned' \/ ~file'[i]

\* Nobody who is about to remove a document, but for a task, has moved.
OthersStay == sweeping' = sweeping /\ admin' = admin

LEMMA FilesGoOn ==
  ASSUME FileIsFollowed, ReadersStay, UnlinkersStay, SweepStays, CancelsStay,
         orphaned \subseteq orphaned',
         \A i \in Job : file'[i] => file[i] \/ job'[i].status = "queued"
  PROVE  FileIsFollowed'
<1> SUFFICES ASSUME NEW i \in Job, file'[i]
             PROVE  \/ job'[i].status \in Reading \/ task'[i].at \in AtUnlink
                    \/ i \in sweeping' \cup orphaned' \/ \E a \in Admin : Cancels(a, i)'
  BY DEF FileIsFollowed, Unread, Reading, AtUnlink, Cancels
<1>1. CASE job'[i].status = "queued"
  BY <1>1 DEF Reading
<1>2. CASE file[i]
  <2>1. \/ job[i].status \in Reading \/ task[i].at \in AtUnlink
        \/ i \in sweeping \cup orphaned \/ \E a \in Admin : Cancels(a, i)
    BY <1>2 DEF FileIsFollowed, Unread, Reading, AtUnlink, Cancels
  <2> QED BY <2>1 DEF ReadersStay, UnlinkersStay, SweepStays, CancelsStay
<1> QED BY <1>1, <1>2

LEMMA OthersGoOn == OthersStay => SweepStays /\ CancelsStay
  BY DEF OthersStay, SweepStays, CancelsStay, Cancels

LEMMA CancelsGoOn ==
  \A a \in Admin : \A q : AdminGoes(a, q) /\ admin[a].at # "unlink" => CancelsStay
  BY DEF CancelsStay, Cancels, AdminGoes

LEMMA ReadersGoOn ==
  /\ job' = job => ReadersStay
  /\ StatusesKept => ReadersStay
  /\ \A j \in Job : \A s :
       JobGoes(j, s) /\ (job[j].status \notin Reading \/ s \in Reading) => ReadersStay
  BY DEF ReadersStay, StatusesKept, JobGoes

LEMMA UnlinkersGoOn ==
  /\ task' = task => UnlinkersStay
  /\ \A t \in Job : \A k : TaskGoes(t, k) /\ task[t].at \notin AtUnlink => UnlinkersStay
  BY DEF UnlinkersStay, TaskGoes

LEMMA ReadFiles ==
  ASSUME TypeOK, UnbornIsOff, FileIsFollowed, NEW j \in Job, Create(j) \/ Read(j) \/ UnlinkFails(j)
  PROVE  FileIsFollowed'
<1>0. orphaned \subseteq orphaned' /\ OthersStay
  <2>1. CASE UnlinkFails(j)
    BY <2>1 DEF UnlinkFails, OthersStay
  <2>2. CASE Create(j) \/ Read(j)
    BY <2>2 DEF Create, Read, Start, Beat, Write, Refuse, Unlink, Continue, history, OthersStay
  <2> QED BY <2>1, <2>2
<1>9. SweepStays /\ CancelsStay
  BY <1>0, OthersGoOn
<1>1. CASE Create(j)
  <2>1. job[j] = None /\ JobGoes(j, "queued")
    BY <1>1, CreateDoes
  <2>2. TaskGoes(j, [at |-> "due", job |-> j]) /\ \A i \in Job : i # j => file'[i] = file[i]
    BY <1>1, CreateDoes
  <2>3. ReadersStay
    BY <2>1, ReadersGoOn DEF Reading
  <2>4. \A i \in Job : i # j => task'[i] = task[i]
    BY <2>2 DEF TaskGoes
  <2>5. job'[j].status = "queued"
    BY <2>1 DEF JobGoes
  <2>6. task[j].at \notin AtUnlink => UnlinkersStay
    BY <2>2, UnlinkersGoOn
  <2>7. \A i \in Job : file'[i] => file[i] \/ job'[i].status = "queued"
    BY <2>2, <2>5
  <2>8. task[j].at \notin AtUnlink
    BY <2>1 DEF UnbornIsOff, None, AtUnlink
  <2> QED BY <1>0, <1>9, <2>3, <2>6, <2>7, <2>8, FilesGoOn
<1>2. CASE Start(j)
  <2>1. ReadersStay
    BY <1>2, StartDoes, ReadersGoOn DEF Reading
  <2>2. UnlinkersStay
    BY <1>2, StartDoes, UnlinkersGoOn DEF AtUnlink
  <2> QED BY <1>0, <1>9, <1>2, <2>1, <2>2, FilesGoOn DEF Start
<1>3. CASE Beat(j)
  <2>1. ReadersStay
    BY <1>3, BeatDoes, ReadersGoOn
  <2> QED BY <1>0, <1>9, <1>3, <2>1, UnlinkersGoOn, FilesGoOn DEF Beat
<1>4. CASE Write(j)
  <2>1. \/ JobGoes(j, "extracted") /\ TaskGoes(j, [at |-> "wrote", job |-> j])
        \/ job' = job /\ TaskGoes(j, [at |-> "refused", job |-> j])
    BY <1>4, WriteDoes
  <2>2. task'[j].at \in AtUnlink /\ \A i \in Job : i # j => task'[i] = task[i]
    BY <2>1 DEF TaskGoes, AtUnlink
  <2>3. ReadersStay /\ UnlinkersStay
    BY <2>1, <2>2 DEF ReadersStay, UnlinkersStay, JobGoes
  <2> QED BY <1>0, <1>9, <1>4, <2>3, FilesGoOn DEF Write
<1>5. CASE Refuse(j)
  <2>1. /\ JobGoes(j, "failed") \/ job' = job
        /\ TaskGoes(j, [at |-> "refused", job |-> j])
    BY <1>5, RefuseDoes
  <2>2. task'[j].at \in AtUnlink /\ \A i \in Job : i # j => task'[i] = task[i]
    BY <2>1 DEF TaskGoes, AtUnlink
  <2>3. ReadersStay /\ UnlinkersStay
    BY <2>1, <2>2 DEF ReadersStay, UnlinkersStay, JobGoes
  <2> QED BY <1>0, <1>9, <1>5, <2>3, FilesGoOn DEF Refuse
<1>6. CASE Unlink(j) \/ UnlinkFails(j)
  <2>1. /\ TaskGoes(j, [at |-> "next", job |-> j]) \/ TaskGoes(j, Off)
        /\ ~file'[j] \/ j \in orphaned'
        /\ \A i \in Job : file'[i] => file[i]
    BY <1>6, UnlinkDoes
  <2>2. UnlinkersStay
    BY <2>1 DEF UnlinkersStay, TaskGoes
  <2>3. job' = job
    BY <1>6 DEF Unlink, UnlinkFails
  <2> QED BY <1>0, <1>9, <2>1, <2>2, <2>3, ReadersGoOn, FilesGoOn
<1>7. CASE Continue(j)
  <2>1. ReadersStay
    BY <1>7, ContinueDoes, ReadersGoOn DEF Reading
  <2>2. UnlinkersStay
    BY <1>7, ContinueDoes, UnlinkersGoOn DEF AtUnlink
  <2> QED BY <1>0, <1>9, <1>7, <2>1, <2>2, FilesGoOn DEF Continue
<1> QED BY <1>1, <1>2, <1>3, <1>4, <1>5, <1>6, <1>7 DEF Read

LEMMA LoopFiles ==
  ASSUME TypeOK, FileIsFollowed, NEW t \in Job, Loop(t) \/ Die(t) \/ Resume(t)
  PROVE  FileIsFollowed'
<1>0. file' = file /\ OthersStay
  BY DEF Loop, Pick, Local, Claim, Ask, Reply, Apply, Leave, Tidy, Finish, Die, Resume, history,
         OthersStay
<1>9. SweepStays /\ CancelsStay
  BY <1>0, OthersGoOn
<1>1. CASE Die(t)
  <2>1. /\ TaskGoes(t, Off) /\ orphaned \subseteq orphaned'
        /\ task[t].at \in AtUnlink => t \in orphaned'
    BY <1>1, DieDoes DEF AtUnlink
  <2>2. UnlinkersStay
    BY <2>1 DEF UnlinkersStay, TaskGoes
  <2>3. job' = job
    BY <1>1 DEF Die
  <2> QED BY <1>0, <1>9, <2>1, <2>2, <2>3, ReadersGoOn, FilesGoOn
<1>2. CASE Loop(t) \/ Resume(t)
  <2>1. orphaned' = orphaned
    BY <1>2 DEF Loop, Pick, Local, Claim, Ask, Reply, Apply, Leave, Tidy, Finish, Resume, history
  <2>2. task[t].at \notin AtUnlink
    BY <1>2 DEF Loop, Pick, Local, Claim, Ask, Reply, Apply, Leave, Tidy, Finish, Resume, AtUnlink,
                Off
  <2>3. \E k : TaskGoes(t, k)
    BY <1>2, PickDoes, LocalDoes, ClaimDoes, AskDoes, ReplyDoes, ApplyDoes, LeaveDoes, TidyDoes,
       FinishDoes, ResumeDoes DEF Loop
  <2>4. UnlinkersStay
    BY <2>2, <2>3, UnlinkersGoOn
  <2>5. ReadersStay
    <3>1. CASE Pick(t) \/ Ask(t) \/ Reply(t) \/ Resume(t)
      BY <3>1, ReadersGoOn DEF Pick, Ask, Reply, Resume
    <3>2. CASE Local(t)
      BY <3>2, LocalDoes, ReadersGoOn DEF Reading
    <3>3. CASE Claim(t)
      <4>1. PICK j \in Job : job' = job \/ (JobGoes(j, "proposing") /\ job[j].status = "extracted")
        BY <3>3, ClaimDoes
      <4> QED BY <4>1, ReadersGoOn DEF Reading
    <3>4. CASE Apply(t)
      BY <3>4, ApplyDoes, ReadersGoOn
    <3>5. CASE Leave(t)
      <4>1. PICK j \in Job : job' = job \/ (JobGoes(j, "ready") /\ job[j].status = "proposing")
        BY <3>5, LeaveDoes
      <4> QED BY <4>1, ReadersGoOn DEF Reading
    <3>6. CASE Tidy(t)
      <4>1. PICK j \in Job : job' = job \/ (JobGoes(j, "done") /\ job[j].status = "ready")
        BY <3>6, TidyDoes
      <4> QED BY <4>1, ReadersGoOn DEF Reading
    <3>7. CASE Finish(t)
      <4>1. PICK j \in Job : job' = job \/ (JobGoes(j, "cancelled") /\ job[j].status = "cancelling")
        BY <3>7, FinishDoes
      <4> QED BY <4>1, ReadersGoOn DEF Reading
    <3> QED BY <1>2, <3>1, <3>2, <3>3, <3>4, <3>5, <3>6, <3>7 DEF Loop
  <2> QED BY <1>0, <1>9, <2>1, <2>4, <2>5, FilesGoOn
<1> QED BY <1>1, <1>2

LEMMA TimeFiles ==
  ASSUME TypeOK, FileIsFollowed, NEW j \in Job,
         Age(j) \/ Recover(j) \/ Purge(j) \/ SweepUnlink(j) \/ SweepFails(j)
  PROVE  FileIsFollowed'
<1>0. UnlinkersStay /\ CancelsStay
  <2>1. task' = task /\ admin' = admin
    BY SweepDoes DEF Age, Recover, Purge
  <2> QED BY <2>1, UnlinkersGoOn DEF CancelsStay, Cancels
<1>1. CASE Age(j) \/ Purge(j)
  <2>1. OthersStay /\ orphaned' = orphaned /\ file' = file
    BY <1>1 DEF Age, Purge, history, OthersStay
  <2>2. CASE Age(j)
    BY <1>0, <2>1, <2>2, AgeDoes, ReadersGoOn, OthersGoOn, FilesGoOn
  <2>3. CASE Purge(j)
    <3>1. JobGoes(j, "gone") /\ job[j].status \notin Reading
      BY <2>3, PurgeDoes DEF Finished, Reading
    <3> QED BY <1>0, <2>1, <3>1, ReadersGoOn, OthersGoOn, FilesGoOn
  <2> QED BY <1>1, <2>2, <2>3
<1>2. CASE Recover(j)
  <2>1. PICK s : JobGoes(j, s) /\ (job[j].status \in Reading => j \in sweeping')
    BY <1>2, RecoverDoes DEF Unread, Reading
  <2>2. ReadersStay
    BY <2>1 DEF ReadersStay, JobGoes
  <2>3. SweepStays
    BY <1>2, RecoverDoes DEF SweepStays
  <2> QED BY <1>0, <1>2, <2>2, <2>3, FilesGoOn DEF Recover
<1>3. CASE SweepUnlink(j) \/ SweepFails(j)
  <2>1. SweepStays
    BY <1>3, SweepDoes DEF SweepStays
  <2> QED BY <1>0, <1>3, <2>1, SweepDoes, ReadersGoOn, FilesGoOn
<1> QED BY <1>1, <1>2, <1>3

LEMMA AdminFiles ==
  ASSUME TypeOK, FileIsFollowed, NEW a \in Admin,
         \/ \E j \in Job : Cancel(a, j) \/ ApproveSeen(a, j)
         \/ \E c \in Card : MarkSeen(a, c) \/ Edit(a, c) \/ Reject(a, c) \/ Approve(a, c)
         \/ Commit(a) \/ ApproveNext(a) \/ AdminTidy(a) \/ AdminUnlink(a) \/ RequestDies(a)
  PROVE  FileIsFollowed'
<1>0. UnlinkersStay /\ SweepStays
  <2>1. task' = task /\ sweeping' = sweeping
    BY DEF Cancel, ApproveSeen, MarkSeen, Edit, Reject, Approve, Commit, ApproveNext, AdminTidy,
           AdminUnlink, RequestDies, history
  <2> QED BY <2>1, UnlinkersGoOn DEF SweepStays
<1>1. ASSUME NEW j \in Job, Cancel(a, j) PROVE FileIsFollowed'
  <2>1. file' = file /\ orphaned' = orphaned
    BY <1>1 DEF Cancel, history
  <2>2. PICK s : JobGoes(j, s)
    BY <1>1, CancelDoes
  <2>3. CASE AdminGoes(a, [at |-> "unlink", job |-> j])
    <3>1. Cancels(a, j)'
      BY <2>3 DEF AdminGoes, Cancels
    <3>2. ReadersStay
      BY <2>2, <3>1 DEF ReadersStay, JobGoes
    <3>3. CancelsStay
      BY <1>1, <2>3, CancelDoes, CancelsGoOn DEF Idle
    <3> QED BY <1>0, <2>1, <3>2, <3>3, FilesGoOn
  <2>4. CASE admin' = admin /\ ~Unread(j)
    <3>1. ReadersStay
      BY <2>2, <2>4, ReadersGoOn DEF Unread, Reading
    <3>2. CancelsStay
      BY <2>4 DEF CancelsStay, Cancels
    <3> QED BY <1>0, <2>1, <3>1, <3>2, FilesGoOn
  <2> QED BY <1>1, <2>3, <2>4, CancelDoes
<1>2. ASSUME AdminUnlink(a) PROVE FileIsFollowed'
  <2>1. /\ job' = job /\ orphaned' = orphaned
        /\ admin[a].at = "unlink" /\ AdminGoes(a, Idle)
        /\ file' = [file EXCEPT ![admin[a].job] = FALSE]
    BY <1>2, AdminUnlinkDoes DEF history
  <2>2. \A i \in Job : (file'[i] => file[i]) /\ (i = admin[a].job => ~file'[i])
    BY <2>1 DEF TypeOK
  <2>3. CancelsStay
    <3> SUFFICES ASSUME NEW b \in Admin, NEW i \in Job, Cancels(b, i)
                 PROVE  Cancels(b, i)' \/ ~file'[i]
      BY DEF CancelsStay
    <3>1. CASE b = a
      <4>1. admin[a].job = i
        BY <3>1 DEF Cancels
      <4> QED BY <2>2, <4>1
    <3>2. CASE b # a
      BY <2>1, <3>2 DEF Cancels, AdminGoes
    <3> QED BY <3>1, <3>2
  <2> QED BY <1>0, <2>1, <2>2, <2>3, ReadersGoOn, FilesGoOn
<1>3. ASSUME RequestDies(a) PROVE FileIsFollowed'
  <2>1. /\ job' = job /\ file' = file
        /\ orphaned \subseteq orphaned' /\ AdminGoes(a, Idle)
        /\ admin[a].at = "unlink" => admin[a].job \in orphaned'
    BY <1>3, RequestDiesDoes DEF RequestDies
  <2>2. CancelsStay
    <3> SUFFICES ASSUME NEW b \in Admin, NEW i \in Job, Cancels(b, i)
                 PROVE  Cancels(b, i)' \/ i \in orphaned'
      BY DEF CancelsStay
    <3>1. CASE b = a
      <4>1. admin[a].at = "unlink" /\ admin[a].job = i
        BY <3>1 DEF Cancels
      <4> QED BY <2>1, <4>1
    <3>2. CASE b # a
      BY <2>1, <3>2 DEF Cancels, AdminGoes
    <3> QED BY <3>1, <3>2
  <2> QED BY <1>0, <2>1, <2>2, ReadersGoOn, FilesGoOn
<1>4. CASE /\ ~ \E j \in Job : Cancel(a, j)
           /\ ~ AdminUnlink(a) /\ ~ RequestDies(a)
  <2>1. file' = file /\ orphaned' = orphaned
    BY <1>4 DEF ApproveSeen, MarkSeen, Edit, Reject, Approve, Commit, ApproveNext, AdminTidy, history
  <2>2. ReadersStay
    <3>1. CASE AdminTidy(a)
      <4>1. PICK j \in Job : job' = job \/ (JobGoes(j, "done") /\ job[j].status = "ready")
        BY <3>1, AdminTidyDoes
      <4> QED BY <4>1, ReadersGoOn DEF Reading
    <3>2. CASE ~AdminTidy(a)
      <4>1. job' = job
        BY <1>4, <3>2 DEF ApproveSeen, MarkSeen, Edit, Reject, Approve, Commit, ApproveNext
      <4> QED BY <4>1, ReadersGoOn
    <3> QED BY <3>1, <3>2
  <2>3. CancelsStay
    <3>1. admin' = admin \/ (admin[a].at # "unlink" /\ \A b \in Admin \ {a} : admin'[b] = admin[b])
      <4>1. CASE \E c \in Card : MarkSeen(a, c) \/ Edit(a, c)
        BY <4>1 DEF MarkSeen, Edit
      <4>2. CASE (\E j \in Job : ApproveSeen(a, j)) \/ \E c \in Card : Reject(a, c) \/ Approve(a, c)
        <5>1. admin[a] = Idle /\ \E q : Answer(a, q)
          BY <4>2 DEF ApproveSeen, Reject, Approve, Open, Free, Claimed, Refused
        <5> QED BY <5>1 DEF Answer, Idle, TypeOK
      <4>3. CASE Commit(a) \/ ApproveNext(a) \/ AdminTidy(a)
        <5>1. admin[a].at # "unlink" /\ \E q : Answer(a, q)
          BY <4>3 DEF Commit, ApproveNext, AdminTidy, Claimed, Refused
        <5> QED BY <5>1 DEF Answer, TypeOK
      <4> QED BY <1>4, <4>1, <4>2, <4>3
    <3> QED BY <3>1 DEF CancelsStay, Cancels
  <2> QED BY <1>0, <2>1, <2>2, <2>3, FilesGoOn
<1> QED BY <1>1, <1>2, <1>3, <1>4

LEMMA BornOnly ==
  ASSUME TypeOK, ClaimsRight, CardsRight, UnbornIsOff, Next
  PROVE  UnbornIsOff'
<1>1. ASSUME NEW j \in Job, Create(j) PROVE UnbornIsOff'
  <2>1. ClaimsOnlyEnd
    BY <1>1, ReadClaims
  <2>2. JobGoes(j, "queued") /\ TaskGoes(j, [at |-> "due", job |-> j])
    BY <1>1, CreateDoes
  <2>3. job'[j].status # "none"
    BY <2>2 DEF JobGoes
  <2> QED BY <2>1, <2>2, <2>3, OffGoesOn DEF ClaimsOnlyEnd, NoneEnters
<1>2. ASSUME NEW j \in Job, Read(j) \/ UnlinkFails(j) PROVE UnbornIsOff'
  <2>1. ClaimsOnlyEnd
    BY <1>2, ReadClaims
  <2>2. task' = task \/ ((\E k : TaskGoes(j, k)) /\ task[j].at # "off")
    <3>1. task' = task \/ \E k : TaskGoes(j, k)
      BY <1>2, StartDoes, WriteDoes, RefuseDoes, UnlinkDoes, ContinueDoes DEF Read, Beat
    <3>2. task[j].at # "off"
      BY <1>2 DEF Read, Start, Beat, Write, Refuse, Unlink, UnlinkFails, Unlinking, Continue
    <3> QED BY <3>1, <3>2
  <2> QED BY <2>1, <2>2, OffGoesOn DEF ClaimsOnlyEnd, NoneEnters
<1>3. ASSUME NEW t \in Job, Loop(t) \/ Die(t) \/ Resume(t) PROVE UnbornIsOff'
  <2>1. \A j \in Job : job'[j].status = "none" => job[j].status = "none"
    <3>1. CASE Claim(t)
      <4>1. job' = job \/ JobGoes(task[t].job, "proposing")
        BY <3>1, ClaimDoes
      <4> QED BY <4>1 DEF JobGoes
    <3>2. CASE ~Claim(t)
      BY <1>3, <3>2, LoopClaims DEF ClaimsOnlyEnd, NoneEnters
    <3> QED BY <3>1, <3>2
  <2>2. \E k : TaskGoes(t, k)
    BY <1>3, PickDoes, LocalDoes, ClaimDoes, AskDoes, ReplyDoes, ApplyDoes, LeaveDoes, TidyDoes,
       FinishDoes, ResumeDoes, DieDoes DEF Loop
  <2>3. task[t].at # "off" \/ job'[t].status # "none"
    <3>1. CASE Loop(t)
      BY <3>1 DEF Loop, Pick, Local, Claim, Ask, Reply, Apply, Leave, Tidy, Finish
    <3>2. CASE Die(t)
      <4>1. task[t] \in Task /\ task[t] # Off
        BY <3>2 DEF Die, TypeOK
      <4> QED BY <4>1 DEF Task, Off
    <3>3. CASE Resume(t)
      <4>1. job' = job /\ job[t] # None /\ job[t] \in JobRow
        BY <3>3 DEF Resume, TypeOK
      <4>2. job[t].status # "none"
        BY <4>1 DEF JobRow, None, Gone, Active, Slot, Finished
      <4> QED BY <4>1, <4>2
    <3> QED BY <1>3, <3>1, <3>2, <3>3
  <2> QED BY <2>1, <2>2, <2>3, OffGoesOn
<1>4. ASSUME NEW j \in Job, Age(j) \/ Recover(j) \/ Purge(j) \/ SweepUnlink(j) \/ SweepFails(j)
      PROVE  UnbornIsOff'
  <2>1. ClaimsOnlyEnd
    BY <1>4, TimeClaims
  <2>2. task' = task
    BY <1>4, SweepDoes DEF Age, Recover, Purge
  <2> QED BY <2>1, <2>2, OffGoesOn DEF ClaimsOnlyEnd, NoneEnters
<1>5. ASSUME NEW a \in Admin,
             \/ \E j \in Job : Cancel(a, j) \/ ApproveSeen(a, j)
             \/ \E c \in Card : MarkSeen(a, c) \/ Edit(a, c) \/ Reject(a, c) \/ Approve(a, c)
             \/ Commit(a) \/ ApproveNext(a) \/ AdminTidy(a) \/ AdminUnlink(a) \/ RequestDies(a)
      PROVE  UnbornIsOff'
  <2>1. ClaimsOnlyEnd
    BY <1>5, AdminClaims DEF CardsRight
  <2>2. task' = task
    BY <1>5 DEF Cancel, ApproveSeen, MarkSeen, Edit, Reject, Approve, Commit, ApproveNext,
                AdminTidy, AdminUnlink, RequestDies
  <2> QED BY <2>1, <2>2, OffGoesOn DEF ClaimsOnlyEnd, NoneEnters
<1> QED BY <1>1, <1>2, <1>3, <1>4, <1>5 DEF Next

-------------------------------------------------------------------------------
(* Somebody is about to end a job that has nothing left to review.           *)

Works(a, j) ==
  \/ admin[a].at \in {"tidy", "bulk"} /\ admin[a].job = j
  \/ Inserting(a) /\ admin[a].card[1] = j

Tidies(t, j) == task[t].at = "tidy" /\ task[t].job = j

Attends(j) == (\E t \in Job : Tidies(t, j)) \/ \E a \in Admin : Works(a, j)

LEMMA WorkIsAttended ==
  ReadyHasWork <=>
    \A j \in Job : job[j].status = "ready" /\ Pending(j) = {} /\ faults = 0 => Attends(j)
  BY DEF ReadyHasWork, Attends, Tidies, Works, Inserting

LEMMA WorkIsAttendedNext ==
  (\A j \in Job : job'[j].status = "ready" /\ Pending(j)' = {} /\ faults' = 0 => Attends(j)')
    => ReadyHasWork'
  BY DEF ReadyHasWork, Attends, Tidies, Works, Inserting

\* A job is ready because it was, or is attended now; its cards are left, or it is attended.
LEMMA WorkGoesOn ==
  ASSUME TypeOK, ReadyHasWork, faults' = 0 => faults = 0,
         \A c \in Card : Kept(c) \/ job'[c[1]].status # "ready" \/ Attends(c[1])',
         \A j \in Job : job'[j].status = "ready" => job[j].status = "ready" \/ Attends(j)',
         \A j \in Job : job'[j].status = "ready" /\ Pending(j) = {} /\ Attends(j) => Attends(j)'
  PROVE  ReadyHasWork'
<1> SUFFICES ASSUME NEW j \in Job, job'[j].status = "ready", Pending(j)' = {}, faults' = 0,
                    ~Attends(j)'
             PROVE  FALSE
  BY WorkIsAttendedNext
<1>1. job[j].status = "ready" /\ faults = 0
  OBVIOUS
<1>2. Pending(j) = {}
  <2> SUFFICES ASSUME NEW c \in Pending(j) PROVE FALSE
    OBVIOUS
  <2>1. c \in Card /\ c[1] = j /\ c \in CardsOf(j) /\ card[c].status = "pending"
    BY DEF Pending, CardsOf
  <2>2. card[c] # None
    BY <2>1, PendingIsCard
  <2>3. Kept(c)
    BY <2>1
  <2>4. card'[c].status = "pending"
    BY <2>1, <2>2, <2>3 DEF Kept
  <2> QED BY <2>1, <2>4 DEF Pending
<1>3. Attends(j)
  BY <1>1, <1>2, WorkIsAttended
<1> QED BY <1>2, <1>3

LEMMA AttendedStill ==
  ASSUME \A t \in Job : task[t].at = "tidy" => task'[t] = task[t], admin' = admin
  PROVE  \A j \in Job : Attends(j) => Attends(j)'
  BY DEF Attends, Tidies, Works, Inserting

LEMMA TidiersGoOn ==
  ASSUME NEW t \in Job, NEW k, TaskGoes(t, k), task[t].at # "tidy", admin' = admin
  PROVE  \A j \in Job : Attends(j) => Attends(j)'
<1>1. \A u \in Job : task[u].at = "tidy" => task'[u] = task[u]
  BY DEF TaskGoes
<1> QED BY <1>1, AttendedStill

LEMMA WorkersGoOn ==
  ASSUME NEW a \in Admin, NEW q, AdminGoes(a, q), task' = task,
         \A j \in Job : Works(a, j) => \/ q.at \in {"tidy", "bulk"} /\ q.job = j
                                       \/ q.at = "insert" /\ q.card[1] = j
  PROVE  \A j \in Job : Attends(j) => Attends(j)'
<1> SUFFICES ASSUME NEW j \in Job, Attends(j) PROVE Attends(j)'
  OBVIOUS
<1>1. ASSUME NEW t \in Job, Tidies(t, j) PROVE Attends(j)'
  BY <1>1 DEF Attends, Tidies
<1>2. ASSUME NEW b \in Admin, Works(b, j) PROVE Attends(j)'
  <2>1. CASE b = a
    <3>1. Works(a, j)'
      BY <1>2, <2>1 DEF Works, Inserting, AdminGoes
    <3> QED BY <3>1 DEF Attends
  <2>2. CASE b # a
    <3>1. Works(b, j)'
      BY <1>2, <2>2 DEF Works, Inserting, AdminGoes
    <3> QED BY <3>1 DEF Attends
  <2> QED BY <2>1, <2>2
<1> QED BY <1>1, <1>2 DEF Attends

\* The statuses of the jobs after a move to s.
LEMMA ReadyGoesOn ==
  ASSUME NEW j \in Job, NEW s, JobGoes(j, s), s # "ready"
  PROVE  \A i \in Job : job'[i].status = "ready" => job[i].status = "ready"
  BY DEF JobGoes

LEMMA ReadWork ==
  ASSUME TypeOK, UnbornIsOff, ReadyHasWork, NEW j \in Job, Create(j) \/ Read(j) \/ UnlinkFails(j)
  PROVE  ReadyHasWork'
<1>0. (faults' = 0 => faults = 0) /\ admin' = admin
  <2>1. CASE UnlinkFails(j)
    BY <2>1, UnlinkDoes DEF UnlinkFails
  <2>2. CASE Create(j) \/ Read(j)
    BY <2>2 DEF Create, Read, Start, Beat, Write, Refuse, Unlink, Continue, history
  <2> QED BY <2>1, <2>2
<1>1. \A i \in Job : Attends(i) => Attends(i)'
  <2>1. task' = task \/ ((\E k : TaskGoes(j, k)) /\ task[j].at # "tidy")
    <3>1. task' = task \/ \E k : TaskGoes(j, k)
      BY CreateDoes, StartDoes, WriteDoes, RefuseDoes, UnlinkDoes, ContinueDoes DEF Read, Beat
    <3>2. CASE Read(j) \/ UnlinkFails(j)
      <4>1. task[j].at # "tidy"
        BY <3>2 DEF Read, Start, Beat, Write, Refuse, Unlink, UnlinkFails, Unlinking, Continue
      <4> QED BY <3>1, <4>1
    <3>3. CASE Create(j)
      <4>1. job[j] = None
        BY <3>3 DEF Create
      <4>2. task[j].at = "off"
        BY <4>1 DEF UnbornIsOff, None
      <4> QED BY <3>1, <4>2
    <3> QED BY <3>2, <3>3
  <2> QED BY <1>0, <2>1, TidiersGoOn, AttendedStill
<1>2. CASE Continue(j)
  <2>1. \/ job' = job /\ card' = card
        \/ /\ TaskGoes(j, [at |-> "tidy", job |-> j, then |-> "off"])
           /\ JobGoes(j, "ready") /\ CardsLocal(j)
    BY <1>2, ContinueDoes
  <2>2. \A c \in Card : Kept(c)
    BY <2>1, KeptAll DEF CardsLocal
  <2>3. \A i \in Job : job'[i].status = "ready" => job[i].status = "ready" \/ Attends(i)'
    <3>1. CASE job' = job
      BY <3>1
    <3>2. CASE /\ TaskGoes(j, [at |-> "tidy", job |-> j, then |-> "off"])
               /\ JobGoes(j, "ready")
      <4>1. Tidies(j, j)'
        BY <3>2 DEF TaskGoes, Tidies
      <4>2. Attends(j)'
        BY <4>1 DEF Attends
      <4> QED BY <3>2, <4>2 DEF JobGoes
    <3> QED BY <2>1, <3>1, <3>2
  <2> QED BY <1>0, <1>1, <2>2, <2>3, WorkGoesOn
<1>3. CASE Write(j)
  <2>1. \/ job' = job /\ card' = card
        \/ JobGoes(j, "extracted") /\ \A c \in Card : c[1] # j => card'[c] = card[c]
    BY <1>3, WriteDoes
  <2>2. \A c \in Card : Kept(c) \/ job'[c[1]].status # "ready"
    <3>1. CASE card' = card
      BY <3>1, KeptAll
    <3>2. CASE JobGoes(j, "extracted") /\ \A c \in Card : c[1] # j => card'[c] = card[c]
      BY <3>2 DEF JobGoes, Kept, EditKept
    <3> QED BY <2>1, <3>1, <3>2
  <2>3. \A i \in Job : job'[i].status = "ready" => job[i].status = "ready"
    BY <2>1, ReadyGoesOn
  <2> QED BY <1>0, <1>1, <2>2, <2>3, WorkGoesOn
<1>4. CASE ~Continue(j) /\ ~Write(j)
  <2>1. card' = card
    BY <1>4 DEF Create, Read, Start, Beat, Refuse, Unlink, UnlinkFails
  <2>2. \A i \in Job : job'[i].status = "ready" => job[i].status = "ready"
    <3>1. \/ job' = job
          \/ StatusesKept
          \/ \E s \in {"queued", "extracting", "failed"} : JobGoes(j, s)
      BY <1>4, CreateDoes, StartDoes, BeatDoes, RefuseDoes DEF Read, Unlink, UnlinkFails
    <3> QED BY <3>1, ReadyGoesOn DEF StatusesKept
  <2> QED BY <1>0, <1>1, <2>1, <2>2, KeptAll, WorkGoesOn
<1> QED BY <1>2, <1>3, <1>4

\* A job that leaves the model stage for the reviewer is tidied up by the task it leaves.
LEMMA LeavesForReview ==
  ASSUME TypeOK, ReadyHasWork, NEW t \in Job, task[t].at # "tidy", admin' = admin, faults' = faults,
         NEW j \in Job, NEW then, TaskGoes(t, [at |-> "tidy", job |-> j, then |-> then]),
         (job' = job /\ card' = card) \/ (JobGoes(j, "ready") /\ CardsLocal(j))
  PROVE  ReadyHasWork'
<1>1. \A i \in Job : Attends(i) => Attends(i)'
  BY TidiersGoOn
<1>2. \A c \in Card : Kept(c)
  BY KeptAll DEF CardsLocal
<1>3. Attends(j)'
  <2>1. Tidies(t, j)'
    BY DEF TaskGoes, Tidies
  <2> QED BY <2>1 DEF Attends
<1>4. \A i \in Job : job'[i].status = "ready" => job[i].status = "ready" \/ Attends(i)'
  BY <1>3 DEF JobGoes
<1> QED BY <1>1, <1>2, <1>4, WorkGoesOn

LEMMA TidyWork ==
  ASSUME TypeOK, ReadyHasWork, NEW t \in Job, Tidy(t) PROVE ReadyHasWork'
<1>0. faults' = faults /\ admin' = admin /\ card' = card
  BY DEF Tidy, history
<1>1. PICK j \in Job : \E k :
        /\ task[t].job = j /\ TaskGoes(t, k)
        /\ \/ job' = job /\ (job[j].status # "ready" \/ Pending(j) # {})
           \/ JobGoes(j, "done")
  BY TidyDoes
<1>2. PICK k :
        /\ task[t].job = j /\ TaskGoes(t, k)
        /\ \/ job' = job /\ (job[j].status # "ready" \/ Pending(j) # {})
           \/ JobGoes(j, "done")
  BY <1>1
<1>3. \A i \in Job : job'[i].status = "ready" => job[i].status = "ready"
  BY <1>2, ReadyGoesOn
<1>4. ASSUME NEW i \in Job, job'[i].status = "ready", Pending(i) = {}, Attends(i)
      PROVE  Attends(i)'
  <2>1. i # j
    BY <1>2, <1>4 DEF JobGoes
  <2>2. ASSUME NEW u \in Job, Tidies(u, i) PROVE Tidies(u, i)'
    BY <1>2, <2>1, <2>2 DEF Tidies, TaskGoes
  <2> QED BY <1>0, <1>4, <2>2 DEF Attends, Works, Inserting
<1> QED BY <1>0, <1>3, <1>4, KeptAll, WorkGoesOn

LEMMA LoopWork ==
  ASSUME TypeOK, ReadyHasWork, NEW t \in Job, Loop(t) \/ Die(t) \/ Resume(t)
  PROVE  ReadyHasWork'
<1>1. CASE Die(t)
  BY <1>1, DieDoes, WorkIsAttendedNext
<1>2. CASE Tidy(t)
  BY <1>2, TidyWork
<1>3. CASE Loop(t) \/ Resume(t)
  <2>0. faults' = faults /\ admin' = admin
    BY <1>3 DEF Loop, Pick, Local, Claim, Ask, Reply, Apply, Leave, Tidy, Finish, Resume, history
  <2>1. CASE Local(t)
    <3>1. PICK j \in Job :
            /\ TaskGoes(t, [at |-> "tidy", job |-> j, then |-> "pick"])
            /\ (job' = job /\ card' = card) \/ (JobGoes(j, "ready") /\ CardsLocal(j))
      BY <2>1, LocalDoes
    <3>2. task[t].at # "tidy"
      BY <2>1 DEF Local
    <3> QED BY <2>0, <3>1, <3>2, LeavesForReview
  <2>2. CASE Leave(t)
    <3>1. PICK j \in Job :
            /\ TaskGoes(t, [at |-> "tidy", job |-> j, then |-> "finish"])
            /\ (job' = job /\ card' = card) \/ (JobGoes(j, "ready") /\ CardsLocal(j))
      BY <2>2, LeaveDoes
    <3>2. task[t].at # "tidy"
      BY <2>2 DEF Leave
    <3> QED BY <2>0, <3>1, <3>2, LeavesForReview
  <2>3. CASE Pick(t) \/ Claim(t) \/ Ask(t) \/ Reply(t) \/ Apply(t) \/ Finish(t) \/ Resume(t)
    <3>1. task[t].at # "tidy"
      BY <2>3 DEF Pick, Claim, Ask, Reply, Apply, Finish, Resume, Off
    <3>2. \E k : TaskGoes(t, k)
      BY <2>3, PickDoes, ClaimDoes, AskDoes, ReplyDoes, ApplyDoes, FinishDoes, ResumeDoes
    <3>3. \A i \in Job : Attends(i) => Attends(i)'
      BY <2>0, <3>1, <3>2, TidiersGoOn
    <3>4. \A c \in Card : Kept(c)
      <4>1. card' = card \/ (\E j \in Job : CardsLocal(j)) \/ \A c \in Card : Kept(c)
        BY <2>3, ApplyDoes, FinishDoes DEF Pick, Claim, Ask, Reply, Resume
      <4> QED BY <4>1, KeptAll DEF CardsLocal
    <3>5. \A i \in Job : job'[i].status = "ready" => job[i].status = "ready"
      <4>1. \/ job' = job
            \/ StatusesKept
            \/ \E j \in Job : \E s \in {"proposing", "cancelled"} : JobGoes(j, s)
        <5>1. CASE Claim(t)
          BY <5>1, ClaimDoes
        <5>2. CASE Finish(t)
          BY <5>2, FinishDoes
        <5> QED BY <2>3, <5>1, <5>2, ApplyDoes DEF Pick, Ask, Reply, Resume
      <4> QED BY <4>1, ReadyGoesOn DEF StatusesKept
    <3> QED BY <2>0, <3>3, <3>4, <3>5, WorkGoesOn
  <2> QED BY <1>2, <1>3, <2>1, <2>2, <2>3 DEF Loop
<1> QED BY <1>1, <1>3

LEMMA TimeWork ==
  ASSUME TypeOK, ReadyHasWork, NEW j \in Job,
         Age(j) \/ Recover(j) \/ Purge(j) \/ SweepUnlink(j) \/ SweepFails(j)
  PROVE  ReadyHasWork'
<1>0. task' = task /\ admin' = admin
  BY SweepDoes DEF Age, Recover, Purge
<1>1. \A i \in Job : Attends(i) => Attends(i)'
  BY <1>0, AttendedStill
<1>2. faults' = 0 => faults = 0
  BY AgeDoes, SweepDoes DEF Recover, Purge, history
<1>3. CASE Age(j)
  <2>1. StatusesKept /\ card' = card
    BY <1>3, AgeDoes DEF Age
  <2> QED BY <1>1, <1>2, <2>1, KeptAll, WorkGoesOn DEF StatusesKept
<1>4. CASE Recover(j)
  <2>1. PICK s : JobGoes(j, s) /\ s # "ready" /\ CardsLocal(j)
    BY <1>4, RecoverDoes
  <2>2. \A i \in Job : job'[i].status = "ready" => job[i].status = "ready"
    BY <2>1, ReadyGoesOn
  <2> QED BY <1>1, <1>2, <2>1, <2>2, WorkGoesOn DEF CardsLocal
<1>5. CASE Purge(j)
  <2>1. JobGoes(j, "gone") /\ \A c \in Card : c[1] # j => card'[c] = card[c]
    BY <1>5, PurgeDoes
  <2>2. \A i \in Job : job'[i].status = "ready" => job[i].status = "ready"
    BY <2>1, ReadyGoesOn
  <2>3. \A c \in Card : Kept(c) \/ job'[c[1]].status # "ready"
    BY <2>1 DEF JobGoes, Kept, EditKept
  <2> QED BY <1>1, <1>2, <2>2, <2>3, WorkGoesOn
<1>6. CASE SweepUnlink(j) \/ SweepFails(j)
  BY <1>1, <1>2, <1>6, SweepDoes, KeptAll, WorkGoesOn
<1> QED BY <1>3, <1>4, <1>5, <1>6

\* The reviewer who takes the last card of a job away is on the way to tidy up.
LEMMA ReviewWork ==
  ASSUME TypeOK, ReadyHasWork, NEW a \in Admin, NEW c \in Card, NEW r, CardGoes(c, r),
         NEW q, AdminGoes(a, q), Works(a, c[1])',
         \A j \in Job : Works(a, j) => \/ q.at \in {"tidy", "bulk"} /\ q.job = j
                                       \/ q.at = "insert" /\ q.card[1] = j,
         task' = task, job' = job, faults' = faults
  PROVE  ReadyHasWork'
<1>1. \A j \in Job : Attends(j) => Attends(j)'
  BY WorkersGoOn
<1>2. Attends(c[1])'
  BY DEF Attends
<1>3. \A d \in Card : Kept(d) \/ d = c
  BY DEF CardGoes, Kept, EditKept
<1> QED BY <1>1, <1>2, <1>3, WorkGoesOn

LEMMA AdminWork ==
  ASSUME TypeOK, CardsRight, ReadyHasWork, NEW a \in Admin,
         \/ \E j \in Job : Cancel(a, j) \/ ApproveSeen(a, j)
         \/ \E c \in Card : MarkSeen(a, c) \/ Edit(a, c) \/ Reject(a, c) \/ Approve(a, c)
         \/ Commit(a) \/ ApproveNext(a) \/ AdminTidy(a) \/ AdminUnlink(a) \/ RequestDies(a)
  PROVE  ReadyHasWork'
<1>0. admin[a] = Idle => \A j \in Job : ~Works(a, j)
  BY DEF Idle, Works, Inserting
<1>1. ASSUME NEW j \in Job, Cancel(a, j) PROVE ReadyHasWork'
  <2>1. faults' = faults /\ task' = task
    BY <1>1 DEF Cancel, history
  <2>2. PICK s \in {"cancelling", "cancelled"} : JobGoes(j, s)
    BY <1>1, CancelDoes
  <2>3. \A c \in Card : c[1] # j => card'[c] = card[c]
    BY <1>1, CancelDoes
  <2>4. \A c \in Card : Kept(c) \/ job'[c[1]].status # "ready"
    BY <2>2, <2>3 DEF JobGoes, Kept, EditKept
  <2>5. \A i \in Job : job'[i].status = "ready" => job[i].status = "ready"
    BY <2>2, ReadyGoesOn
  <2>6. \A i \in Job : Attends(i) => Attends(i)'
    BY <1>0, <1>1, <2>1, CancelDoes, AttendedStill, WorkersGoOn
  <2> QED BY <2>1, <2>4, <2>5, <2>6, WorkGoesOn
<1>2. ASSUME NEW j \in Job, ApproveSeen(a, j) PROVE ReadyHasWork'
  <2>1. faults' = faults /\ task' = task /\ job' = job /\ card' = card
    BY <1>2 DEF ApproveSeen, history
  <2>2. \A i \in Job : Attends(i) => Attends(i)'
    BY <1>0, <1>2, <2>1, ApproveSeenDoes, WorkersGoOn
  <2> QED BY <2>1, <2>2, KeptAll, WorkGoesOn
<1>3. ASSUME NEW c \in Card, MarkSeen(a, c) PROVE ReadyHasWork'
  <2>1. faults' = faults /\ task' = task /\ job' = job /\ admin' = admin
    BY <1>3 DEF MarkSeen
  <2>2. \A d \in Card : Kept(d)
    BY <1>3, MarkSeenDoes
  <2> QED BY <2>1, <2>2, AttendedStill, WorkGoesOn
<1>4. ASSUME NEW c \in Card, Edit(a, c) PROVE ReadyHasWork'
  <2>1. faults' = faults /\ task' = task /\ job' = job /\ admin' = admin
    BY <1>4 DEF Edit
  <2>2. PICK r : CardGoes(c, r) /\ r.status = "pending"
    BY <1>4, EditDoes
  <2>3. \A i \in Job : Attends(i) => Attends(i)'
    BY <2>1, AttendedStill
  <2> SUFFICES ASSUME NEW j \in Job, job[j].status = "ready", Pending(j)' = {}, faults = 0
               PROVE  Attends(j)'
    BY <2>1, WorkIsAttendedNext
  <2>4. Pending(j) = {}
    <3> SUFFICES ASSUME NEW d \in Pending(j) PROVE FALSE
      OBVIOUS
    <3>1. d \in CardsOf(j) /\ d \in Card /\ card'[d].status = "pending"
      BY <2>2 DEF Pending, CardsOf, CardGoes
    <3> QED BY <3>1 DEF Pending
  <2> QED BY <2>3, <2>4, WorkIsAttended
<1>5. ASSUME NEW c \in Card, Reject(a, c) PROVE ReadyHasWork'
  <2>1. faults' = faults /\ task' = task /\ job' = job
    BY <1>5 DEF Reject
  <2>2. PICK r : CardGoes(c, r)
    BY <1>5, RejectDoes
  <2>3. PICK q : AdminGoes(a, q) /\ q.at = "tidy" /\ q.job = c[1] /\ admin[a] = Idle
    <3>1. PICK q : AdminGoes(a, q) /\ q = [at |-> "tidy", job |-> c[1]] /\ admin[a] = Idle
      BY <1>5, RejectDoes
    <3> QED BY <3>1
  <2>4. Works(a, c[1])'
    BY <2>3 DEF AdminGoes, Works
  <2> QED BY <1>0, <2>1, <2>2, <2>3, <2>4, ReviewWork
<1>6. ASSUME NEW c \in Card, Approve(a, c) PROVE ReadyHasWork'
  <2>1. faults' = faults /\ task' = task /\ job' = job /\ admin[a] = Idle
    BY <1>6, ApproveDoes DEF Approve
  <2>2. \A d \in Card : Kept(d)
    BY <1>6, ApproveDoes, KeptAll DEF Publishes
  <2>3. \E q : AdminGoes(a, q)
    BY <1>6, ApproveDoes
  <2>4. \A i \in Job : Attends(i) => Attends(i)'
    BY <1>0, <2>1, <2>3, WorkersGoOn
  <2> QED BY <2>1, <2>2, <2>4, WorkGoesOn
<1>7. ASSUME Commit(a) PROVE ReadyHasWork'
  <2>1. faults' = faults /\ task' = task /\ job' = job
    BY <1>7 DEF Commit, history
  <2>2. PICK c \in Card : Inserting(a) /\ admin[a].card = c /\ card[c] # None /\ live[c] = 0
    BY <1>7, InsertNames DEF Commit, Inserting, CardsRight, InsertHolds, LiveIffApproved
  <2>3. PICK r : CardGoes(c, r)
    BY <1>7, <2>2, CommitDoes
  <2>4. PICK q : AdminGoes(a, q) /\ q.at \in {"tidy", "bulk"} /\ q.job = c[1]
    <3>1. PICK q : /\ AdminGoes(a, q)
                   /\ \/ q = [at |-> "bulk", job |-> c[1], rest |-> admin[a].rest]
                      \/ q = [at |-> "tidy", job |-> c[1]]
      BY <1>7, <2>2, CommitDoes
    <3> QED BY <3>1
  <2>5. Works(a, c[1])'
    BY <2>4 DEF AdminGoes, Works
  <2>6. \A j \in Job : Works(a, j) => q.at \in {"tidy", "bulk"} /\ q.job = j
    BY <2>2, <2>4 DEF Works, Inserting
  <2> QED BY <2>1, <2>3, <2>4, <2>5, <2>6, ReviewWork
<1>8. ASSUME ApproveNext(a) PROVE ReadyHasWork'
  <2>0. BulkOfOneJob
    BY DEF CardsRight
  <2>1. faults' = faults /\ task' = task /\ job' = job
    BY <1>8 DEF ApproveNext
  <2>2. PICK j \in Job : j = admin[a].job /\ admin[a].at = "bulk"
    BY <1>8, <2>0, ApproveNextDoes
  <2>3. \A d \in Card : Kept(d)
    BY <1>8, <2>0, ApproveNextDoes, KeptAll DEF Publishes
  <2>4. PICK q : /\ AdminGoes(a, q)
                 /\ \/ q.at \in {"tidy", "bulk"} /\ q.job = j
                    \/ q.at = "insert" /\ q.card[1] = j
    <3>1. \/ AdminGoes(a, [at |-> "tidy", job |-> j])
          \/ \E c \in CardsOf(j) : \E rest \in SUBSET CardsOf(j) :
               \/ AdminGoes(a, [at |-> "insert", card |-> c, rest |-> rest, bulk |-> TRUE])
               \/ AdminGoes(a, [at |-> "bulk", job |-> j, rest |-> rest])
      BY <1>8, <2>0, <2>2, ApproveNextDoes
    <3>2. \E q : /\ AdminGoes(a, q)
                 /\ \/ q = [at |-> "tidy", job |-> j]
                    \/ \E c \in CardsOf(j) : \E rest \in SUBSET CardsOf(j) :
                         \/ q = [at |-> "insert", card |-> c, rest |-> rest, bulk |-> TRUE]
                         \/ q = [at |-> "bulk", job |-> j, rest |-> rest]
      BY <3>1
    <3>3. \A c \in CardsOf(j) : c[1] = j
      BY DEF CardsOf
    <3> QED BY <3>2, <3>3
  <2>5. \A i \in Job : Works(a, i) => i = j
    BY <2>2 DEF Works, Inserting
  <2>6. \A i \in Job : Attends(i) => Attends(i)'
    BY <2>1, <2>4, <2>5, WorkersGoOn
  <2> QED BY <2>1, <2>3, <2>6, WorkGoesOn
<1>9. ASSUME AdminTidy(a) PROVE ReadyHasWork'
  <2>0. faults' = faults /\ task' = task /\ card' = card
    BY <1>9 DEF AdminTidy, history
  <2>1. PICK j \in Job :
          /\ admin[a].at = "tidy" /\ admin[a].job = j /\ AdminGoes(a, Idle)
          /\ \/ job' = job /\ (job[j].status # "ready" \/ Pending(j) # {})
             \/ JobGoes(j, "done")
    BY <1>9, AdminTidyDoes
  <2>2. \A i \in Job : job'[i].status = "ready" => job[i].status = "ready"
    BY <2>1, ReadyGoesOn
  <2>3. ASSUME NEW i \in Job, job'[i].status = "ready", Pending(i) = {}, Attends(i)
        PROVE  Attends(i)'
    <3>1. i # j
      BY <2>1, <2>3 DEF JobGoes
    <3>2. ASSUME NEW b \in Admin, Works(b, i) PROVE Works(b, i)'
      BY <2>1, <3>1, <3>2 DEF Works, Inserting, AdminGoes
    <3> QED BY <2>0, <2>3, <3>2 DEF Attends, Tidies
  <2> QED BY <2>0, <2>2, <2>3, KeptAll, WorkGoesOn
<1>10. ASSUME RequestDies(a) PROVE ReadyHasWork'
  BY <1>10, RequestDiesDoes, WorkIsAttendedNext
<1>11. ASSUME AdminUnlink(a) PROVE ReadyHasWork'
  <2>1. faults' = faults /\ task' = task /\ job' = job /\ card' = card
    BY <1>11 DEF AdminUnlink, history
  <2>2. \A i \in Job : ~Works(a, i)
    BY <1>11 DEF AdminUnlink, Works, Inserting
  <2>3. \A i \in Job : Attends(i) => Attends(i)'
    BY <1>11, <2>1, <2>2, AdminUnlinkDoes, WorkersGoOn
  <2> QED BY <2>1, <2>3, KeptAll, WorkGoesOn
<1> QED BY <1>1, <1>2, <1>3, <1>4, <1>5, <1>6, <1>7, <1>8, <1>9, <1>10, <1>11

-------------------------------------------------------------------------------
(* The inductive invariant, and what follows from it.                        *)

LEMMA InitHolds == Init => IInv
<1> SUFFICES ASSUME Init PROVE IInv
  OBVIOUS
<1> USE DEF Init
<1>1. TypeOK
  BY IngestAssumption, TaskForms, RequestForms DEF TypeOK, JobRow, CardRow, Todo, Task, Request
<1>2. /\ \A j \in Job : job[j].status = "none" /\ task[j].at = "off"
      /\ \A c \in Card : card[c] = None /\ card[c].status = "none" /\ live[c] = 0
      /\ \A a \in Admin : admin[a].at = "idle"
  BY DEF None, Off, Idle
<1>3. ClaimsRight /\ UnbornIsOff
  BY <1>2 DEF ClaimsRight, HoldersClaimed, ClaimedOnce, InsideHasSlot, OneSlot, UnbornIsOff, Holds,
              Inside, Slot
<1>4. UnreadHasNoCard /\ LiveIffApproved /\ InsertHolds /\ BulkOfOneJob
  BY <1>2 DEF UnreadHasNoCard, LiveIffApproved, InsertHolds, BulkOfOneJob, Inserting
<1>5. CancelledHasNoPending /\ NothingWaitsForNobody /\ RacesKnown /\ OneRowPerTextUnlessRaced
  BY <1>2 DEF CancelledHasNoPending, NothingWaitsForNobody, RacesKnown, OneRowPerTextUnlessRaced,
              Pending, CardsOf, Inserting
<1>6. FileIsFollowed /\ ReadyHasWork
  BY <1>2 DEF FileIsFollowed, ReadyHasWork
<1> QED BY <1>1, <1>3, <1>4, <1>5, <1>6 DEF IInv, CardsRight

LEMMA NextIsTyped ==
  ASSUME TypeOK, CardsRight, Next PROVE TypeOK'
<1>1. ASSUME NEW j \in Job,
             \/ Create(j) \/ Read(j) \/ UnlinkFails(j) \/ Age(j) \/ Recover(j) \/ Purge(j)
             \/ SweepUnlink(j) \/ SweepFails(j)
      PROVE  TypeOK'
  BY <1>1, CreateDoes, StartDoes, BeatDoes, WriteDoes, RefuseDoes, UnlinkDoes, ContinueDoes, AgeDoes,
     RecoverDoes, PurgeDoes, SweepDoes DEF Read
<1>2. ASSUME NEW t \in Job, Loop(t) \/ Die(t) \/ Resume(t)
      PROVE  TypeOK'
  BY <1>2, PickDoes, LocalDoes, ClaimDoes, AskDoes, ReplyDoes, ApplyDoes, LeaveDoes, TidyDoes,
     FinishDoes, DieDoes, ResumeDoes DEF Loop
<1>3. ASSUME NEW a \in Admin, Commit(a) PROVE TypeOK'
  <2>1. card[admin[a].card] # None /\ live[admin[a].card] = 0
    BY <1>3, InsertNames DEF Commit, Inserting, CardsRight, InsertHolds, LiveIffApproved
  <2> QED BY <1>3, <2>1, CommitDoes
<1>4. ASSUME NEW a \in Admin,
             \/ \E j \in Job : Cancel(a, j) \/ ApproveSeen(a, j)
             \/ \E c \in Card : MarkSeen(a, c) \/ Edit(a, c) \/ Reject(a, c) \/ Approve(a, c)
             \/ ApproveNext(a) \/ AdminTidy(a) \/ AdminUnlink(a) \/ RequestDies(a)
      PROVE  TypeOK'
  <2>1. BulkOfOneJob
    BY DEF CardsRight
  <2> QED BY <1>4, <2>1, CancelDoes, ApproveSeenDoes, MarkSeenDoes, EditDoes, RejectDoes, ApproveDoes,
             ApproveNextDoes, AdminTidyDoes, AdminUnlinkDoes, RequestDiesDoes
<1> QED BY <1>1, <1>2, <1>3, <1>4 DEF Next

LEMMA StutterKeeps ==
  ASSUME IInv, UNCHANGED vars PROVE IInv'
<1> USE DEF vars
<1>1. TypeOK'
  BY DEF IInv, TypeOK
<1>2. ClaimsRight' /\ UnbornIsOff'
  BY DEF IInv, ClaimsRight, HoldersClaimed, ClaimedOnce, InsideHasSlot, OneSlot, UnbornIsOff, Holds,
         Inside
<1>3. UnreadHasNoCard' /\ LiveIffApproved' /\ InsertHolds' /\ BulkOfOneJob'
  BY DEF IInv, CardsRight, UnreadHasNoCard, LiveIffApproved, InsertHolds, BulkOfOneJob, Inserting
<1>4. CancelledHasNoPending' /\ NothingWaitsForNobody' /\ RacesKnown' /\ OneRowPerTextUnlessRaced'
  BY DEF IInv, CardsRight, CancelledHasNoPending, NothingWaitsForNobody, RacesKnown,
         OneRowPerTextUnlessRaced, Pending, Waiting, Inserting, TextLive
<1>5. FileIsFollowed' /\ ReadyHasWork'
  BY DEF IInv, FileIsFollowed, Unread, ReadyHasWork, Pending
<1> QED BY <1>1, <1>2, <1>3, <1>4, <1>5 DEF IInv, CardsRight

LEMMA NextKeeps ==
  ASSUME IInv, Next PROVE IInv' /\ \A c \in Card : EditKept(c)
<1>0. TypeOK /\ ClaimsRight /\ UnbornIsOff /\ CardsRight /\ FileIsFollowed /\ ReadyHasWork
  BY DEF IInv
<1>1. TypeOK' /\ UnbornIsOff'
  BY <1>0, NextIsTyped, BornOnly
<1>2. ASSUME NEW j \in Job, Create(j) \/ Read(j) \/ UnlinkFails(j)
      PROVE  IInv' /\ \A c \in Card : EditKept(c)
  <2>1. ClaimsRight'
    BY <1>0, <1>2, ReadClaims, ClaimsEnd
  <2>2. CardsRight' /\ \A c \in Card : EditKept(c)
    BY <1>0, <1>2, ReadCards
  <2>3. FileIsFollowed' /\ ReadyHasWork'
    BY <1>0, <1>2, ReadFiles, ReadWork
  <2> QED BY <1>1, <2>1, <2>2, <2>3 DEF IInv
<1>3. ASSUME NEW t \in Job, Loop(t) \/ Die(t) \/ Resume(t)
      PROVE  IInv' /\ \A c \in Card : EditKept(c)
  <2>1. ClaimsRight'
    <3>1. CASE Claim(t)
      BY <1>0, <3>1, ClaimClaims
    <3>2. CASE ~Claim(t)
      BY <1>0, <1>3, <3>2, LoopClaims, ClaimsEnd
    <3> QED BY <3>1, <3>2
  <2>2. CardsRight' /\ \A c \in Card : EditKept(c)
    BY <1>0, <1>3, LoopCards
  <2>3. FileIsFollowed' /\ ReadyHasWork'
    BY <1>0, <1>3, LoopFiles, LoopWork
  <2> QED BY <1>1, <2>1, <2>2, <2>3 DEF IInv
<1>4. ASSUME NEW j \in Job, Age(j) \/ Recover(j) \/ Purge(j) \/ SweepUnlink(j) \/ SweepFails(j)
      PROVE  IInv' /\ \A c \in Card : EditKept(c)
  <2>1. ClaimsRight'
    BY <1>0, <1>4, TimeClaims, ClaimsEnd
  <2>2. CardsRight' /\ \A c \in Card : EditKept(c)
    BY <1>0, <1>4, TimeCards
  <2>3. FileIsFollowed' /\ ReadyHasWork'
    BY <1>0, <1>4, TimeFiles, TimeWork
  <2> QED BY <1>1, <2>1, <2>2, <2>3 DEF IInv
<1>5. ASSUME NEW a \in Admin,
             \/ \E j \in Job : Cancel(a, j) \/ ApproveSeen(a, j)
             \/ \E c \in Card : MarkSeen(a, c) \/ Edit(a, c) \/ Reject(a, c) \/ Approve(a, c)
             \/ Commit(a) \/ ApproveNext(a) \/ AdminTidy(a) \/ AdminUnlink(a) \/ RequestDies(a)
      PROVE  IInv' /\ \A c \in Card : EditKept(c)
  <2>0. BulkOfOneJob
    BY <1>0 DEF CardsRight
  <2>1. ClaimsRight'
    BY <1>0, <1>5, <2>0, AdminClaims, ClaimsEnd
  <2>2. CardsRight' /\ \A c \in Card : EditKept(c)
    BY <1>0, <1>5, AdminCards
  <2>3. FileIsFollowed' /\ ReadyHasWork'
    BY <1>0, <1>5, AdminFiles, AdminWork
  <2> QED BY <1>1, <2>1, <2>2, <2>3 DEF IInv
<1> QED BY <1>2, <1>3, <1>4, <1>5 DEF Next

LEMMA AlwaysHolds == Spec => []IInv
<1>1. IInv /\ [Next]_vars => IInv'
  BY NextKeeps, StutterKeeps
<1> QED BY InitHolds, <1>1, PTL DEF Spec

\* Every row, task and request has its type: no card goes live twice, and a cursor never
\* leaves the cards of its job.
THEOREM TypeCorrect == Spec => []TypeOK
<1>1. IInv => TypeOK
  BY DEF IInv
<1> QED BY <1>1, AlwaysHolds, PTL

\* "One job talks to the model at a time", whoever crashes, resumes or cancels: only
\* recover_stale(), which ends a job under a task that is merely late, lets two in.
THEOREM OneCallAtATime == Spec => []OneCallUnlessSwept
<1>1. IInv => OneCallUnlessSwept
  <2> SUFFICES ASSUME IInv, NEW t \in Job, NEW u \in Job, t # u,
                      task[t].at = "call", task[u].at = "call"
               PROVE  {task[t].job, task[u].job} \cap swept # {}
    BY DEF OneCallUnlessSwept
  <2>1. Inside(t) /\ Inside(u) /\ Holds(t) /\ Holds(u)
    BY DEF Inside, Holds
  <2>2. task[t].job \in Job /\ task[u].job \in Job
    BY <2>1, HoldersName DEF IInv
  <2>3. task[t].job # task[u].job
    BY <2>1 DEF IInv, ClaimsRight, ClaimedOnce
  <2>4. task[t].job \in swept \/ task[u].job \in swept
    BY <2>1, <2>2, <2>3 DEF IInv, ClaimsRight, InsideHasSlot, OneSlot
  <2> QED BY <2>4
<1> QED BY <1>1, AlwaysHolds, PTL

\* A job's status, its cards, its document and what is live of it agree, through every
\* crash, cancel, sweep and race of two approvals.
THEOREM JobsAlwaysAgree == Spec => []JobsAgree
<1>1. IInv => JobsAgree
  BY DEF IInv, CardsRight, JobsAgree
<1> QED BY <1>1, AlwaysHolds, PTL

\* "The edit wins": _apply() never writes over a card that an administrator has edited,
\* approved or rejected, however late the answer is.
THEOREM EditAlwaysWins == Spec => EditWins
<1>1. IInv /\ [Next]_vars =>
        [\A c \in Card : card[c] # None /\ card'[c] # None
           /\ (card[c].edited \/ card[c].status # "pending") => card'[c].model = card[c].model]_vars
  BY NextKeeps DEF EditKept
<1> QED BY <1>1, AlwaysHolds, PTL DEF Spec, EditWins

===============================================================================
