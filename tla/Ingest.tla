------------------------------- MODULE Ingest -------------------------------
(***************************************************************************)
(* Knowledge ingestion (app/services/ingest.py): a job reads a document    *)
(* into cards, the model is asked about each card, and administrators      *)
(* review the cards into the dataset.                                      *)
(*                                                                         *)
(* Every move of a job is an UPDATE that names the status it leaves, and   *)
(* two unique indexes stand for the locks: one active job per document and *)
(* one job in the model stage.  The background half of an upload and the   *)
(* loops that a visit of the list page resumes are tasks of any worker;    *)
(* each statement they commit is an action, and so is each request of an   *)
(* administrator, but for two: an approval claims and looks for duplicates *)
(* before it commits, and a cancel removes the document after it has, as   *)
(* does the sweep of a stale job.                                          *)
(***************************************************************************)
EXTENDS Naturals, FiniteSets, FiniteSetsExt

CONSTANTS Jobs,        \* how many jobs there may be; a job is named by its age
          Chunks,      \* Chunks[j]: how many cards the document of job j gives
          Admin,       \* handlers of the administrators' requests
          MaxReview,   \* bound on the cards opened, edited and rejected
          MaxFault     \* bound on deaths, late heartbeats and documents that the task or the
                       \* cancel cannot remove

Job == 1..Jobs

ASSUME IngestAssumption ==
  /\ {Jobs, MaxReview, MaxFault} \subseteq Nat
  /\ Chunks \in [Job -> Nat \ {0}]

VARIABLES job,     \* job[j]: the ingest_jobs row
          card,    \* card[c]: the ingest_proposals row
          live,    \* live[c]: how many dataset rows c has become
          file,    \* file[j]: the document is on the disk
          task,    \* task[t]: where a background task is: there are as many as jobs, one
                    \* per upload, and a visit of the list page starts one that is off
          admin,   \* admin[a]: what an administrator's request is in the middle of
          sweeping, \* the jobs whose document recover_stale() is about to remove
          reviews, \* how many cards were opened, edited or rejected
          faults,  \* how many faults there have been
          swept,   \* history: the jobs that recover_stale() ended under a live task
          orphaned, \* history: the jobs whose document was not removed when they were moved
          raced    \* history: the texts that two approvals checked at once

vars == <<job, card, live, file, task, admin, sweeping, reviews, faults, swept, orphaned, raced>>

Card == {c \in Job \X (1..Max({Chunks[j] : j \in Job})) : c[2] <= Chunks[c[1]]}
CardsOf(j) == {c \in Card : c[1] = j}

\* Two documents may hold the same paragraph: the text of a card is its number, until
\* an administrator types another.
Text == {c[2] : c \in Card} \cup {0}

None == [status |-> "none"]
Gone == [status |-> "gone"]

Slot == {"proposing", "cancelling"}
Cancellable == {"queued", "extracting", "extracted", "proposing"}
SweepableRunning == {"queued", "extracting", "proposing"}    \* a job being cancelled is forgotten
Sweepable == {"queued", "extracting"} \cup Slot
Finished == {"done", "failed", "cancelled"}
Active == {"queued", "extracting", "extracted", "ready"} \cup Slot

JobRow == {None, Gone} \cup [status: Active \cup Finished, hash: Job, fresh: BOOLEAN]

Over == {"done", "failed", "local"}    \* REVIEWABLE_AI

\* model: the title and questions are the model's; saw: what the card held when
\* somebody first looked at it.
CardRow == {None} \cup
  [status: {"pending", "approved", "rejected"}, ai: {"waiting"} \cup Over, text: Text,
   model: BOOLEAN, edited: BOOLEAN, label: BOOLEAN, saw: {"nothing", "local", "model"}]

Off == [at |-> "off"]
Todo == SUBSET Card
Task == {Off, [at |-> "pick"]}
        \cup [at: {"due", "reading", "wrote", "refused", "next", "claim", "local", "leave",
                   "finish"}, job: Job]
        \cup [at: {"tidy"}, job: Job, then: {"off", "pick", "finish"}]
        \cup [at: {"chunk", "call"}, job: Job, todo: Todo]
        \cup [at: {"apply"}, job: Job, todo: Todo, good: BOOLEAN]

Idle == [at |-> "idle"]
Request == {Idle}
           \cup [at: {"insert"}, card: Card, rest: Todo, bulk: BOOLEAN]
           \cup [at: {"bulk"}, job: Job, rest: Todo]
           \cup [at: {"unlink", "tidy"}, job: Job]

TypeOK ==
  /\ job \in [Job -> JobRow]
  /\ card \in [Card -> CardRow]
  /\ live \in [Card -> 0..1]
  /\ file \in [Job -> BOOLEAN]
  /\ task \in [Job -> Task]
  /\ admin \in [Admin -> Request]
  /\ sweeping \subseteq Job
  /\ reviews \in 0..MaxReview
  /\ faults \in 0..MaxFault
  /\ swept \subseteq Job
  /\ orphaned \subseteq Job
  /\ raced \subseteq Text

Init ==
  /\ job = [j \in Job |-> None]
  /\ card = [c \in Card |-> None]
  /\ live = [c \in Card |-> 0]
  /\ file = [j \in Job |-> FALSE]
  /\ task = [t \in Job |-> Off]
  /\ admin = [a \in Admin |-> Idle]
  /\ sweeping = {}
  /\ reviews = 0
  /\ faults = 0
  /\ swept = {}
  /\ orphaned = {}
  /\ raced = {}

history == <<sweeping, reviews, faults, swept, orphaned, raced>>

Goto(t, next) == task' = [task EXCEPT ![t] = next]

\* UPDATE ingest_jobs SET status, heartbeat_at.
Moved(j, status) == [job EXCEPT ![j].status = status, ![j].fresh = TRUE]

\* A transaction that holds the row of c makes every other writer of it wait.
Locked(c) == \E a \in Admin : admin[a].at = "insert" /\ admin[a].card = c
Unlocked(j) == \A c \in CardsOf(j) : ~Locked(c)

Pending(j) == {c \in CardsOf(j) : card[c].status = "pending"}
Waiting(j) == {c \in CardsOf(j) : card[c] # None /\ card[c].ai = "waiting"}

\* UPDATE ingest_proposals SET ai_state = 'local' WHERE ai_state = 'waiting'.
AllLocal(j) == [c \in Card |-> IF c \in Waiting(j) THEN [card[c] EXCEPT !.ai = "local"]
                               ELSE card[c]]

\* The row names its document, and the move that leaves this status forgets the name.
Unread(j) == job[j].status \in {"queued", "extracting"}
Unlinked(j) == file' = [file EXCEPT ![j] = FALSE]

Fault == faults < MaxFault /\ faults' = faults + 1

TextLive(text) == \E c \in Card : live[c] > 0 /\ card[c] # None /\ card[c].text = text

-------------------------------------------------------------------------------
(* create_job() and the background half of an upload, run_job().             *)

Create(j) ==
  /\ job[j] = None /\ \A i \in 1..(j - 1) : job[i] # None
  /\ \E hash \in 1..j :
       /\ \A i \in Job : job[i].status \in Active => job[i].hash # hash
       /\ job' = [job EXCEPT ![j] = [status |-> "queued", hash |-> hash, fresh |-> TRUE]]
  /\ file' = [file EXCEPT ![j] = TRUE]
  /\ Goto(j, [at |-> "due", job |-> j])
  /\ UNCHANGED <<card, live, admin, history>>

Start(j) ==
  /\ task[j].at = "due"
  /\ IF job[j].status = "queued"
       THEN job' = Moved(j, "extracting") /\ Goto(j, [at |-> "reading", job |-> j])
       ELSE UNCHANGED job /\ Goto(j, Off)
  /\ UNCHANGED <<card, live, file, admin, history>>

\* _heartbeat() before and after the child process.
Beat(j) ==
  /\ task[j].at = "reading" /\ job[j].status = "extracting"
  /\ job' = [job EXCEPT ![j].fresh = TRUE]
  /\ UNCHANGED <<card, live, file, task, admin, history>>

\* A chunk as the extraction found it; whether it is live already was read before the
\* transaction that writes it.
NewCard(c, label) ==
  [status |-> "pending", ai |-> "waiting", text |-> c[2], model |-> FALSE,
   edited |-> FALSE, label |-> label, saw |-> "nothing"]

Write(j) ==
  /\ task[j].at = "reading"
  /\ IF job[j].status = "extracting"
       THEN /\ \E label \in [CardsOf(j) -> BOOLEAN] :
                 /\ \A c \in CardsOf(j) : label[c] => TextLive(c[2])
                 /\ card' = [c \in Card |-> IF c \in CardsOf(j) THEN NewCard(c, label[c])
                                            ELSE card[c]]
            /\ job' = Moved(j, "extracted")
            /\ Goto(j, [at |-> "wrote", job |-> j])
       ELSE UNCHANGED <<job, card>> /\ Goto(j, [at |-> "refused", job |-> j])
  /\ UNCHANGED <<live, file, admin, history>>

\* _fail(): the file is refused, or something unforeseen ends the reading.
Refuse(j) ==
  /\ task[j].at = "reading"
  /\ job' = IF job[j].status = "extracting" THEN [job EXCEPT ![j].status = "failed"] ELSE job
  /\ Goto(j, [at |-> "refused", job |-> j])
  /\ UNCHANGED <<card, live, file, admin, history>>

\* finally: _unlink(), which swallows what keeps it from removing the file, and on.
Unlinking(j) ==
  /\ task[j].at \in {"wrote", "refused"}
  /\ Goto(j, IF task[j].at = "wrote" THEN [at |-> "next", job |-> j] ELSE Off)

Unlink(j) ==
  /\ Unlinking(j)
  /\ Unlinked(j)
  /\ UNCHANGED <<job, card, live, admin, history>>

UnlinkFails(j) ==
  /\ Unlinking(j)
  /\ Fault
  /\ orphaned' = orphaned \cup {j}
  /\ UNCHANGED <<job, card, live, file, admin, sweeping, reviews, swept, raced>>

\* On to the model stage, or home with the AI off.
LeaveLocal(j) ==
  IF job[j].status = "extracted"
    THEN /\ Unlocked(j)
         /\ job' = [job EXCEPT ![j].status = "ready"]
         /\ card' = AllLocal(j)
    ELSE UNCHANGED <<job, card>>

Continue(j) ==
  /\ task[j].at = "next"
  /\ \/ /\ Goto(j, [at |-> "pick"])
        /\ UNCHANGED <<job, card>>
     \/ /\ LeaveLocal(j)
        /\ Goto(j, [at |-> "tidy", job |-> j, then |-> "off"])
  /\ UNCHANGED <<live, file, admin, history>>

-------------------------------------------------------------------------------
(* run_model_loop() and _propose().                                          *)

Extracted == {j \in Job : job[j].status = "extracted"}
SlotTaken == \E j \in Job : job[j].status \in Slot

\* resume_waiting(), at a visit of the list page.
Resume(t) ==
  /\ task[t] = Off /\ job[t] # None
  /\ ~SlotTaken /\ Extracted # {}
  /\ Goto(t, [at |-> "pick"])
  /\ UNCHANGED <<job, card, live, file, admin, history>>

\* The oldest job, and whether the AI is switched on when it is looked at.
Pick(t) ==
  /\ task[t].at = "pick"
  /\ IF Extracted = {} THEN Goto(t, Off)
       ELSE \E on \in BOOLEAN :
              Goto(t, [at |-> IF on THEN "claim" ELSE "local", job |-> Min(Extracted)])
  /\ UNCHANGED <<job, card, live, file, admin, history>>

Local(t) ==
  /\ task[t].at = "local"
  /\ LeaveLocal(task[t].job)
  /\ Goto(t, [at |-> "tidy", job |-> task[t].job, then |-> "pick"])
  /\ UNCHANGED <<live, file, admin, history>>

\* The claim looks for a free slot with a SELECT of its own, made when the job was picked.
ClaimUnindexed(t) ==
  /\ task[t].at = "claim"
  /\ LET j == task[t].job IN
       IF job[j].status # "extracted" THEN Goto(t, [at |-> "pick"]) /\ UNCHANGED job
       ELSE /\ job' = Moved(j, "proposing")
            /\ Goto(t, [at |-> "chunk", job |-> j, todo |-> Waiting(j)])
  /\ UNCHANGED <<card, live, file, admin, history>>

Claim(t) ==
  /\ task[t].at = "claim"
  /\ LET j == task[t].job IN
       IF job[j].status # "extracted" THEN Goto(t, [at |-> "pick"]) /\ UNCHANGED job
       ELSE IF SlotTaken THEN Goto(t, Off) /\ UNCHANGED job
       ELSE /\ job' = Moved(j, "proposing")
            /\ Goto(t, [at |-> "chunk", job |-> j, todo |-> Waiting(j)])
  /\ UNCHANGED <<card, live, file, admin, history>>

Ours(t) == job[task[t].job].status = "proposing"
Chunk(t) == Min({c[2] : c \in task[t].todo})
Current(t) == <<task[t].job, Chunk(t)>>

\* The status is read after the pacing gap; a chunk leaves only for a job that still runs.
Ask(t) ==
  /\ task[t].at = "chunk"
  /\ Goto(t, IF task[t].todo = {} THEN [at |-> "leave", job |-> task[t].job]
             ELSE IF Ours(t) THEN [task[t] EXCEPT !.at = "call"]
             ELSE [at |-> "finish", job |-> task[t].job])
  /\ UNCHANGED <<job, card, live, file, admin, history>>

\* The call returned: the answer of a cancelled job is thrown away, and an error may
\* stop the stage.
Reply(t) ==
  /\ task[t].at = "call"
  /\ IF ~Ours(t) THEN Goto(t, [at |-> "finish", job |-> task[t].job])
     ELSE \/ Goto(t, [at |-> "leave", job |-> task[t].job])
          \/ \E good \in BOOLEAN :
               Goto(t, [at |-> "apply", job |-> task[t].job, todo |-> task[t].todo,
                        good |-> good])
  /\ UNCHANGED <<job, card, live, file, admin, history>>

\* _apply() with the card as the stage first read it.
AnsweredOver(row, good) ==
  [row EXCEPT !.ai = IF good THEN "done" ELSE "failed", !.model = good]

\* _apply(), or _set_ai_state('failed').
Answered(row, good) ==
  IF row.ai # "waiting" THEN row
  ELSE [row EXCEPT !.ai = IF good THEN "done" ELSE "failed",
                   !.model = @ \/ (good /\ row.status = "pending" /\ ~row.edited)]

Apply(t) ==
  /\ task[t].at = "apply" /\ ~Locked(Current(t))
  /\ card' = [card EXCEPT ![Current(t)] = IF @ = None THEN None ELSE Answered(@, task[t].good)]
  /\ job' = IF job[task[t].job].status \in Slot THEN [job EXCEPT ![task[t].job].fresh = TRUE]
            ELSE job
  /\ Goto(t, [at |-> "chunk", job |-> task[t].job, todo |-> task[t].todo \ {Current(t)}])
  /\ UNCHANGED <<live, file, admin, history>>

Leave(t) ==
  /\ task[t].at = "leave"
  /\ LET j == task[t].job IN
       IF job[j].status = "proposing"
         THEN /\ Unlocked(j)
              /\ job' = [job EXCEPT ![j].status = "ready"]
              /\ card' = AllLocal(j)
         ELSE UNCHANGED <<job, card>>
  /\ Goto(t, [at |-> "tidy", job |-> task[t].job, then |-> "finish"])
  /\ UNCHANGED <<live, file, admin, history>>

\* _maybe_done() that does not name the status it leaves.
TidiedAlways(j) == IF Pending(j) = {} THEN [job EXCEPT ![j].status = "done"] ELSE job

\* _maybe_done()
Tidied(j) == IF job[j].status = "ready" /\ Pending(j) = {}
               THEN [job EXCEPT ![j].status = "done"] ELSE job

Tidy(t) ==
  /\ task[t].at = "tidy"
  /\ job' = Tidied(task[t].job)
  /\ Goto(t, CASE task[t].then = "off" -> Off
               [] task[t].then = "pick" -> [at |-> "pick"]
               [] OTHER -> [at |-> "finish", job |-> task[t].job])
  /\ UNCHANGED <<card, live, file, admin, history>>

\* _finish_cancel()
Finish(t) ==
  /\ task[t].at = "finish"
  /\ LET j == task[t].job IN
       IF job[j].status = "cancelling"
         THEN /\ Unlocked(j)
              /\ job' = [job EXCEPT ![j].status = "cancelled"]
              /\ card' = AllLocal(j)
         ELSE UNCHANGED <<job, card>>
  /\ Goto(t, [at |-> "pick"])
  /\ UNCHANGED <<live, file, admin, history>>

-------------------------------------------------------------------------------
(* Time, death, recover_stale() and purge_expired().                         *)

Attended(j) == \E t \in Job : task[t] # Off /\ "job" \in DOMAIN task[t]
                                        /\ task[t].job = j

\* Five minutes without a heartbeat: the task is dead, or something holds it up.
Age(j) ==
  /\ job[j].status \in Sweepable /\ job[j].fresh
  /\ IF Attended(j) THEN Fault ELSE UNCHANGED faults
  /\ job' = [job EXCEPT ![j].fresh = FALSE]
  /\ UNCHANGED <<card, live, file, task, admin, sweeping, reviews, swept, orphaned, raced>>

Die(t) ==
  /\ task[t] # Off
  /\ Fault
  /\ orphaned' = IF task[t].at \in {"wrote", "refused"} THEN orphaned \cup {t} ELSE orphaned
  /\ Goto(t, Off)
  /\ UNCHANGED <<job, card, live, file, admin, sweeping, reviews, swept, raced>>

\* recover_stale() commits the end of one stale job, and then removes its document.
Recover(j) ==
  /\ job[j].status \in Sweepable /\ ~job[j].fresh /\ Unlocked(j)
  /\ job' = [job EXCEPT ![j].status = IF @ = "cancelling" THEN "cancelled" ELSE "failed"]
  /\ card' = AllLocal(j)
  /\ sweeping' = IF Unread(j) THEN sweeping \cup {j} ELSE sweeping
  /\ swept' = IF Attended(j) THEN swept \cup {j} ELSE swept
  /\ UNCHANGED <<live, file, task, admin, reviews, faults, orphaned, raced>>

SweepUnlink(j) ==
  /\ j \in sweeping
  /\ Unlinked(j)
  /\ sweeping' = sweeping \ {j}
  /\ UNCHANGED <<job, card, live, task, admin, reviews, faults, swept, orphaned, raced>>

\* The sweep dies before it has removed the document, or cannot: once for a job at most.
SweepFails(j) ==
  /\ j \in sweeping
  /\ orphaned' = orphaned \cup {j}
  /\ sweeping' = sweeping \ {j}
  /\ UNCHANGED <<job, card, live, file, task, admin, reviews, faults, swept, raced>>

\* A month after it ended, with nothing left to review.
Purge(j) ==
  /\ job[j].status \in Finished /\ Pending(j) = {} /\ Unlocked(j)
  /\ job' = [job EXCEPT ![j] = Gone]
  /\ card' = [c \in Card |-> IF c \in CardsOf(j) THEN None ELSE card[c]]
  /\ UNCHANGED <<live, file, task, admin, history>>

-------------------------------------------------------------------------------
(* The administrators.                                                       *)

Answer(a, next) == admin' = [admin EXCEPT ![a] = next]
Free(a) == admin[a] = Idle

\* A cancel that moves the job and leaves its cards to the loop.
CancelLater(a, j) ==
  /\ Free(a) /\ job[j].status \in Cancellable
  /\ job' = Moved(j, IF job[j].status = "proposing" THEN "cancelling" ELSE "cancelled")
  /\ UNCHANGED <<card, live, file, task, admin, history>>

\* The row was read before it is moved: whether it named a document by then is certain only
\* of one that is still unread.  The document is removed after the commit.
Cancel(a, j) ==
  /\ Free(a) /\ job[j].status \in Cancellable /\ Unlocked(j)
  /\ job' = Moved(j, IF job[j].status = "proposing" THEN "cancelling" ELSE "cancelled")
  /\ card' = [c \in Card |-> IF c \in Pending(j) THEN [card[c] EXCEPT !.status = "rejected"]
                             ELSE card[c]]
  /\ \/ (Unread(j) \/ file[j]) /\ Answer(a, [at |-> "unlink", job |-> j])
     \/ ~Unread(j) /\ UNCHANGED admin
  /\ UNCHANGED <<live, file, task, history>>

AdminUnlink(a) ==
  /\ admin[a].at = "unlink"
  /\ Unlinked(admin[a].job)
  /\ Answer(a, Idle)
  /\ UNCHANGED <<job, card, live, task, history>>

Review == reviews < MaxReview /\ reviews' = reviews + 1
Open(a, c) == Free(a) /\ card[c].status = "pending" /\ ~Locked(c) /\ Review

Contents(row) == IF row.model THEN "model" ELSE "local"
Seen(row) == IF row.saw = "nothing" THEN [row EXCEPT !.saw = Contents(row)] ELSE row

\* mark_seen(): any pending card, whether or not the model has had its turn.
MarkSeen(a, c) ==
  /\ Open(a, c)
  /\ card[c].saw = "nothing"
  /\ card' = [card EXCEPT ![c] = Seen(@)]
  /\ UNCHANGED <<job, live, file, task, admin, sweeping, faults, swept, orphaned, raced>>

\* edit_proposal(): what the administrator saved, they have seen.  All the texts that
\* are typed are the same one.
Edit(a, c) ==
  /\ Open(a, c)
  /\ card' = [card EXCEPT ![c] = [Seen(@) EXCEPT !.edited = TRUE, !.text = 0]]
  /\ UNCHANGED <<job, live, file, task, admin, sweeping, faults, swept, orphaned, raced>>

Reject(a, c) ==
  /\ Open(a, c)
  /\ card' = [card EXCEPT ![c].status = "rejected"]
  /\ Answer(a, [at |-> "tidy", job |-> c[1]])
  /\ UNCHANGED <<job, live, file, task, sweeping, faults, swept, orphaned, raced>>

Checking(text) == \E a \in Admin : admin[a].at = "insert" /\ card[admin[a].card].text = text

Approvable(c) == card[c].status = "pending" /\ card[c].ai \in Over

\* _approve_in() up to its INSERTs: the card is claimed, and its text is looked for in
\* what others have committed.
Claimed(a, c, rest, bulk) ==
  /\ Approvable(c) /\ ~TextLive(card[c].text)
  /\ raced' = IF Checking(card[c].text) THEN raced \cup {card[c].text} ELSE raced
  /\ Answer(a, [at |-> "insert", card |-> c, rest |-> rest, bulk |-> bulk])
  /\ UNCHANGED card

\* The refusals: reviewed or not ready (a bulk goes on), or a duplicate, which is
\* labelled.
Refused(a, c, next) ==
  /\ \/ ~Approvable(c) /\ UNCHANGED card
     \/ /\ Approvable(c) /\ TextLive(card[c].text)
        /\ card' = [card EXCEPT ![c].label = TRUE]
  /\ Answer(a, next)
  /\ UNCHANGED raced

Approve(a, c) ==
  /\ Free(a) /\ card[c].status = "pending" /\ ~Locked(c)
  /\ Claimed(a, c, {}, FALSE) \/ Refused(a, c, Idle)
  /\ UNCHANGED <<job, live, file, task, sweeping, reviews, faults, swept, orphaned>>

\* The claim of a second approval finds the row it wants already approved, and goes on.
CommitBlind(a) ==
  /\ admin[a].at = "insert"
  /\ live' = [live EXCEPT ![admin[a].card] = @ + 1]
  /\ Answer(a, Idle)
  /\ UNCHANGED <<job, card, file, task, history>>

Commit(a) ==
  /\ admin[a].at = "insert"
  /\ LET c == admin[a].card IN
       /\ live' = [live EXCEPT ![c] = @ + 1]
       /\ card' = [card EXCEPT ![c] =
                     [(IF admin[a].bulk THEN @ ELSE Seen(@)) EXCEPT !.status = "approved"]]
       /\ Answer(a, IF admin[a].bulk
                      THEN [at |-> "bulk", job |-> c[1], rest |-> admin[a].rest]
                      ELSE [at |-> "tidy", job |-> c[1]])
  /\ UNCHANGED <<job, file, task, history>>

\* approve_seen(): the server picks the cards, and approves them one by one.
BulkReady(j) == {c \in Pending(j) : card[c].saw # "nothing" /\ ~card[c].label
                                    /\ card[c].ai \in Over}

ApproveSeen(a, j) ==
  /\ Free(a) /\ job[j].status \notin {"none", "gone", "cancelled", "cancelling"}
  /\ BulkReady(j) # {}
  /\ Answer(a, [at |-> "bulk", job |-> j, rest |-> BulkReady(j)])
  /\ UNCHANGED <<job, card, live, file, task, history>>

ApproveNext(a) ==
  /\ admin[a].at = "bulk"
  /\ LET j == admin[a].job   rest == admin[a].rest IN
       IF rest = {} THEN Answer(a, [at |-> "tidy", job |-> j]) /\ UNCHANGED <<card, raced>>
       ELSE LET c == <<j, Min({d[2] : d \in rest})>> IN
              /\ ~Locked(c)
              /\ \/ Claimed(a, c, rest \ {c}, TRUE)
                 \/ Refused(a, c, [at |-> "bulk", job |-> j, rest |-> rest \ {c}])
  /\ UNCHANGED <<job, live, file, task, sweeping, reviews, faults, swept, orphaned>>

AdminTidy(a) ==
  /\ admin[a].at = "tidy"
  /\ job' = Tidied(admin[a].job)
  /\ Answer(a, Idle)
  /\ UNCHANGED <<card, live, file, task, history>>

\* The request's worker dies, and an open transaction is rolled back; or the document that it
\* cancelled cannot be removed.
RequestDies(a) ==
  /\ admin[a] # Idle
  /\ Fault
  /\ orphaned' = IF admin[a].at = "unlink" THEN orphaned \cup {admin[a].job} ELSE orphaned
  /\ Answer(a, Idle)
  /\ UNCHANGED <<job, card, live, file, task, sweeping, reviews, swept, raced>>

-------------------------------------------------------------------------------

Read(j) == Start(j) \/ Beat(j) \/ Write(j) \/ Refuse(j) \/ Unlink(j) \/ Continue(j)
Loop(t) == \/ Pick(t) \/ Local(t) \/ Claim(t) \/ Ask(t) \/ Reply(t) \/ Apply(t)
           \/ Leave(t) \/ Tidy(t) \/ Finish(t)

Next ==
  \/ \E j \in Job : \/ Create(j) \/ Read(j) \/ UnlinkFails(j) \/ Age(j) \/ Purge(j)
                    \/ Recover(j) \/ SweepUnlink(j) \/ SweepFails(j)
  \/ \E t \in Job : Loop(t) \/ Die(t) \/ Resume(t)
  \/ \E a \in Admin :
       \/ \E j \in Job : Cancel(a, j) \/ ApproveSeen(a, j)
       \/ \E c \in Card : MarkSeen(a, c) \/ Edit(a, c) \/ Reject(a, c) \/ Approve(a, c)
       \/ Commit(a) \/ ApproveNext(a) \/ AdminTidy(a) \/ AdminUnlink(a) \/ RequestDies(a)

Spec == Init /\ [][Next]_vars

-------------------------------------------------------------------------------
(* What the ingestion promises.                                              *)

\* "One job talks to the model at a time": two calls are on their way only when
\* recover_stale() has ended one of the two jobs under a task that was merely late.
OneCallUnlessSwept ==
  \A t, u \in Job :
    t # u /\ task[t].at = "call" /\ task[u].at = "call" => {task[t].job, task[u].job} \cap swept # {}

\* A card is live exactly when its row says approved, once, whoever else approved,
\* rejected, cancelled or died in the meantime.
LiveIffApproved ==
  \A c \in Card : card[c] # None => live[c] = IF card[c].status = "approved" THEN 1 ELSE 0

\* "A job cancelled while its file was being read keeps no proposal", and one
\* cancelled later leaves none to review.
CancelledHasNoPending ==
  \A j \in Job : job[j].status \in {"cancelling", "cancelled"} => Pending(j) = {}

\* Once the model stage is behind a job, no card left to review waits for the model:
\* every one can be approved.
NothingWaitsForNobody ==
  \A j \in Job : job[j].status \notin {"extracted"} \cup Slot => Pending(j) \cap Waiting(j) = {}

\* A job with nothing left to review is about to be marked done; otherwise it would
\* stay active for ever, and its document could never be sent again.
ReadyHasWork ==
  \A j \in Job :
    job[j].status = "ready" /\ Pending(j) = {} /\ faults = 0
      => \/ \E t \in Job : task[t].at = "tidy" /\ task[t].job = j
         \/ \E a \in Admin : \/ admin[a].at \in {"tidy", "bulk"} /\ admin[a].job = j
                             \/ admin[a].at = "insert" /\ admin[a].card[1] = j

\* The same text goes live twice only through two approvals that each looked before
\* the other had committed.
OneRowPerTextUnlessRaced ==
  \A c, d \in Card :
    c # d /\ card[c] # None /\ card[d] # None /\ live[c] > 0 /\ live[d] > 0
      => card[c].text # card[d].text \/ card[c].text \in raced

\* The document is on the disk only while its job waits or is read, or whoever moved the job
\* on, its task, a cancel or a sweep, is about to remove it: one that dies between its commit
\* and its unlink, or whose unlink fails, orphans it.
FileIsFollowed ==
  \A j \in Job : file[j] => \/ Unread(j)
                            \/ task[j].at \in {"wrote", "refused"}
                            \/ j \in sweeping \cup orphaned
                            \/ \E a \in Admin : admin[a] = [at |-> "unlink", job |-> j]

\* A job's status, its cards, its file and what is live of it tell one story, and somebody
\* moves it on; what the chatbot says of a document was approved, and each text once.
JobsAgree == /\ LiveIffApproved /\ OneRowPerTextUnlessRaced
             /\ CancelledHasNoPending /\ ReadyHasWork
             /\ FileIsFollowed /\ NothingWaitsForNobody

\* "The edit wins": what the model says reaches no card after an administrator has
\* edited, approved or rejected it.
EditWins ==
  [][\A c \in Card : card[c] # None /\ card'[c] # None
       /\ (card[c].edited \/ card[c].status # "pending") => card'[c].model = card[c].model]_vars

\* "approve-seen approves only proposals the admin actually saw": what goes live was
\* in the card when it was seen.
BulkSawWhatWentLive ==
  \A a \in Admin : admin[a].at = "insert" /\ admin[a].bulk
    => card[admin[a].card].edited \/ card[admin[a].card].saw = Contents(card[admin[a].card])

-------------------------------------------------------------------------------
(* Liveness.  The list page is visited now and then, so that recover_stale()  *)
(* and resume_waiting() run, and what lives goes on: as long as something     *)
(* can, something does.                                                       *)

GoOn ==
  \/ \E t \in Job : (Read(t) /\ ~Beat(t)) \/ Loop(t) \/ Resume(t)
  \/ \E j \in Job : (Age(j) /\ ~Attended(j)) \/ Recover(j)
  \/ \E a \in Admin : Commit(a) \/ ApproveNext(a) \/ AdminTidy(a) \/ AdminUnlink(a)

Fairness == WF_vars(GoOn)

FairSpec == Spec /\ Fairness

\* Every job comes to rest: whoever died, was late or was cancelled, it ends in front
\* of the reviewer or is over.
Settles ==
  \A j \in Job : job[j].status \in Active \ {"ready"}
                   ~> job[j].status \in {"ready", "gone"} \cup Finished
===============================================================================
