# Padyar: a verification of its shared-state protocols

Padyar is a FastAPI chatbot for an exhibition. Several uvicorn worker processes serve
one deployment. They share a PostgreSQL database (READ COMMITTED, one pool of at most
five connections per worker), a directory of model files and a directory of backups, and
nothing else: every in-memory structure, the retrieval index and the settings cache among
them, exists once per worker. Blocking handlers run on threads, the asynchronous ones
interleave at their `await`s, and three background loops (backup, retention, SMS
delivery) run beside the requests.

Nearly everything that is hard to test follows from that: a handler reads in one
statement and writes in a later one, another worker commits in between, a worker dies
between two commits, a thread finishes later than the one that started after it. The
modules here model those protocols statement by statement where another transaction
can come between, and as one step where a row lock or a single conditional UPDATE
makes them one.

## 1. Inventory

### 1.1 Modelled components

| component | state | operations | hard behaviour | what makes it correct |
|---|---|---|---|---|
| **AI circuit breaker** `app/services/ai/circuit.py` | row of `ai_circuit_state` (state, counter, window, cooldown, lease), the Prometheus gauge | `allows`, `record_success`, `record_failure`, `reset`, `publish_stored_states` | SELECT then conditional UPDATE, late answers after a lease, crash of the probe, gauge set after commit | one probe at a time, each given its time; no failure lost and none counted twice; a closed circuit in the end |
| **AI routing engine** `app/services/ai/engine.py`, `errors.py` | locals of `execute_request`, `ai_usage`, the circuits | walk of the targets, retry, failover, usage row | several requests share circuits, cancellation at any await, a secret that vanishes, a usage row that is dropped | each call justified by the one before it; what the ledger has agrees with the calls; no trip without a cause |
| **One-time codes** `app/services/otp.py` | row of `otp_challenges` | request, deliver, verify, resend | check in Python, then an UPDATE by id alone; delivery outside the transaction | attempts bounded; a consumed challenge never revives |
| **Lead ownership** `leads.py`, `campaigns.py`, `company_profiles.py` | rows of `company_leads` and `companies` | register, verify, administrator's contact, campaign, complete, release, delete | three paths look for an owner and then write, without a unique index behind them | one owner per company unless two claims overlap; one verification of a lead wins |
| **Edit link** `leads.py` | rows of `edit_invites`, `edit_sessions` | mint (from four callers), open, submit, release, expiry | statement snapshots and row locks between DELETE, DELETE, INSERT | one door into a company; a released lead has none; one session per invite, one edit per session |
| **Edits and review** `leads.py` | rows of `dataset_edits`, the company's text | submit, supersede, approve, reject, revert, retype, delete | status read in one transaction, written by id in another | nothing unreviewed is live; drafts are superseded, never lost |
| **Retrieval index freshness** `search.py`, `routers/dataset.py`, `routers/synonyms.py` | per worker: index, version, rebuild lock; shared: `settings.search_index_version` | commit, rebuild, publish, bump, poll, boot | a lock nobody waits for, stamps taken in one step and stored in another, partial reads | an index never falls back; every edit reaches every worker |
| **Intent model record** `intent.py` | weights, sidecar, history and lock file; per worker the classifier it serves | load, train, record, withdraw | three files that are replaced one by one, readers without a lock, crashes and a full disk between them, a file that cannot be read | what is served is what was proven; a version names one model |
| **Knowledge ingestion** `ingest.py` | rows of `ingest_jobs`, `ingest_proposals`, the dataset, the uploaded file, which is removed after the commits | upload, read, model stage, heartbeat, cancel, sweep, resume, edit, approve, approve-seen, reject, purge | a late task and the sweep that ended its job; review beside the model; a claim that two approvals check at once | a card is live iff approved, once; edits beat the model; every job comes to rest |
| **Conversations** `conversations.py`, `routers/chat.py`, `routers/otp.py` | rows of `conversations`, `messages`, `visitors`, the rolling summary | turn, summary, forgetting, continuation, claim, deletion, purge | a summary refreshed by one request while another forgets it; a booth's browser passes from person to person | nobody hears the person before them; what a signed-in visitor says stays theirs; what is deleted is gone |
| **Between two turns** `answer.py`, `company_search.py`, `conversational.py`, `routers/chat.py` | the newest `chat_logs` row with an offer, the proposal row of `settings` | list, pick, «بیشتر», «بله», «نه», the model's choice, the model's proposal, edits of the records | the list on the screen and the row behind it drift apart: a swallowed log, an overlapping turn, a record deleted between two turns; a row that is read, then deleted | a number picks what was printed at it; no name is stepped over and none announced that cannot come; a question is replayed once |
| **SMS sending** `sms.py`, `campaigns.py`, `db/queries.py` | settings rows for text, budget and day counter, a cache of them per worker, `sms_campaigns` | send, book, launch, run, stop, look | the counter is read through a cache and written back; a failed read of the budget is no cap; two campaigns share one text row; a worker dies | the cap of a day; a campaign sends its own words; its row tells what happened |
| **SMS outbox** `sms_outbox.py` | rows of `sms_outbox` | record, poll (close, list, ask, write) | polls of several workers overlap, an answer is written after a newer one | a final word stays; no message waits for ever |
| **Restore** `pg_backup.py`, `maintenance.py` | the live database with the maintenance flag in it, the safety backup | guard, write, toggle, restore | the flag is a row of the database that the restore replaces | no writes lost but those that were already inside; doors stay shut on an unvalidated database |
| **Backup store** `pg_backup.py`, `backup.py`, `restore_drill.py` | folders and manifests, `backup_next_run`, the drill's advisory lock and database | claim a slot, dump, verify, drill, prune, delete | no lock on the folders; prunes work from a list; a lock lives as long as its session | one run per slot; a verified scheduled backup survives; a drill judges its own restore |

### 1.2 Interactions

- The engine asks the circuit before every provider call and tells it how the call
  ended; `RoutingEngine` extends `CircuitRow` and uses each circuit operation as one
  step. `Circuit` shows what its interleaved statements come to.
- A verification of a lead ends in `create_invite` (LeadOwnership `VerifyCommit`, then
  EditLink `Verify`); a rejected review (EditReview `Reject`) and a release end in it
  or undo it (EditLink `Reject`, `Release`); a submission (EditLink `SubmitCommit`) is
  EditReview's `SubmitCommit` and LeadOwnership's `Complete`, one transaction.
- Content edits of the dataset, question and synonym routers end in the publication
  protocol that SearchIndex models. Approvals of edits and of ingested cards, and reverts,
  are among them. A rebuild loads or trains the classifier: ModelRecord.
- One-time codes gate registration; the accepted code is where LeadOwnership's
  `Verify` and Conversation's `Signup` start. Codes, invitations and campaigns all go out
  through SmsSend, and each message they send gets a row of SmsOutbox.
- A chat request continues a conversation (Conversation), answers from what the last turn left
  (Dialogue), looks records up in the index (SearchIndex) and asks a model (RoutingEngine).
- A restore (Restore) takes its safety backup with, and reads from, the store (BackupStore).

### 1.3 Components not modelled, and why

| component | why |
|---|---|
| AI control plane and adapters (`ai/store.py`, `ai/adapters/`) | configuration, an input of RoutingEngine; translation of requests to HTTP |
| Ranking (`bm25.py`, `embeddings.py`, `rerank.py`, ...) and the choice of the tier that answers | numerical scoring and text, no shared state but the files ModelRecord has and the rows Dialogue has |
| Admin authentication and CSRF | single-statement sessions and counters |
| Database layer | its rules (visibility, locks) are built into every module, the settings cache into SmsSend; the pool is not modelled |
| Application shell, operations, public site, themes, speech | wiring, measurement, static reads and file caches |

The same list, with file names, is under "components" in PROJECT.json; "hazards"
there lists what can go wrong at which line and the property that would notice.

Within the modelled components these are left out: the SQLite backup sets and the off-site
copy; extraction, fetching and chunking of documents and the labels of near copies; the
gateway's HTTP formats; the profile and the answers bag of a visitor (`upsert_visitor` and
`record_answers` read, merge and write back, so two overlapping ones lose one's fields; nothing
promises otherwise); the client's signed token of a code; token and cost totals of a call.

## 2. Modules

```
CircuitRow ── Circuit ── CircuitHistory ── MCCircuit ── CircuitProofs
    │            └─ (INSTANCE) Breaker         │            theorems
    │                  SmsOutbox ─ (INSTANCE) ─┘
    └─ RoutingEngine ── MCChat ── ChatProofs                theorems
                          └─ (INSTANCE) Conversation, Dialogue
Otp ── MCOtp ── OtpProofs                                   theorems
         │          └─ (INSTANCE) SmsSendProofs             theorems
         └─ (INSTANCE) SmsSend ─────┘
LeadOwnership ── MCLeads ── LeadsProofs                     theorems
    │               └─ (INSTANCE) EditLink, EditReview
    └─ MCLeadOwnership
Restore ── MCFiles ── FilesProofs                           theorems
              └─ (INSTANCE) BackupStore, ModelRecord
Ingest ── MCIngest
    └─ IngestProofs                                         theorems
SearchIndex ── SearchIndexProofs                            theorems
    └─ MCSearchIndex
```

Conventions. A transaction in the middle is a record in `op[h]` (or `pc`, `run`, `task`);
what it read and has not used yet is in that record. Time is a countdown: a timestamp
column is kept as the ticks left until it, because the code only ever compares it with now.
NULL timestamps are countdowns that have run out. A crash or a rollback drops what was
not committed. Variables marked history (or ghost) are read by properties only: they note
the overlaps that a property excuses, so that it is exact about everything else. Some
operators beside an action bear its name with a suffix (`ClaimUnchecked`, `VerifyTwice`,
`SessionLifeFull`): they are plausible wrong versions of it, used by no specification, and
kept to show that each property notices one.

An MC module puts components side by side that share no variable. Its variable `focus`
is chosen in the initial state and says which of them this behaviour explores while the
others rest in an initial state. Nothing is lost by that, because neither reads what the
other keeps: every behaviour of one of them is explored, and a property that speaks of one
is checked in all of them. What is not explored is their product, which no property
relates. The proofs follow the same cut: the theorems of `FilesProofs`, `LeadsProofs` and
`ChatProofs` are about each component's own specification (`Store!Spec => ...`), without the
slices of the run, and `EachIsAPart` says there that a behaviour of the run is a behaviour of each
of its parts. `MCCircuit` has no slices, and those of `MCOtp` choose the constants of SmsSend, so
`CircuitProofs` and `OtpProofs` speak of the run's specification. (The interactions of 1.2 are
calls through which one starts another; each module starts wherever its caller may leave it.)

### 2.1 CircuitRow, Circuit, Breaker, CircuitHistory

`CircuitRow` holds one operator per UPDATE of `circuit.py` (or per group of UPDATEs
under one row lock): `Leased` (claim and re-claim), `Closed`, `WindowCleared` (the second
UPDATE of `record_success`), `Counted` (the windowed increment), `Failed`,
`OpenedByAuth`. The counter saturates at Threshold, past which nothing reads it.

`Circuit` gives every worker a program counter over the statements: `Allows` (SELECT) then
`Claim` or `Reclaim` (conditional UPDATE); `Return`; `RecordSuccess` then `ClearWindow`;
`RecordFailure`, `RecordAuthFailure`; `Publish` (the gauge, after the commit);
`Reset`; `Crash` and `Boot`. `Tick` stops when an in-flight call has reached
`CallTicks`, the longest time a granted call can take (its wait for the concurrency gate, the
retry back-off, its timeout). `calm` says that nothing fails any more; the liveness
property is conditional on it. The settings of the policy are read where they are used, and a
failed read means the default (`_setting_int`); here they are constants, so a policy that
changes between two statements, or is not the default and cannot be read, is left out.

Nothing relates `CallTicks` to the lease. `PROBE_LEASE_S` is 45 s, a target's timeout may be
45 s too, and the wait for the concurrency gate comes on top, so a lease can expire under a
live probe and a second one be granted: the run has such states. `Patience` is the shortest of
the lease and the two cooldowns, and `Probing` are the probes in flight that are younger. That is
what the row can promise and does: `SingleProbe` says that one at most is `Probing`, so nobody
takes the place of a probe before it has had its time.

`Breaker` is the abstract breaker: a mode that changes atomically, and a probe granted
only while nobody probes; a probe ends when its call does or its time is over.
`ImplementsBreaker` is the refinement with `mode <- row.state` and `probes <- Probing`.

`CircuitHistory` adds the ages of the consecutive failures of a closed circuit and
says with them what the counter is for. The failure window is tumbling: Threshold
consecutive failures inside one window's length need not trip the circuit
(`TripsAtThreshold` states what `circuit.py:8` says, and no run claims it).
`BoundedHammering` bounds the miss: at most 2 * (Threshold - 1).

### 2.2 RoutingEngine

The steps of `execute_request` between its awaits: `Start` (kill switch), `Skip`, `Enter`
(`allows` granted, the call begins), `EnterWithoutSecret`, `Answer`, `Fail`
(`record_failure`, then retry or leave the target), `Retry` (after the back-off),
`Exhausted`, `Cancel`, `Break`. `Error` keeps the classes of `errors.py` that the engine or
the circuit tell apart. The kill switch, the eligibility of a target and the
presence of its secret are inputs chosen where they are read; a target is visited once
per request, so an input needs no memory. Token and cost totals, timeouts and logging
are left out.

The ledger has gaps, and the model has the same. `record_usage` swallows what its INSERT or its
commit raises (`RecordUsage`: the request ends as it would have, `unrecorded`), `Cancel` is a
visitor who hangs up, and `Break` a statement of the request itself that the database refuses:
the route, the circuit, the secret, the verdict, the price, or the connection that `record_usage`
opens outside its `try`, which fails even a request that has been answered. `LedgerAgrees` says
what is left: a row is there for a request that came to its end with it, for no other, and
once; and what it says is what the calls of the request were. Nobody can tell from the ledger
that a row is missing.

### 2.3 Otp

Each entry point is a load that keeps its snapshot and a write that does not repeat its
checks: `RequestCount`/`RequestInsert`/`Deliver`, `VerifyLoad`/`VerifyAccept` or
`VerifyReject`, `ResendLoad`/`ResendReplace`. A code is the number of the delivery that
carried it. Delivery is outside the transaction and may fail. The model also shows
behaviours that are not stated as properties because nothing promises their absence:
two overlapping verifies of one right code both succeed, a code that a resend is
just replacing is still accepted, and the cooldown and the hourly limit can each be
exceeded by the number of overlapping handlers.

### 2.4 LeadOwnership

`Register`/`RegisterInsert` is the booth, `Add`/`AddInsert` an administrator's contact
and a campaign's invented lead, `Verify`/`VerifyCommit` the conditional UPDATE of
`verify_contact` and its commit. The UPDATE holds its row until the commit, and its
`NOT EXISTS` sees only what was committed when it began. `raced` collects the
companies that two handlers were claiming at once. Duplicate phone numbers and their
override, notes and visitor rows are left out. Deleting companies is atomic; it waits
for held rows.

### 2.5 EditLink

The header of the module lists where each transaction is cut and why: a step ends where
a lock wait or a stale snapshot can matter. A DELETE keeps what it saw, waits for
rows another transaction holds, and then looks at its WHERE again, so a row burned
meanwhile survives it. `raced` collects leads for which two requests were minting or
releasing at once; two such requests can leave two invites, because neither sees the
other's INSERT. The companies row is taken to exist.

### 2.6 EditReview

The fields of a company are one text, named by the edit that proposed it. `Submit` reads
the live fields, `Supersede` is the UPDATE's snapshot of pending rows, `SubmitCommit` its
commit with the INSERT. `Review`/`Approve`/`Reject` and `Revert`/`RevertCommit` are
the two-transaction forms. `Retype` stands for the other writers of the same columns.
Two reverts of one edit can both write, the second over a newer text
(`NotRevertedTwice` states what the docstring at `leads.py:1775` says, and no run
claims it).

### 2.7 SearchIndex

An index is the set of committed edits it was built from. A publication is `Acquire`
(the lock nobody waits for), `Read` (the tables; each is read on its own, and one the
database refuses counts as empty), `Stamp` (switch the index, take a version), `Store`
(write the version). A poll (`Poll`) notes the stored version first and rebuilds in a
thread afterwards (`Acquire`, `Read`, `Switch`). Synonym edits reload the table in place
and bump the version without a rebuild. Versions are `time_ns()` of one host, so the clock
ticks with every stamp. Content only grows: an edit that undoes another is another
edit. The expansion of the corpus by synonyms is left out.

`FreshUnlessDisturbed` is conditional on `disturbed`, which is set exactly by:

1. a `publish` or `refresh` refused because a rebuild is running (nobody retries it);
2. a table the database refused to read;
3. two stamps crossing: another stamp was taken since this rebuild's load, or a worker
   adopts a version at boot, or bumps over one it has not seen;
4. a lower version stored over a higher one;
5. a `publish` that failed (`until` retries, `refresh` is tried again by the next poll);
6. an `until` that ran out of time and bumped without an index;
7. a crash with unpublished work.

What is left is the ordinary life of the system, and there the promise holds under
fairness. Items 1, 3 and 4 need no fault; the run `search_index_stale` shows them.

### 2.8 ModelRecord

`Reindex` reads the questions, `ReadSidecar` and `ReadWeights` the files (without the lock),
`Train` fits what could not be proven, `Lock` takes the writers' flock and the next version,
`PutWeights`, `PutSidecar` and `AppendHistory` record the model, `DropWeights` and
`DropSidecar` withdraw one that is no longer for today's questions, `Serve` answers from the
outcome. Every write may fail (`WriteFails`, `DropFails`) and a process may die anywhere
(`Crash`). A model is named by the questions it was trained on, since training is
determined by them; the fingerprint and the sha256 compare that name. A file that cannot be
read counts as none: for a load that means training again (`ReadFails`), for a writer that the
version of the sidecar, of the history or of both is 0 (`LockUnread`; `_read_sidecar`,
`_last_history_version`), and that an identical record is written once more. A version may be
used again in two cases, although the feature's `SPEC.md` says that the number
never goes back: a sidecar is removed before a line of the history has reached its version
(a crash or a full disk in between), or the files that mention it could not be read.
`dropped` has the versions of both, and excuses exactly those. Which of two overlapping records is
on disk in the end is not promised: a reindex that read older questions may replace a
newer record, and the next one trains again.

### 2.9 Ingest

A job's moves are UPDATEs that name the status they leave. The background half of an
upload is `Start`, `Beat`, `Write`, `Refuse`, `Unlink`, `Continue`; the model stage is
`Resume`, `Pick`, `Local`, `Claim`, `Ask`, `Reply`, `Apply`, `Leave`, `Tidy`, `Finish`.
Administrators `Cancel`, `MarkSeen`, `Edit`, `Reject`, `Approve` and `ApproveSeen`, whose
`Commit` comes after the claim and the look for a duplicate. The document is removed in a
step after the commit that clears `tmp_path`, by the task (`Unlink`), by a cancel (`AdminUnlink`)
or by the sweep (`SweepUnlink`); each of them can die in between, and `_unlink` swallows an error
of the file system. Nothing names the file then, and no sweep looks for it: `orphaned` has exactly
those jobs, and `FileIsFollowed` says that every other document has somebody who will remove it.
Left out are a temp file whose job row was never inserted, and that a task reads its row again
after its move. `Age` is a heartbeat that is
late, `Recover` the sweep that ends a job whose heartbeat is, `Die` a task that dies.
`swept`, `orphaned` and `raced` note what those races leave behind. A card's text is a
number, two documents may share one, and what the model says is "local" or "model".

### 2.10 Conversation

A turn is `Arrive` (the owner check), `Create`, `Look` (the history and the summary),
`Forget` (a stale summary), `Append`, `Unanswered`, and in the background `Read`, `Store` or
`Abandon` (the new summary). A registration is `Register` then `Attach`. `Delete`,
`DeleteVisitor` and `Purge` are the deletions; `Leave` ends a sitting, the stay of one person
at a shared browser. The content of a message is the sitting it was said in. A swallowed
fault in `get_summary` skips the forgetting, and the message after it makes the row fresh
again: the next person's model then hears the previous one's summary, contrary to
`_history_for` ("BOTH HALVES ARE BOUNDED"); `kept` excuses exactly that. `_append` makes a
deleted conversation again, without an owner; `late` and the wording of `Defended` say when.

### 2.11 Dialogue

A turn is `Send` (the message, and the offer read with it), then the tiers in the order of
`chat_endpoint`: `Pick`, `More`, `Decline`, `Peek` and `Take` (the two transactions of
`take_proposal`), `Again` (an affirmative without a proposal shows the list again), `List`, and
`FallThrough` to the model, whose answer is `Plain`, `Choose` (an options turn) or `Propose`
(a converse turn that offered more). `Show` is a list that is printed and logged: the row may
fail to be written, and the visitor is told nothing. `Delete`, `TakeIn` and `TakeOut` are the
edits of the records and of what the list's query matches, `Tick` is the window of both rows.
`Kept` is the list comprehension that drops deleted records, written as a function of the
length, because a proof cannot look into `SelectSeq`.
An offer has the fields of `offer_state`: the ids, capped at OFFER_IDS_MAX but never below
`shown`, the total and the query (or none, and then the pager does not match again). A record
is its place in the list's order, so boosts and renamed records, which change the order, are
left out; so is a number sent without a list, which is a booth's. Two more things are assumed.
The query of a topic (the database) and the lookup of an id (the index of the worker) see the same
rows; in the code the second lags behind until the worker has picked the edit up, for ever if
finding 2 strikes. And a page has two names at least; `options_shown` may be set to one, and the
theorems and the run say nothing of that.

`screen` is what the visitor reads at each number and `named` what they have read. `doubt`
says what has come between the screen and the row, and the properties except exactly that:

- `unlogged`: the row of the printed list was not written;
- `crossed`: another turn of the conversation was under way when it was printed;
- `renumbered`: the pager dropped a record that had been printed. The names of the pages
  before keep their numbers on the screen and have lost them in the row, so "3" picks the
  company printed at 4. The comment at `chat.py:456` says that the names printed and the ids
  stored still agree; that is true of the new page. No name is stepped over even so
  (`NobodySteppedOver` is stated without this exception).

`counted` says what the newest total is of. `CountHonest` speaks of a page that was just
counted: an affirmative copies the total instead, so after a deletion it can announce more
names than «بیشتر» can reach, and an edit after the page makes any total old. Two more
behaviours of the model contradict comments and are in no run. An affirmative replays a
proposal of several turns ago although a list has been printed since ("openers that answer the
LAST turn", `chat.py:534`), and a refusal leaves the proposal where it was, to be replayed by
the next «بله».

### 2.12 SmsSend and SmsOutbox

`Select`/`Take` is a `get_setting` whose answer is stored in the worker's cache after it
came, `Pop` what `set_setting` does after its commit, `Expire` the cache's TTL. A message is
`Begin`, the read of the budget and, unless that is 0, of the counter (`AfterRead`), `Refuse` or
`Book` (the counter as read, plus one, under the date taken first), `Deliver` or `Reject`. `Fail`
is a statement that the database refuses and nobody swallows: a booking that fails is a message
that fails, the others end the campaign's thread. A campaign is `Launch`, `SaveText`, then per
company `Skip` or `Invite`, `Bump`, and `Finish`. `Midnight` changes the date and `Crash`
ends the threads of a worker; the campaign row then says `running` for ever. A failed read
of the counter counts as zero and the next booking resets the day.

The budget is read for every message, through the same cache, and a failed read is no row
(`_read_setting_uncached`): what counts instead, until the cache lets go of it, is
`EnvBudget`. That is `SMS_DAILY_BUDGET`, which `save_settings` writes beside the row, or where
the environment has none the default 0: no cap, and a message that is not counted. `billed` has
the messages that were counted, `lifted` those that were not, and `uncapped` notes that a read of
the budget failed and another value stood in for it. `CapUnlessBlurred` bounds the counted ones,
and says that there are uncounted ones only if `uncapped`. A budget that is not a number is no
budget (an input: `Budget = 0`); an operator who changes it while messages go out, and workers
with different environments, are left out.

A SELECT that is answered before a write and
stored in the cache after it leaves an old value behind the writer's own back, contrary to
`queries.py` ("same-worker reads are always fresh after a write"); `mixed` excuses the
campaigns that ran beside one.

`SmsOutbox` has `Record` (one row per message), and the poll: `Begin`, `Close` (what is past
the window), `List`, `Ask`, `Unanswered`, `Write` (by id), `End`. What the gateway answers is
chosen when asked, but a message that has arrived is never said to be queued. A poll can
hang or die anywhere. `crossed` notes which round held which row when another round settled it, and
forgets it when the round lets the row go. There are finitely many messages
(`OutboxAssumption`), so that LIMIT bounds a round.

### 2.13 Restore and BackupStore

`Restore`: a visitor's request reads the flag (`Guard`) and writes later (`WriteRow`); a
restore is `Request`, `Enable`, `Save` (the safety backup), `Drop` and `Replace`
(`pg_restore`, one transaction that locks the tables it drops), `Validate`, `Disable`; each
step can fail, and the operator toggles the flag. A database is the flag, whose writes it
holds, and whether it passes validation. The histories `disturbed`, `entered` and `late` note
which restores had their flag changed by somebody else, how a visitor found the doors, and
who wrote between a safety backup and the swap that followed it.

`BackupStore`: a thread is at one step of `Due`, `Claim` (the slot), `Dump`, `Verify`, `Lock`,
`Clean`, `RestoreDump`, `Check`, `Cleanup`, `List`, `Prune`. Administrators start runs and drills,
verify again and delete; a dump fails, a file is spoiled, a session with its lock is lost.
A `pg_restore` ends with the worker that started it: one that outlives it and goes on writing into
the drill's copy, beside the next drill, is left out.
An unreadable manifest counts as a scheduled backup, so with `keep` = 1 a prune whose list
is stale can delete the nightly backup that was verified after the list was read, and two
crossing prunes can leave none; `excused` notes the prunes that somebody crossed.

## 3. Runs

Every run is exhaustive over its bounds. A slice is a behaviour of the component under tighter bounds,
chosen where the bounds multiply: the steps are the component's, and what a slice forgoes is named in
its MC module.

| run | module | shows | bounds and why they suffice |
|---|---|---|---|
| `circuit` | MCCircuit | `SingleProbe`, `RowConsistent`, `CountsFailures`, `ImplementsBreaker` over all statement interleavings; `FinalUnlessCrossed` of the outbox; `Settles`: a calm circuit closes for good, no message stays queued | three workers (a prober, one that re-claims, one that reports late); Threshold 3 and Window 2, so that failures straddle a window; a lease and a cooldown of 2, the authentication's of 3; a call may take 2, so that it outlives its lease and a second probe is let in beside it. Two messages and a round of one, so that some wait; two polls |
| `otp` | MCOtp | `AttemptsBounded`, `ConsumedStaysConsumed`; `CapUnlessBlurred`, `CampaignsTrue` | one challenge, three handlers: a verify, a resend and one that overtakes both; limits of two. Two workers with a cache each; slices for the cap (two requests, budget 1 and none in the environment, one trouble: a crash or a failed statement) and for a midnight (two days, no trouble). Two more on one worker, whose cache the campaigns share with a look at the settings: the texts (two campaigns), and one campaign that shares the budget with a request; each with one trouble. The theorems are about any number of workers |
| `leads` | MCLeads | `OneOwnerUnlessRaced`, `ClaimedOnce`; `LinksTrue`; `ReviewDecides` | two companies, three leads, two handlers; one lead's links (leads share no row but the ownership check), three invites, two sessions, two staff and two contact handlers; three edits, two overlapping submissions, one reviewer; a text retyped by hand beside two of the edits |
| `lead_two_owners` | MCLeadOwnership | violation of `OnlyOnePasses` | as the first part of `leads` |
| `chat` | MCChat | `RouteTrue`; `NotOverheard`, `Defended`, `DeletedIsGone`; `PickIsWhatWasPrinted`, `PagesWhole`, `ReplayedOnce` | two requests with four provider calls between them (one walk can take four), three targets over two providers (first and last share one), one tried twice, Threshold 2. Two visitors, two conversations, one registration, one deletion of a person; slices of two overlapping requests that write two messages and do not fail before the first, of a fault and a second sitting, and of a summary over three sittings. Pages of two: five records, of which a row keeps four, so that a third page is matched again, with picks at the head of each page and two edits; three records with a fault, time and two proposals; two overlapping turns over three records with an edit, and over two records with the model's answers and a proposal. The model chooses lists of two: in order, out of order, across a page |
| `search_index` | MCSearchIndex | `PublishedMeansIndexed`; `CatchesUp`: an index never falls back, and every worker gets there | two workers; two edits and one synonym edit without a fault, and two of these with two faults of any kind (two edits are enough for two publications to cross, which is what the faults then disturb) |
| `search_index_stale` | SearchIndex | violation of `PickedUp` | two edits, no faults |
| `ingest` | MCIngest | `OneCallUnlessSwept`, `JobsAgree`, `EditWins`; `Settles`: every job comes to rest | two jobs of two cards and one, two administrators, two reviews, one fault; slices: jobs read, cancelled and purged without one; two documents' jobs with a fault, of which the first may be cancelled; one job reviewed by two with two reviews and faults in all, the requests of one of whom may die; two jobs approved by one, the second sent when the model is done with the first. A sweep that fails to remove a document is no fault, and happens everywhere |
| `ingest_unseen` | MCIngest | violation of `BulkSawWhatWentLive` | the same |
| `files` | MCFiles | `OnlyStragglersLost`, `StaysShut`; `RunsApart`, `VerifiedSurvives`; `RecordTrue` | two visitors, two restores, one toggle, one fault; two threads, Keep 1 of each kind, three backups with one trouble and two with two (three with two hold as well, 2.8 million states); three states of the questions, one below the training floor, two processes, versions up to 2, one fault. The three parts share no variable, so they share model values, and a permutation of those permutes all three |
| `restore_flag` | Restore | violation of `RejectedStaysClosed` | the same |
| `sms_cap` | SmsSend | violation of `SpendCap` | two workers, one request, budget 1 |

`CHECK_DEADLOCK FALSE` is set where the system comes to rest within the bounds: the edits,
jobs, backups, restores or messages that there may be have all been made. Ids (`Edit`,
`Invite`, `Session`, `Lead`, `Challenge`) are not reused, except leads of a deleted company; an
INSERT is disabled when they run out. Symmetry is used in runs that check safety only.

### Findings

1. `lead_two_owners`: two verifications of two leads of one company can both pass the
   WHERE of which the comment at `leads.py:1266` says only one can.
2. `search_index_stale`: an edit whose publication crosses another's may never reach one
   of the workers (`search.py:373`).
3. `ingest_unseen`: a card marked seen while it waits for the model is published by
   approve-seen with questions nobody has looked at (`ingest.py:1290`).
4. `restore_flag`: the maintenance flag is replaced by the dump's, so a database whose
   validation failed is open to visitors (`pg_backup.py:751`).
5. `sms_cap`: the budget of a day is exceeded by a worker whose settings cache still holds
   the counter from before another's sends (`sms.py:359`).

### Fairness

- `MCCircuit.MCFairSpec`, circuit: weak fairness of time, of every worker's own statements,
  and of `Allows` (requests keep coming). Handlers run to their end because each call has a
  timeout; a crashed worker is restarted by the supervisor (`Boot` is in `Work`).
  Nothing is assumed of `Reset`, `Crash` or `CalmChanges`.
- The same, outbox: time passes, some poll begins again and again (each worker has a loop), and
  some round goes on. `Close` needs strong fairness: a process may die between two
  statements, but not at every single attempt. No poll is promised to answer: the others
  may hang for ever.
- `SearchIndex.FairSpec`: weak fairness of each worker's threads and of its poll (a
  worker that answers queries polls). Nothing is assumed of commits, faults and
  crashes. A worker that never gets a query need not be fresh. `MCSearchIndex` assumes the same,
  and its slices hold up edits and faults only.
- `Ingest.Fairness`: as long as there is something to go on with (`GoOn`), something does: a live
  task, an unattended job's heartbeat that grows old, a visit of the list page (it sweeps and
  resumes), an administrator's request that has begun. It is one weak fairness of all of them
  together. Nothing is assumed of uploads, reviews, cancels, faults, or of heartbeats being on time.

## 4. Proofs

`CircuitProofs` (for every set of workers and every policy):

- `TypeCorrect`: `Spec => []TypeOK`; `RowTyping` says that every statement maps rows to
  rows.
- `RowAlwaysConsistent`: `Spec => []RowConsistent`. It is inductive with `TypeOK`: the
  increment and the trip share one transaction, so a count at the threshold never
  rests in a closed row.
- `AtMostOneProbe`: `Spec => []SingleProbe`, however long a call takes. `SingleProbe` alone is
  not inductive. `CallShape` says where a call in flight can be and that its age starts at the
  grant; `RowOutlastsProbes` says that the cooldown or lease left on a row outlasts every
  probe that is still within its time, so that whoever claims or re-claims finds none.
  `OneProbeInFlight` is what follows where calls are shorter than `Patience`: no second probe
  at all. The code does not provide that premise (2.1).
- `CircuitImplementsBreaker`: each statement is a step of `Breaker` or a stutter.
- `CounterIsWorth` (`CountsFailures`): what the history says of the counter. `CounterTrue`: while a
  window runs, the counter is the number of failures since it began, and those of before it were
  too few to trip; once it is over, all that are left are among those it counted. The sums over
  ages are those of `Newer`, and what is needed of them (`OneMoreNow`, `TickShifts`) is proved
  tick by tick, with sets in place of an induction theorem (`TickByTick`).

The outbox is in the same module (for any number of rounds at once):

- `FinalWordsStay` (`FinalUnlessCrossed`, an action property).
- A row that a round holds is queued, or another round has settled it since, and then the pair
  is in `crossed` (`HeldQueuedOrCrossed`); only a pair that is held is (`CrossedHolds`), so the
  excuse ends with the round.

`LeadsProofs`, ownership (for every set of companies, leads and handlers):

- `TypeCorrect`, `OneOwner` (`[]OneOwnerUnlessRaced`), `VerifiedOnce` (`[]ClaimedOnce`).
- The inductive invariant `IInv` adds to them: a row that a verification holds is
  still unverified (`HeldUnverified`) and held by one verification (`HeldOnce`); a lead
  that waits for its code has not won (`UnverifiedHasNotWon`); overlapping claims have
  been noted (`RacesNoted`); and what a claim that was alone looked for is still absent
  (`ClaimStands`), which is why its write makes the one owner. The lemmas `Beginning`,
  `Winning`, `Inserting` and `OwnersKept` say what each kind of statement does to these;
  `StepInvariant` has one step per action.

`LeadsProofs`, links (for any number of leads, invites, sessions, handlers and lifetimes):

- `LinksStayTrue` (`[]LinksTrue`): one live door per lead that nobody raced for, none once it
  is released, one session of an invite, one edit of a session, no session older than the link.
- `LinkIInv`: what a transaction has deleted or burned is still unused or open until its commit,
  and its alone (`DeletedStay`, `BurnedStay`); whoever is at the invites of a lead that nobody
  raced for is alone and has seen all there are (`AloneAtWork`), which is why its INSERT makes
  the only door; nobody is at the invites of a released lead (`ReleaseStands`).

`LeadsProofs`, review (for any finite number of edits and contacts, any number of reviewers):

- `ReviewHasDecided` (`[]ReviewDecides`).
- Where a text may have come from: what a row replaces, what a handler has read and what the
  company says are never a draft (`ReviewRowsTrue`, `OpsTrue`). That drafts are no more than the
  overlapping submissions is a pigeonhole: each draft has an owner, a different one, and a
  handler that is about to commit has seen its own (`OneDraftEach`).

`ChatProofs`, the route (for every route, policy and number of concurrent requests):

- `TypeCorrect`, and `RouteIsTrue` (`[]RouteTrue`): the calls of a request are justified, the
  usage row, where there is one, agrees with them, and no circuit opened without a cause.
- `RouteTrue` speaks of calls that have been made; `IInv` says what the locals of a request
  promise of the next one. Between two targets the last call ended in an error that another
  provider can cure, and all calls went to targets before position `at` (`Walking`); at a
  target the last call is to it and `attempt` counts the calls to it (`Calling`); a request
  that is done has the row its last call deserves, and one whose row was dropped none (`Settled`). `CountCovered` says that a
  closed circuit has counted no more failures than there were, which is why a trip has enough
  of them behind it. The lemmas about sequences of calls say what one call more, or a new end
  of the last one, does to each of these.

`ChatProofs`, the conversation (for any number of visitors, requests, registrations and
conversations, and every policy of the summary):

- `NobodyOverhears` (`[]NotOverheard`), `TheirsIsDefended` (`[]Defended`), `DeletedStaysGone`
  (`[]DeletedIsGone`), from `Heard`, which states them of Conversation's own specification.
- A row that is fresh has nothing of another sitting: its summary is of this one, and so is
  every message past the line up to which it was summarised (`FreshTrue`). That is also true of
  the row of a request that got past its look at it, and of the copy that a refresh folds from
  (`HearTrue`), so a paragraph that is written back is never somebody else's. A request that is
  sure of its visitor owns the row once there is one (`SureTrue`), and what a deleted person has
  under way is in `late` (`LateTrue`). The message ids that requests may still append are
  counted (`Awaited`), because an id is promised when a request arrives and taken later.

`ChatProofs`, the turns (for any number of records, any size of a page and of an offer, any
number of overlapping turns, questions, edits and faults):

- `PickIsMeant` (`[]PickIsWhatWasPrinted`), `PagesAreWhole` (`[]PagesWhole`), `YesOnce`
  (`[]ReplayedOnce`), from `Meant`.
- An offer stands (`Stands`: at least one name was shown, no more ids than are announced, and
  no more than are stored) and is sound: the screen agrees with it as far as nothing is in
  doubt, its shown names were printed, and its total is what can still come if it was just
  counted (`Sound`). The row is, and so is the offer that every turn under way read (`TurnTrue`),
  whatever was printed since. A question is in the row, or one request has read and not deleted
  it, as long as nobody has replayed it (`Unreplayed`).
- What `Kept` returns (it keeps the members, their order and a prefix, and is no longer) is
  proved without induction over data, from the recurrence at the least length at which it
  would fail. `TypesCorrect` (`[]TypesOK`) is about the three parts together.

`OtpProofs`, codes (for all handlers, challenges and limits):

- `TypeCorrect`, `AttemptsLimited` (`[]AttemptsBounded`), `ConsumedForGood`
  (`ConsumedStaysConsumed`, an action property).
- A check and its UPDATE are apart, so the counter alone is not bounded inductively. What is:
  the counter plus the handlers that are past the check (`AttemptsRoom`, `ResendsRoom`, by
  cardinalities). A code is accepted only for a row that is there (`AcceptedExists`).

`SmsSendProofs` (for any finite number of requests and campaigns, any number of workers, any
budget, audience and number of days), used by `OtpProofs` for the four slices of the run:

- `CapHolds` and `CampaignsHold`; `CapHeld` (`[]CapUnlessBlurred`) and `CampaignsHeld`
  (`[]CampaignsTrue`) state them of the run's specification.
- A message is booked before it goes out, so what is bounded by the counter is the billed ones
  with those that are booked and not sent; a day whose counter has not begun has neither
  (`DayHeld`). Until a read of the budget has failed, caches and threads hold the stored budget,
  and nothing goes out uncounted (`CapRead`). The text of a campaign that ran alone is its own in the table, in the cache of
  its worker and in what it has read (`OwnTrue`). The campaign's row lags behind its thread by
  one verdict at most, and that is all that a worker's death costs it (`ReportHeld`).

`SearchIndexProofs` (for any number of workers, edits and faults):

- `TypeCorrect`, `PublishedIsIndexed` (`[]PublishedMeansIndexed`), `AnswersOnlyGrow`
  (`NeverStepsBack`, the half of `CatchesUp` that is not liveness).
- A call is for content that was committed (`JobSound`); a load that could read every table has
  read at least what the index it replaces holds, and its own edit (`RunSound`). The latter
  holds because the lock lets one rebuild of a worker in, and an edit is committed before its
  call is queued.

`FilesProofs`, restores (for any number of visitors, restores, switches and faults):

- `TypeCorrect`, `NothingElseLost` (`[]OnlyStragglersLost`), `DoorsStayShut` (`[]StaysShut`).
- What a safety backup lacks of the database about to go was written late
  (`SafetyLacksTheLate`); a restore left in peace has the flag it set, or after the swap the
  dump's (`ShutIsFlagged`, `UnprovenAsDumped`), so a visitor who finds the doors open was let
  in by somebody else's switch or by the dump (`EnteredForCause`).

`FilesProofs`, the store (for any number of backups, threads and troubles, any number to keep):

- `RunsStayApart` (`[]RunsApart`), `PruneSpares` (`VerifiedSurvives`, an action property).
- No slot from the next run on was claimed (`SlotsAhead`); until a session is lost, whoever is
  inside a drill holds the lock, and the database is what it restored (`DrillAlone`,
  `DrillsOwn`); a folder is one run's until its manifest is there (`Dumping`). A verified
  scheduled backup is on a prune's list only beside a newer one that is not, unless the list was
  crossed (`Justified`); the greatest of those that stand is therefore spared.

`FilesProofs`, the model's record (for any questions, processes, versions, length of the
history and faults):

- `RecordStaysTrue` (`[]RecordTrue`); and `FilesTypeCorrect` (`[]TypesOK`), of all three parts.
- The lock is whose it is that is between the files (`HolderWrites`); a reindex has a model of
  the questions it read or none (`RunShape`), and the pair is written as far as it has come
  (`PairWritten`). A version is `Known` by whoever serves it, carries it or has it on file; none
  that is known will be given again, and none names two models, but for what was dropped
  (`VersionsPassed`, `OneNameEach`); a writer who could not read a file drops all that lie
  between the version it gives and the one it would have given.

`IngestProofs` (for any number of jobs, cards, administrators, reviews and faults):

- `TypeCorrect`, `OneCallAtATime` (`[]OneCallUnlessSwept`), `JobsAlwaysAgree` (`[]JobsAgree`)
  and `EditAlwaysWins` (`EditWins`, an action property).
- `ClaimsRight`: a task past its claim holds its job alone, one job has the slot of the model
  stage, and a task inside without the slot was swept. `CardsRight`: an approval that has
  claimed a card holds it alone until its commit (`InsertHolds`), a bulk approval stays in one
  job (`BulkOfOneJob`), and the text of two approvals that looked for a duplicate at once is
  in `raced` (`RacesKnown`). `FileIsFollowed` and `ReadyHasWork` are parts of `JobsAgree`; the
  first needs that whoever is about to remove a document gets there, dies or fails
  (`UnlinkersStay`, `SweepStays`, `CancelsStay`), the latter `UnbornIsOff`, that no task is on its way before there is an upload.
- There is a lemma for each part and group of actions: the background reader, the loop of the
  model stage, time (late heartbeats, sweeps, deaths) and the administrators. `MinIsMember` (a
  set of numbers has its least one in it) rests on the well-foundedness of <.

Every inductive invariant was first checked by TLC on the instance of its run. The assumptions
are the modules' own, and named there: limits and bounds are natural numbers; messages, challenges,
handlers of codes, senders, edits and their contacts, and the requests of a conversation are
finitely many;
`NoLead` is not a lead, and there is a company; a route names a target once, each with a provider
and at least one attempt; a document has a chunk; synonyms are among the edits; lifetimes, what a
prune keeps and the length of a history are at least one, a page at least two; who works in the
panel is no contact, a campaign is no request and a registration no request; and the values that stand for nobody and
nothing (`Anon`, `None`, `Absent`, `Seed`, `Retyped`) are none of the others.

What proof attempts have found. `CapUnlessBlurred` was once stated with an excuse that forgot the
days in between: with three days, a worker that still holds the first day's date books over
the counter of the third, and the second, which nobody had marked, starts afresh; TLC shows it
with three requests, and `blurred` has those days now. The list's total was the number of records
on the topic rather than of the names it matched, as `company_search.py` has it
(`total=len(matched)`): equal, but only as long as every record is matched once. And the types of
`Dialogue` allowed numbers on the screen that no page can print.

Model-checked only is liveness under fairness: both `Settles` (the circuit's `Recovers` is a part
of one) and `FreshUnlessDisturbed`. The provers do not handle ENABLED. Every invariant and every
action property of a passing run is a theorem, and so is the refinement of `Breaker`.

## 5. Plan

1. **Refinements** of further components: an abstract edit link (a lead has one door or none),
   as `Breaker` is of the circuit.
2. **Composition** of LeadOwnership and EditLink, for the release that crosses a
   verification.
3. **Pager** of `leads.py` under concurrent insertions, and the visitor's answers bag, once
   somebody says what they promise.
