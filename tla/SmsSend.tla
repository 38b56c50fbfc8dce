------------------------------- MODULE SmsSend -------------------------------
(***************************************************************************)
(* Sending through the gateway (src/app/services/sms.py), and the bulk     *)
(* campaigns that do it company by company (src/app/services/campaigns.py).*)
(* Both read settings rows, the campaign's text, the budget and the day's  *)
(* counter, through the cache each worker keeps (src/app/db/queries.py).   *)
(* A send counts itself by writing the counter it read one higher; under a *)
(* budget that reads as 0, no cap, it is not counted.                      *)
(***************************************************************************)
EXTENDS Integers, FiniteSets

CONSTANTS
  Worker,      \* processes, each with its own settings cache
  Request,     \* requests: a code or an invitation to send, or a look at the panel
  Looked,      \* the settings the panel is asked for: some of Keys
  Campaign,    \* campaigns; each has a text of its own
  Budget,      \* sms_daily_budget as stored; 0 is no cap
  EnvBudget,   \* what stands in for a row that is not found: SMS_DAILY_BUDGET, or the default 0
  Audience,    \* companies with a mobile number on file
  LastDay,     \* bound on days
  MaxTrouble,  \* bound on crashes and failed statements together
  MaxBilled    \* bound: no request sends on a day with this many messages

Task == Request \cup Campaign
Day == 0..LastDay

Keys == {"text", "budget", "count"}

\* What an instance of this module has to assume of its constants: the environment file mirrors
\* the stored budget (save_settings), or knows none.
SendAssumption ==
  /\ {Budget, Audience, LastDay, MaxTrouble, MaxBilled} \subseteq Nat
  /\ EnvBudget \in {0, Budget}
  /\ Request \cap Campaign = {} /\ IsFiniteSet(Task)
  /\ Looked \subseteq Keys

\* What a key without a row reads as, and a read that the database refused.
None == [text |-> "default", budget |-> EnvBudget, count |-> [day |-> -1, n |-> 0]]

VARIABLES
  stored,   \* the settings rows: the campaign whose text it is; the budget; the counter's day
            \* and number
  cache,    \* [Worker -> [Keys -> {} or {the value held}]]
  day,
  row,      \* [Campaign -> its sms_campaigns row]
  task,     \* [Task -> its thread]
  billed,   \* [Day -> messages the gateway accepted, by the day they were counted on]
  lifted,   \* [Day -> messages it accepted that were not counted, by the day they were begun]
  accepted, \* [Campaign -> messages of its that the gateway accepted]
  trouble,
  blurred,  \* ghost: days whose counter was written over by a booking that had not read it,
            \* or that had taken the date before midnight and read it after; and the days
            \* between the two
  uncapped, \* ghost: a read of the budget failed, and something else stood in for it
  mixed,    \* ghost: campaigns that ran beside another's launch, or beside an overtaken read
  wrong     \* ghost: campaigns that sent a text that is not their own

sends == <<billed, lifted>>
ghosts == <<blurred, uncapped, mixed, wrong>>
vars == <<stored, cache, day, row, task, sends, accepted, trouble, ghosts>>

Tally == [sent |-> 0, skipped |-> 0, failed |-> 0]
Idle == [pc |-> "idle", at |-> {}, look |-> FALSE, got |-> {}, today |-> 0, read |-> None,
         left |-> 0, tally |-> Tally, stop |-> FALSE]

Init ==
  /\ stored = [None EXCEPT !.budget = Budget]
  /\ cache = [w \in Worker |-> [k \in Keys |-> {}]]
  /\ day = 0 /\ trouble = 0
  /\ row = [c \in Campaign |-> [status |-> "none", tally |-> Tally]]
  /\ task = [t \in Task |-> Idle]
  /\ billed = [d \in Day |-> 0] /\ lifted = [d \in Day |-> 0]
  /\ accepted = [c \in Campaign |-> 0]
  /\ blurred = {} /\ uncapped = FALSE /\ mixed = {} /\ wrong = {}

Run(t, r) == task' = [task EXCEPT ![t] = r]
Live(t) == task[t].pc # "idle"

(* get_setting, through the cache *)

\* A miss: the SELECT, or a database error that reads as no row.
Select(t) ==
  LET k == task[t].pc IN
  /\ k \in Keys /\ task[t].got = {}
  /\ \A w \in task[t].at : cache[w][k] = {}
  /\ \/ Run(t, [task[t] EXCEPT !.got = {stored[k]}]) /\ UNCHANGED <<trouble, uncapped>>
     \/ /\ trouble < MaxTrouble /\ trouble' = trouble + 1
        /\ Run(t, [task[t] EXCEPT !.got = {None[k]}])
        /\ uncapped' = (uncapped \/ (k = "budget" /\ EnvBudget # Budget))
  /\ UNCHANGED <<stored, cache, day, row, sends, accepted, blurred, mixed, wrong>>

\* The message's text, then the budget, and the counter unless the budget says no cap; the date
\* is taken before the counter is read.  A look ends here.
AfterRead(r) ==
  IF r.look THEN Idle
  ELSE [r EXCEPT !.got = {},
                 !.pc = CASE @ = "text" -> "budget"
                          [] @ = "budget" -> IF r.read["budget"] = 0 THEN "send" ELSE "count"
                          [] @ = "count" -> "spend",
                 !.today = IF r.pc = "budget" THEN day ELSE @]

\* A hit, or what the SELECT found, which is put into the cache however old it is by now.
Take(t) ==
  LET k == task[t].pc IN
  /\ k \in Keys
  /\ \E w \in task[t].at : \E v \in IF task[t].got = {} THEN cache[w][k] ELSE task[t].got :
       /\ Run(t, AfterRead([task[t] EXCEPT !.read[k] = v]))
       /\ cache' = [cache EXCEPT ![w][k] = {v}]
       /\ mixed' = mixed \cup
            IF k = "text" /\ task[t].got # {} /\ v # stored["text"]
            THEN {c \in Campaign : task[c].at = {w} /\ task[c].pc \notin {"save", "pop"}}
            ELSE {}
  /\ UNCHANGED <<stored, day, row, sends, accepted, trouble, blurred, uncapped, wrong>>

\* SETTINGS_CACHE_TTL runs out.
Expire(w, k) ==
  /\ cache[w][k] # {}
  /\ cache' = [cache EXCEPT ![w][k] = {}]
  /\ UNCHANGED <<stored, day, row, task, sends, accepted, trouble, ghosts>>

\* For comparison: set_setting leaves the worker's own entry in place.
PopNothing(t) ==
  /\ task[t].pc \in {"pop", "popcount"}
  /\ Run(t, [task[t] EXCEPT !.pc = IF @ = "pop" THEN "company" ELSE "send"])
  /\ UNCHANGED <<stored, cache, day, row, sends, accepted, trouble, ghosts>>

\* The last step of set_setting, after its COMMIT.
Pop(t) ==
  /\ task[t].pc \in {"pop", "popcount"}
  /\ \E w \in task[t].at :
       cache' = [cache EXCEPT ![w][IF task[t].pc = "pop" THEN "text" ELSE "count"] = {}]
  /\ Run(t, [task[t] EXCEPT !.pc = IF @ = "pop" THEN "company" ELSE "send"])
  /\ UNCHANGED <<stored, day, row, sends, accepted, trouble, ghosts>>

(* One message *)

\* A request that sends reads the budget; the panel looks at any key.
Begin(t, w) ==
  /\ t \in Request /\ ~Live(t)
  /\ \/ /\ billed[day] + lifted[day] < MaxBilled
        /\ Run(t, [Idle EXCEPT !.at = {w}, !.pc = "budget"])
     \/ \E k \in Looked : Run(t, [Idle EXCEPT !.at = {w}, !.pc = k, !.look = TRUE])
  /\ UNCHANGED <<stored, cache, day, row, sends, accepted, trouble, ghosts>>

\* _budget_today: a counter of another day is zero.
Used(t) == IF task[t].read["count"].day = task[t].today THEN task[t].read["count"].n ELSE 0

\* For comparison: one message more than the budget.
SpentLate(t) == Used(t) > task[t].read["budget"]
Spent(t) == Used(t) >= task[t].read["budget"]

\* BUDGET_EXHAUSTED is the end of the request, and of the whole campaign.
Refuse(t) ==
  /\ task[t].pc = "spend" /\ Spent(t)
  /\ Run(t, IF t \in Campaign THEN [task[t] EXCEPT !.stop = TRUE, !.pc = "finish"] ELSE Idle)
  /\ UNCHANGED <<stored, cache, day, row, sends, accepted, trouble, ghosts>>

\* set_setting: INSERT OR REPLACE of the number read and one more, whatever the row says by now.
Book(t) ==
  /\ task[t].pc = "spend" /\ ~Spent(t)
  /\ stored' = [stored EXCEPT !["count"] = [day |-> task[t].today, n |-> Used(t) + 1]]
  /\ Run(t, [task[t] EXCEPT !.pc = "popcount", !.read["count"] = None["count"]])
  /\ blurred' = blurred \cup
       IF task[t].read["count"] = stored["count"] /\ stored["count"].day =< task[t].today THEN {}
       ELSE {d \in Day : \/ d \in {task[t].today, stored["count"].day}
                         \/ task[t].today < d /\ d < stored["count"].day}
  /\ UNCHANGED <<cache, day, row, sends, accepted, trouble, uncapped, mixed, wrong>>

\* What became of this company; the verdict reaches the row with the next _bump.
Counted(r, verdict) == [r EXCEPT !.tally[verdict] = @ + 1, !.pc = "bump",
                                  !.read = None, !.today = 0]

\* The gateway takes the message; its answer may be lost, and then the send has failed.
Deliver(t) ==
  /\ task[t].pc = "send"
  /\ IF task[t].read["budget"] = 0
     THEN lifted' = [lifted EXCEPT ![task[t].today] = @ + 1] /\ UNCHANGED billed
     ELSE billed' = [billed EXCEPT ![task[t].today] = @ + 1] /\ UNCHANGED lifted
  /\ IF t \in Campaign
     THEN /\ accepted' = [accepted EXCEPT ![t] = @ + 1]
          /\ wrong' = wrong \cup IF task[t].read["text"] = t THEN {} ELSE {t}
          /\ \E verdict \in {"sent", "failed"} : Run(t, Counted(task[t], verdict))
     ELSE Run(t, Idle) /\ UNCHANGED <<accepted, wrong>>
  /\ UNCHANGED <<stored, cache, day, row, trouble, blurred, uncapped, mixed>>

\* It does not: a failure of this message, or, refusing the link, of the campaign.
Reject(t) ==
  /\ task[t].pc = "send"
  /\ IF t \in Campaign
     THEN \/ Run(t, Counted(task[t], "failed"))
          \/ Run(t, [task[t] EXCEPT !.stop = TRUE, !.pc = "finish"])
     ELSE Run(t, Idle)
  /\ UNCHANGED <<stored, cache, day, row, sends, accepted, trouble, ghosts>>

(* campaigns.launch and campaigns.run *)

\* The campaign row; the text follows in a transaction of its own.
Launch(c, w) ==
  /\ row[c].status = "none"
  /\ row' = [row EXCEPT ![c].status = "running"]
  /\ Run(c, [Idle EXCEPT !.pc = "save", !.at = {w}])
  /\ UNCHANGED <<stored, cache, day, sends, accepted, trouble, ghosts>>

\* set_setting of the text; the background task then lists the companies.
SaveText(c) ==
  /\ task[c].pc = "save"
  /\ stored' = [stored EXCEPT !["text"] = c]
  /\ Run(c, [task[c] EXCEPT !.pc = "pop", !.left = Audience])
  /\ mixed' = mixed \cup {o \in Campaign \ {c} : Live(o)}
  /\ UNCHANGED <<cache, day, row, sends, accepted, trouble, blurred, uncapped, wrong>>

\* A company with a draft waiting is skipped, without a _bump.
Skip(c) ==
  /\ task[c].pc = "company" /\ task[c].left > 0
  /\ Run(c, [task[c] EXCEPT !.left = @ - 1, !.tally.skipped = @ + 1])
  /\ UNCHANGED <<stored, cache, day, row, sends, accepted, trouble, ghosts>>

\* The invite is made and its link is to be sent, or making it fails.
Invite(c) ==
  /\ task[c].pc = "company" /\ task[c].left > 0
  /\ \/ Run(c, [task[c] EXCEPT !.left = @ - 1, !.pc = "text"])
     \/ Run(c, Counted([task[c] EXCEPT !.left = @ - 1], "failed"))
  /\ UNCHANGED <<stored, cache, day, row, sends, accepted, trouble, ghosts>>

Bump(c) ==
  /\ task[c].pc = "bump"
  /\ row' = [row EXCEPT ![c].tally = task[c].tally]
  /\ Run(c, [task[c] EXCEPT !.pc = "company"])
  /\ UNCHANGED <<stored, cache, day, sends, accepted, trouble, ghosts>>

Finish(c) ==
  /\ \/ task[c].pc = "finish"
     \/ task[c].pc = "company" /\ task[c].left = 0
  /\ row' = [row EXCEPT ![c] = [status |-> IF task[c].stop THEN "stopped" ELSE "done",
                                tally |-> task[c].tally]]
  /\ Run(c, Idle)
  /\ UNCHANGED <<stored, cache, day, sends, accepted, trouble, ghosts>>

(* The world *)

Midnight ==
  /\ day < LastDay /\ day' = day + 1
  /\ UNCHANGED <<stored, cache, row, task, sends, accepted, trouble, ghosts>>

\* The database refuses a statement: a booking (set_setting raises) is a failure of its message,
\* what _bump, _finish, the launch or the next company meets is the end of the thread.
Fail(t) ==
  /\ trouble < MaxTrouble /\ trouble' = trouble + 1
  /\ \/ task[t].pc = "spend" /\ ~Spent(t)
     \/ task[t].pc \in {"save", "company", "bump", "finish"}
  /\ Run(t, IF t \in Campaign /\ task[t].pc = "spend" THEN Counted(task[t], "failed") ELSE Idle)
  /\ UNCHANGED <<stored, cache, day, row, sends, accepted, ghosts>>

\* The process dies with its cache and its threads; nothing takes a campaign up again.
Crash(w) ==
  /\ trouble < MaxTrouble /\ trouble' = trouble + 1
  /\ task' = [t \in Task |-> IF task[t].at = {w} THEN Idle ELSE task[t]]
  /\ cache' = [cache EXCEPT ![w] = [k \in Keys |-> {}]]
  /\ UNCHANGED <<stored, day, row, sends, accepted, ghosts>>

Message(t) == \/ Select(t) \/ Take(t) \/ Pop(t) \/ Refuse(t) \/ Book(t) \/ Fail(t)
              \/ Deliver(t) \/ Reject(t)
Drive(c) == SaveText(c) \/ Skip(c) \/ Invite(c) \/ Bump(c) \/ Finish(c)

Next ==
  \/ Midnight
  \/ \E w \in Worker : \/ Crash(w)
                       \/ \E k \in Keys : Expire(w, k)
                       \/ \E t \in Request : Begin(t, w)
                       \/ \E c \in Campaign : Launch(c, w)
  \/ \E t \in Task : Message(t)
  \/ \E c \in Campaign : Drive(c)

Spec == Init /\ [][Next]_vars

TypeOK ==
  /\ stored["text"] \in Campaign \cup {"default"}
  /\ stored["count"] \in [day : Day, n : Nat] \cup {None["count"]} /\ stored["budget"] = Budget
  /\ day \in Day /\ trouble \in 0..MaxTrouble
  /\ \A w \in Worker, k \in Keys : Cardinality(cache[w][k]) =< 1
  /\ \A c \in Campaign : row[c].status \in {"none", "running", "stopped", "done"}
  /\ \A t \in Task : /\ task[t].at \subseteq Worker
                     /\ task[t].left \in 0..Audience
                     /\ task[t].today \in 0..day
                     /\ Live(t) <=> task[t].at # {}
  /\ {billed, lifted} \subseteq [Day -> Nat] /\ accepted \in [Campaign -> 0..Audience]
  /\ uncapped \in BOOLEAN

\* The cap of a day holds over what is counted, and what is counted is in the counter
\* (_spend_budget: "counted BEFORE the request ... a crash between the count and the send cannot
\* leave a message unbilled"), unless a booking wrote over another counter than the one it had
\* read, or over midnight; and no message goes out uncounted unless a read of the budget failed.
CapUnlessBlurred ==
  Budget > 0 =>
    /\ \A d \in Day \ blurred :
         /\ billed[d] =< Budget
         /\ stored["count"].day = d => billed[d] =< stored["count"].n
    /\ \A d \in Day : lifted[d] > 0 => uncapped

\* A campaign texts its own words (launch: "the send path (which reads the setting) and the
\* audit row agree"), unless another was launched while it ran or a read was overtaken.
OwnText == wrong \subseteq mixed

Sum(t) == t.sent + t.skipped + t.failed

\* The report of a campaign tells what happened to its audience: nothing is counted as sent
\* that the gateway did not take, everything it took is on the row but for the one under
\* way, a done campaign has a verdict for each company, and one that ended has no thread.
ReportTrue ==
  \A c \in Campaign :
    LET r == row[c] IN
    /\ r.tally.sent =< accepted[c]
    /\ accepted[c] =< r.tally.sent + r.tally.failed + (IF r.status = "running" THEN 1 ELSE 0)
    /\ r.status = "done" => Sum(r.tally) = Audience
    /\ r.status = "stopped" => Sum(r.tally) < Audience
    /\ r.status \in {"done", "stopped"} => ~Live(c)
    /\ r.status = "running" => Live(c) \/ trouble > 0

\* What the setting is called, a cap on the messages of a day across every send path.
SpendCap == Budget > 0 => \A d \in Day : billed[d] + lifted[d] =< Budget
===============================================================================
