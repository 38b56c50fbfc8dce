---------------------------- MODULE SmsSendProofs ----------------------------
(***************************************************************************)
(* Theorems about SmsSend, for every budget, audience, number of days,     *)
(* workers, requests and campaigns: type correctness, the cap of a day,    *)
(* and that a campaign sends its own words and reports what happened.      *)
(***************************************************************************)
EXTENDS SmsSend, FiniteSetTheorems, TLAPS

-------------------------------------------------------------------------------
(* The inductive invariant.                                                  *)

Text == Campaign \cup {"default"}
Count == [day : Day \cup {-1}, n : Nat]
Caps == {0, Budget}
Settings == [text : Text, budget : Caps, count : Count]
Counts == [sent : Nat, skipped : Nat, failed : Nat]

ValueOf(k) == CASE k = "text" -> Text [] k = "budget" -> Caps [] OTHER -> Count
Value == Text \cup Caps \cup Count

\* What a request may be doing, and what only a campaign does.
Sending == {"idle", "text", "budget", "count", "spend", "popcount", "send"}
Running == {"save", "pop", "company", "bump", "finish"}

TaskRow == [pc : Sending \cup Running, at : SUBSET Worker, look : BOOLEAN,
            got : SUBSET Value, today : Day, read : Settings, left : 0..Audience,
            tally : Counts, stop : BOOLEAN]

\* A thread has the fields its place promises.
ThreadTrue(t, r) ==
  /\ r.today <= day
  /\ r.pc = "idle" => r = Idle
  /\ r.pc # "idle" => \E w \in Worker : r.at = {w}
  /\ r.pc \in Keys => r.got \subseteq ValueOf(r.pc)
  /\ r.pc \notin Keys => r.got = {}
  /\ t \notin Campaign => r.pc \in Sending
  /\ t \in Campaign => ~r.look
  /\ r.pc \in {"spend", "popcount"} \/ (r.pc = "count" /\ ~r.look) =>
       r.read.budget = Budget /\ Budget > 0

CacheTyped ==
  /\ cache \in [Worker -> [Keys -> SUBSET Value]]
  /\ \A w \in Worker, k \in Keys : cache[w][k] = {} \/ \E v \in ValueOf(k) : cache[w][k] = {v}

CampaignRow == [status : {"none", "running", "stopped", "done"}, tally : Counts]

\* A counter without a row reads as nothing; nobody stores another budget.
CountTrue == stored["budget"] = Budget /\ (stored["count"].day = -1 => stored["count"].n = 0)

Typed ==
  /\ stored \in Settings /\ CountTrue /\ CacheTyped
  /\ day \in Day /\ trouble \in 0..MaxTrouble
  /\ row \in [Campaign -> CampaignRow]
  /\ task \in [Task -> TaskRow] /\ \A t \in Task : ThreadTrue(t, task[t])
  /\ billed \in [Day -> Nat] /\ lifted \in [Day -> Nat]
  /\ accepted \in [Campaign -> 0..Audience]
  /\ blurred \in SUBSET Day /\ uncapped \in BOOLEAN

\* Messages that were counted and have not gone out.
Counting(r) == r.pc \in {"popcount", "send"} /\ r.read.budget # 0
Booked(d) == {t \in Task : Counting(task[t]) /\ task[t].today = d}

\* A message is booked before it goes out, and the counter of a day that nobody blurred has all
\* that were; a day whose counter has not begun has none.
DayHeld(d) ==
  /\ billed[d] + Cardinality(Booked(d)) <= Budget
  /\ stored["count"].day = d => billed[d] + Cardinality(Booked(d)) <= stored["count"].n
  /\ stored["count"].day < d => billed[d] + Cardinality(Booked(d)) = 0

BudgetHeld ==
  Budget > 0 => stored["count"].n <= Budget /\ \A d \in Day \ blurred : DayHeld(d)

\* Until a read of the budget fails, every cache and every thread that has a budget has the stored
\* one, and nothing goes out uncounted.
CapThread(r) == /\ r.pc = "budget" => r.got \subseteq {Budget}
                /\ r.pc = "send" => r.read.budget # 0
CapRead == Budget > 0 /\ uncapped = FALSE =>
             /\ \A w \in Worker : cache[w]["budget"] \subseteq {Budget}
             /\ \A t \in Task : CapThread(task[t])
             /\ \A d \in Day : lifted[d] = 0

\* While a campaign runs that nobody ran beside, its text is the one that is stored, cached and
\* read.
OwnTrue(c) ==
  Live(c) /\ task[c].pc # "save" =>
    /\ stored["text"] = c
    /\ task[c].pc # "pop" => \A w \in task[c].at : cache[w]["text"] \subseteq {c}
    /\ task[c].pc \in {"budget", "count", "spend", "popcount", "send"} =>
         task[c].read["text"] = c

TextsOwn == \A c \in Campaign \ mixed : OwnTrue(c)

\* A company that has been taken up and has no verdict yet.
UnderWay == {"text", "budget", "count", "spend", "popcount", "send", "finish"}

\* The row of a campaign lags behind its thread by one verdict at most, and the thread has a
\* verdict of each company it is through with.
ReportHeld(c) ==
  LET r == row[c]
      k == task[c]
  IN /\ r.tally.sent <= accepted[c]
     /\ accepted[c] <= r.tally.sent + r.tally.failed + (IF r.status = "running" THEN 1 ELSE 0)
     /\ r.status = "none" => r.tally = Tally
     /\ r.status = "done" => Sum(r.tally) = Audience
     /\ r.status = "stopped" => Sum(r.tally) < Audience
     /\ r.status = "running" => Live(c) \/ trouble > 0
     /\ Live(c) =>
          /\ r.status = "running"
          /\ k.tally.sent <= accepted[c] /\ accepted[c] <= k.tally.sent + k.tally.failed
          /\ k.pc # "bump" => k.tally.sent = r.tally.sent /\ k.tally.failed = r.tally.failed
          /\ k.pc = "bump" => /\ r.tally.sent <= k.tally.sent
                              /\ k.tally.sent + k.tally.failed = r.tally.sent + r.tally.failed + 1
          /\ k.pc = "save" => k.tally = Tally /\ k.left = 0
          /\ k.pc # "save" =>
               Sum(k.tally) + k.left + (IF k.pc \in UnderWay THEN 1 ELSE 0) = Audience
          /\ k.stop <=> k.pc = "finish"

IInv == /\ Typed /\ BudgetHeld /\ CapRead /\ TextsOwn /\ OwnText
        /\ \A c \in Campaign : ReportHeld(c)

-------------------------------------------------------------------------------
(* The fields of threads and rows.                                           *)

LEMMA TaskFields ==
  ASSUME Typed, NEW t \in Task
  PROVE  /\ task[t] \in TaskRow /\ ThreadTrue(t, task[t])
         /\ task[t].pc \in Sending \cup Running /\ task[t].at \in SUBSET Worker
         /\ task[t].look \in BOOLEAN /\ task[t].today \in Day /\ task[t].left \in 0..Audience
         /\ task[t].read \in Settings /\ task[t].read.text \in Text /\ task[t].read.count \in Count
         /\ task[t].read.budget \in Caps
         /\ task[t].read.count.n \in Nat /\ task[t].read.count.day \in Day \cup {-1}
         /\ task[t].tally \in Counts /\ task[t].tally.sent \in Nat
         /\ task[t].tally.skipped \in Nat /\ task[t].tally.failed \in Nat
         /\ task[t].stop \in BOOLEAN
<1>1. task[t] \in TaskRow /\ ThreadTrue(t, task[t])
  BY DEF Typed
<1>2. task[t].read \in Settings /\ task[t].tally \in Counts
  BY <1>1 DEF TaskRow
<1>3. /\ task[t].read.text \in Text /\ task[t].read.count \in Count
      /\ task[t].read.budget \in Caps
  BY <1>2 DEF Settings
<1> QED BY <1>1, <1>2, <1>3 DEF TaskRow, Counts, Count

LEMMA StoredFields ==
  ASSUME Typed
  PROVE  /\ stored.text \in Text /\ stored.count \in Count
         /\ stored.count.n \in Nat /\ stored.count.day \in Day \cup {-1}
         /\ stored.budget = Budget
<1>1. stored.text \in Text /\ stored.count \in Count /\ stored.budget = Budget
  BY DEF Typed, Settings, CountTrue
<1> QED BY <1>1 DEF Count

LEMMA NoneTyped ==
  ASSUME SendAssumption
  PROVE  /\ None \in Settings /\ None.text \in Text /\ None.count \in Count
         /\ None.count.n = 0 /\ None.count.day = -1
         /\ None.budget = EnvBudget /\ None.budget \in Caps
BY DEF None, Settings, Text, Count, Caps, SendAssumption

LEMMA TallyTyped == Tally \in Counts /\ Sum(Tally) = 0
  BY DEF Tally, Counts, Sum

LEMMA IdleTyped ==
  ASSUME SendAssumption
  PROVE  /\ Idle \in TaskRow /\ Idle.pc = "idle" /\ Idle.at = {} /\ Idle.got = {}
              /\ Idle.look = FALSE
         /\ Idle.today = 0 /\ Idle.read = None /\ Idle.left = 0 /\ Idle.tally = Tally
              /\ Idle.stop = FALSE
BY NoneTyped, TallyTyped DEF Idle, TaskRow, Sending, Day, SendAssumption

LEMMA RowFields ==
  ASSUME Typed, NEW c \in Campaign
  PROVE  /\ row[c] \in CampaignRow /\ row[c].status \in {"none", "running", "stopped", "done"}
         /\ row[c].tally \in Counts /\ row[c].tally.sent \in Nat /\ row[c].tally.skipped \in Nat
         /\ row[c].tally.failed \in Nat /\ accepted[c] \in 0..Audience /\ accepted[c] \in Nat
         /\ c \in Task
<1>1. row[c] \in CampaignRow /\ c \in Task /\ accepted[c] \in 0..Audience
  BY DEF Typed, Task
<1>2. row[c].tally \in Counts
  BY <1>1 DEF CampaignRow
<1> QED BY <1>1, <1>2 DEF CampaignRow, Counts

LEMMA Numbers ==
  ASSUME SendAssumption
  PROVE  /\ Budget \in Nat /\ Audience \in Nat /\ LastDay \in Nat /\ MaxTrouble \in Nat
         /\ Day \subseteq Nat /\ 0 \in Day /\ IsFiniteSet(Task)
         /\ \A t \in Request : t \notin Campaign
BY DEF SendAssumption, Day, Task

-------------------------------------------------------------------------------
(* A step of one thread, part by part of the invariant.                      *)

LEMMA RunIs ==
  ASSUME Typed, NEW t \in Task, NEW r \in TaskRow, Run(t, r)
  PROVE  /\ task'[t] = r /\ \A u \in Task \ {t} : task'[u] = task[u]
         /\ task' \in [Task -> TaskRow]
BY DEF Run, Typed

LEMMA TypedStep ==
  ASSUME Typed, NEW t \in Task, NEW r \in TaskRow, Run(t, r), ThreadTrue(t, r), day' = day,
         stored' \in Settings, CountTrue', CacheTyped', trouble' \in 0..MaxTrouble,
         row' \in [Campaign -> CampaignRow], billed' \in [Day -> Nat], lifted' \in [Day -> Nat],
         accepted' \in [Campaign -> 0..Audience], blurred' \in SUBSET Day, uncapped' \in BOOLEAN
  PROVE  Typed'
<1>1. \A u \in Task : ThreadTrue(u, task[u])
  BY DEF Typed
<1>2. \A u \in Task : ThreadTrue(u, task'[u])
  BY <1>1, RunIs
<1>3. \A u \in Task : ThreadTrue(u, task[u])'
  BY <1>2 DEF ThreadTrue
<1> QED BY <1>3, RunIs DEF Typed

\* The books, when nothing is counted or sent and nothing more is booked.
LEMMA BudgetRest ==
  ASSUME SendAssumption, Typed, BudgetHeld, stored'.count = stored.count, billed' = billed,
         blurred' = blurred, Budget > 0 => \A d \in Day : Booked(d)' \subseteq Booked(d)
  PROVE  BudgetHeld'
<1> SUFFICES ASSUME Budget > 0, NEW d \in Day \ blurred
             PROVE  DayHeld(d)' /\ stored'.count.n <= Budget
  BY DEF BudgetHeld
<1>1. DayHeld(d) /\ stored.count.n <= Budget
  BY DEF BudgetHeld
<1>2. Booked(d) \subseteq Task /\ IsFiniteSet(Task)
  BY Numbers DEF Booked
<1>3. IsFiniteSet(Booked(d)) /\ Booked(d)' \subseteq Booked(d)
  BY <1>2, FS_Subset
<1>4. /\ Cardinality(Booked(d)') <= Cardinality(Booked(d))
      /\ Cardinality(Booked(d)) \in Nat /\ Cardinality(Booked(d)') \in Nat
  BY <1>3, FS_Subset, FS_CardinalityType
<1>5. billed[d] \in Nat /\ Budget \in Nat /\ stored.count.n \in Nat
  BY Numbers, StoredFields DEF Typed
<1>6. DayHeld(d)'
  BY <1>1, <1>4, <1>5 DEF DayHeld
<1> QED BY <1>1, <1>6

LEMMA BookedRest ==
  ASSUME Typed, NEW t \in Task, NEW r \in TaskRow, Run(t, r),
         Counting(r) => Counting(task[t]) /\ r.today = task[t].today
  PROVE  \A d \in Day : Booked(d)' \subseteq Booked(d)
BY RunIs DEF Booked

\* The budget that is read, when no cache gets another and no uncounted message goes out.
LEMMA CapRests ==
  ASSUME Typed, CapRead, NEW t \in Task, NEW r \in TaskRow, Run(t, r), lifted' = lifted,
         uncapped' = FALSE => uncapped = FALSE,
         Budget > 0 /\ uncapped' = FALSE => CapThread(r),
         Budget > 0 /\ uncapped' = FALSE =>
           \A w \in Worker : cache'[w]["budget"] \subseteq {Budget}
  PROVE  CapRead'
<1> SUFFICES ASSUME Budget > 0, uncapped' = FALSE
             PROVE  /\ \A w \in Worker : cache'[w]["budget"] \subseteq {Budget}
                    /\ \A u \in Task : CapThread(task'[u])
                    /\ \A d \in Day : lifted'[d] = 0
  BY DEF CapRead, CapThread
<1>1. /\ \A u \in Task : CapThread(task[u])
      /\ \A d \in Day : lifted[d] = 0
  BY DEF CapRead
<1> QED BY <1>1, RunIs

\* The texts, when nobody stores one and no cache gets another.
LEMMA TextsRest ==
  ASSUME TextsOwn, NEW t \in Task, stored'.text = stored.text, mixed \subseteq mixed',
         \A c \in Campaign \ {t} : task'[c] = task[c],
         \A c \in Campaign \ mixed', w \in Worker : c # t =>
           (task[c].at = {w} /\ task[c].pc \notin {"save", "pop"} /\ cache[w]["text"] \subseteq {c} 
              /\ stored.text = c
              => cache'[w]["text"] \subseteq {c}),
         \A c \in Campaign : Live(c) => \E w \in Worker : task[c].at = {w},
         t \in Campaign \ mixed' => OwnTrue(t)'
  PROVE  TextsOwn'
<1> SUFFICES ASSUME NEW c \in Campaign \ mixed', c # t PROVE OwnTrue(c)'
  BY DEF TextsOwn
<1>1. OwnTrue(c) /\ task'[c] = task[c]
  BY DEF TextsOwn
<1>2. Live(c) => \E w \in Worker : task[c].at = {w}
  OBVIOUS
<1> QED BY <1>1, <1>2 DEF OwnTrue, Live

\* The reports of the others.
LEMMA ReportsRest ==
  ASSUME SendAssumption, Typed, \A c \in Campaign : ReportHeld(c), NEW t \in Task,
         \A c \in Campaign \ {t} :
           /\ task'[c] = task[c] /\ row'[c] = row[c] /\ accepted'[c] = accepted[c],
         trouble' \in Nat, trouble <= trouble'
  PROVE  \A c \in Campaign \ {t} : ReportHeld(c)'
<1> SUFFICES ASSUME NEW c \in Campaign \ {t} PROVE ReportHeld(c)'
  OBVIOUS
<1>1. trouble \in Nat
  BY Numbers DEF Typed
<1> QED BY <1>1 DEF ReportHeld, Live

\* A step of one thread that touches nothing but itself.
LEMMA QuietKeeps ==
  ASSUME SendAssumption, IInv, NEW t \in Task, NEW r \in TaskRow, Run(t, r), ThreadTrue(t, r),
         UNCHANGED <<stored, cache, day, row, billed, lifted, accepted, blurred, mixed, wrong>>,
         trouble' \in 0..MaxTrouble, trouble <= trouble',
         uncapped' \in BOOLEAN, uncapped' = FALSE => uncapped = FALSE,
         Counting(r) => Counting(task[t]) /\ r.today = task[t].today,
         Budget > 0 /\ uncapped' = FALSE => CapThread(r),
         t \in Campaign \ mixed => OwnTrue(t)',
         t \in Campaign => ReportHeld(t)'
  PROVE  IInv'
<1>1. Typed /\ trouble' \in Nat
  BY Numbers DEF IInv
<1>2. task'[t] = r /\ \A u \in Task \ {t} : task'[u] = task[u]
  BY <1>1, RunIs
<1>3. Typed'
  <2>1. CacheTyped'
    BY DEF IInv, Typed, CacheTyped
  <2> QED BY <1>1, <2>1, TypedStep DEF Typed, CountTrue
<1>4. BudgetHeld'
  <2>1. Budget > 0 => \A d \in Day : Booked(d)' \subseteq Booked(d)
    BY <1>1, BookedRest
  <2> QED BY <1>1, <2>1, BudgetRest DEF IInv
<1>5. TextsOwn'
  <2>1. \A c \in Campaign : Live(c) => \E w \in Worker : task[c].at = {w}
    BY <1>1, TaskFields, RowFields DEF Live, ThreadTrue
  <2> QED BY <1>2, <2>1, TextsRest DEF IInv, Task
<1>6. \A c \in Campaign : ReportHeld(c)'
  <2>1. \A c \in Campaign \ {t} : ReportHeld(c)'
    BY <1>1, <1>2, ReportsRest DEF IInv, Task
  <2> QED BY <2>1
<1>7. OwnText'
  BY DEF IInv, OwnText
<1>8. CapRead'
  <2>1. Budget > 0 /\ uncapped' = FALSE =>
          \A w \in Worker : cache'[w]["budget"] \subseteq {Budget}
    BY DEF IInv, CapRead
  <2> QED BY <1>1, <2>1, CapRests DEF IInv
<1> QED BY <1>3, <1>4, <1>5, <1>6, <1>7, <1>8 DEF IInv

LEMMA BeginKeeps ==
  ASSUME SendAssumption, IInv, NEW t \in Request, NEW w \in Worker, Begin(t, w)
  PROVE  IInv'
<1>0. Typed /\ t \in Task /\ t \notin Campaign /\ task[t].pc = "idle" /\ day \in Day
  BY Numbers DEF IInv, Typed, Begin, Live, Task
<1>1. Typed /\ t \in Task /\ t \notin Campaign /\ task[t].pc = "idle" /\ 0 <= day
  BY <1>0, Numbers
<1>2. PICK r, k : /\ Run(t, r) /\ k \in Keys
                  /\ \/ k = "budget" /\ r = [Idle EXCEPT !.at = {w}, !.pc = "budget"]
                     \/ r = [Idle EXCEPT !.at = {w}, !.pc = k, !.look = TRUE]
  BY DEF Begin, SendAssumption, Keys
<1>3. /\ r \in TaskRow /\ r.at = {w} /\ r.got = {} /\ r.today = 0 /\ r.pc = k
      /\ r.look = TRUE \/ k = "budget"
  <2>1. k \in Sending
    BY <1>2 DEF Keys, Sending
  <2>2. CASE k = "budget" /\ r = [Idle EXCEPT !.at = {w}, !.pc = "budget"]
    BY <2>1, <2>2, IdleTyped DEF TaskRow
  <2>3. CASE r = [Idle EXCEPT !.at = {w}, !.pc = k, !.look = TRUE]
    BY <2>1, <2>3, IdleTyped DEF TaskRow
  <2> QED BY <1>2, <2>2, <2>3
<1>4. ThreadTrue(t, r)
  BY <1>1, <1>2, <1>3 DEF ThreadTrue, Sending, Keys
<1>5. /\ UNCHANGED <<stored, cache, day, row, billed, lifted, accepted, blurred, mixed, wrong>>
      /\ UNCHANGED <<trouble, uncapped>>
  BY DEF Begin, ghosts, sends
<1>6. trouble \in 0..MaxTrouble /\ trouble <= trouble /\ uncapped \in BOOLEAN
  BY <1>1, Numbers DEF Typed
<1>7. ~Counting(r) /\ CapThread(r)
  BY <1>2, <1>3 DEF Keys, Counting, CapThread
<1> QED BY <1>1, <1>2, <1>3, <1>4, <1>5, <1>6, <1>7, QuietKeeps

\* A look at a setting that goes on where it was.
LEMMA SelectKeeps ==
  ASSUME SendAssumption, IInv, NEW t \in Task, Select(t)
  PROVE  IInv'
<1>1. Typed /\ task[t].pc \in Keys
  BY DEF IInv, Select
<1>2. PICK v, r : /\ r = [task[t] EXCEPT !.got = {v}] /\ Run(t, r)
                  /\ \/ v = stored[task[t].pc] /\ uncapped' = uncapped
                     \/ /\ v = None[task[t].pc]
                        /\ uncapped' = (uncapped \/ (task[t].pc = "budget" /\ EnvBudget # Budget))
  BY DEF Select
<1>3. stored[task[t].pc] \in ValueOf(task[t].pc) /\ None[task[t].pc] \in ValueOf(task[t].pc)
  BY <1>1, StoredFields, NoneTyped DEF Keys, ValueOf, Caps
<1>4. v \in ValueOf(task[t].pc) /\ v \in Value
  BY <1>1, <1>2, <1>3 DEF Keys, ValueOf, Value
<1>5. /\ r \in TaskRow /\ r.got = {v} /\ r.pc = task[t].pc /\ r.at = task[t].at
      /\ r.today = task[t].today /\ r.look = task[t].look /\ r.read = task[t].read
      /\ r.tally = task[t].tally /\ r.left = task[t].left /\ r.stop = task[t].stop
  BY <1>1, <1>2, <1>4, TaskFields DEF TaskRow
<1>6. ThreadTrue(t, r)
  BY <1>1, <1>4, <1>5, TaskFields DEF ThreadTrue, Keys
<1>7. UNCHANGED <<stored, cache, day, row, billed, lifted, accepted, blurred, mixed, wrong>>
  BY DEF Select, ghosts, sends
<1>8. trouble' \in 0..MaxTrouble /\ trouble <= trouble' /\ trouble' \in Nat /\ trouble \in Nat
  BY <1>1, Numbers DEF Typed, Select
<1>9. task'[t] = r
  BY <1>1, <1>2, <1>5, RunIs
<1>10. t \in Campaign \ mixed => OwnTrue(t)'
  BY <1>5, <1>7, <1>9 DEF IInv, TextsOwn, OwnTrue, Live
<1>11. t \in Campaign => ReportHeld(t)'
  BY <1>1, <1>5, <1>7, <1>8, <1>9 DEF IInv, ReportHeld, Live
\* A failed read of the budget may stand for no cap.
<1>12. /\ uncapped' \in BOOLEAN /\ (uncapped' = FALSE => uncapped = FALSE)
       /\ task[t].pc = "budget" /\ uncapped' = FALSE => v = Budget
  <2>1. uncapped \in BOOLEAN /\ stored["budget"] = Budget /\ None["budget"] = EnvBudget
    BY <1>1, StoredFields, NoneTyped DEF Typed
  <2>2. \/ v = stored[task[t].pc] /\ uncapped' = uncapped
        \/ /\ v = None[task[t].pc]
           /\ uncapped' = (uncapped \/ (task[t].pc = "budget" /\ EnvBudget # Budget))
    BY <1>2
  <2> QED BY <2>1, <2>2
<1>13. ~Counting(r) /\ (uncapped' = FALSE => CapThread(r))
  BY <1>1, <1>5, <1>12 DEF Counting, CapThread, Keys
<1> QED BY <1>1, <1>2, <1>5, <1>6, <1>7, <1>8, <1>10, <1>11, <1>12, <1>13, QuietKeeps

LEMMA RefuseKeeps ==
  ASSUME SendAssumption, IInv, NEW t \in Task, Refuse(t)
  PROVE  IInv'
<1>1. Typed /\ task[t].pc = "spend"
  BY DEF IInv, Refuse
<1>2. PICK r : /\ Run(t, r)
               /\ r = IF t \in Campaign THEN [task[t] EXCEPT !.stop = TRUE, !.pc = "finish"]
                      ELSE Idle
  BY DEF Refuse
<1>3. UNCHANGED <<stored, cache, day, row, billed, lifted, accepted, trouble,
                  blurred, uncapped, mixed, wrong>>
  BY DEF Refuse, ghosts, sends
<1>4. trouble \in 0..MaxTrouble /\ trouble <= trouble /\ trouble \in Nat
           /\ uncapped \in BOOLEAN
  BY <1>1, Numbers DEF Typed
<1>5. CASE t \notin Campaign
  <2>1. r = Idle
    BY <1>2, <1>5
  <2>2. r \in TaskRow /\ r.pc = "idle" /\ ThreadTrue(t, r)
    BY <1>1, <1>5, <2>1, IdleTyped, Numbers DEF ThreadTrue, Sending, Keys, Typed
  <2>3. ~Counting(r) /\ CapThread(r)
    BY <2>2 DEF Counting, CapThread
  <2> QED BY <1>1, <1>2, <1>3, <1>4, <1>5, <2>2, <2>3, QuietKeeps
<1>6. CASE t \in Campaign
  <2>1. /\ r \in TaskRow /\ r.pc = "finish" /\ r.stop = TRUE /\ r.at = task[t].at
        /\ r.today = task[t].today /\ r.look = task[t].look /\ r.got = task[t].got
        /\ r.tally = task[t].tally /\ r.left = task[t].left
    BY <1>1, <1>2, <1>6, TaskFields DEF TaskRow, Running
  <2>2. ThreadTrue(t, r)
    BY <1>1, <1>6, <2>1, TaskFields DEF ThreadTrue, Keys
  <2>3. task'[t] = r
    BY <1>1, <1>2, <2>1, RunIs
  <2>4. t \in Campaign \ mixed => OwnTrue(t)'
    BY <1>1, <1>3, <2>1, <2>3 DEF IInv, TextsOwn, OwnTrue, Live
  <2>5. ReportHeld(t)'
    BY <1>1, <1>3, <1>4, <1>6, <2>1, <2>3 DEF IInv, ReportHeld, Live, UnderWay
  <2>6. ~Counting(r) /\ CapThread(r)
    BY <2>1 DEF Counting, CapThread
  <2> QED BY <1>1, <1>2, <1>3, <1>4, <2>1, <2>2, <2>4, <2>5, <2>6, QuietKeeps
<1> QED BY <1>5, <1>6

-------------------------------------------------------------------------------
(* The cache.                                                                *)

\* What a read leaves of a thread: it ends, or has what it read and goes on to the next one, to
\* spend, or to send uncounted.
LEMMA AfterReadIs ==
  ASSUME SendAssumption, Typed, NEW t \in Task, task[t].pc \in Keys, NEW v \in ValueOf(task[t].pc),
         NEW r, r = AfterRead([task[t] EXCEPT !.read[task[t].pc] = v])
  PROVE  /\ r \in TaskRow /\ ThreadTrue(t, r)
         /\ \/ r = Idle /\ t \notin Campaign
            \/ /\ r.at = task[t].at /\ r.tally = task[t].tally /\ r.left = task[t].left
               /\ r.stop = task[t].stop /\ r.got = {}
               /\ task[t].pc # "text" => r.read.text = task[t].read.text
               /\ \/ task[t].pc = "text" /\ r.pc = "budget" /\ r.read.text = v
                  \/ /\ task[t].pc = "budget" /\ r.read.budget = v
                     /\ r.pc = IF v = 0 THEN "send" ELSE "count"
                  \/ task[t].pc = "count" /\ r.pc = "spend"
<1>0. PICK k \in Keys : task[t].pc = k
  OBVIOUS
<1>1. PICK q : q = [task[t] EXCEPT !.read[k] = v]
  OBVIOUS
<1>2. [task[t].read EXCEPT ![k] = v] \in Settings
  BY <1>0, TaskFields DEF Settings, ValueOf, Keys
<1>3. /\ q \in TaskRow /\ q.pc = k /\ q.at = task[t].at /\ q.tally = task[t].tally
      /\ q.left = task[t].left /\ q.stop = task[t].stop /\ q.look = task[t].look
      /\ q.today = task[t].today /\ q.read = [task[t].read EXCEPT ![k] = v]
  BY <1>0, <1>1, <1>2, TaskFields DEF TaskRow
<1>4. /\ k = "text" => q.read.text = v
      /\ k # "text" => q.read.text = task[t].read.text
      /\ k = "budget" => q.read.budget = v
      /\ k # "budget" => q.read.budget = task[t].read.budget
  BY <1>3, TaskFields DEF Settings, Keys
<1>5. r = AfterRead(q)
  BY <1>0, <1>1
<1>6. ThreadTrue(t, task[t]) /\ day \in Day /\ 0 <= day /\ day <= day
  BY TaskFields, Numbers DEF Typed
<1>7. CASE q.look
  <2>1. r = Idle /\ t \notin Campaign
    BY <1>3, <1>5, <1>6, <1>7 DEF AfterRead, ThreadTrue
  <2>2. r \in TaskRow /\ ThreadTrue(t, r)
    BY <1>6, <2>1, IdleTyped DEF ThreadTrue, Sending, Keys
  <2> QED BY <2>1, <2>2
<1>8. CASE ~q.look
  <2>1. PICK p : p = CASE k = "text" -> "budget"
                       [] k = "budget" -> IF q.read.budget = 0 THEN "send" ELSE "count"
                       [] k = "count" -> "spend"
    OBVIOUS
  <2>2. PICK d : d = IF k = "budget" THEN day ELSE q.today
    OBVIOUS
  <2>3. r = [q EXCEPT !.got = {}, !.pc = p, !.today = d]
    BY <1>3, <1>5, <1>8, <2>1, <2>2 DEF AfterRead, TaskRow
  <2>4. p \in Sending /\ p # "idle" /\ p \notin {"text", "popcount"} /\ d \in Day /\ d <= day
    BY <1>3, <1>6, <2>1, <2>2, TaskFields DEF Sending, Keys, ThreadTrue
  <2>5. /\ r \in TaskRow /\ r.at = q.at /\ r.tally = q.tally /\ r.left = q.left /\ r.stop = q.stop
        /\ r.look = q.look /\ r.today = d /\ r.read = q.read /\ r.got = {} /\ r.pc = p
    BY <1>3, <2>3, <2>4 DEF TaskRow
\* What is counted has read the budget, and it was no cap of 0.
  <2>6. p \in {"spend", "count"} => r.read.budget = Budget /\ Budget > 0
    <3>1. CASE k = "budget" /\ p = "count"
      <4>1. v \in Caps /\ q.read.budget = v /\ v # 0
        BY <1>0, <1>4, <2>1, <3>1 DEF ValueOf
      <4>2. Budget \in Nat
        BY Numbers
      <4> QED BY <2>5, <4>1, <4>2 DEF Caps
    <3>2. CASE k = "count"
      <4>1. task[t].read.budget = Budget /\ Budget > 0
        BY <1>0, <1>3, <1>6, <1>8, <3>2, TaskFields DEF ThreadTrue
      <4> QED BY <1>4, <2>5, <3>2, <4>1
    <3> QED BY <2>1, <3>1, <3>2 DEF Keys
  <2>7. ThreadTrue(t, r)
    BY <1>0, <1>3, <1>6, <2>4, <2>5, <2>6 DEF ThreadTrue, Keys
  <2>8. /\ task[t].pc # "text" => r.read.text = task[t].read.text
        /\ \/ task[t].pc = "text" /\ r.pc = "budget" /\ r.read.text = v
           \/ /\ task[t].pc = "budget" /\ r.read.budget = v
              /\ r.pc = IF v = 0 THEN "send" ELSE "count"
           \/ task[t].pc = "count" /\ r.pc = "spend"
    BY <1>0, <1>4, <2>1, <2>5 DEF Keys
  <2> QED BY <1>3, <2>5, <2>7, <2>8
<1> QED BY <1>7, <1>8

\* One entry of a cache that gets a value, or loses it.
Put(w, k, S) == cache' = [cache EXCEPT ![w][k] = S]

LEMMA CachePut ==
  ASSUME Typed, NEW w \in Worker, NEW k \in Keys, NEW S,
         S = {} \/ \E v \in ValueOf(k) : S = {v}, Put(w, k, S)
  PROVE  /\ CacheTyped' /\ cache'[w][k] = S
         /\ \A x \in Worker, j \in Keys : x # w \/ j # k => cache'[x][j] = cache[x][j]
<1>1. S \in SUBSET Value
  BY DEF ValueOf, Value, Keys
<1>2. \A x \in Worker, j \in Keys : cache'[x][j] = IF x = w /\ j = k THEN S ELSE cache[x][j]
  BY DEF Put, Typed, CacheTyped
<1>3. cache' \in [Worker -> [Keys -> SUBSET Value]]
  BY <1>1 DEF Put, Typed, CacheTyped
<1>4. ASSUME NEW x \in Worker, NEW j \in Keys
      PROVE  cache'[x][j] = {} \/ \E v \in ValueOf(j) : cache'[x][j] = {v}
  <2>1. CASE x = w /\ j = k
    BY <1>2, <2>1
  <2>2. CASE ~(x = w /\ j = k)
    <3>1. cache'[x][j] = cache[x][j]
      BY <1>2, <2>2
    <3> QED BY <3>1 DEF Typed, CacheTyped
  <2> QED BY <2>1, <2>2
<1> QED BY <1>2, <1>3, <1>4 DEF CacheTyped

LEMMA TakeKeeps ==
  ASSUME SendAssumption, IInv, NEW t \in Task, Take(t)
  PROVE  IInv'
<1>0. Typed /\ trouble \in Nat /\ trouble <= trouble
  BY Numbers DEF IInv, Typed
<1>1. PICK k \in Keys : task[t].pc = k
  BY DEF Take
<1>a. PICK w \in task[t].at : \E v \in IF task[t].got = {} THEN cache[w][k] ELSE task[t].got :
        /\ Run(t, AfterRead([task[t] EXCEPT !.read[k] = v]))
        /\ cache' = [cache EXCEPT ![w][k] = {v}]
        /\ mixed' = mixed \cup
             IF k = "text" /\ task[t].got # {} /\ v # stored["text"]
             THEN {c \in Campaign : task[c].at = {w} /\ task[c].pc \notin {"save", "pop"}}
             ELSE {}
  BY <1>1 DEF Take
<1>2. PICK v \in IF task[t].got = {} THEN cache[w][k] ELSE task[t].got :
        /\ Run(t, AfterRead([task[t] EXCEPT !.read[k] = v]))
        /\ cache' = [cache EXCEPT ![w][k] = {v}]
        /\ mixed' = mixed \cup
             IF k = "text" /\ task[t].got # {} /\ v # stored["text"]
             THEN {c \in Campaign : task[c].at = {w} /\ task[c].pc \notin {"save", "pop"}}
             ELSE {}
  BY <1>a
<1>3. w \in Worker /\ task[t].at = {w}
  BY <1>0, <1>1, <1>2, TaskFields DEF ThreadTrue, Keys
<1>4. v \in ValueOf(k)
  <2>1. task[t].got \subseteq ValueOf(k)
    BY <1>0, <1>1, TaskFields DEF ThreadTrue
  <2>2. cache[w][k] \subseteq ValueOf(k)
    BY <1>0, <1>3 DEF Typed, CacheTyped
  <2> QED BY <1>2, <2>1, <2>2
<1>5. PICK r : r = AfterRead([task[t] EXCEPT !.read[k] = v])
  OBVIOUS
<1>6. /\ r \in TaskRow /\ ThreadTrue(t, r)
      /\ \/ r = Idle /\ t \notin Campaign
         \/ /\ r.at = task[t].at /\ r.tally = task[t].tally /\ r.left = task[t].left
            /\ r.stop = task[t].stop /\ r.got = {}
            /\ task[t].pc # "text" => r.read.text = task[t].read.text
            /\ \/ task[t].pc = "text" /\ r.pc = "budget" /\ r.read.text = v
               \/ /\ task[t].pc = "budget" /\ r.read.budget = v
                  /\ r.pc = IF v = 0 THEN "send" ELSE "count"
               \/ task[t].pc = "count" /\ r.pc = "spend"
  BY <1>0, <1>1, <1>4, <1>5, AfterReadIs
<1>7. Run(t, r)
  BY <1>2, <1>5
<1>8. task'[t] = r /\ \A u \in Task \ {t} : task'[u] = task[u]
  BY <1>0, <1>6, <1>7, RunIs
<1>9. UNCHANGED <<stored, day, row, billed, lifted, accepted, trouble, blurred, uncapped, wrong>>
  BY DEF Take, sends
<1>10. /\ CacheTyped' /\ cache'[w][k] = {v}
       /\ \A x \in Worker, j \in Keys : x # w \/ j # k => cache'[x][j] = cache[x][j]
  <2>1. PICK S : S = {v}
    OBVIOUS
  <2>2. Put(w, k, S)
    BY <1>2, <2>1 DEF Put
  <2>3. S = {} \/ \E u \in ValueOf(k) : S = {u}
    BY <1>4, <2>1
  <2> QED BY <1>0, <1>3, <2>1, <2>2, <2>3, CachePut
<1>11. Typed'
  BY <1>0, <1>6, <1>7, <1>9, <1>10, TypedStep DEF Typed, CountTrue
<1>12. BudgetHeld'
  <2>1. ~Counting(r)
    BY <1>6, IdleTyped DEF Counting
  <2>2. Budget > 0 => \A d \in Day : Booked(d)' \subseteq Booked(d)
    BY <1>0, <1>6, <1>7, <2>1, BookedRest
  <2> QED BY <1>0, <1>9, <2>2, BudgetRest DEF IInv
<1>13. mixed \subseteq mixed'
  BY <1>2
\* What is put into the cache beside a campaign that nobody ran beside is its own text.
<1>14. ASSUME NEW c \in Campaign \ mixed', k = "text", task[c].at = {w},
              task[c].pc \notin {"save", "pop"}, cache[w]["text"] \subseteq {c}, stored.text = c
       PROVE  v = c
  <2>1. CASE task[t].got = {}
    BY <1>2, <1>14, <2>1
  <2>2. CASE task[t].got # {}
    BY <1>2, <1>14, <2>2
  <2> QED BY <2>1, <2>2
<1>15. t \in Campaign \ mixed' => OwnTrue(t)'
  <2> SUFFICES ASSUME t \in Campaign \ mixed' PROVE OwnTrue(t)'
    OBVIOUS
  <2>1. OwnTrue(t) /\ Live(t) /\ task[t].pc \notin {"save", "pop"}
    BY <1>1, <1>13 DEF IInv, TextsOwn, Live, Keys
  <2>2. stored.text = t /\ cache[w]["text"] \subseteq {t}
    BY <1>3, <2>1 DEF OwnTrue
  <2>3. k = "text" => v = t
    BY <1>3, <1>14, <2>1, <2>2
  <2>4. cache'[w]["text"] \subseteq {t}
    <3>1. CASE k = "text"
      BY <1>10, <2>3, <3>1
    <3>2. CASE k # "text"
      BY <1>3, <1>10, <2>2, <3>2 DEF Keys
    <3> QED BY <3>1, <3>2
  <2>5. k # "text" => task[t].read.text = t
    BY <1>1, <2>1 DEF OwnTrue, Keys
  <2>6. r.read.text = t /\ r.at = {w}
    BY <1>1, <1>3, <1>6, <2>3, <2>5
  <2> QED BY <1>8, <1>9, <2>2, <2>4, <2>6 DEF OwnTrue
<1>16. TextsOwn'
  <2>1. \A c \in Campaign : Live(c) => \E x \in Worker : task[c].at = {x}
    BY <1>0, TaskFields, RowFields DEF Live, ThreadTrue
  <2>2. \A c \in Campaign \ mixed', x \in Worker : c # t =>
          (task[c].at = {x} /\ task[c].pc \notin {"save", "pop"} /\ cache[x]["text"] \subseteq {c}
              /\ stored.text = c
            => cache'[x]["text"] \subseteq {c})
    <3> SUFFICES ASSUME NEW c \in Campaign \ mixed', NEW x \in Worker, task[c].at = {x},
                        task[c].pc \notin {"save", "pop"}, cache[x]["text"] \subseteq {c},
                        stored.text = c
                 PROVE  cache'[x]["text"] \subseteq {c}
      OBVIOUS
    <3>1. CASE x = w /\ k = "text"
      BY <1>10, <1>14, <3>1
    <3>2. CASE ~(x = w /\ k = "text")
      BY <1>10, <3>2 DEF Keys
    <3> QED BY <3>1, <3>2
  <2> QED BY <1>8, <1>9, <1>13, <1>15, <2>1, <2>2, TextsRest DEF IInv, Task
<1>17. \A c \in Campaign : ReportHeld(c)'
  <2>1. \A c \in Campaign \ {t} : ReportHeld(c)'
    BY <1>0, <1>8, <1>9, ReportsRest DEF IInv, Task
  <2>2. t \in Campaign => ReportHeld(t)'
    <3> SUFFICES ASSUME t \in Campaign PROVE ReportHeld(t)'
      OBVIOUS
    <3>1. /\ r.tally = task[t].tally /\ r.left = task[t].left /\ r.stop = task[t].stop
          /\ r.pc \in {"budget", "spend", "send", "count"}
          /\ task[t].pc \in {"text", "budget", "count"}
      BY <1>6
    <3> QED BY <1>8, <1>9, <3>1 DEF IInv, ReportHeld, Live, UnderWay
  <2> QED BY <2>1, <2>2
<1>18. OwnText'
  BY <1>9, <1>13 DEF IInv, OwnText
\* A budget that is taken from the cache, or that a read found, is the stored one.
<1>19. CapRead'
  <2>1. ASSUME Budget > 0, uncapped = FALSE
        PROVE  k = "budget" => v = Budget
    <3>1. cache[w]["budget"] \subseteq {Budget} /\ CapThread(task[t])
      BY <1>3, <2>1 DEF IInv, CapRead
    <3> QED BY <1>1, <1>2, <3>1 DEF CapThread
  <2>2. ASSUME Budget > 0, uncapped = FALSE
        PROVE  CapThread(r)
    <3>1. task[t].pc = "budget" => v = Budget /\ v # 0
      <4>1. Budget # 0
        BY <2>2, Numbers
      <4>2. k = "budget" => v = Budget
        BY <2>1, <2>2
      <4> QED BY <1>1, <4>1, <4>2
    <3>2. r.got = {} /\ (r.pc = "send" => r.read.budget # 0)
      BY <1>6, <3>1, IdleTyped
    <3> QED BY <3>2 DEF CapThread
  <2>3. ASSUME Budget > 0, uncapped = FALSE, NEW x \in Worker
        PROVE  cache'[x]["budget"] \subseteq {Budget}
    <3>1. cache[x]["budget"] \subseteq {Budget}
      BY <2>3 DEF IInv, CapRead
    <3>2. CASE x = w /\ k = "budget"
      BY <1>10, <2>1, <2>3, <3>2
    <3>3. CASE ~(x = w /\ k = "budget")
      BY <1>10, <3>1, <3>3 DEF Keys
    <3> QED BY <3>2, <3>3
  <2>4. uncapped' = uncapped /\ lifted' = lifted
    BY <1>9
  <2> QED BY <1>0, <1>6, <1>7, <2>2, <2>3, <2>4, CapRests DEF IInv
<1> QED BY <1>11, <1>12, <1>16, <1>17, <1>18, <1>19 DEF IInv

-------------------------------------------------------------------------------
(* A campaign, its row and the companies it goes through.                    *)

\* A step of one thread that touches its own row, and loses entries of the cache.
LEMMA LocalKeeps ==
  ASSUME SendAssumption, IInv, NEW t \in Task, NEW r \in TaskRow, Run(t, r), ThreadTrue(t, r),
         UNCHANGED <<stored, day, billed, lifted, accepted, trouble,
                     blurred, uncapped, mixed, wrong>>,
         CacheTyped', \A w \in Worker : cache'[w]["text"] \subseteq cache[w]["text"],
         row' \in [Campaign -> CampaignRow], \A c \in Campaign \ {t} : row'[c] = row[c],
         \A w \in Worker : cache'[w]["budget"] \subseteq cache[w]["budget"],
         Counting(r) => Counting(task[t]) /\ r.today = task[t].today,
         Budget > 0 /\ uncapped = FALSE => CapThread(r),
         t \in Campaign \ mixed => OwnTrue(t)',
         t \in Campaign => ReportHeld(t)'
  PROVE  IInv'
<1>1. Typed /\ trouble' \in Nat /\ trouble' \in 0..MaxTrouble /\ trouble <= trouble'
  BY Numbers DEF IInv, Typed
<1>2. task'[t] = r /\ \A u \in Task \ {t} : task'[u] = task[u]
  BY <1>1, RunIs
<1>3. Typed'
  BY <1>1, TypedStep DEF Typed, CountTrue
<1>4. BudgetHeld'
  <2>1. Budget > 0 => \A d \in Day : Booked(d)' \subseteq Booked(d)
    BY <1>1, BookedRest
  <2> QED BY <1>1, <2>1, BudgetRest DEF IInv
<1>5. TextsOwn'
  <2>1. \A c \in Campaign : Live(c) => \E w \in Worker : task[c].at = {w}
    BY <1>1, TaskFields, RowFields DEF Live, ThreadTrue
  <2>2. \A c \in Campaign, w \in Worker :
          cache[w]["text"] \subseteq {c} => cache'[w]["text"] \subseteq {c}
    OBVIOUS
  <2> QED BY <1>2, <2>1, <2>2, TextsRest DEF IInv, Task
<1>6. \A c \in Campaign : ReportHeld(c)'
  <2>1. \A c \in Campaign \ {t} : ReportHeld(c)'
    BY <1>1, <1>2, ReportsRest DEF IInv, Task
  <2> QED BY <2>1
<1>7. OwnText'
  BY DEF IInv, OwnText
<1>8. CapRead'
  <2>1. Budget > 0 /\ uncapped' = FALSE =>
          \A w \in Worker : cache'[w]["budget"] \subseteq {Budget}
    BY DEF IInv, CapRead
  <2> QED BY <1>1, <2>1, CapRests DEF IInv
<1> QED BY <1>3, <1>4, <1>5, <1>6, <1>7, <1>8 DEF IInv

LEMMA PopKeeps ==
  ASSUME SendAssumption, IInv, NEW t \in Task, Pop(t)
  PROVE  IInv'
<1>1. Typed /\ task[t].pc \in {"pop", "popcount"}
  BY DEF IInv, Pop
<1>2. PICK k \in Keys : k = IF task[t].pc = "pop" THEN "text" ELSE "count"
  BY DEF Keys
<1>3. PICK w \in task[t].at : cache' = [cache EXCEPT ![w][k] = {}]
  BY <1>2 DEF Pop
<1>4. w \in Worker /\ task[t].at = {w}
  BY <1>1, <1>3, TaskFields DEF ThreadTrue
<1>5. /\ CacheTyped' /\ cache'[w][k] = {}
      /\ \A x \in Worker, j \in Keys : x # w \/ j # k => cache'[x][j] = cache[x][j]
  <2>1. PICK S : S = {}
    OBVIOUS
  <2>2. Put(w, k, S)
    BY <1>3, <2>1 DEF Put
  <2> QED BY <1>1, <1>4, <2>1, <2>2, CachePut
<1>6. \A x \in Worker, j \in Keys : cache'[x][j] \subseteq cache[x][j]
  <2> TAKE x \in Worker, j \in Keys
  <2>1. CASE x = w /\ j = k
    BY <1>5, <2>1
  <2>2. CASE ~(x = w /\ j = k)
    BY <1>5, <2>2
  <2> QED BY <2>1, <2>2
<1>a. \A x \in Worker : /\ cache'[x]["text"] \subseteq cache[x]["text"]
                       /\ cache'[x]["budget"] \subseteq cache[x]["budget"]
  BY <1>6 DEF Keys
<1>7. PICK p : p = IF task[t].pc = "pop" THEN "company" ELSE "send"
  OBVIOUS
<1>8. PICK r : r = [task[t] EXCEPT !.pc = p]
  OBVIOUS
<1>9. /\ r \in TaskRow /\ r.pc = p /\ r.at = {w} /\ r.got = task[t].got /\ r.look = task[t].look
      /\ r.today = task[t].today /\ r.read = task[t].read /\ r.tally = task[t].tally
      /\ r.left = task[t].left /\ r.stop = task[t].stop
  BY <1>1, <1>4, <1>7, <1>8, TaskFields DEF TaskRow, Sending, Running
<1>10. Run(t, r)
  BY <1>1, <1>7, <1>8, TaskFields DEF Pop, TaskRow
<1>11. ThreadTrue(t, r)
  BY <1>1, <1>4, <1>7, <1>9, TaskFields DEF ThreadTrue, Sending, Keys
<1>12. UNCHANGED <<stored, day, row, billed, lifted, accepted, trouble,
                   blurred, uncapped, mixed, wrong>>
  BY DEF Pop, ghosts, sends
<1>13. task'[t] = r
  BY <1>1, <1>9, <1>10, RunIs
<1>14. ASSUME t \in Campaign \ mixed PROVE OwnTrue(t)'
  <2>1. OwnTrue(t) /\ Live(t) /\ task[t].pc # "save"
    BY <1>1, <1>14 DEF IInv, TextsOwn, Live
  <2>2. stored.text = t
    BY <2>1 DEF OwnTrue
  <2>3. cache'[w]["text"] \subseteq {t}
    <3>1. CASE task[t].pc = "pop"
      BY <1>2, <1>5, <3>1
    <3>2. CASE task[t].pc = "popcount"
      BY <1>4, <1>a, <2>1, <3>2 DEF OwnTrue
    <3> QED BY <1>1, <3>1, <3>2
  <2>4. p = "send" => task[t].read.text = t
    BY <1>1, <1>7, <2>1 DEF OwnTrue
  <2> QED BY <1>7, <1>9, <1>12, <1>13, <2>2, <2>3, <2>4 DEF OwnTrue
<1>15. t \in Campaign => ReportHeld(t)'
  BY <1>1, <1>7, <1>9, <1>12, <1>13 DEF IInv, ReportHeld, Live, UnderWay
<1>16. row' \in [Campaign -> CampaignRow] /\ \A c \in Campaign \ {t} : row'[c] = row[c]
  BY <1>1, <1>12 DEF Typed
<1>17. /\ Counting(r) => Counting(task[t]) /\ r.today = task[t].today
       /\ Budget > 0 => CapThread(r)
  <2>1. task[t].pc = "popcount" => task[t].read.budget = Budget
    BY <1>1, TaskFields DEF ThreadTrue
  <2> QED BY <1>1, <1>7, <1>9, <2>1 DEF Counting, CapThread
<1> QED BY <1>5, <1>a, <1>9, <1>10, <1>11, <1>12, <1>14, <1>15, <1>16, <1>17, LocalKeeps

\* A company's verdict.
LEMMA CountedIs ==
  ASSUME SendAssumption, NEW q \in TaskRow, NEW v \in {"sent", "failed"}, NEW r, r = Counted(q, v)
  PROVE  /\ r \in TaskRow /\ r.pc = "bump" /\ r.at = q.at /\ r.got = q.got /\ r.look = q.look
         /\ r.today = 0 /\ r.left = q.left /\ r.stop = q.stop
         /\ r.tally \in Counts /\ r.tally.skipped = q.tally.skipped
         /\ v = "sent" => r.tally.sent = q.tally.sent + 1 /\ r.tally.failed = q.tally.failed
         /\ v = "failed" => r.tally.failed = q.tally.failed + 1 /\ r.tally.sent = q.tally.sent
<1>1. q.tally \in Counts /\ q.tally.sent \in Nat /\ q.tally.failed \in Nat
  BY DEF TaskRow, Counts
<1>2. PICK y : y = [q.tally EXCEPT ![v] = @ + 1]
  OBVIOUS
<1>3. /\ y \in Counts /\ y.skipped = q.tally.skipped
      /\ v = "sent" => y.sent = q.tally.sent + 1 /\ y.failed = q.tally.failed
      /\ v = "failed" => y.failed = q.tally.failed + 1 /\ y.sent = q.tally.sent
  BY <1>1, <1>2 DEF Counts
<1>4. r = [q EXCEPT !.tally = y, !.pc = "bump", !.read = None, !.today = 0]
  BY <1>2 DEF Counted, TaskRow
<1>5. None \in Settings /\ 0 \in Day
  BY NoneTyped, Numbers
<1>6. /\ r \in TaskRow /\ r.pc = "bump" /\ r.at = q.at /\ r.got = q.got /\ r.look = q.look
      /\ r.today = 0 /\ r.left = q.left /\ r.stop = q.stop /\ r.tally = y
  BY <1>3, <1>4, <1>5 DEF TaskRow, Running
<1> QED BY <1>3, <1>6

LEMMA RejectKeeps ==
  ASSUME SendAssumption, IInv, NEW t \in Task, Reject(t)
  PROVE  IInv'
<1>1. Typed /\ task[t].pc = "send"
  BY DEF IInv, Reject
<1>2. UNCHANGED <<stored, cache, day, row, billed, lifted, accepted, trouble,
                  blurred, uncapped, mixed, wrong>>
  BY DEF Reject, ghosts, sends
<1>3. trouble \in 0..MaxTrouble /\ trouble <= trouble /\ trouble \in Nat
           /\ uncapped \in BOOLEAN
  BY <1>1, Numbers DEF Typed
<1>4. day \in Day /\ 0 <= day
  BY <1>1, Numbers DEF Typed
<1>5. CASE t \notin Campaign
  <2>1. PICK r : r = Idle
    OBVIOUS
  <2>2. r \in TaskRow /\ r.pc = "idle" /\ ThreadTrue(t, r) /\ Run(t, r)
    BY <1>4, <1>5, <2>1, IdleTyped DEF ThreadTrue, Sending, Keys, Reject
  <2>3. ~Counting(r) /\ CapThread(r)
    BY <2>2 DEF Counting, CapThread
  <2> QED BY <1>1, <1>2, <1>3, <1>5, <2>2, <2>3, QuietKeeps
<1>6. CASE t \in Campaign
  <2>1. task[t] \in TaskRow /\ ThreadTrue(t, task[t]) /\ "failed" \in {"sent", "failed"}
    BY <1>1, TaskFields
  <2>2. PICK r : /\ Run(t, r)
                 /\ \/ r = Counted(task[t], "failed")
                    \/ r = [task[t] EXCEPT !.stop = TRUE, !.pc = "finish"]
    BY <1>6 DEF Reject
  <2>3. /\ r \in TaskRow /\ r.at = task[t].at /\ r.left = task[t].left /\ r.got = task[t].got
        /\ r.look = task[t].look /\ r.today <= day
        /\ \/ /\ r.pc = "bump" /\ r.stop = task[t].stop
              /\ r.tally.skipped = task[t].tally.skipped /\ r.tally.sent = task[t].tally.sent
              /\ r.tally.failed = task[t].tally.failed + 1
           \/ r.pc = "finish" /\ r.stop = TRUE /\ r.tally = task[t].tally
    <3>1. CASE r = Counted(task[t], "failed")
      BY <1>4, <2>1, <3>1, CountedIs
    <3>2. CASE r = [task[t] EXCEPT !.stop = TRUE, !.pc = "finish"]
      BY <1>4, <2>1, <3>2 DEF TaskRow, Running, ThreadTrue
    <3> QED BY <2>2, <3>1, <3>2
  <2>4. ThreadTrue(t, r)
    BY <1>1, <1>6, <2>1, <2>3 DEF ThreadTrue, Keys
  <2>5. task'[t] = r
    BY <1>1, <2>2, <2>3, RunIs
  <2>6. ASSUME t \in Campaign \ mixed PROVE OwnTrue(t)'
    BY <1>1, <1>2, <2>3, <2>5, <2>6 DEF IInv, TextsOwn, OwnTrue, Live
  <2>7. ReportHeld(t)'
    <3>1. task[t].tally.sent \in Nat /\ task[t].tally.failed \in Nat
            /\ task[t].tally.skipped \in Nat
      BY <1>1, TaskFields
    <3>2. /\ row[t].tally.sent \in Nat /\ row[t].tally.failed \in Nat /\ accepted[t] \in Nat
          /\ task[t].left \in Nat /\ Audience \in Nat
      BY <1>1, <1>6, RowFields, TaskFields, Numbers
    <3> HIDE <2>2
    <3>3. ReportHeld(t)
      BY <1>6 DEF IInv
    <3>4. CASE r.pc = "finish"
      BY <1>1, <1>2, <2>3, <2>5, <3>3, <3>4 DEF ReportHeld, Live, UnderWay
    <3>5. CASE r.pc = "bump"
      BY <1>1, <1>2, <2>3, <2>5, <3>1, <3>2, <3>3, <3>5 DEF ReportHeld, Live, UnderWay, Sum
    <3> QED BY <2>3, <3>4, <3>5
  <2>8. ~Counting(r) /\ CapThread(r)
    BY <2>3 DEF Counting, CapThread
  <2> QED BY <1>1, <1>2, <1>3, <2>2, <2>3, <2>4, <2>6, <2>7, <2>8, QuietKeeps
<1> QED BY <1>5, <1>6

\* A refused booking is a failed message; any other refused statement is the end of its thread.
LEMMA FailKeeps ==
  ASSUME SendAssumption, IInv, NEW t \in Task, Fail(t)
  PROVE  IInv'
<1>1. /\ Typed /\ task[t].pc \in {"spend", "save", "company", "bump", "finish"}
      /\ t \notin Campaign => task[t].pc = "spend"
  BY TaskFields DEF IInv, Fail, ThreadTrue, Sending
<1>2. /\ UNCHANGED <<stored, cache, day, row, billed, lifted, accepted, blurred, mixed, wrong>>
      /\ UNCHANGED uncapped
  BY DEF Fail, ghosts, sends
<1>3. /\ trouble \in Nat /\ trouble' = trouble + 1 /\ trouble' \in 0..MaxTrouble
      /\ trouble <= trouble' /\ uncapped \in BOOLEAN /\ day \in Day /\ 0 <= day
  BY <1>1, Numbers DEF Typed, Fail
<1>4. CASE ~(t \in Campaign /\ task[t].pc = "spend")
  <2>1. PICK r : r = Idle
    OBVIOUS
  <2>2. Run(t, r)
    BY <1>4, <2>1 DEF Fail
  <2>3. r \in TaskRow /\ r.pc = "idle" /\ ThreadTrue(t, r)
    BY <1>3, <2>1, IdleTyped DEF ThreadTrue, Sending, Keys
  <2>4. ~Counting(r) /\ CapThread(r)
    BY <2>3 DEF Counting, CapThread
  <2>5. task'[t] = r
    BY <1>1, <2>2, <2>3, RunIs
  <2>6. t \in Campaign => OwnTrue(t)'
    BY <2>3, <2>5 DEF OwnTrue, Live
  <2>7. t \in Campaign => ReportHeld(t)'
    BY <1>2, <1>3, <2>3, <2>5 DEF IInv, ReportHeld, Live
  <2> QED BY <1>1, <1>2, <1>3, <2>2, <2>3, <2>4, <2>6, <2>7, QuietKeeps
<1>5. CASE t \in Campaign /\ task[t].pc = "spend"
  <2>1. task[t] \in TaskRow /\ ThreadTrue(t, task[t]) /\ "failed" \in {"sent", "failed"}
    BY <1>1, TaskFields
  <2>2. PICK r : r = Counted(task[t], "failed")
    OBVIOUS
  <2>3. Run(t, r)
    BY <1>5, <2>2 DEF Fail
  <2>4. /\ r \in TaskRow /\ r.at = task[t].at /\ r.left = task[t].left /\ r.got = task[t].got
        /\ r.look = task[t].look /\ r.today = 0 /\ r.pc = "bump" /\ r.stop = task[t].stop
        /\ r.tally.skipped = task[t].tally.skipped /\ r.tally.sent = task[t].tally.sent
        /\ r.tally.failed = task[t].tally.failed + 1
    BY <2>1, <2>2, CountedIs
  <2>5. ThreadTrue(t, r)
    BY <1>3, <1>5, <2>1, <2>4 DEF ThreadTrue, Keys
  <2>6. task'[t] = r
    BY <1>1, <2>3, <2>4, RunIs
  <2>7. ASSUME t \in Campaign \ mixed PROVE OwnTrue(t)'
    BY <1>2, <1>5, <2>4, <2>6, <2>7 DEF IInv, TextsOwn, OwnTrue, Live
  <2>8. ReportHeld(t)'
    <3>1. /\ task[t].tally.sent \in Nat /\ task[t].tally.failed \in Nat
          /\ task[t].tally.skipped \in Nat
      BY <1>1, TaskFields
    <3>2. /\ row[t].tally.sent \in Nat /\ row[t].tally.failed \in Nat /\ accepted[t] \in Nat
          /\ task[t].left \in Nat /\ Audience \in Nat
      BY <1>1, <1>5, RowFields, TaskFields, Numbers
    <3>3. ReportHeld(t)
      BY <1>5 DEF IInv
    <3> QED BY <1>2, <1>5, <2>4, <2>6, <3>1, <3>2, <3>3 DEF ReportHeld, Live, UnderWay, Sum
  <2>9. ~Counting(r) /\ CapThread(r)
    BY <2>4 DEF Counting, CapThread
  <2> QED BY <1>1, <1>2, <1>3, <2>3, <2>4, <2>5, <2>7, <2>8, <2>9, QuietKeeps
<1> QED BY <1>4, <1>5

\* What a campaign's own steps leave alone.
CampaignRest == UNCHANGED <<stored, cache, day, billed, lifted, accepted, trouble,
                            blurred, uncapped, mixed, wrong>>

LEMMA CampaignKeeps ==
  ASSUME SendAssumption, IInv, NEW c \in Campaign, NEW r \in TaskRow, Run(c, r), ThreadTrue(c, r),
         CampaignRest, r.pc \notin {"budget", "count", "spend", "popcount", "send"},
         r.pc \in {"idle", "save"} \/ (Live(c) /\ task[c].pc \notin {"save", "pop"}
           /\ r.at = task[c].at),
         row' \in [Campaign -> CampaignRow], \A o \in Campaign \ {c} : row'[o] = row[o],
         ReportHeld(c)'
  PROVE  IInv'
<1>1. Typed /\ c \in Task
  BY DEF IInv, Task
<1>2. task'[c] = r
  BY <1>1, RunIs
<1>3. UNCHANGED <<stored, cache, day, billed, lifted, accepted, trouble,
                  blurred, uncapped, mixed, wrong>>
  BY DEF CampaignRest
<1>4. CacheTyped'
  BY <1>1, <1>3 DEF Typed, CacheTyped
<1>5. ASSUME c \in Campaign \ mixed PROVE OwnTrue(c)'
  BY <1>2, <1>3, <1>5 DEF IInv, TextsOwn, OwnTrue, Live
<1>6. ~Counting(r) /\ CapThread(r)
  BY DEF Counting, CapThread
<1> QED BY <1>1, <1>3, <1>4, <1>5, <1>6, LocalKeeps

LEMMA RowPut ==
  ASSUME Typed, NEW c \in Campaign, NEW q \in CampaignRow, row' = [row EXCEPT ![c] = q]
  PROVE  /\ row' \in [Campaign -> CampaignRow] /\ row'[c] = q
         /\ \A o \in Campaign \ {c} : row'[o] = row[o]
BY DEF Typed

LEMMA LaunchKeeps ==
  ASSUME SendAssumption, IInv, NEW c \in Campaign, NEW w \in Worker, Launch(c, w)
  PROVE  IInv'
<1>1. Typed /\ row[c].status = "none" /\ day \in Day /\ 0 <= day
  BY Numbers DEF IInv, Typed, Launch
<1>2. PICK q : q = [row[c] EXCEPT !.status = "running"]
  OBVIOUS
<1>3. q \in CampaignRow /\ q.status = "running" /\ q.tally = row[c].tally
  BY <1>1, <1>2, RowFields DEF CampaignRow
<1>4. row' = [row EXCEPT ![c] = q]
  BY <1>2 DEF Launch
<1>5. PICK r : r = [Idle EXCEPT !.pc = "save", !.at = {w}]
  OBVIOUS
<1>6. /\ r \in TaskRow /\ r.pc = "save" /\ r.at = {w} /\ r.got = {} /\ r.look = FALSE /\ r.today = 0
      /\ r.left = 0 /\ r.tally = Tally /\ r.stop = FALSE
  BY <1>5, IdleTyped DEF TaskRow, Running
<1>7. ThreadTrue(c, r)
  BY <1>1, <1>6 DEF ThreadTrue, Keys
<1>8. Run(c, r) /\ CampaignRest
  BY <1>5 DEF Launch, CampaignRest, ghosts, sends
<1>9. /\ row' \in [Campaign -> CampaignRow] /\ row'[c] = q
      /\ \A o \in Campaign \ {c} : row'[o] = row[o]
  BY <1>1, <1>3, <1>4, RowPut
<1>10. task'[c] = r /\ accepted'[c] = accepted[c] /\ accepted[c] \in Nat
  BY <1>1, <1>6, <1>8, RunIs, RowFields DEF CampaignRest
<1>11. ReportHeld(c)'
  BY <1>1, <1>3, <1>6, <1>9, <1>10 DEF IInv, ReportHeld, Live, Tally
<1> QED BY <1>6, <1>7, <1>8, <1>9, <1>11, CampaignKeeps

LEMMA SkipKeeps ==
  ASSUME SendAssumption, IInv, NEW c \in Campaign, Skip(c)
  PROVE  IInv'
<1>1. Typed /\ task[c].pc = "company" /\ task[c].left > 0 /\ c \in Task
  BY DEF IInv, Skip, Task
<1>2. /\ task[c] \in TaskRow /\ ThreadTrue(c, task[c]) /\ task[c].left \in Nat
           /\ task[c].left <= Audience
      /\ task[c].tally \in Counts /\ task[c].tally.sent \in Nat /\ task[c].tally.failed \in Nat
      /\ task[c].tally.skipped \in Nat
  BY <1>1, TaskFields, Numbers
<1>3. PICK y : y = [task[c].tally EXCEPT !.skipped = @ + 1]
  OBVIOUS
<1>4. /\ y \in Counts /\ y.sent = task[c].tally.sent /\ y.failed = task[c].tally.failed
      /\ y.skipped = task[c].tally.skipped + 1
  BY <1>2, <1>3 DEF Counts
<1>5. PICK n : n = task[c].left - 1
  OBVIOUS
<1>6. n \in 0..Audience
  BY <1>1, <1>2, <1>5, Numbers
<1>7. PICK r : r = [task[c] EXCEPT !.left = n, !.tally = y]
  OBVIOUS
<1>8. /\ r \in TaskRow /\ r.pc = "company" /\ r.at = task[c].at /\ r.got = task[c].got
      /\ r.look = task[c].look /\ r.today = task[c].today /\ r.left = n /\ r.tally = y
      /\ r.stop = task[c].stop
  BY <1>1, <1>2, <1>4, <1>6, <1>7 DEF TaskRow
<1>9. Run(c, r)
  BY <1>2, <1>3, <1>5, <1>7 DEF Skip, TaskRow
<1>10. ThreadTrue(c, r)
  BY <1>1, <1>2, <1>8 DEF ThreadTrue
<1>11. CampaignRest /\ row' = row
  BY DEF Skip, CampaignRest, ghosts, sends
<1>12. row' \in [Campaign -> CampaignRow] /\ \A o \in Campaign \ {c} : row'[o] = row[o]
  BY <1>1, <1>11 DEF Typed
<1>13. task'[c] = r
  BY <1>1, <1>8, <1>9, RunIs
<1>14. ReportHeld(c)'
  <2>1. ReportHeld(c)
    BY DEF IInv
  <2>2. accepted' = accepted /\ trouble' = trouble
    BY <1>11 DEF CampaignRest
  <2> QED BY <1>1, <1>2, <1>4, <1>5, <1>8, <1>11, <1>13, <2>1, <2>2
          DEF ReportHeld, Live, Sum, UnderWay
<1>15. Live(c)
  BY <1>1 DEF Live
<1> QED BY <1>1, <1>8, <1>9, <1>10, <1>11, <1>12, <1>14, <1>15, CampaignKeeps

LEMMA InviteKeeps ==
  ASSUME SendAssumption, IInv, NEW c \in Campaign, Invite(c)
  PROVE  IInv'
<1>1. Typed /\ task[c].pc = "company" /\ task[c].left > 0 /\ c \in Task /\ day \in Day /\ 0 <= day
  BY Numbers DEF IInv, Invite, Task, Typed
<1>2. /\ task[c] \in TaskRow /\ ThreadTrue(c, task[c]) /\ task[c].left \in Nat
           /\ task[c].left <= Audience
      /\ task[c].tally \in Counts /\ task[c].tally.sent \in Nat /\ task[c].tally.failed \in Nat
      /\ task[c].tally.skipped \in Nat
  BY <1>1, TaskFields, Numbers
<1>3. PICK n : n = task[c].left - 1
  OBVIOUS
<1>4. n \in 0..Audience
  BY <1>1, <1>2, <1>3, Numbers
<1>5. PICK r : /\ Run(c, r)
               /\ \/ r = [task[c] EXCEPT !.left = @ - 1, !.pc = "text"]
                  \/ r = Counted([task[c] EXCEPT !.left = @ - 1], "failed")
  BY DEF Invite
<1>6. /\ r \in TaskRow /\ r.at = task[c].at /\ r.got = task[c].got /\ r.look = task[c].look
      /\ r.today <= day /\ r.left = n /\ r.stop = task[c].stop
      /\ \/ r.pc = "text" /\ r.tally = task[c].tally
         \/ /\ r.pc = "bump" /\ r.tally.skipped = task[c].tally.skipped
            /\ r.tally.sent = task[c].tally.sent /\ r.tally.failed = task[c].tally.failed + 1
  <2>1. CASE r = [task[c] EXCEPT !.left = @ - 1, !.pc = "text"]
    <3>1. r = [task[c] EXCEPT !.left = n, !.pc = "text"]
      BY <1>2, <1>3, <2>1 DEF TaskRow
    <3> QED BY <1>1, <1>2, <1>4, <3>1 DEF TaskRow, Sending, ThreadTrue
  <2>2. CASE r = Counted([task[c] EXCEPT !.left = @ - 1], "failed")
    <3>1. PICK q : q = [task[c] EXCEPT !.left = n]
      OBVIOUS
    <3>2. r = Counted(q, "failed")
      BY <1>2, <1>3, <2>2, <3>1 DEF TaskRow
    <3>3. /\ q \in TaskRow /\ q.at = task[c].at /\ q.got = task[c].got /\ q.look = task[c].look
          /\ q.left = n /\ q.stop = task[c].stop /\ q.tally = task[c].tally
      BY <1>2, <1>4, <3>1 DEF TaskRow
    <3>4. "failed" \in {"sent", "failed"}
      OBVIOUS
    <3> QED BY <1>1, <3>2, <3>3, <3>4, CountedIs
  <2> QED BY <1>5, <2>1, <2>2
<1>7. ThreadTrue(c, r)
  BY <1>1, <1>2, <1>6 DEF ThreadTrue, Sending, Keys
<1>8. CampaignRest /\ row' = row
  BY DEF Invite, CampaignRest, ghosts, sends
<1>9. row' \in [Campaign -> CampaignRow] /\ \A o \in Campaign \ {c} : row'[o] = row[o]
  BY <1>1, <1>8 DEF Typed
<1>10. task'[c] = r
  BY <1>1, <1>5, <1>6, RunIs
<1>11. ReportHeld(c)'
  <2>1. ReportHeld(c)
    BY DEF IInv
  <2>2. accepted' = accepted /\ trouble' = trouble
    BY <1>8 DEF CampaignRest
  <2>3. /\ row[c].tally.sent \in Nat /\ row[c].tally.failed \in Nat /\ accepted[c] \in Nat
        /\ Audience \in Nat
    BY <1>1, RowFields, Numbers
  <2>4. CASE r.pc = "text"
    BY <1>1, <1>2, <1>3, <1>6, <1>8, <1>10, <2>1, <2>2, <2>4 DEF ReportHeld, Live, Sum, UnderWay
  <2>5. CASE r.pc = "bump"
    BY <1>1, <1>2, <1>3, <1>6, <1>8, <1>10, <2>1, <2>2, <2>3, <2>5
       DEF ReportHeld, Live, Sum, UnderWay
  <2> QED BY <1>6, <2>4, <2>5
<1>12. Live(c)
  BY <1>1 DEF Live
<1> QED BY <1>1, <1>5, <1>6, <1>7, <1>8, <1>9, <1>11, <1>12, CampaignKeeps

LEMMA BumpKeeps ==
  ASSUME SendAssumption, IInv, NEW c \in Campaign, Bump(c)
  PROVE  IInv'
<1>1. Typed /\ task[c].pc = "bump" /\ c \in Task
  BY DEF IInv, Bump, Task
<1>2. /\ task[c] \in TaskRow /\ ThreadTrue(c, task[c]) /\ task[c].tally \in Counts
      /\ task[c].tally.sent \in Nat /\ task[c].tally.failed \in Nat
  BY <1>1, TaskFields
<1>3. PICK q : q = [row[c] EXCEPT !.tally = task[c].tally]
  OBVIOUS
<1>4. q \in CampaignRow /\ q.status = row[c].status /\ q.tally = task[c].tally
  BY <1>1, <1>2, <1>3, RowFields DEF CampaignRow
<1>5. row' = [row EXCEPT ![c] = q]
  BY <1>3 DEF Bump
<1>6. PICK r : r = [task[c] EXCEPT !.pc = "company"]
  OBVIOUS
<1>7. /\ r \in TaskRow /\ r.pc = "company" /\ r.at = task[c].at /\ r.got = task[c].got
      /\ r.look = task[c].look /\ r.today = task[c].today /\ r.left = task[c].left
      /\ r.tally = task[c].tally /\ r.stop = task[c].stop
  BY <1>2, <1>6 DEF TaskRow, Running
<1>8. ThreadTrue(c, r)
  BY <1>1, <1>2, <1>7 DEF ThreadTrue, Keys
<1>9. Run(c, r) /\ CampaignRest
  BY <1>6 DEF Bump, CampaignRest, ghosts, sends
<1>10. /\ row' \in [Campaign -> CampaignRow] /\ row'[c] = q
       /\ \A o \in Campaign \ {c} : row'[o] = row[o]
  BY <1>1, <1>4, <1>5, RowPut
<1>11. task'[c] = r /\ accepted'[c] = accepted[c] /\ accepted[c] \in Nat
  BY <1>1, <1>7, <1>9, RunIs, RowFields DEF CampaignRest
<1>12. ReportHeld(c)'
  BY <1>1, <1>2, <1>4, <1>7, <1>10, <1>11 DEF IInv, ReportHeld, Live, UnderWay
<1>13. Live(c)
  BY <1>1 DEF Live
<1> QED BY <1>1, <1>7, <1>8, <1>9, <1>10, <1>12, <1>13, CampaignKeeps

LEMMA FinishKeeps ==
  ASSUME SendAssumption, IInv, NEW c \in Campaign, Finish(c)
  PROVE  IInv'
<1>1. /\ Typed /\ day \in Day /\ 0 <= day /\ c \in Task
      /\ task[c].pc = "finish" \/ (task[c].pc = "company" /\ task[c].left = 0)
  BY Numbers DEF IInv, Typed, Finish, Task
<1>2. /\ task[c].tally \in Counts /\ task[c].tally.sent \in Nat /\ task[c].tally.failed \in Nat
      /\ task[c].tally.skipped \in Nat /\ task[c].left \in Nat /\ task[c].stop \in BOOLEAN
  BY <1>1, TaskFields, Numbers
<1>3. PICK q : q = [status |-> IF task[c].stop THEN "stopped" ELSE "done", tally |-> task[c].tally]
  OBVIOUS
<1>4. /\ q \in CampaignRow /\ q.tally = task[c].tally
      /\ q.status = IF task[c].stop THEN "stopped" ELSE "done"
  BY <1>2, <1>3 DEF CampaignRow
<1>5. row' = [row EXCEPT ![c] = q]
  BY <1>3 DEF Finish
<1>6. PICK r : r = Idle
  OBVIOUS
<1>7. r \in TaskRow /\ r.pc = "idle" /\ ThreadTrue(c, r)
  BY <1>1, <1>6, IdleTyped DEF ThreadTrue, Keys, Sending
<1>8. Run(c, r) /\ CampaignRest
  BY <1>6 DEF Finish, CampaignRest, ghosts, sends
<1>9. /\ row' \in [Campaign -> CampaignRow] /\ row'[c] = q
      /\ \A o \in Campaign \ {c} : row'[o] = row[o]
  BY <1>1, <1>4, <1>5, RowPut
<1>10. task'[c] = r /\ accepted'[c] = accepted[c] /\ accepted[c] \in Nat /\ Audience \in Nat
  BY <1>1, <1>7, <1>8, RunIs, RowFields, Numbers DEF CampaignRest
<1>11. /\ accepted[c] <= task[c].tally.sent + task[c].tally.failed
       /\ task[c].tally.sent <= accepted[c]
       /\ task[c].stop = (task[c].pc = "finish")
       /\ Sum(task[c].tally) + task[c].left + (IF task[c].pc = "finish" THEN 1 ELSE 0) = Audience
  BY <1>1, <1>2 DEF IInv, ReportHeld, Live, UnderWay
<1>12. ReportHeld(c)'
  <2>1. ~Live(c)'
    BY <1>7, <1>10 DEF Live
  <2>2. /\ row'[c].tally = task[c].tally
        /\ row'[c].status = IF task[c].pc = "finish" THEN "stopped" ELSE "done"
    BY <1>4, <1>9, <1>11
  <2>3. Sum(row[c].tally)' = Sum(task[c].tally) /\ Sum(task[c].tally) \in Nat
    BY <1>2, <2>2 DEF Sum
  <2>4. /\ task[c].pc = "finish" => Sum(task[c].tally) < Audience
        /\ task[c].pc # "finish" => Sum(task[c].tally) = Audience
    BY <1>1, <1>2, <1>10, <1>11, <2>3
  <2>5. CASE task[c].pc = "finish"
    BY <1>2, <1>10, <1>11, <2>1, <2>2, <2>3, <2>4, <2>5 DEF ReportHeld
  <2>6. CASE task[c].pc # "finish"
    BY <1>2, <1>10, <1>11, <2>1, <2>2, <2>3, <2>4, <2>6 DEF ReportHeld
  <2> QED BY <2>5, <2>6
<1> QED BY <1>7, <1>8, <1>9, <1>12, CampaignKeeps

\* A launch stores its text; every campaign that runs from here on has been run beside.
LEMMA SaveTextKeeps ==
  ASSUME SendAssumption, IInv, NEW c \in Campaign, SaveText(c)
  PROVE  IInv'
<1>1. Typed /\ task[c].pc = "save" /\ c \in Task /\ trouble \in Nat /\ trouble <= trouble
  BY Numbers DEF IInv, SaveText, Task, Typed
<1>2. /\ task[c] \in TaskRow /\ ThreadTrue(c, task[c]) /\ task[c].tally \in Counts
      /\ Audience \in Nat /\ Audience \in 0..Audience
  BY <1>1, TaskFields, Numbers
<1>3. PICK r : r = [task[c] EXCEPT !.pc = "pop", !.left = Audience]
  OBVIOUS
<1>4. /\ r \in TaskRow /\ r.pc = "pop" /\ r.at = task[c].at /\ r.got = task[c].got
      /\ r.look = task[c].look /\ r.today = task[c].today /\ r.left = Audience
      /\ r.tally = task[c].tally /\ r.stop = task[c].stop
  BY <1>2, <1>3 DEF TaskRow, Running
<1>5. ThreadTrue(c, r) /\ Run(c, r)
  BY <1>1, <1>2, <1>3, <1>4 DEF ThreadTrue, Keys, SaveText
<1>6. UNCHANGED <<cache, day, row, billed, lifted, accepted, trouble, blurred, uncapped, wrong>>
  BY DEF SaveText, sends
<1>7. /\ stored' \in Settings /\ stored'.text = c /\ stored'.count = stored.count
      /\ stored'.budget = stored.budget
  BY <1>1 DEF SaveText, Typed, Settings, Text
<1>8. /\ task'[c] = r /\ \A o \in Campaign \ {c} : task'[o] = task[o] /\ o \in Task
  BY <1>1, <1>4, <1>5, RunIs DEF Task
<1>9. Typed'
  <2>1. CacheTyped'
    BY <1>1, <1>6 DEF Typed, CacheTyped
  <2> QED BY <1>1, <1>4, <1>5, <1>6, <1>7, <2>1, TypedStep DEF Typed, CountTrue
<1>10. BudgetHeld'
  <2>1. Budget > 0 => \A d \in Day : Booked(d)' \subseteq Booked(d)
    BY <1>1, <1>4, <1>5, BookedRest DEF Counting
  <2> QED BY <1>1, <1>6, <1>7, <2>1, BudgetRest DEF IInv
<1>11. mixed' = mixed \cup {o \in Campaign \ {c} : Live(o)}
  BY DEF SaveText
<1>12. TextsOwn'
  <2> SUFFICES ASSUME NEW o \in Campaign \ mixed' PROVE OwnTrue(o)'
    BY DEF TextsOwn
  <2>1. CASE o = c
    BY <1>4, <1>7, <1>8, <2>1 DEF OwnTrue
  <2>2. CASE o # c
    BY <1>8, <1>11, <2>2 DEF OwnTrue, Live
  <2> QED BY <2>1, <2>2
<1>13. \A o \in Campaign : ReportHeld(o)'
  <2>1. \A o \in Campaign \ {c} : ReportHeld(o)'
    BY <1>1, <1>6, <1>8, ReportsRest DEF IInv
  <2>2. task[c].tally = Tally /\ Sum(Tally) = 0 /\ task[c].stop = FALSE /\ Tally \in Counts
    BY <1>1, <1>2, TallyTyped DEF IInv, ReportHeld, Live, TaskRow
  <2>3. Sum(r.tally) + r.left + 0 = Audience
    BY <1>2, <1>4, <2>2
  <2>4. Sum(task[c].tally)' = Sum(r.tally)
    BY <1>8 DEF Sum
  <2>5. ReportHeld(c)'
    BY <1>1, <1>4, <1>6, <1>8, <2>2, <2>3, <2>4 DEF IInv, ReportHeld, Live, UnderWay
  <2> QED BY <2>1, <2>5
<1>14. OwnText'
  BY <1>6, <1>11 DEF IInv, OwnText
<1>15. CapRead'
  <2>1. CapThread(r) /\ uncapped' = uncapped
    BY <1>4, <1>6 DEF CapThread
  <2>2. Budget > 0 /\ uncapped' = FALSE =>
          \A w \in Worker : cache'[w]["budget"] \subseteq {Budget}
    BY <1>6, <2>1 DEF IInv, CapRead
  <2> QED BY <1>1, <1>4, <1>5, <1>6, <2>1, <2>2, CapRests DEF IInv
<1> QED BY <1>9, <1>10, <1>12, <1>13, <1>14, <1>15 DEF IInv

-------------------------------------------------------------------------------
(* Counting a message, and sending it.                                       *)

LEMMA BookedCount ==
  ASSUME SendAssumption, NEW d \in Day
  PROVE  IsFiniteSet(Booked(d)) /\ Cardinality(Booked(d)) \in Nat
<1>1. Booked(d) \subseteq Task /\ IsFiniteSet(Task)
  BY Numbers DEF Booked
<1> QED BY <1>1, FS_Subset, FS_CardinalityType

LEMMA DeliverKeeps ==
  ASSUME SendAssumption, IInv, NEW t \in Task, Deliver(t)
  PROVE  IInv'
<1>1. /\ Typed /\ task[t].pc = "send" /\ trouble \in Nat /\ trouble <= trouble /\ day \in Day
      /\ 0 <= day
  BY Numbers DEF IInv, Deliver, Typed
<1>2. /\ task[t] \in TaskRow /\ ThreadTrue(t, task[t]) /\ task[t].today \in Day /\ Audience \in Nat
      /\ Live(t)
  BY <1>1, TaskFields, Numbers DEF Live
<1>3. PICK r : /\ Run(t, r)
               /\ \/ t \notin Campaign /\ r = Idle
                  \/ t \in Campaign /\ \E v \in {"sent", "failed"} : r = Counted(task[t], v)
  BY DEF Deliver
<1>4. /\ r \in TaskRow /\ ThreadTrue(t, r) /\ r.pc \in {"idle", "bump"}
      /\ t \in Campaign =>
           /\ r.pc = "bump" /\ r.at = task[t].at /\ r.left = task[t].left /\ r.stop = task[t].stop
           /\ r.tally \in Counts /\ r.tally.skipped = task[t].tally.skipped
           /\ \/ /\ r.tally.sent = task[t].tally.sent + 1
                 /\ r.tally.failed = task[t].tally.failed
              \/ /\ r.tally.sent = task[t].tally.sent
                 /\ r.tally.failed = task[t].tally.failed + 1
  <2>1. CASE t \notin Campaign
    BY <1>1, <1>3, <2>1, IdleTyped DEF ThreadTrue, Sending, Keys
  <2>2. CASE t \in Campaign
    <3>1. PICK v \in {"sent", "failed"} : r = Counted(task[t], v)
      BY <1>3, <2>2
    <3>2. /\ r \in TaskRow /\ r.pc = "bump" /\ r.at = task[t].at /\ r.got = task[t].got
          /\ r.look = task[t].look /\ r.today = 0 /\ r.left = task[t].left /\ r.stop = task[t].stop
          /\ r.tally \in Counts /\ r.tally.skipped = task[t].tally.skipped
          /\ v = "sent" =>
               r.tally.sent = task[t].tally.sent + 1 /\ r.tally.failed = task[t].tally.failed
          /\ v = "failed" =>
               r.tally.failed = task[t].tally.failed + 1 /\ r.tally.sent = task[t].tally.sent
      BY <1>2, <3>1, CountedIs
    <3>3. ThreadTrue(t, r)
      BY <1>1, <1>2, <2>2, <3>2 DEF ThreadTrue, Keys
    <3> QED BY <2>2, <3>2, <3>3
  <2> QED BY <2>1, <2>2
<1>5. task'[t] = r /\ \A u \in Task \ {t} : task'[u] = task[u]
  BY <1>1, <1>3, <1>4, RunIs
<1>6. UNCHANGED <<stored, cache, day, row, trouble, blurred, uncapped, mixed>>
  BY DEF Deliver
<1>7. /\ billed' \in [Day -> Nat] /\ lifted' \in [Day -> Nat]
      /\ task[t].read.budget = 0 => billed' = billed
      /\ task[t].read.budget # 0 => lifted' = lifted
      /\ task[t].read.budget # 0 =>
           \A d \in Day : billed'[d] = IF d = task[t].today THEN billed[d] + 1 ELSE billed[d]
  BY <1>1, <1>2 DEF Deliver, Typed
\* A campaign has not sent to more companies than it is through with.
<1>8. t \in Campaign =>
        /\ task[t].tally.sent \in Nat /\ task[t].tally.failed \in Nat
        /\ task[t].tally.skipped \in Nat /\ task[t].left \in Nat /\ accepted[t] \in Nat
        /\ row[t].tally.sent \in Nat /\ row[t].tally.failed \in Nat
        /\ row[t].status = "running" /\ task[t].tally.sent <= accepted[t]
        /\ accepted[t] <= task[t].tally.sent + task[t].tally.failed
        /\ task[t].tally.sent = row[t].tally.sent /\ task[t].tally.failed = row[t].tally.failed
        /\ Sum(task[t].tally) + task[t].left + 1 = Audience
        /\ task[t].stop = FALSE
  <2> SUFFICES ASSUME t \in Campaign PROVE
        /\ task[t].tally.sent \in Nat /\ task[t].tally.failed \in Nat
        /\ task[t].tally.skipped \in Nat /\ task[t].left \in Nat /\ accepted[t] \in Nat
        /\ row[t].tally.sent \in Nat /\ row[t].tally.failed \in Nat
        /\ row[t].status = "running" /\ task[t].tally.sent <= accepted[t]
        /\ accepted[t] <= task[t].tally.sent + task[t].tally.failed
        /\ task[t].tally.sent = row[t].tally.sent /\ task[t].tally.failed = row[t].tally.failed
        /\ Sum(task[t].tally) + task[t].left + 1 = Audience
        /\ task[t].stop = FALSE
    OBVIOUS
  <2>1. /\ task[t].tally.sent \in Nat /\ task[t].tally.failed \in Nat
        /\ task[t].tally.skipped \in Nat /\ task[t].left \in Nat /\ task[t].stop \in BOOLEAN
    BY <1>1, <1>2, TaskFields
  <2>2. row[t].tally.sent \in Nat /\ row[t].tally.failed \in Nat /\ accepted[t] \in Nat
    BY <1>1, RowFields
  <2> QED BY <1>1, <1>2, <2>1, <2>2 DEF IInv, ReportHeld, UnderWay
<1>9. /\ accepted' \in [Campaign -> 0..Audience]
      /\ \A c \in Campaign \ {t} : accepted'[c] = accepted[c]
      /\ t \in Campaign => accepted'[t] = accepted[t] + 1
  <2>1. CASE t \notin Campaign
    BY <1>1, <2>1 DEF Deliver, Typed
  <2>2. CASE t \in Campaign
    <3>1. accepted[t] + 1 \in 0..Audience
      BY <1>2, <1>8, <2>2 DEF Sum
    <3>2. accepted' = [accepted EXCEPT ![t] = @ + 1]
      BY <2>2 DEF Deliver
    <3> QED BY <1>1, <2>2, <3>1, <3>2 DEF Typed
  <2> QED BY <2>1, <2>2
<1>10. Typed'
  <2>1. CacheTyped'
    BY <1>1, <1>6 DEF Typed, CacheTyped
  <2> QED BY <1>1, <1>3, <1>4, <1>6, <1>7, <1>9, <2>1, TypedStep DEF Typed, CountTrue
<1>11. BudgetHeld'
  <2> SUFFICES ASSUME Budget > 0, NEW d \in Day \ blurred
               PROVE  DayHeld(d)'
    BY <1>6 DEF IInv, BudgetHeld
  <2>1. DayHeld(d) /\ stored' = stored
    BY <1>6 DEF IInv, BudgetHeld
  <2>a. CASE task[t].read.budget = 0
    <3>1. Booked(d)' = Booked(d) /\ billed' = billed
      BY <1>1, <1>4, <1>5, <1>7, <2>a DEF Booked, Counting
    <3> QED BY <2>1, <3>1 DEF DayHeld
  <2>b. CASE task[t].read.budget # 0
    <3>1. IsFiniteSet(Booked(d)) /\ Cardinality(Booked(d)) \in Nat /\ billed[d] \in Nat
      BY <1>1, BookedCount DEF Typed
    <3>2. billed[d] + Cardinality(Booked(d)) = billed'[d] + Cardinality(Booked(d)')
      <4>1. CASE d = task[t].today
        <5>1. t \in Booked(d) /\ Booked(d)' = Booked(d) \ {t}
          BY <1>1, <1>4, <1>5, <2>b, <4>1 DEF Booked, Counting
        <5>2. Cardinality(Booked(d)') = Cardinality(Booked(d)) - 1
          BY <3>1, <5>1, FS_RemoveElement
        <5> QED BY <1>7, <2>b, <3>1, <4>1, <5>2
      <4>2. CASE d # task[t].today
        <5>1. Booked(d)' = Booked(d)
          BY <1>1, <1>4, <1>5, <4>2 DEF Booked, Counting
        <5> QED BY <1>7, <2>b, <4>2, <5>1
      <4> QED BY <4>1, <4>2
    <3> QED BY <2>1, <3>2 DEF DayHeld
  <2> QED BY <2>a, <2>b
<1>12. TextsOwn'
  <2>1. \A c \in Campaign : Live(c) => \E w \in Worker : task[c].at = {w}
    BY <1>1, TaskFields, RowFields DEF Live, ThreadTrue
  <2>2. t \in Campaign \ mixed' => OwnTrue(t)'
    BY <1>1, <1>2, <1>4, <1>5, <1>6 DEF IInv, TextsOwn, OwnTrue
  <2> QED BY <1>5, <1>6, <2>1, <2>2, TextsRest DEF IInv, Task
<1>13. \A c \in Campaign : ReportHeld(c)'
  <2>1. \A c \in Campaign \ {t} : ReportHeld(c)'
    BY <1>1, <1>5, <1>6, <1>9, ReportsRest DEF IInv, Task
  <2>2. ASSUME t \in Campaign PROVE ReportHeld(t)'
    <3>1. Sum(r.tally) + r.left = Audience /\ Sum(task[t].tally)' = Sum(r.tally)
      BY <1>2, <1>4, <1>5, <1>8, <2>2 DEF Sum
    <3>2. row'[t] = row[t] /\ task'[t] = r /\ accepted'[t] = accepted[t] + 1
      BY <1>5, <1>6, <1>9, <2>2
    <3>3. r.tally.sent <= accepted[t] + 1 /\ accepted[t] + 1 <= r.tally.sent + r.tally.failed
      BY <1>4, <1>8, <2>2
    <3>4. /\ row[t].tally.sent <= r.tally.sent /\ row[t].tally.sent <= accepted[t] + 1
          /\ r.tally.sent + r.tally.failed = row[t].tally.sent + row[t].tally.failed + 1
          /\ accepted[t] + 1 <= row[t].tally.sent + row[t].tally.failed + 1
      BY <1>4, <1>8, <2>2
    <3>5. r.pc = "bump" /\ row[t].status = "running" /\ r.stop = FALSE
      BY <1>4, <1>8, <2>2
    <3> QED BY <1>2, <3>1, <3>2, <3>3, <3>4, <3>5, <1>4, <2>2 DEF ReportHeld, Live, UnderWay
  <2> QED BY <2>1, <2>2
<1>14. OwnText'
  <2>1. wrong' \subseteq wrong \cup (IF t \in Campaign /\ task[t].read.text # t THEN {t} ELSE {})
    BY DEF Deliver
  <2>2. t \in Campaign /\ task[t].read.text # t => t \in mixed
    BY <1>1, <1>2 DEF IInv, TextsOwn, OwnTrue
  <2> QED BY <1>6, <2>1, <2>2 DEF IInv, OwnText
\* A message that goes out uncounted had read no cap.
<1>15. CapRead'
  <2> SUFFICES ASSUME Budget > 0, uncapped' = FALSE
               PROVE  CapRead'
    BY DEF CapRead
  <2>1. uncapped' = uncapped /\ CapThread(task[t]) /\ cache' = cache
    BY <1>6 DEF IInv, CapRead
  <2>2. lifted' = lifted
    BY <1>1, <1>7, <2>1 DEF CapThread
  <2>3. CapThread(r) /\ \A w \in Worker : cache'[w]["budget"] \subseteq {Budget}
    BY <1>4, <2>1 DEF IInv, CapRead, CapThread
  <2> QED BY <1>1, <1>3, <1>4, <2>1, <2>2, <2>3, CapRests DEF IInv
<1> QED BY <1>10, <1>11, <1>12, <1>13, <1>14, <1>15 DEF IInv

\* Of the days that nobody has blurred, a booking touches the counter of its own only.
LEMMA BookKeeps ==
  ASSUME SendAssumption, IInv, NEW t \in Task, Book(t)
  PROVE  IInv'
<1>1. /\ Typed /\ task[t].pc = "spend" /\ ~Spent(t) /\ trouble \in Nat /\ trouble <= trouble
  BY Numbers DEF IInv, Book, Typed
<1>2. /\ task[t] \in TaskRow /\ ThreadTrue(t, task[t]) /\ task[t].today \in Day
           /\ task[t].today \in Nat
      /\ task[t].read \in Settings /\ Budget \in Nat /\ Day \subseteq Nat
           /\ task[t].read.count.n \in Nat
      /\ task[t].read.count \in Count /\ Live(t)
      /\ task[t].read.budget = Budget /\ Budget > 0
  BY <1>1, TaskFields, Numbers DEF Live, ThreadTrue
<1>3. PICK n : n = Used(t)
  OBVIOUS
<1>4. n \in Nat /\ n + 1 <= Budget /\ n + 1 \in Nat /\ Budget > 0
  BY <1>1, <1>2, <1>3 DEF Used, Spent
<1>5. PICK e : e = [day |-> task[t].today, n |-> n + 1]
  OBVIOUS
<1>6. e \in Count /\ e.day = task[t].today /\ e.n = n + 1
  BY <1>2, <1>4, <1>5 DEF Count
<1>7. stored' = [stored EXCEPT !["count"] = e]
  BY <1>3, <1>5 DEF Book
<1>8. /\ stored' \in Settings /\ stored'.count = e /\ stored'.text = stored.text
      /\ stored'.budget = stored.budget
  BY <1>1, <1>6, <1>7 DEF Typed, Settings
<1>9. PICK y : y = [task[t].read EXCEPT !["count"] = None["count"]]
  OBVIOUS
<1>10. y \in Settings /\ y.text = task[t].read.text /\ y.budget = task[t].read.budget
  BY <1>2, <1>9, NoneTyped DEF Settings
<1>11. PICK r : r = [task[t] EXCEPT !.pc = "popcount", !.read = y]
  OBVIOUS
<1>12. /\ r \in TaskRow /\ r.pc = "popcount" /\ r.at = task[t].at /\ r.got = task[t].got
       /\ r.look = task[t].look /\ r.today = task[t].today /\ r.left = task[t].left
       /\ r.read = y /\ r.tally = task[t].tally /\ r.stop = task[t].stop
  BY <1>2, <1>10, <1>11 DEF TaskRow, Sending
<1>13. Run(t, r)
  BY <1>2, <1>9, <1>11 DEF Book, TaskRow
<1>14. ThreadTrue(t, r)
  BY <1>1, <1>2, <1>10, <1>12 DEF ThreadTrue, Keys, Sending
<1>15. UNCHANGED <<cache, day, row, billed, lifted, accepted, trouble, uncapped, mixed, wrong>>
  BY DEF Book, sends
<1>16. PICK o, rd : o = stored["count"] /\ rd = task[t].read["count"]
  OBVIOUS
<1>17. o \in Count /\ o.n \in Nat /\ o.day \in Day \cup {-1} /\ o.day \in Int
  <2>1. o = stored.count
    BY <1>16
  <2>2. o \in Count /\ o.n \in Nat /\ o.day \in Day \cup {-1}
    BY <1>1, <2>1, StoredFields
  <2>3. o.day \in Day \/ o.day = -1
    BY <2>2
  <2>4. o.day \in Int
    <3>1. CASE o.day \in Day
      BY <3>1 DEF Day
    <3>2. CASE o.day = -1
      BY <3>2
    <3> QED BY <2>3, <3>1, <3>2
  <2> QED BY <2>2, <2>4
<1>18. blurred' = blurred \cup
         IF rd = o /\ o.day <= task[t].today THEN {}
         ELSE {d \in Day : d \in {task[t].today, o.day} \/ (task[t].today < d /\ d < o.day)}
  BY <1>16 DEF Book
<1>19. blurred' \in SUBSET Day /\ blurred \subseteq blurred'
  BY <1>1, <1>18 DEF Typed
<1>20. task'[t] = r /\ \A u \in Task \ {t} : task'[u] = task[u]
  BY <1>1, <1>12, <1>13, RunIs
<1>21. Typed'
  <2>1. CacheTyped'
    BY <1>1, <1>15 DEF Typed, CacheTyped
  <2>2. CountTrue'
    BY <1>1, <1>2, <1>6, <1>8, StoredFields DEF CountTrue
  <2> QED BY <1>1, <1>8, <1>12, <1>13, <1>14, <1>15, <1>19, <2>1, <2>2, TypedStep DEF Typed
<1>22. ASSUME NEW d \in Day \ blurred' PROVE DayHeld(d)'
  <2>1. DayHeld(d) /\ d \in Nat /\ billed[d] \in Nat /\ billed' = billed
    BY <1>1, <1>2, <1>4, <1>15, <1>19 DEF IInv, BudgetHeld, Typed
  <2>2. PICK b : b = billed[d] + Cardinality(Booked(d))
    OBVIOUS
  <2>3. IsFiniteSet(Booked(d)) /\ Cardinality(Booked(d)) \in Nat /\ b \in Nat
    BY <2>1, <2>2, BookedCount
  <2>4. /\ b <= Budget
        /\ o.day = d => b <= o.n
        /\ o.day < d => b = 0
    BY <1>16, <2>1, <2>2 DEF DayHeld
  <2>5. billed'[d] + Cardinality(Booked(d)') = IF d = task[t].today THEN b + 1 ELSE b
    <3>1. CASE d = task[t].today
      <4>1. t \notin Booked(d) /\ Booked(d)' = Booked(d) \cup {t}
        BY <1>1, <1>2, <1>10, <1>12, <1>20, <3>1 DEF Booked, Counting
      <4>2. Cardinality(Booked(d)') = Cardinality(Booked(d)) + 1
        BY <2>3, <4>1, FS_AddElement
      <4> QED BY <2>1, <2>2, <2>3, <3>1, <4>2
    <3>2. CASE d # task[t].today
      <4>1. Booked(d)' = Booked(d)
        BY <1>1, <1>12, <1>20, <3>2 DEF Booked, Counting
      <4> QED BY <2>1, <2>2, <3>2, <4>1
    <3> QED BY <3>1, <3>2
  <2>6. CASE d = task[t].today
    <3>1. rd = o /\ o.day <= d
      BY <1>18, <2>6
    <3>2. n = IF o.day = d THEN o.n ELSE 0
      BY <1>3, <1>16, <2>6, <3>1 DEF Used
    <3>3. b <= n
      BY <1>17, <2>1, <2>4, <3>1, <3>2
    <3>4. e.day = d /\ stored'.count.n = n + 1 /\ stored'.count.day = d
      BY <1>6, <1>8, <2>6
    <3> QED BY <1>2, <1>4, <2>1, <2>3, <2>5, <2>6, <3>3, <3>4 DEF DayHeld
  <2>7. CASE d # task[t].today
    <3>1. stored'.count.day = task[t].today
      BY <1>6, <1>8
    <3>2. task[t].today < d => o.day < d
      BY <1>2, <1>17, <1>18, <2>1, <2>7
    <3>3. task[t].today < d => b = 0
      BY <2>4, <3>2
    <3> QED BY <1>2, <2>1, <2>3, <2>4, <2>5, <2>7, <3>1, <3>3 DEF DayHeld
  <2> QED BY <2>6, <2>7
<1>23. BudgetHeld'
  BY <1>4, <1>6, <1>8, <1>22 DEF BudgetHeld
<1>24. TextsOwn'
  <2>1. \A c \in Campaign : Live(c) => \E w \in Worker : task[c].at = {w}
    BY <1>1, TaskFields, RowFields DEF Live, ThreadTrue
  <2>2. ASSUME t \in Campaign \ mixed' PROVE OwnTrue(t)'
    <3>1. OwnTrue(t)
      BY <1>15, <2>2 DEF IInv, TextsOwn
    <3>2. /\ stored.text = t /\ task[t].read.text = t
          /\ \A w \in task[t].at : cache[w]["text"] \subseteq {t}
      BY <1>1, <1>2, <3>1 DEF OwnTrue
    <3> QED BY <1>8, <1>10, <1>12, <1>15, <1>20, <3>2 DEF OwnTrue
  <2> QED BY <1>8, <1>15, <1>20, <2>1, <2>2, TextsRest DEF IInv, Task
<1>25. \A c \in Campaign : ReportHeld(c)'
  <2>1. \A c \in Campaign \ {t} : ReportHeld(c)'
    BY <1>1, <1>15, <1>20, ReportsRest DEF IInv, Task
  <2>2. t \in Campaign => ReportHeld(t)'
    BY <1>1, <1>12, <1>15, <1>20 DEF IInv, ReportHeld, Live, UnderWay
  <2> QED BY <2>1, <2>2
<1>26. OwnText'
  BY <1>15 DEF IInv, OwnText
<1>27. CapRead'
  <2>1. CapThread(r) /\ uncapped' = uncapped /\ lifted' = lifted /\ cache' = cache
    BY <1>12, <1>15 DEF CapThread
  <2>2. Budget > 0 /\ uncapped' = FALSE =>
          \A w \in Worker : cache'[w]["budget"] \subseteq {Budget}
    BY <2>1 DEF IInv, CapRead
  <2> QED BY <1>1, <1>12, <1>13, <2>1, <2>2, CapRests DEF IInv
<1> QED BY <1>21, <1>23, <1>24, <1>25, <1>26, <1>27 DEF IInv

-------------------------------------------------------------------------------
(* The world's steps.                                                        *)

LEMMA MidnightKeeps ==
  ASSUME SendAssumption, IInv, Midnight
  PROVE  IInv'
<1>1. /\ Typed /\ day \in Nat /\ day < LastDay /\ day' = day + 1 /\ LastDay \in Nat
  BY Numbers DEF IInv, Typed, Midnight
<1>2. /\ UNCHANGED <<stored, cache, row, task, billed, lifted, accepted, trouble,
                     blurred, uncapped, mixed, wrong>>
  BY DEF Midnight, ghosts, sends
<1>3. day' \in Day /\ day <= day'
  BY <1>1 DEF Day
<1>4. ASSUME NEW t \in Task PROVE ThreadTrue(t, task[t])'
  <2>1. ThreadTrue(t, task[t]) /\ task[t].today \in Nat
    BY <1>1, TaskFields, Numbers
  <2>2. task[t].today <= day'
    BY <1>1, <2>1 DEF ThreadTrue
  <2> QED BY <1>2, <2>1, <2>2 DEF ThreadTrue
<1>5. Typed'
  BY <1>1, <1>2, <1>3, <1>4 DEF Typed, CacheTyped, CountTrue
<1>6. BudgetHeld'
  BY <1>2 DEF IInv, BudgetHeld, DayHeld, Booked, Counting
<1>7. TextsOwn' /\ OwnText' /\ CapRead'
  BY <1>2 DEF IInv, TextsOwn, OwnTrue, OwnText, Live, CapRead, CapThread
<1>8. \A c \in Campaign : ReportHeld(c)'
  BY <1>2 DEF IInv, ReportHeld, Live
<1> QED BY <1>5, <1>6, <1>7, <1>8 DEF IInv

LEMMA ExpireKeeps ==
  ASSUME SendAssumption, IInv, NEW w \in Worker, NEW k \in Keys, Expire(w, k)
  PROVE  IInv'
<1>1. Typed
  BY DEF IInv
<1>2. UNCHANGED <<stored, day, row, task, billed, lifted, accepted, trouble,
                  blurred, uncapped, mixed, wrong>>
  BY DEF Expire, ghosts, sends
<1>3. /\ CacheTyped' /\ cache'[w][k] = {}
      /\ \A x \in Worker, j \in Keys : x # w \/ j # k => cache'[x][j] = cache[x][j]
  <2>1. PICK S : S = {}
    OBVIOUS
  <2>2. Put(w, k, S)
    BY <2>1 DEF Put, Expire
  <2> QED BY <1>1, <2>1, <2>2, CachePut
<1>a. \A x \in Worker, j \in Keys : cache'[x][j] \subseteq cache[x][j]
  <2> TAKE x \in Worker, j \in Keys
  <2>1. CASE x = w /\ j = k
    BY <1>3, <2>1
  <2>2. CASE ~(x = w /\ j = k)
    BY <1>3, <2>2
  <2> QED BY <2>1, <2>2
<1>4. \A x \in Worker : /\ cache'[x]["text"] \subseteq cache[x]["text"]
                       /\ cache'[x]["budget"] \subseteq cache[x]["budget"]
  BY <1>a DEF Keys
<1>5. Typed'
  <2>1. \A t \in Task : ThreadTrue(t, task[t])'
    BY <1>1, <1>2 DEF Typed, ThreadTrue
  <2> QED BY <1>1, <1>2, <1>3, <2>1 DEF Typed, CountTrue
<1>6. BudgetHeld'
  BY <1>2 DEF IInv, BudgetHeld, DayHeld, Booked, Counting
<1>7. ASSUME NEW c \in Campaign \ mixed' PROVE OwnTrue(c)'
  <2>1. OwnTrue(c) /\ (Live(c) => \E x \in Worker : task[c].at = {x})
    BY <1>1, <1>2, TaskFields, RowFields DEF IInv, TextsOwn, Live, ThreadTrue
  <2> QED BY <1>2, <1>4, <2>1 DEF OwnTrue, Live
<1>8. TextsOwn' /\ OwnText'
  BY <1>2, <1>7 DEF IInv, TextsOwn, OwnText
<1>9. \A c \in Campaign : ReportHeld(c)'
  BY <1>2 DEF IInv, ReportHeld, Live
<1>10. CapRead'
  BY <1>2, <1>4 DEF IInv, CapRead, CapThread
<1> QED BY <1>5, <1>6, <1>8, <1>9, <1>10 DEF IInv

LEMMA CrashKeeps ==
  ASSUME SendAssumption, IInv, NEW w \in Worker, Crash(w)
  PROVE  IInv'
<1>1. /\ Typed /\ trouble \in Nat /\ trouble' = trouble + 1 /\ trouble' \in 0..MaxTrouble
      /\ day \in Day /\ 0 <= day
  BY Numbers DEF IInv, Typed, Crash
<1>2. UNCHANGED <<stored, day, row, billed, lifted, accepted, blurred, uncapped, mixed, wrong>>
  BY DEF Crash, ghosts, sends
<1>3. /\ task' \in [Task -> TaskRow]
      /\ \A t \in Task : task'[t] = IF task[t].at = {w} THEN Idle ELSE task[t]
  BY <1>1, IdleTyped DEF Crash, Typed
<1>4. /\ cache' \in [Worker -> [Keys -> SUBSET Value]]
      /\ \A x \in Worker, k \in Keys : cache'[x][k] = IF x = w THEN {} ELSE cache[x][k]
  BY <1>1 DEF Crash, Typed, CacheTyped
<1>5. CacheTyped'
  <2>1. ASSUME NEW x \in Worker, NEW k \in Keys
        PROVE  cache'[x][k] = {} \/ \E v \in ValueOf(k) : cache'[x][k] = {v}
    <3>1. CASE x = w
      BY <1>4, <3>1
    <3>2. CASE x # w
      <4>1. cache'[x][k] = cache[x][k]
        BY <1>4, <3>2
      <4> QED BY <1>1, <4>1 DEF Typed, CacheTyped
    <3> QED BY <3>1, <3>2
  <2> QED BY <1>4, <2>1 DEF CacheTyped
<1>6. ASSUME NEW t \in Task PROVE ThreadTrue(t, task[t])'
  <2>1. ThreadTrue(t, task[t])
    BY <1>1 DEF Typed
  <2>2. CASE task[t].at = {w}
    <3>1. task'[t] = Idle
      BY <1>3, <2>2
    <3> QED BY <1>1, <1>2, <3>1, IdleTyped DEF ThreadTrue, Keys, Sending
  <2>3. CASE task[t].at # {w}
    BY <1>2, <1>3, <2>1, <2>3 DEF ThreadTrue
  <2> QED BY <2>2, <2>3
<1>7. Typed'
  BY <1>1, <1>2, <1>3, <1>5, <1>6 DEF Typed, CountTrue
<1>8. BudgetHeld'
  <2>1. \A d \in Day : Booked(d)' \subseteq Booked(d)
    BY <1>3, IdleTyped DEF Booked, Counting
  <2> QED BY <1>1, <1>2, <2>1, BudgetRest DEF IInv
<1>9. ASSUME NEW c \in Campaign \ mixed' PROVE OwnTrue(c)'
  <2>1. OwnTrue(c) /\ c \in Task /\ (Live(c) => \E x \in Worker : task[c].at = {x})
    BY <1>1, <1>2, TaskFields, RowFields DEF IInv, TextsOwn, Live, ThreadTrue
  <2>2. CASE task[c].at = {w}
    BY <1>3, <2>1, <2>2, IdleTyped DEF OwnTrue, Live
  <2>3. CASE task[c].at # {w}
    <3>1. task'[c] = task[c]
      BY <1>3, <2>1, <2>3
    <3>2. \A x \in Worker : cache'[x]["text"] \subseteq cache[x]["text"]
      BY <1>4 DEF Keys
    <3> QED BY <1>2, <2>1, <3>1, <3>2 DEF OwnTrue, Live
  <2> QED BY <2>2, <2>3
<1>10. TextsOwn' /\ OwnText'
  BY <1>2, <1>9 DEF IInv, TextsOwn, OwnText
<1>11. ASSUME NEW c \in Campaign PROVE ReportHeld(c)'
  <2>1. ReportHeld(c) /\ c \in Task /\ trouble' > 0
    BY <1>1, RowFields DEF IInv
  <2>2. CASE task[c].at = {w}
    <3>1. task'[c] = Idle
      BY <1>3, <2>1, <2>2
    <3> QED BY <1>2, <2>1, <3>1, IdleTyped DEF ReportHeld, Live
  <2>3. CASE task[c].at # {w}
    <3>1. task'[c] = task[c]
      BY <1>3, <2>1, <2>3
    <3> QED BY <1>2, <2>1, <3>1 DEF ReportHeld, Live
  <2> QED BY <2>2, <2>3
<1>12. CapRead'
  <2>1. \A x \in Worker : cache'[x]["budget"] \subseteq cache[x]["budget"]
    BY <1>4 DEF Keys
  <2>2. \A t \in Task : task'[t] = Idle \/ task'[t] = task[t]
    BY <1>3
  <2>3. CapThread(Idle)
    BY IdleTyped DEF CapThread
  <2> QED BY <1>2, <2>1, <2>2, <2>3 DEF IInv, CapRead, CapThread
<1> QED BY <1>7, <1>8, <1>10, <1>11, <1>12 DEF IInv

-------------------------------------------------------------------------------
(* The module's promises.                                                    *)

LEMMA InitHolds ==
  ASSUME SendAssumption, Init
  PROVE  IInv
<1>1. stored \in Settings /\ stored.count.day = -1 /\ stored.count.n = 0 /\ stored.budget = Budget
  BY NoneTyped DEF Init, Settings, Caps
<1>2. CacheTyped
  BY DEF Init, CacheTyped
<1>3. /\ task \in [Task -> TaskRow] /\ \A t \in Task : task[t] = Idle
      /\ \A t \in Task : ThreadTrue(t, task[t])
  <2>1. 0 <= day
    BY DEF Init
  <2> QED BY <2>1, IdleTyped DEF Init, ThreadTrue, Sending, Keys
<1>4. Typed
  <2>1. row \in [Campaign -> CampaignRow]
    BY TallyTyped DEF Init, CampaignRow
  <2>2. /\ day \in Day /\ trouble \in 0..MaxTrouble /\ billed \in [Day -> Nat]
        /\ lifted \in [Day -> Nat] /\ accepted \in [Campaign -> 0..Audience]
        /\ blurred \in SUBSET Day
    BY Numbers DEF Init
  <2>3. uncapped \in BOOLEAN
    BY DEF Init
  <2> QED BY <1>1, <1>2, <1>3, <2>1, <2>2, <2>3 DEF Typed, CountTrue
<1>5. BudgetHeld
  <2>1. Budget \in Nat
    BY Numbers
  <2>2. ASSUME NEW d \in Day PROVE DayHeld(d)
    <3>1. Booked(d) = {} /\ billed[d] = 0
      BY <1>3, IdleTyped DEF Booked, Counting, Init
    <3>2. Cardinality(Booked(d)) = 0
      BY <3>1, FS_EmptySet
    <3> QED BY <1>1, <2>1, <3>1, <3>2 DEF DayHeld
  <2> QED BY <1>1, <2>1, <2>2 DEF BudgetHeld
<1>6. \A c \in Campaign : c \in Task /\ task[c].pc = "idle"
  BY <1>3, IdleTyped DEF Task
<1>7. TextsOwn /\ OwnText
  BY <1>6 DEF Init, TextsOwn, OwnTrue, OwnText, Live
<1>8. ASSUME NEW c \in Campaign PROVE ReportHeld(c)
  <2>1. row[c].status = "none" /\ row[c].tally = Tally /\ accepted[c] = 0
    BY DEF Init
  <2>2. Tally.sent = 0 /\ Tally.failed = 0
    BY DEF Tally
  <2> QED BY <1>6, <2>1, <2>2 DEF ReportHeld, Live
<1>9. CapRead
  <2>1. \A w \in Worker : cache[w]["budget"] = {}
    BY DEF Init, Keys
  <2> QED BY <1>3, <2>1, IdleTyped DEF Init, CapRead, CapThread
<1> QED BY <1>4, <1>5, <1>7, <1>8, <1>9 DEF IInv

LEMMA NextKeeps ==
  ASSUME SendAssumption, IInv, Next
  PROVE  IInv'
<1>1. ASSUME NEW t \in Task, Message(t) PROVE IInv'
  BY <1>1, SelectKeeps, TakeKeeps, PopKeeps, RefuseKeeps, BookKeeps, FailKeeps, DeliverKeeps,
     RejectKeeps
     DEF Message
<1>2. ASSUME NEW c \in Campaign, Drive(c) PROVE IInv'
  BY <1>2, SaveTextKeeps, SkipKeeps, InviteKeeps, BumpKeeps, FinishKeeps DEF Drive
<1> QED BY <1>1, <1>2, MidnightKeeps, CrashKeeps, ExpireKeeps, BeginKeeps, LaunchKeeps DEF Next

LEMMA StutterKeeps ==
  ASSUME SendAssumption, IInv, UNCHANGED vars
  PROVE  IInv'
<1>1. UNCHANGED <<stored, cache, day, row, task, billed, lifted, accepted, trouble,
                  blurred, uncapped, mixed, wrong>>
  BY DEF vars, ghosts, sends
<1>2. Typed'
  BY <1>1 DEF IInv, Typed, CacheTyped, ThreadTrue, CountTrue
<1>3. BudgetHeld'
  BY <1>1 DEF IInv, BudgetHeld, DayHeld, Booked, Counting
<1>4. TextsOwn' /\ OwnText' /\ CapRead'
  BY <1>1 DEF IInv, TextsOwn, OwnTrue, OwnText, Live, CapRead, CapThread
<1>5. \A c \in Campaign : ReportHeld(c)'
  BY <1>1 DEF IInv, ReportHeld, Live
<1> QED BY <1>2, <1>3, <1>4, <1>5 DEF IInv

\* The invariant has what the runs check.
LEMMA Promises ==
  ASSUME SendAssumption, IInv
  PROVE  TypeOK /\ CapUnlessBlurred /\ OwnText /\ ReportTrue
<1>1. Typed
  BY DEF IInv
<1>2. TypeOK
  <2>1. stored.text \in Campaign \cup {"default"}
    BY <1>1, StoredFields DEF Text
  <2>2. stored.count \in [day : Day, n : Nat] \cup {None["count"]}
    <3>1. ~(stored.count.day = -1) => stored.count \in [day : Day, n : Nat]
      BY <1>1, StoredFields DEF Count
    <3>2. CASE stored.count.day = -1
      <4>1. stored.count.n = 0
        BY <1>1, <3>2 DEF Typed, CountTrue
      <4> QED BY <1>1, <3>2, <4>1, StoredFields DEF Count, None
    <3> QED BY <3>1, <3>2
  <2>3. \A w \in Worker, k \in Keys : Cardinality(cache[w][k]) =< 1
    <3> TAKE w \in Worker, k \in Keys
    <3>1. cache[w][k] = {} \/ \E v \in ValueOf(k) : cache[w][k] = {v}
      BY <1>1 DEF Typed, CacheTyped
    <3>2. CASE cache[w][k] = {}
      BY <3>2, FS_EmptySet
    <3>3. CASE \E v \in ValueOf(k) : cache[w][k] = {v}
      <4>1. PICK v : cache[w][k] = {v}
        BY <3>3
      <4>2. Cardinality({v}) = 1
        BY FS_Singleton
      <4> QED BY <4>1, <4>2
    <3> QED BY <3>1, <3>2, <3>3
  <2>4. \A c \in Campaign : row[c].status \in {"none", "running", "stopped", "done"}
    BY <1>1, RowFields
  <2>5. ASSUME NEW t \in Task
        PROVE  /\ task[t].at \subseteq Worker /\ task[t].left \in 0..Audience
               /\ task[t].today \in 0..day /\ (Live(t) <=> task[t].at # {})
    <3>1. ThreadTrue(t, task[t]) /\ task[t].today \in Nat /\ day \in Nat /\ task[t].today <= day
      BY <1>1, TaskFields, Numbers DEF ThreadTrue, Typed
    <3>2. Live(t) <=> task[t].at # {}
      BY <3>1, IdleTyped DEF ThreadTrue, Live
    <3> QED BY <1>1, <3>1, <3>2, TaskFields
  <2>6. stored.budget = Budget
    BY <1>1, StoredFields
  <2> QED BY <1>1, <2>1, <2>2, <2>3, <2>4, <2>5, <2>6 DEF TypeOK, Typed
<1>3. CapUnlessBlurred
  <2>a. ASSUME Budget > 0, NEW d \in Day, lifted[d] > 0 PROVE uncapped
    BY <1>1, <2>a DEF IInv, CapRead, Typed
  <2> SUFFICES ASSUME Budget > 0, NEW d \in Day \ blurred
               PROVE  billed[d] =< Budget /\ (stored["count"].day = d
                        => billed[d] =< stored["count"].n)
    BY <2>a DEF CapUnlessBlurred
  <2>1. DayHeld(d)
    BY DEF IInv, BudgetHeld
  <2>2. Cardinality(Booked(d)) \in Nat /\ billed[d] \in Nat /\ stored.count.n \in Nat
          /\ Budget \in Nat
    BY <1>1, BookedCount, StoredFields, Numbers DEF Typed
  <2> QED BY <2>1, <2>2 DEF DayHeld
<1>4. ReportTrue
  <2> SUFFICES ASSUME NEW c \in Campaign PROVE ReportHeld(c) => 
         LET r == row[c] IN
         /\ r.tally.sent =< accepted[c]
         /\ accepted[c] =< r.tally.sent + r.tally.failed + (IF r.status = "running" THEN 1 ELSE 0)
         /\ r.status = "done" => Sum(r.tally) = Audience
         /\ r.status = "stopped" => Sum(r.tally) < Audience
         /\ r.status \in {"done", "stopped"} => ~Live(c)
         /\ r.status = "running" => Live(c) \/ trouble > 0
    BY DEF ReportTrue, IInv
  <2> QED BY DEF ReportHeld
<1> QED BY <1>2, <1>3, <1>4 DEF IInv

LEMMA Inductive ==
  ASSUME SendAssumption
  PROVE  Spec => []IInv
<1>1. Init => IInv
  BY InitHolds
<1>2. IInv /\ [Next]_vars => IInv'
  BY NextKeeps, StutterKeeps
<1> QED BY <1>1, <1>2, PTL DEF Spec

\* Rows, caches and threads are typed, whatever the order of the reads, bookings and crashes.
THEOREM TypeCorrect ==
  ASSUME SendAssumption
  PROVE  Spec => []TypeOK
<1>1. IInv => TypeOK
  BY Promises
<1> QED BY <1>1, Inductive, PTL

\* The cap of a day holds over the messages that are counted, and the counter has every one of
\* them, unless a booking wrote over another counter than the one it had read (_spend_budget);
\* and a message goes out uncounted only after a read of the budget failed (daily_budget).
THEOREM CapHolds ==
  ASSUME SendAssumption
  PROVE  Spec => []CapUnlessBlurred
<1>1. IInv => CapUnlessBlurred
  BY Promises
<1> QED BY <1>1, Inductive, PTL

\* A campaign sends its own words unless another was launched while it ran or a read was
\* overtaken (launch), and its row tells what became of its audience (run, _bump, _finish).
THEOREM CampaignsHold ==
  ASSUME SendAssumption
  PROVE  Spec => [](OwnText /\ ReportTrue)
<1>1. IInv => OwnText /\ ReportTrue
  BY Promises
<1> QED BY <1>1, Inductive, PTL
===============================================================================
