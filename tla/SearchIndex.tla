----------------------------- MODULE SearchIndex -----------------------------
(***************************************************************************)
(* The retrieval index of every worker and how an edit of the content      *)
(* reaches them (app/services/search.py, "Cross-worker index freshness").   *)
(*                                                                         *)
(* Each worker answers from an index in its own memory.  A writer commits, *)
(* rebuilds its own index and stores a new version in the settings table;   *)
(* the others poll that version while they answer queries and rebuild when  *)
(* they are behind.  One rebuild runs per worker, under a lock that nobody  *)
(* waits for.  An index is the set of the committed edits it was built      *)
(* from; a version is time_ns() when it was stamped, and the clock here     *)
(* ticks with every stamp.                                                 *)
(***************************************************************************)
EXTENDS Naturals

CONSTANTS Worker,
          Edit,          \* content writes: entries, questions, company texts, synonyms
          Synonym,       \* those that change the synonyms table only
          MaxFault       \* bound on crashes, database faults and timeouts together

ASSUME SearchIndexAssumption == Synonym \subseteq Edit /\ MaxFault \in Nat

VARIABLES content,   \* the edits that have been committed
          stored,    \* settings.search_index_version
          clock,     \* the last stamp anybody took
          index,     \* index[w]: the edits in w's index
          version,   \* version[w]: _index_version
          jobs,      \* jobs[w]: calls waiting for a thread of w
          run,       \* run[w]: the rebuild that holds _rebuild_lock, or the boot
          faults,    \* how many faults there have been
          disturbed  \* history: something listed in README happened to the protocol

vars == <<content, stored, clock, index, version, jobs, run, faults, disturbed>>

Job == [kind: {"publish", "until", "synonym"}, edit: Edit]
       \cup [kind: {"refresh", "store"}, version: Nat]

Free == [stage |-> "free"]

Run == {Free, [stage |-> "boot"]}
       \cup [stage: {"adopt"}, since: Nat]
       \cup [stage: {"read"}, job: Job]
       \cup [stage: {"built"}, job: Job, read: SUBSET Edit, whole: BOOLEAN, since: Nat]
       \cup [stage: {"stamped"}, job: Job, whole: BOOLEAN, stamp: Nat]

TypeOK ==
  /\ content \subseteq Edit
  /\ stored \in Nat /\ clock \in Nat
  /\ index \in [Worker -> SUBSET Edit]
  /\ version \in [Worker -> 0..clock]
  /\ jobs \in [Worker -> SUBSET Job]
  /\ run \in [Worker -> Run]
  /\ faults \in 0..MaxFault
  /\ disturbed \in BOOLEAN

\* Every worker has booted; init_index_version() has published the first version.
Init ==
  /\ content = {}
  /\ stored = 1 /\ clock = 1
  /\ index = [w \in Worker |-> {}]
  /\ version = [w \in Worker |-> 1]
  /\ jobs = [w \in Worker |-> {}]
  /\ run = [w \in Worker |-> Free]
  /\ faults = 0
  /\ disturbed = FALSE

Up(w) == run[w].stage \notin {"boot", "adopt"}

Disturbed(yes) == disturbed' = (disturbed \/ yes)

Fault == faults < MaxFault /\ faults' = faults + 1

Become(w, next) == run' = [run EXCEPT ![w] = next]

Drop(w, j) == jobs' = [jobs EXCEPT ![w] = @ \ {j}]
Replace(w, j, k) == jobs' = [jobs EXCEPT ![w] = (@ \ {j}) \cup {k}]

-------------------------------------------------------------------------------
(* A request writes and commits, and leaves the rest to a thread.            *)

Commit(w, e) ==
  /\ Up(w)
  /\ e \notin content
  /\ content' = content \cup {e}
  /\ \E kind \in IF e \in Synonym THEN {"synonym"} ELSE {"publish", "until"} :
       jobs' = [jobs EXCEPT ![w] = @ \cup {[kind |-> kind, edit |-> e]}]
  /\ UNCHANGED <<stored, clock, index, version, run, faults, disturbed>>

-------------------------------------------------------------------------------
(* _rebuild()                                                                *)

Acquire(w, j) ==
  /\ run[w] = Free
  /\ j \in jobs[w] /\ j.kind \in {"publish", "until", "refresh"}
  /\ Become(w, [stage |-> "read", job |-> j])
  /\ Drop(w, j)
  /\ UNCHANGED <<content, stored, clock, index, version, faults, disturbed>>

\* The lock is busy: the call returns, whatever the running rebuild has read.
Refused(w, j) ==
  /\ Up(w) /\ run[w] # Free
  /\ j \in jobs[w] /\ j.kind \in {"publish", "refresh"}
  /\ Drop(w, j)
  /\ Disturbed(TRUE)
  /\ UNCHANGED <<content, stored, clock, index, version, run, faults>>

\* What a load leaves of the index before it switches: the synonyms are reloaded in
\* place, or emptied when their table cannot be read.
Reloaded(w, synonyms) == index' = [index EXCEPT ![w] = (@ \ Synonym) \cup synonyms]

Loaded(w, rows, whole) ==
  Become(w, [stage |-> "built", job |-> run[w].job, read |-> rows, whole |-> whole,
             since |-> clock])

\* The rows this worker has read before.
ReadCached(w) ==
  /\ run[w].stage = "read"
  /\ Loaded(w, index[w], TRUE)
  /\ UNCHANGED <<content, stored, clock, index, version, jobs, faults, disturbed>>

\* load_dataset_internal(): each table is read on its own, and one that the database
\* refuses is logged and taken for empty.
Read(w) ==
  /\ run[w].stage = "read"
  /\ \E rows \in SUBSET (content \ Synonym), synonyms \in {content \cap Synonym, {}} :
       LET whole == rows \cup synonyms = content IN
       /\ IF whole THEN UNCHANGED faults ELSE Fault
       /\ Disturbed(~whole)
       /\ Reloaded(w, synonyms)
       /\ Loaded(w, rows \cup synonyms, whole)
  /\ UNCHANGED <<content, stored, clock, version, jobs>>

Max2(a, b) == IF a < b THEN b ELSE a

\* The synonyms are switched with the rest, to what the load had read.
SwitchedWhole(w) == index' = [index EXCEPT ![w] = run[w].read]

\* Everything is switched at the end of the load, but the synonyms are left as they
\* are by then.
Switched(w) ==
  index' = [index EXCEPT ![w] = (run[w].read \ Synonym) \cup (@ \cap Synonym)]

\* The end of a rebuild that does not publish.
Switch(w) ==
  /\ run[w].stage = "built" /\ run[w].job.kind = "refresh"
  /\ Switched(w)
  /\ version' = [version EXCEPT ![w] = Max2(run[w].job.version, @)]
  /\ Become(w, Free)
  /\ UNCHANGED <<content, stored, clock, jobs, faults, disturbed>>

\* The end of a rebuild that does: the new index, then its version, of now.
Stamp(w) ==
  /\ run[w].stage = "built" /\ run[w].job.kind # "refresh"
  /\ Switched(w)
  /\ clock' = clock + 1
  /\ version' = [version EXCEPT ![w] = clock + 1]
  /\ Disturbed(clock # run[w].since)
  /\ Become(w, [stage |-> "stamped", job |-> run[w].job, whole |-> run[w].whole,
                stamp |-> clock + 1])
  /\ UNCHANGED <<content, stored, jobs, faults>>

Store(w) ==
  /\ run[w].stage = "stamped"
  /\ stored' = run[w].stamp
  /\ Disturbed(stored > run[w].stamp)
  /\ Become(w, Free)
  /\ UNCHANGED <<content, clock, index, version, jobs, faults>>

\* The load raises, or the version cannot be stored: the version is forgotten, so
\* that the next poll tries again.  Only the until_done form tries to publish again.
Fail(w) ==
  /\ run[w].stage \in {"read", "built", "stamped"}
  /\ Fault
  /\ version' = [version EXCEPT ![w] = 0]
  /\ IF run[w].job.kind = "until"
     THEN jobs' = [jobs EXCEPT ![w] = @ \cup {run[w].job}] /\ UNCHANGED disturbed
     ELSE Disturbed(run[w].job.kind = "publish") /\ UNCHANGED jobs
  /\ Become(w, Free)
  /\ UNCHANGED <<content, stored, clock, index>>

-------------------------------------------------------------------------------
(* bump_index_version(): a version without a rebuild, after an edit of the   *)
(* synonyms and when until_done runs out of time.                            *)

\* The next number instead of the time.
BumpByOne(w, j) ==
  /\ version' = [version EXCEPT ![w] = @ + 1]
  /\ Replace(w, j, [kind |-> "store", version |-> version[w] + 1])
  /\ UNCHANGED clock

Bump(w, j) ==
  /\ clock' = clock + 1
  /\ version' = [version EXCEPT ![w] = clock + 1]
  /\ Replace(w, j, [kind |-> "store", version |-> clock + 1])

ReloadSynonyms(w, j) ==
  /\ j \in jobs[w] /\ j.kind = "synonym"
  /\ \E synonyms \in {content \cap Synonym, {}} :
       /\ IF synonyms = content \cap Synonym THEN UNCHANGED faults ELSE Fault
       /\ Reloaded(w, synonyms)
       /\ Disturbed(version[w] < clock \/ synonyms # content \cap Synonym)
  /\ Bump(w, j)
  /\ UNCHANGED <<content, stored, run>>

TimeOut(w, j) ==
  /\ Up(w) /\ run[w] # Free
  /\ j \in jobs[w] /\ j.kind = "until"
  /\ Fault
  /\ Bump(w, j)
  /\ Disturbed(TRUE)
  /\ UNCHANGED <<content, stored, index, run>>

StoreBump(w, j) ==
  /\ j \in jobs[w] /\ j.kind = "store"
  /\ stored' = j.version
  /\ Disturbed(stored > j.version)
  /\ Drop(w, j)
  /\ UNCHANGED <<content, clock, index, version, run, faults>>

-------------------------------------------------------------------------------
(* _maybe_refresh(), on the path of a query.                                 *)

Poll(w) ==
  /\ Up(w)
  /\ stored > version[w]
  /\ version' = [version EXCEPT ![w] = stored]
  /\ jobs' = [jobs EXCEPT ![w] = @ \cup {[kind |-> "refresh", version |-> stored]}]
  /\ UNCHANGED <<content, stored, clock, index, run, faults, disturbed>>

-------------------------------------------------------------------------------
(* A worker dies and is started again: the index is loaded, then the version *)
(* adopted that is stored by then.                                           *)

Unpublished(w) ==
  \/ run[w].stage \in {"read", "built", "stamped"} /\ run[w].job.kind # "refresh"
  \/ \E j \in jobs[w] : j.kind # "refresh"

Crash(w) ==
  /\ Up(w)
  /\ Fault
  /\ Disturbed(Unpublished(w))
  /\ index' = [index EXCEPT ![w] = {}]
  /\ version' = [version EXCEPT ![w] = 0]
  /\ jobs' = [jobs EXCEPT ![w] = {}]
  /\ Become(w, [stage |-> "boot"])
  /\ UNCHANGED <<content, stored, clock>>

BootLoad(w) ==
  /\ run[w].stage = "boot"
  /\ index' = [index EXCEPT ![w] = content]
  /\ Become(w, [stage |-> "adopt", since |-> clock])
  /\ UNCHANGED <<content, stored, clock, version, jobs, faults, disturbed>>

BootAdopt(w) ==
  /\ run[w].stage = "adopt"
  /\ version' = [version EXCEPT ![w] = stored]
  /\ Disturbed(clock # run[w].since)
  /\ Become(w, Free)
  /\ UNCHANGED <<content, stored, clock, index, jobs, faults>>

-------------------------------------------------------------------------------

\* What a worker's threads do without being asked twice.
Work(w) ==
  \/ Read(w) \/ Switch(w) \/ Stamp(w) \/ Store(w)
  \/ \E j \in jobs[w] : Acquire(w, j) \/ Refused(w, j) \/ ReloadSynonyms(w, j) \/ StoreBump(w, j)
  \/ BootLoad(w) \/ BootAdopt(w)

Next ==
  \E w \in Worker :
    \/ \E e \in Edit : Commit(w, e)
    \/ Work(w)
    \/ Poll(w)
    \/ \E j \in jobs[w] : TimeOut(w, j)
    \/ Fail(w)
    \/ Crash(w)

Spec == Init /\ [][Next]_vars

\* Threads run, and visitors keep asking every worker.
FairSpec == Spec /\ \A w \in Worker : WF_vars(Work(w)) /\ WF_vars(Poll(w))

-------------------------------------------------------------------------------
(* Properties.                                                               *)

\* A running worker's answers never fall back to an older state of the content: of
\* the rebuilds that its own edits and other workers' versions start in any order,
\* none replaces a newer index, unless the database would not be read.
NeverStepsBack ==
  [][\A w \in Worker :
       \/ index[w] \subseteq index'[w]
       \/ faults' # faults
       \/ run[w].stage = "built" /\ ~run[w].whole]_vars

\* "The first one that runs to the end has read the committed rows": when a publish
\* ends, this worker answers from the edit it was called for.
PublishedMeansIndexed ==
  \A w \in Worker : run[w].stage = "stamped" /\ run[w].whole => run[w].job.edit \in index[w]

\* "Stamp a new version so every other worker picks the change up": in the end every
\* worker answers from everything that was committed, unless a rebuild was refused,
\* two stamps crossed, or a fault hit a publication.
FreshUnlessDisturbed ==
  <>[](disturbed \/ \A w \in Worker : index[w] = content)

\* Both: the answers of a worker only ever grow, and in the end they are everybody's.
CatchesUp == NeverStepsBack /\ FreshUnlessDisturbed

\* The same promise as it is written, of an edit whose version was stamped.
PickedUp ==
  \A w \in Worker, e \in Edit :
    run[w].stage = "stamped" /\ run[w].job.edit = e ~> \A v \in Worker : e \in index[v]
===============================================================================
