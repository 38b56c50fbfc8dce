--------------------------- MODULE SearchIndexProofs ---------------------------
(***************************************************************************)
(* Theorems about SearchIndex, for every set of workers and of edits and   *)
(* every number of faults: type correctness, that a publication which has  *)
(* read the whole content answers from its edit, and that an index never   *)
(* steps back unless the database would not be read.                       *)
(***************************************************************************)
EXTENDS SearchIndex, TLAPS

-------------------------------------------------------------------------------
(* The inductive invariant.                                                  *)

\* What is to be published has been committed and is not a synonym, and no version is of
\* the future.
JobSound(j) ==
  /\ j.kind \in {"publish", "until"} => j.edit \in content \ Synonym
  /\ j.kind \in {"refresh", "store"} => j.version <= clock

\* A load has read nothing uncommitted; when it could read every table, it has read all of
\* the index that it will replace, and its own edit, which is in the index once it is there.
RunSound(w) ==
  /\ run[w].stage \in {"read", "built", "stamped"} =>
       JobSound(run[w].job) /\ run[w].job.kind \in {"publish", "until", "refresh"}
  /\ run[w].stage = "built" => run[w].read \subseteq content
  /\ run[w].stage = "built" /\ run[w].whole =>
       /\ index[w] \ Synonym \subseteq run[w].read
       /\ run[w].job.kind # "refresh" => run[w].job.edit \in run[w].read
  /\ run[w].stage = "stamped" =>
       /\ run[w].job.kind # "refresh" /\ run[w].stamp <= clock
       /\ run[w].whole => run[w].job.edit \in index[w]

IInv ==
  /\ TypeOK
  /\ stored <= clock
  /\ \A w \in Worker : /\ index[w] \subseteq content
                       /\ \A j \in jobs[w] : JobSound(j)
                       /\ RunSound(w)

-------------------------------------------------------------------------------
(* Lemmas on calls and rebuilds.                                             *)

\* A call has the fields its kind promises.
LEMMA JobTyping ==
  ASSUME NEW j \in Job
  PROVE  /\ j.kind \in {"publish", "until", "synonym", "refresh", "store"}
         /\ j.kind \in {"publish", "until", "synonym"} => j.edit \in Edit
         /\ j.kind \in {"refresh", "store"} => j.version \in Nat
BY DEF Job

\* A rebuild has the fields its stage promises.
LEMMA RunTyping ==
  ASSUME NEW r \in Run
  PROVE  /\ r.stage \in {"free", "boot", "adopt", "read", "built", "stamped"}
         /\ r.stage \in {"read", "built", "stamped"} => r.job \in Job
         /\ r.stage = "built" => r.read \subseteq Edit /\ r.whole \in BOOLEAN
         /\ r.stage = "stamped" => r.whole \in BOOLEAN /\ r.stamp \in Nat
BY DEF Run, Free

\* A record of every stage is a rebuild.
LEMMA RunForming ==
  ASSUME NEW j \in Job, NEW rows \in SUBSET Edit, NEW whole \in BOOLEAN, NEW n \in Nat
  PROVE  /\ Free \in Run
         /\ [stage |-> "boot"] \in Run
         /\ [stage |-> "adopt", since |-> n] \in Run
         /\ [stage |-> "read", job |-> j] \in Run
         /\ [stage |-> "built", job |-> j, read |-> rows, whole |-> whole, since |-> n] \in Run
         /\ [stage |-> "stamped", job |-> j, whole |-> whole, stamp |-> n] \in Run
BY DEF Run

\* What the steps need to know of one worker.
LEMMA WorkerTyping ==
  ASSUME IInv, NEW w \in Worker
  PROVE  /\ index[w] \subseteq content /\ content \subseteq Edit /\ Synonym \subseteq Edit
         /\ version[w] \in Nat /\ version[w] <= clock /\ clock \in Nat
         /\ stored \in Nat /\ stored <= clock
         /\ run[w] \in Run /\ jobs[w] \subseteq Job
         /\ \A j \in jobs[w] : JobSound(j)
         /\ RunSound(w)
BY SearchIndexAssumption DEF IInv, TypeOK

-------------------------------------------------------------------------------
(* A step is a step of one worker.                                           *)

\* What is well-formed afterwards, and that nothing is taken back but by worker w.
Formed(w) ==
  /\ content' \subseteq Edit /\ content \subseteq content'
  /\ clock' \in Nat /\ clock <= clock'
  /\ stored' \in Nat /\ stored' <= clock'
  /\ faults' \in 0..MaxFault /\ disturbed' \in BOOLEAN
  /\ index' \in [Worker -> SUBSET Edit] /\ jobs' \in [Worker -> SUBSET Job]
  /\ run' \in [Worker -> Run]
  /\ DOMAIN version' = Worker /\ version' = [v \in Worker |-> version'[v]]
  /\ version'[w] \in 0..clock'
  /\ \A v \in Worker \ {w} : /\ index'[v] = index[v] /\ version'[v] = version[v]
                             /\ jobs'[v] = jobs[v] /\ run'[v] = run[v]

\* A version that is only stamped, and content that is only added, leaves calls sound.
LEMMA JobsStaySound ==
  ASSUME IInv, NEW j \in Job, JobSound(j), content \subseteq content', clock' \in Nat,
         clock <= clock'
  PROVE  JobSound(j)'
<1>1. clock \in Nat /\ (j.kind \in {"refresh", "store"} => j.version \in Nat)
  BY JobTyping DEF IInv, TypeOK
<1>2. QED
  BY <1>1 DEF JobSound

\* What is noted is noted, or not, and a fault is one of those allowed.
LEMMA Noting ==
  ASSUME IInv
  PROVE  /\ \A yes \in BOOLEAN : Disturbed(yes) => disturbed' \in BOOLEAN
         /\ UNCHANGED disturbed => disturbed' \in BOOLEAN
         /\ Fault \/ UNCHANGED faults => faults' \in 0..MaxFault
<1>1. disturbed \in BOOLEAN /\ faults \in 0..MaxFault /\ MaxFault \in Nat
  BY SearchIndexAssumption DEF IInv, TypeOK
<1>2. \A yes \in BOOLEAN : Disturbed(yes) => disturbed' \in BOOLEAN
  BY DEF Disturbed
<1>3. Fault \/ UNCHANGED faults => faults' \in 0..MaxFault
  BY <1>1 DEF Fault
<1>4. QED
  BY <1>1, <1>2, <1>3

\* A well-formed step that leaves one worker sound keeps the invariant.
LEMMA Stepping ==
  ASSUME IInv, NEW w \in Worker, Formed(w), index'[w] \subseteq content',
         \A j \in jobs'[w] : JobSound(j)', RunSound(w)'
  PROVE  IInv'
<1>1. TypeOK'
  <2>1. \A v \in Worker : version'[v] \in 0..clock'
    BY DEF Formed, IInv, TypeOK
  <2>2. QED
    BY <2>1 DEF Formed, TypeOK
<1>2. ASSUME NEW v \in Worker \ {w}
      PROVE  /\ index'[v] \subseteq content'
             /\ \A j \in jobs'[v] : JobSound(j)'
             /\ RunSound(v)'
  <2>1. /\ index'[v] = index[v] /\ jobs'[v] = jobs[v] /\ run'[v] = run[v]
        /\ content \subseteq content' /\ clock' \in Nat /\ clock <= clock' /\ clock \in Nat
    BY DEF Formed, IInv, TypeOK
  <2>2. \A j \in jobs'[v] : JobSound(j)'
    BY <2>1, WorkerTyping, JobsStaySound
  <2>3. RunSound(v)'
    <3>1. run[v].stage \in {"read", "built", "stamped"} => run[v].job \in Job
      BY WorkerTyping, RunTyping
    <3>2. run[v].stage \in {"read", "built", "stamped"} => JobSound(run[v].job)'
      <4> SUFFICES ASSUME run[v].stage \in {"read", "built", "stamped"}
                   PROVE  JobSound(run[v].job)'
        OBVIOUS
      <4>1. PICK j \in Job : j = run[v].job
        BY <3>1
      <4>2. JobSound(j)
        BY <4>1, WorkerTyping DEF RunSound
      <4>3. JobSound(j)'
        BY <2>1, <4>2, JobsStaySound
      <4>4. QED
        BY <2>1, <4>1, <4>3 DEF JobSound
    <3>3. run[v].stage = "stamped" => run[v].stamp \in Nat
      BY WorkerTyping, RunTyping
    <3>4. QED
      BY <2>1, <3>2, <3>3, WorkerTyping DEF RunSound
  <2>4. QED
    BY <2>1, <2>2, <2>3, WorkerTyping
<1>3. QED
  BY <1>1, <1>2 DEF IInv, Formed

-------------------------------------------------------------------------------
(* The invariant holds at first.                                             *)

\* The first state satisfies the invariant.
LEMMA InitInvariant == Init => IInv
<1> SUFFICES ASSUME Init PROVE IInv
  OBVIOUS
<1>1. Free \in Run /\ Free.stage = "free"
  BY DEF Run, Free
<1>2. 0 \in 0..MaxFault /\ 1 \in 0..1 /\ 1 \in Nat /\ 1 <= 1
  BY SearchIndexAssumption
<1>3. TypeOK
  BY <1>1, <1>2 DEF Init, TypeOK
<1>4. QED
  BY <1>1, <1>2, <1>3 DEF Init, IInv, RunSound

-------------------------------------------------------------------------------
(* Every step keeps it.                                                      *)

\* A request commits an edit.
LEMMA CommitKeeps ==
  ASSUME IInv, NEW w \in Worker, NEW e \in Edit, Commit(w, e)
  PROVE  IInv'
<1>w. /\ index[w] \subseteq content /\ content \subseteq Edit /\ clock \in Nat
      /\ jobs[w] \subseteq Job /\ RunSound(w) /\ \A j \in jobs[w] : JobSound(j)
  BY WorkerTyping
<1>1. PICK kind \in {"publish", "until", "synonym"} :
        /\ jobs' = [jobs EXCEPT ![w] = @ \cup {[kind |-> kind, edit |-> e]}]
        /\ kind # "synonym" => e \notin Synonym
  BY DEF Commit
<1>2. [kind |-> kind, edit |-> e] \in Job
  BY DEF Job
<1>3. /\ content' = content \cup {e} /\ jobs'[w] = jobs[w] \cup {[kind |-> kind, edit |-> e]}
      /\ index'[w] = index[w] /\ UNCHANGED <<clock, index, run>>
  BY <1>1 DEF Commit, IInv, TypeOK
<1>4. Formed(w)
  BY <1>1, <1>2, WorkerTyping DEF Commit, Formed, IInv, TypeOK
<1>5. \A j \in jobs'[w] : JobSound(j)'
  <2>1. ASSUME NEW j \in jobs[w]
        PROVE  JobSound(j)'
    BY <1>w, <1>3, JobsStaySound DEF Formed
  <2>2. \A j : j = [kind |-> kind, edit |-> e] => JobSound(j)'
    BY <1>1, <1>3 DEF JobSound
  <2>3. QED
    BY <1>3, <2>1, <2>2
<1>6. RunSound(w)'
  BY <1>w, <1>3 DEF RunSound, JobSound
<1>7. QED
  BY <1>3, <1>4, <1>5, <1>6, <1>w, Stepping

\* A rebuild takes the lock.
LEMMA AcquireKeeps ==
  ASSUME IInv, NEW w \in Worker, NEW j \in jobs[w], Acquire(w, j)
  PROVE  IInv'
<1>w. jobs[w] \subseteq Job /\ RunSound(w) /\ \A k \in jobs[w] : JobSound(k)
  BY WorkerTyping
<1>1. [stage |-> "read", job |-> j] \in Run
  BY <1>w, RunForming DEF Run
<1>2. /\ run'[w] = [stage |-> "read", job |-> j] /\ jobs'[w] = jobs[w] \ {j}
      /\ UNCHANGED <<content, clock, index>>
  BY DEF Acquire, Become, Drop, IInv, TypeOK
<1>3. Formed(w)
  BY <1>1, WorkerTyping DEF Acquire, Become, Drop, Formed, IInv, TypeOK
<1>4. RunSound(w)'
  BY <1>w, <1>2 DEF Acquire, RunSound, JobSound
<1>5. \A k \in jobs'[w] : JobSound(k)'
  BY <1>w, <1>2 DEF JobSound
<1>6. QED
  BY <1>2, <1>3, <1>4, <1>5, WorkerTyping, Stepping

\* A call is dropped: the lock was busy, or the version it was to store is stored.
LEMMA DropKeeps ==
  ASSUME IInv, NEW w \in Worker, NEW j \in jobs[w], Refused(w, j) \/ StoreBump(w, j)
  PROVE  IInv'
<1>w. jobs[w] \subseteq Job /\ RunSound(w) /\ \A k \in jobs[w] : JobSound(k)
  BY WorkerTyping
<1>1. /\ jobs'[w] = jobs[w] \ {j}
      /\ UNCHANGED <<content, clock, index, run>>
  BY DEF Refused, StoreBump, Drop, IInv, TypeOK
<1>2. stored' \in Nat /\ stored' <= clock
  BY <1>w, JobTyping, WorkerTyping DEF Refused, StoreBump, JobSound
<1>n. disturbed' \in BOOLEAN /\ faults' \in 0..MaxFault
  <2>1. disturbed' \in BOOLEAN
    BY DEF Refused, StoreBump, Disturbed
  <2>2. faults' \in 0..MaxFault
    BY Noting DEF Refused, StoreBump
  <2>3. QED
    BY <2>1, <2>2
<1>3. Formed(w)
  <2>1. /\ jobs' = [jobs EXCEPT ![w] = @ \ {j}]
        /\ UNCHANGED <<content, clock, index, version, run>>
    BY DEF Refused, StoreBump, Drop
  <2>2. QED
    BY <1>2, <1>n, <2>1, WorkerTyping DEF Formed, IInv, TypeOK
<1>4. RunSound(w)' /\ \A k \in jobs'[w] : JobSound(k)'
  BY <1>w, <1>1 DEF RunSound, JobSound
<1>5. QED
  BY <1>1, <1>3, <1>4, WorkerTyping, Stepping

\* The tables are read.
LEMMA ReadKeeps ==
  ASSUME IInv, NEW w \in Worker, Read(w)
  PROVE  IInv'
<1>w. /\ index[w] \subseteq content /\ content \subseteq Edit /\ clock \in Nat
      /\ run[w] \in Run /\ RunSound(w) /\ \A k \in jobs[w] : JobSound(k)
  BY WorkerTyping
<1>1. PICK rows \in SUBSET (content \ Synonym), synonyms \in {content \cap Synonym, {}},
           whole \in BOOLEAN :
        /\ whole = (rows \cup synonyms = content)
        /\ IF whole THEN UNCHANGED faults ELSE Fault
        /\ Disturbed(~whole)
        /\ Reloaded(w, synonyms)
        /\ Loaded(w, rows \cup synonyms, whole)
  BY DEF Read
<1> DEFINE all == rows \cup synonyms
<1>2. /\ run[w].stage = "read" /\ run[w].job \in Job /\ UNCHANGED <<content, clock, jobs>>
      /\ all \subseteq content /\ whole => all = content
  BY <1>w, <1>1, RunTyping DEF Read
<1>3. [stage |-> "built", job |-> run[w].job, read |-> all, whole |-> whole, since |-> clock]
        \in Run
  BY <1>w, <1>1, <1>2, RunForming
<1>4. /\ run'[w] = [stage |-> "built", job |-> run[w].job, read |-> all, whole |-> whole,
                    since |-> clock]
      /\ index'[w] = (index[w] \ Synonym) \cup synonyms
  BY <1>1 DEF Loaded, Reloaded, Become, IInv, TypeOK
<1>n. disturbed' \in BOOLEAN /\ faults' \in 0..MaxFault
  BY <1>1, Noting
<1>5. Formed(w)
  <2>1. /\ run' \in [Worker -> Run]
        /\ \A v \in Worker \ {w} : run'[v] = run[v]
    BY <1>1, <1>3 DEF Loaded, Become, IInv, TypeOK
  <2>2. /\ index' \in [Worker -> SUBSET Edit]
        /\ \A v \in Worker \ {w} : index'[v] = index[v]
    BY <1>w, <1>1, <1>4 DEF Reloaded, IInv, TypeOK
  <2>3. UNCHANGED <<content, stored, clock, version, jobs>>
    BY DEF Read
  <2>4. QED
    BY <1>n, <2>1, <2>2, <2>3, WorkerTyping DEF Formed, IInv, TypeOK
<1>6. index'[w] \subseteq content'
  BY <1>w, <1>1, <1>2, <1>4
<1>7. JobSound(run[w].job) /\ run[w].job.kind \in {"publish", "until", "refresh"}
  BY <1>w, <1>2 DEF RunSound
<1>8. RunSound(w)'
  BY <1>w, <1>1, <1>2, <1>4, <1>7 DEF RunSound, JobSound
<1>9. \A k \in jobs'[w] : JobSound(k)'
  BY <1>w, <1>2 DEF JobSound
<1>10. QED
  BY <1>5, <1>6, <1>8, <1>9, Stepping

\* What a switch to what has been read leaves in the index.
LEMMA Switching ==
  ASSUME IInv, NEW w \in Worker, run[w].stage = "built", Switched(w)
  PROVE  /\ index'[w] = (run[w].read \ Synonym) \cup (index[w] \cap Synonym)
         /\ index'[w] \subseteq content
         /\ run[w].whole => index[w] \subseteq index'[w]
         /\ run[w].whole /\ run[w].job.kind # "refresh" => run[w].job.edit \in index'[w]
         /\ index' \in [Worker -> SUBSET Edit]
         /\ \A v \in Worker \ {w} : index'[v] = index[v]
<1>1. index[w] \subseteq content /\ content \subseteq Edit /\ RunSound(w)
  BY WorkerTyping
<1>2. /\ index'[w] = (run[w].read \ Synonym) \cup (index[w] \cap Synonym)
      /\ \A v \in Worker \ {w} : index'[v] = index[v]
  BY DEF Switched, IInv, TypeOK
<1>3. index'[w] \subseteq content
  BY <1>1, <1>2 DEF RunSound
<1>4. index' \in [Worker -> SUBSET Edit]
  BY <1>1, <1>2, <1>3 DEF Switched, IInv, TypeOK
<1>5. /\ run[w].whole => index[w] \subseteq index'[w]
      /\ run[w].whole /\ run[w].job.kind # "refresh" => run[w].job.edit \in index'[w]
  BY <1>1, <1>2 DEF RunSound, JobSound
<1>6. QED
  BY <1>2, <1>3, <1>4, <1>5

\* A rebuild for another worker's version ends.
LEMMA SwitchKeeps ==
  ASSUME IInv, NEW w \in Worker, Switch(w)
  PROVE  IInv'
<1>w. /\ version[w] \in Nat /\ version[w] <= clock /\ clock \in Nat
      /\ run[w] \in Run /\ RunSound(w) /\ \A j \in jobs[w] : JobSound(j)
  BY WorkerTyping
<1>1. /\ run[w].stage = "built" /\ run[w].job.kind = "refresh" /\ run[w].job \in Job
      /\ Switched(w) /\ UNCHANGED <<content, stored, clock, jobs, faults, disturbed>>
      /\ run' = [run EXCEPT ![w] = Free]
      /\ version' = [version EXCEPT ![w] = Max2(run[w].job.version, @)]
  BY <1>w, RunTyping DEF Switch, Become
<1>2. run[w].job.version \in Nat /\ run[w].job.version <= clock
  BY <1>w, <1>1, JobTyping DEF RunSound, JobSound
<1>3. Max2(run[w].job.version, version[w]) \in 0..clock
  BY <1>w, <1>2 DEF Max2
<1>4. Free \in Run /\ Free.stage = "free"
  BY DEF Run, Free
<1>5. /\ index'[w] \subseteq content /\ index' \in [Worker -> SUBSET Edit]
      /\ \A v \in Worker \ {w} : index'[v] = index[v]
  BY <1>1, Switching
<1>6. Formed(w)
  <2>1. /\ DOMAIN version' = Worker /\ version' = [v \in Worker |-> version'[v]]
        /\ version'[w] = Max2(run[w].job.version, version[w])
        /\ \A v \in Worker \ {w} : version'[v] = version[v]
    BY <1>1 DEF IInv, TypeOK
  <2>2. run' \in [Worker -> Run] /\ \A v \in Worker \ {w} : run'[v] = run[v]
    BY <1>1, <1>4 DEF IInv, TypeOK
  <2>3. QED
    BY <1>1, <1>3, <1>5, <2>1, <2>2, WorkerTyping DEF Formed, IInv, TypeOK
<1>7. RunSound(w)'
  BY <1>1, <1>4 DEF RunSound, IInv, TypeOK
<1>8. \A j \in jobs'[w] : JobSound(j)'
  BY <1>w, <1>1 DEF JobSound
<1>9. QED
  BY <1>1, <1>5, <1>6, <1>7, <1>8, Stepping

\* A rebuild that publishes ends, and its version is stamped.
LEMMA StampKeeps ==
  ASSUME IInv, NEW w \in Worker, Stamp(w)
  PROVE  IInv'
<1>w. /\ clock \in Nat /\ run[w] \in Run /\ RunSound(w) /\ \A j \in jobs[w] : JobSound(j)
  BY WorkerTyping
<1> DEFINE stamped == [stage |-> "stamped", job |-> run[w].job, whole |-> run[w].whole,
                       stamp |-> clock + 1]
<1>1. /\ run[w].stage = "built" /\ run[w].job.kind # "refresh"
      /\ run[w].job \in Job /\ run[w].whole \in BOOLEAN
      /\ Switched(w) /\ UNCHANGED <<content, stored, jobs, faults>>
      /\ clock' = clock + 1
      /\ run' = [run EXCEPT ![w] = stamped]
      /\ version' = [version EXCEPT ![w] = clock + 1]
  BY <1>w, RunTyping DEF Stamp, Become
<1>2. stamped \in Run
  <2>1. clock + 1 \in Nat
    BY <1>w
  <2>2. QED
    BY <1>1, <2>1 DEF Run
<1>3. /\ index'[w] \subseteq content /\ index' \in [Worker -> SUBSET Edit]
      /\ run[w].whole => run[w].job.edit \in index'[w]
      /\ \A v \in Worker \ {w} : index'[v] = index[v]
  BY <1>1, Switching
<1>n. disturbed' \in BOOLEAN
  BY DEF Stamp, Disturbed
<1>4. Formed(w)
  <2>1. /\ run' \in [Worker -> Run] /\ \A v \in Worker \ {w} : run'[v] = run[v]
    BY <1>1, <1>2 DEF IInv, TypeOK
  <2>2. /\ clock + 1 \in 0..(clock + 1) /\ clock' \in Nat /\ clock <= clock'
    BY <1>w, <1>1
  <2>3. /\ DOMAIN version' = Worker /\ version' = [v \in Worker |-> version'[v]]
        /\ version'[w] = clock + 1 /\ \A v \in Worker \ {w} : version'[v] = version[v]
    BY <1>1 DEF IInv, TypeOK
  <2>4. stored' \in Nat /\ stored' <= clock'
    BY <1>w, <1>1, WorkerTyping
  <2>5. QED
    BY <1>1, <1>3, <1>n, <2>1, <2>2, <2>3, <2>4, WorkerTyping DEF Formed, IInv, TypeOK
<1>5. JobSound(run[w].job)' /\ run[w].job.kind \in {"publish", "until", "refresh"}
  <2>1. run'[w].job = run[w].job
    BY <1>1 DEF IInv, TypeOK
  <2>2. run[w].job.kind \in {"publish", "until"} /\ JobSound(run[w].job)
    BY <1>w, <1>1 DEF RunSound
  <2>3. QED
    BY <1>1, <2>1, <2>2 DEF JobSound
<1>6. /\ run'[w].stage = "stamped" /\ run'[w].job = run[w].job
      /\ run'[w].whole = run[w].whole /\ run'[w].stamp = clock'
  BY <1>1 DEF IInv, TypeOK
<1>7. RunSound(w)'
  BY <1>w, <1>1, <1>3, <1>5, <1>6 DEF RunSound
<1>8. \A j \in jobs'[w] : JobSound(j)'
  <2>1. /\ jobs'[w] = jobs[w] /\ jobs[w] \subseteq Job /\ content' = content
        /\ clock' \in Nat /\ clock <= clock'
    BY <1>w, <1>1, WorkerTyping
  <2>2. QED
    BY <1>w, <2>1, JobsStaySound
<1>9. QED
  BY <1>1, <1>3, <1>4, <1>7, <1>8, Stepping

\* Its version is stored.
LEMMA StoreKeeps ==
  ASSUME IInv, NEW w \in Worker, Store(w)
  PROVE  IInv'
<1>w. /\ clock \in Nat /\ run[w] \in Run /\ RunSound(w) /\ \A j \in jobs[w] : JobSound(j)
      /\ index[w] \subseteq content
  BY WorkerTyping
<1>1. /\ run[w].stage = "stamped" /\ stored' = run[w].stamp /\ run' = [run EXCEPT ![w] = Free]
      /\ UNCHANGED <<content, clock, index, version, jobs, faults>>
  BY DEF Store, Become
<1>2. stored' \in Nat /\ stored' <= clock'
  BY <1>w, <1>1, RunTyping DEF RunSound
<1>3. Free \in Run /\ Free.stage = "free"
  BY DEF Run, Free
<1>n. disturbed' \in BOOLEAN
  BY DEF Store, Disturbed
<1>4. Formed(w)
  BY <1>1, <1>2, <1>3, <1>n, WorkerTyping DEF Formed, IInv, TypeOK
<1>5. RunSound(w)'
  BY <1>1, <1>3 DEF RunSound, IInv, TypeOK
<1>6. \A j \in jobs'[w] : JobSound(j)'
  BY <1>w, <1>1 DEF JobSound
<1>7. QED
  BY <1>w, <1>1, <1>4, <1>5, <1>6, Stepping

\* A rebuild fails, and a call that has time left waits again.
LEMMA FailKeeps ==
  ASSUME IInv, NEW w \in Worker, Fail(w)
  PROVE  IInv'
<1>w. /\ clock \in Nat /\ run[w] \in Run /\ RunSound(w) /\ \A j \in jobs[w] : JobSound(j)
      /\ index[w] \subseteq content /\ jobs[w] \subseteq Job
  BY WorkerTyping
<1>1. /\ run[w].job \in Job /\ JobSound(run[w].job)
  BY <1>w, RunTyping DEF Fail, RunSound
<1>2. PICK more \in {{}, {run[w].job}} : jobs' = [jobs EXCEPT ![w] = @ \cup more]
  <2>1. CASE run[w].job.kind = "until"
    BY <2>1 DEF Fail
  <2>2. CASE run[w].job.kind # "until"
    <3>1. jobs' = [jobs EXCEPT ![w] = @ \cup {}]
      BY <2>2 DEF Fail, IInv, TypeOK
    <3>2. QED
      BY <3>1
  <2>3. QED
    BY <2>1, <2>2
<1>3. Free \in Run /\ Free.stage = "free"
  BY DEF Run, Free
<1>4. /\ run' = [run EXCEPT ![w] = Free] /\ version' = [version EXCEPT ![w] = 0]
      /\ UNCHANGED <<content, stored, clock, index>>
      /\ faults' \in 0..MaxFault
  BY Noting DEF Fail, Become
<1>n. disturbed' \in BOOLEAN
  BY DEF Fail, Disturbed, IInv, TypeOK
<1>5. jobs'[w] = jobs[w] \cup more /\ more \subseteq Job
  BY <1>1, <1>2 DEF IInv, TypeOK
<1>6. Formed(w)
  <2>1. jobs' \in [Worker -> SUBSET Job] /\ \A v \in Worker \ {w} : jobs'[v] = jobs[v]
    BY <1>w, <1>2, <1>5 DEF IInv, TypeOK
  <2>2. /\ DOMAIN version' = Worker /\ version' = [v \in Worker |-> version'[v]]
        /\ version'[w] = 0
        /\ \A v \in Worker \ {w} : version'[v] = version[v]
    BY <1>4 DEF IInv, TypeOK
  <2>3. run' \in [Worker -> Run] /\ \A v \in Worker \ {w} : run'[v] = run[v]
    BY <1>3, <1>4 DEF IInv, TypeOK
  <2>4. QED
    BY <1>w, <1>4, <1>n, <2>1, <2>2, <2>3, WorkerTyping DEF Formed, IInv, TypeOK
<1>7. RunSound(w)'
  BY <1>3, <1>4 DEF RunSound, IInv, TypeOK
<1>8. \A j \in jobs'[w] : JobSound(j)'
  BY <1>w, <1>1, <1>4, <1>5 DEF JobSound
<1>9. QED
  BY <1>w, <1>4, <1>6, <1>7, <1>8, Stepping

\* A version of now is stamped without a rebuild, and its storing is left to a thread.
LEMMA BumpKeeps ==
  ASSUME IInv, NEW w \in Worker, NEW j \in jobs[w], Bump(w, j),
         UNCHANGED <<content, stored, run>>, faults' \in 0..MaxFault, disturbed' \in BOOLEAN,
         index' \in [Worker -> SUBSET Edit], index'[w] \subseteq content,
         index[w] \ Synonym = index'[w] \ Synonym,
         \A v \in Worker \ {w} : index'[v] = index[v]
  PROVE  IInv'
<1>w. /\ clock \in Nat /\ run[w] \in Run /\ RunSound(w) /\ \A k \in jobs[w] : JobSound(k)
      /\ jobs[w] \subseteq Job
  BY WorkerTyping
<1> DEFINE store == [kind |-> "store", version |-> clock + 1]
<1>1. /\ clock' = clock + 1 /\ clock' \in Nat /\ clock <= clock' /\ clock' \in 0..clock'
      /\ version' = [version EXCEPT ![w] = clock + 1]
      /\ jobs' = [jobs EXCEPT ![w] = (@ \ {j}) \cup {store}]
  BY <1>w DEF Bump, Replace
<1>2. store \in Job /\ store.kind = "store" /\ store.version = clock'
  BY <1>1 DEF Job
<1> HIDE DEF store
<1>3. Formed(w)
  <2>1. /\ jobs' \in [Worker -> SUBSET Job] /\ \A v \in Worker \ {w} : jobs'[v] = jobs[v]
    BY <1>w, <1>1, <1>2 DEF IInv, TypeOK
  <2>2. /\ DOMAIN version' = Worker /\ version' = [v \in Worker |-> version'[v]]
        /\ version'[w] = clock'
        /\ \A v \in Worker \ {w} : version'[v] = version[v]
    BY <1>1 DEF IInv, TypeOK
  <2>3. stored' \in Nat /\ stored' <= clock'
    BY <1>w, <1>1, WorkerTyping
  <2>4. QED
    BY <1>1, <2>1, <2>2, <2>3, WorkerTyping DEF Formed, IInv, TypeOK
<1>4. \A k \in jobs'[w] : JobSound(k)'
  <2>1. ASSUME NEW k \in jobs[w]
        PROVE  JobSound(k)'
    BY <1>w, <1>1, JobsStaySound
  <2>2. \A k : k = store => JobSound(k)'
    BY <1>1, <1>2 DEF JobSound
  <2>3. jobs'[w] = (jobs[w] \ {j}) \cup {store}
    BY <1>1 DEF IInv, TypeOK
  <2>4. QED
    BY <2>1, <2>2, <2>3
<1>5. RunSound(w)'
  <2>1. run[w].stage \in {"read", "built", "stamped"} => run[w].job \in Job
    BY <1>w, RunTyping
  <2>2. run[w].stage \in {"read", "built", "stamped"} => JobSound(run[w].job)'
    BY <1>w, <1>1, <2>1, JobTyping DEF RunSound, JobSound
  <2>3. run[w].stage = "stamped" => run[w].stamp \in Nat
    BY <1>w, RunTyping
  <2>4. run[w].stage = "stamped" /\ run[w].whole => run[w].job.edit \in index'[w]
    <3>1. run[w].stage = "stamped" => run[w].job.edit \in content \ Synonym
      BY <1>w DEF RunSound, JobSound
    <3>2. QED
      BY <1>w, <3>1 DEF RunSound
  <2>5. QED
    BY <1>w, <1>1, <2>2, <2>3, <2>4 DEF RunSound
<1>6. QED
  BY <1>3, <1>4, <1>5, Stepping

\* The synonyms are reloaded in place, or a call runs out of time: either way a version.
LEMMA SynonymsKeep ==
  ASSUME IInv, NEW w \in Worker, NEW j \in jobs[w], ReloadSynonyms(w, j) \/ TimeOut(w, j)
  PROVE  IInv'
<1>w. index[w] \subseteq content /\ content \subseteq Edit
  BY WorkerTyping
<1>1. CASE ReloadSynonyms(w, j)
  <2>1. PICK synonyms \in {content \cap Synonym, {}} :
          /\ IF synonyms = content \cap Synonym THEN UNCHANGED faults ELSE Fault
          /\ Reloaded(w, synonyms)
          /\ Disturbed(version[w] < clock \/ synonyms # content \cap Synonym)
    BY <1>1 DEF ReloadSynonyms
  <2>2. /\ index'[w] = (index[w] \ Synonym) \cup synonyms
        /\ \A v \in Worker \ {w} : index'[v] = index[v]
    BY <2>1 DEF Reloaded, IInv, TypeOK
  <2>3. /\ index'[w] \subseteq content /\ index[w] \ Synonym = index'[w] \ Synonym
        /\ index'[w] \subseteq Edit
    BY <1>w, <2>1, <2>2
  <2>4. index' \in [Worker -> SUBSET Edit]
    BY <2>1, <2>2, <2>3 DEF Reloaded, IInv, TypeOK
  <2>5. disturbed' \in BOOLEAN
    BY <2>1 DEF Disturbed
  <2>6. faults' \in 0..MaxFault
    BY <2>1, Noting
  <2>7. QED
    BY <1>1, <2>2, <2>3, <2>4, <2>5, <2>6, BumpKeeps DEF ReloadSynonyms
<1>2. CASE TimeOut(w, j)
  <2>1. disturbed' \in BOOLEAN /\ faults' \in 0..MaxFault
    BY <1>2, Noting DEF TimeOut
  <2>2. index' \in [Worker -> SUBSET Edit] /\ index' = index
    BY <1>2 DEF TimeOut, IInv, TypeOK
  <2>3. QED
    BY <1>w, <1>2, <2>1, <2>2, BumpKeeps DEF TimeOut
<1>3. QED
  BY <1>1, <1>2

\* A query finds that its worker is behind.
LEMMA PollKeeps ==
  ASSUME IInv, NEW w \in Worker, Poll(w)
  PROVE  IInv'
<1>w. /\ clock \in Nat /\ RunSound(w) /\ \A k \in jobs[w] : JobSound(k)
      /\ jobs[w] \subseteq Job /\ stored \in Nat /\ stored <= clock /\ stored \in 0..clock
      /\ index[w] \subseteq content
  BY WorkerTyping
<1> DEFINE refresh == [kind |-> "refresh", version |-> stored]
<1>1. refresh \in Job /\ refresh.kind = "refresh" /\ refresh.version = stored
  BY <1>w DEF Job
<1> HIDE DEF refresh
<1>2. /\ version' = [version EXCEPT ![w] = stored]
      /\ jobs' = [jobs EXCEPT ![w] = @ \cup {refresh}]
      /\ UNCHANGED <<content, stored, clock, index, run, faults, disturbed>>
  BY DEF Poll, refresh
<1>3. Formed(w)
  <2>1. /\ jobs' \in [Worker -> SUBSET Job] /\ \A v \in Worker \ {w} : jobs'[v] = jobs[v]
    BY <1>w, <1>1, <1>2 DEF IInv, TypeOK
  <2>2. /\ DOMAIN version' = Worker /\ version' = [v \in Worker |-> version'[v]]
        /\ version'[w] = stored
        /\ \A v \in Worker \ {w} : version'[v] = version[v]
    BY <1>2 DEF IInv, TypeOK
  <2>3. QED
    BY <1>w, <1>2, <2>1, <2>2, WorkerTyping DEF Formed, IInv, TypeOK
<1>4. \A k \in jobs'[w] : JobSound(k)'
  <2>1. jobs'[w] = jobs[w] \cup {refresh}
    BY <1>2 DEF IInv, TypeOK
  <2>2. QED
    BY <1>w, <1>1, <1>2, <2>1 DEF JobSound
<1>5. RunSound(w)'
  BY <1>w, <1>2 DEF RunSound, JobSound
<1>6. QED
  BY <1>w, <1>2, <1>3, <1>4, <1>5, Stepping

\* A worker dies and is started again.
LEMMA RestartKeeps ==
  ASSUME IInv, NEW w \in Worker, Crash(w) \/ BootLoad(w) \/ BootAdopt(w)
  PROVE  IInv'
<1>w. /\ clock \in Nat /\ \A k \in jobs[w] : JobSound(k)
      /\ stored \in Nat /\ stored \in 0..clock /\ 0 \in 0..clock /\ content \subseteq Edit
      /\ index[w] \subseteq content /\ version[w] \in 0..clock /\ jobs[w] \subseteq Job
  BY WorkerTyping
<1>1. PICK r \in Run : /\ run' = [run EXCEPT ![w] = r]
                       /\ r.stage \in {"free", "boot", "adopt"}
  <2>1. /\ Free \in Run /\ Free.stage = "free"
        /\ [stage |-> "boot"] \in Run /\ [stage |-> "adopt", since |-> clock] \in Run
    BY <1>w DEF Run, Free
  <2>2. QED
    BY <2>1 DEF Crash, BootLoad, BootAdopt, Become
<1>2. PICK rows \in SUBSET content : index' = [index EXCEPT ![w] = rows]
  <2>1. index' = [index EXCEPT ![w] = {}] \/ index' = [index EXCEPT ![w] = content]
          \/ index' = [index EXCEPT ![w] = index[w]]
    BY DEF Crash, BootLoad, BootAdopt, IInv, TypeOK
  <2>2. QED
    BY <1>w, <2>1
<1>3. PICK n \in 0..clock : version' = [version EXCEPT ![w] = n]
  <2>1. version' = [version EXCEPT ![w] = 0] \/ version' = [version EXCEPT ![w] = stored]
          \/ version' = [version EXCEPT ![w] = version[w]]
    BY DEF Crash, BootLoad, BootAdopt, IInv, TypeOK
  <2>2. QED
    BY <1>w, <2>1
<1>4. PICK left \in SUBSET jobs[w] : jobs' = [jobs EXCEPT ![w] = left]
  <2>1. jobs' = [jobs EXCEPT ![w] = {}] \/ jobs' = [jobs EXCEPT ![w] = jobs[w]]
    BY DEF Crash, BootLoad, BootAdopt, IInv, TypeOK
  <2>2. QED
    BY <2>1
<1>5. UNCHANGED <<content, stored, clock>> /\ faults' \in 0..MaxFault
  BY Noting DEF Crash, BootLoad, BootAdopt
<1>6. disturbed' \in BOOLEAN
  BY DEF Crash, BootLoad, BootAdopt, Disturbed, IInv, TypeOK
<1>7. Formed(w)
  <2>1. /\ DOMAIN version' = Worker /\ version' = [v \in Worker |-> version'[v]]
        /\ version'[w] = n /\ \A v \in Worker \ {w} : version'[v] = version[v]
    BY <1>3 DEF IInv, TypeOK
  <2>2. /\ run' \in [Worker -> Run] /\ \A v \in Worker \ {w} : run'[v] = run[v]
    BY <1>1 DEF IInv, TypeOK
  <2>3. /\ jobs' \in [Worker -> SUBSET Job] /\ \A v \in Worker \ {w} : jobs'[v] = jobs[v]
    BY <1>w, <1>4 DEF IInv, TypeOK
  <2>4. /\ index' \in [Worker -> SUBSET Edit] /\ \A v \in Worker \ {w} : index'[v] = index[v]
    BY <1>w, <1>2 DEF IInv, TypeOK
  <2>5. QED
    BY <1>5, <1>6, <2>1, <2>2, <2>3, <2>4, WorkerTyping DEF Formed, IInv, TypeOK
<1>8. RunSound(w)'
  BY <1>1 DEF RunSound, IInv, TypeOK
<1>9. index'[w] \subseteq content' /\ \A k \in jobs'[w] : JobSound(k)'
  BY <1>w, <1>2, <1>4, <1>5 DEF JobSound, IInv, TypeOK
<1>10. QED
  BY <1>7, <1>8, <1>9, Stepping

\* Every step keeps the invariant.
LEMMA StepInvariant == IInv /\ [Next]_vars => IInv'
<1> SUFFICES ASSUME IInv, [Next]_vars PROVE IInv'
  OBVIOUS
<1>1. ASSUME NEW w \in Worker, Work(w)
      PROVE  IInv'
  BY <1>1, ReadKeeps, SwitchKeeps, StampKeeps, StoreKeeps, AcquireKeeps, DropKeeps, SynonymsKeep,
     RestartKeeps DEF Work
<1>2. CASE UNCHANGED vars
  BY <1>2 DEF vars, IInv, TypeOK, RunSound, JobSound
<1>3. QED
  BY <1>1, <1>2, CommitKeeps, PollKeeps, SynonymsKeep, FailKeeps, RestartKeeps DEF Next

\* The invariant holds in every reachable state.
LEMMA Invariant == Spec => []IInv
BY InitInvariant, StepInvariant, PTL DEF Spec

-------------------------------------------------------------------------------
(* The theorems.                                                             *)

\* Type correctness of every reachable state; in particular no worker believes in a version
\* that nobody has stamped yet.
THEOREM TypeCorrect == Spec => []TypeOK
<1>1. IInv => TypeOK
  BY DEF IInv
<1>2. QED
  BY <1>1, Invariant, PTL

\* When the version of a rebuild is stamped, its worker answers from the edit it was called
\* for, however many edits, rebuilds and polls there were in between.
THEOREM PublishedIsIndexed == Spec => []PublishedMeansIndexed
<1>1. IInv => PublishedMeansIndexed
  BY DEF IInv, RunSound, PublishedMeansIndexed
<1>2. QED
  BY <1>1, Invariant, PTL

\* The answers of a worker never fall back to an older state of the content: a rebuild has
\* read at least what it replaces, since only one runs in a worker at a time.
THEOREM AnswersOnlyGrow == Spec => NeverStepsBack
<1> DEFINE Grows(w) == \/ index[w] \subseteq index'[w]
                       \/ faults' # faults
                       \/ run[w].stage = "built" /\ ~run[w].whole
           AllGrow == \A w \in Worker : Grows(w)
<1>1. IInv /\ [Next]_vars => [AllGrow]_vars
  <2> SUFFICES ASSUME IInv, [Next]_vars, NEW w \in Worker
               PROVE  Grows(w)
    OBVIOUS
  <2>w. /\ index[w] \subseteq content /\ faults \in Nat
        /\ index \in [Worker -> SUBSET Edit]
    BY SearchIndexAssumption, WorkerTyping DEF IInv, TypeOK
  <2>1. ASSUME NEW v \in Worker, Read(v)
        PROVE  Grows(w)
    <3>1. PICK synonyms \in {content \cap Synonym, {}} :
            /\ synonyms = content \cap Synonym \/ Fault
            /\ Reloaded(v, synonyms)
      BY <2>1 DEF Read
    <3>2. synonyms = content \cap Synonym \/ faults' # faults
      BY <2>w, <3>1 DEF Fault
    <3>3. QED
      BY <2>w, <3>1, <3>2 DEF Reloaded
  <2>2. ASSUME NEW v \in Worker, Switch(v) \/ Stamp(v)
        PROVE  Grows(w)
    <3>1. run[v].stage = "built" /\ Switched(v)
      BY <2>2 DEF Switch, Stamp
    <3>2. run[v].whole => index[v] \subseteq index'[v]
      BY <3>1, Switching
    <3>3. w # v => index'[w] = index[w]
      BY <3>1, Switching
    <3>4. QED
      BY <3>1, <3>2, <3>3
  <2>3. ASSUME NEW v \in Worker, NEW j \in jobs[v], ReloadSynonyms(v, j)
        PROVE  Grows(w)
    <3>1. PICK synonyms \in {content \cap Synonym, {}} :
            /\ synonyms = content \cap Synonym \/ Fault
            /\ Reloaded(v, synonyms)
      BY <2>3 DEF ReloadSynonyms
    <3>2. synonyms = content \cap Synonym \/ faults' # faults
      BY <2>w, <3>1 DEF Fault
    <3>3. QED
      BY <2>w, <3>1, <3>2 DEF Reloaded
  <2>4. ASSUME NEW v \in Worker, Crash(v)
        PROVE  Grows(w)
    BY <2>w, <2>4 DEF Crash, Fault
  <2>5. ASSUME NEW v \in Worker, BootLoad(v)
        PROVE  Grows(w)
    BY <2>w, <2>5 DEF BootLoad
  <2>6. CASE UNCHANGED index
    BY <2>6
  <2>7. QED
    BY <2>1, <2>2, <2>3, <2>4, <2>5, <2>6
       DEF Next, Work, vars, Commit, Acquire, Refused, Store, Fail, TimeOut, StoreBump, Poll,
           BootAdopt
<1>2. QED
  BY <1>1, Invariant, PTL DEF Spec, NeverStepsBack
===============================================================================
