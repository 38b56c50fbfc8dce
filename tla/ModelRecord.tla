----------------------------- MODULE ModelRecord -----------------------------
(***************************************************************************)
(* The files of the trained intent model (app/services/intent.py): the     *)
(* weights, the sidecar that describes them, the history of versions and   *)
(* the writers' lock, one directory for all workers and the training CLI.  *)
(*                                                                         *)
(* A reindex (load_dataset_internal of search.py) loads the stored model   *)
(* when the files prove that it is the model of the questions just read,   *)
(* trains one otherwise, and records the outcome.  Reading takes no lock.  *)
(* Each file is replaced in one step; the pair is not, and a process may   *)
(* die between any two steps.  Training is determined by the questions, so *)
(* a model is named by the questions it was trained on: the training       *)
(* fingerprint and the sha256 of the weights both compare that name.       *)
(***************************************************************************)
EXTENDS Naturals, Sequences, FiniteSetsExt

CONSTANTS Questions,    \* the states the questions table can be in
          Few,          \* those below the training floor
          Process,      \* workers, and the training CLI
          Absent,         \* no file, no model, nobody
          MaxLines,         \* HISTORY_MAX_LINES
          MaxVersion,   \* bound: no further model is recorded
          MaxTrouble    \* bound on crashes, failed reads, failed fits and failed writes

VARIABLES
  weights,    \* intent-classifier.npz: the model it holds, or Absent
  sidecar,    \* intent-classifier.json: [version, model], or Absent
  history,    \* intent-classifier.history.jsonl: a sequence of [version, model]
  holder,     \* who holds the flock, or Absent
  serving,    \* serving[p]: the questions p answers from, its classifier and its version
  run,        \* run[p]: the reindex of p
  trouble,    \* how many faults there have been
  torn,       \* history: a writer stopped between the two files, and they are still so
  dropped     \* history: the versions whose only mention was removed, or not read

vars == <<weights, sidecar, history, holder, serving, run, trouble, torn, dropped>>

Idle == [stage |-> "idle"]
Line == [version : 1..MaxVersion, model : Questions \ Few]
Stage == {"sidecar", "weights", "train", "record", "put weights", "put sidecar",
          "append", "drop weights", "drop sidecar", "done"}

Served == [read : Questions, model : (Questions \ Few) \cup {Absent}, version : 0..MaxVersion]

\* What an instance of this module has to assume of its constants: there is something that is
\* not a model, not a process and not a record of either.
RecordAssumption ==
  /\ Few \subseteq Questions
  /\ Absent \notin Questions \cup Process \cup Line \cup Served
  /\ MaxLines \in Nat \ {0} /\ MaxVersion \in Nat /\ MaxTrouble \in Nat

\* read: the questions it works with; model: what came of them; version: the record's.
Run == {Idle} \cup [stage : Stage, read : Questions, model : (Questions \ Few) \cup {Absent},
                    version : 0..MaxVersion]

TypeOK ==
  /\ weights \in (Questions \ Few) \cup {Absent}
  /\ sidecar \in Line \cup {Absent}
  /\ history \in Seq(Line) /\ Len(history) =< MaxLines
  /\ holder \in Process \cup {Absent}
  /\ serving \in [Process -> {Absent} \cup Served]
  /\ run \in [Process -> Run]
  /\ trouble \in 0..MaxTrouble
  /\ torn \in BOOLEAN /\ dropped \subseteq 1..MaxVersion

Init ==
  /\ weights = Absent /\ sidecar = Absent /\ history = <<>>
  /\ holder = Absent
  /\ serving = [p \in Process |-> Absent]
  /\ run = [p \in Process |-> Idle]
  /\ trouble = 0 /\ torn = FALSE /\ dropped = {}

files == <<weights, sidecar, history, torn, dropped>>

Trouble == trouble < MaxTrouble /\ trouble' = trouble + 1

\* p goes on to a stage with these fields of its reindex changed.
Go(p, next) == run' = [run EXCEPT ![p] = next]
At(p, stage) == run[p].stage = stage
Move(p, stage) == Go(p, [run[p] EXCEPT !.stage = stage])

-------------------------------------------------------------------------------
(* load_dataset_internal() up to a classifier.  The questions are edited at  *)
(* any time: each reindex may find them in any state.                        *)

Reindex(p) ==
  /\ At(p, "idle")
  /\ \E q \in Questions : Go(p, [stage |-> "sidecar", read |-> q, model |-> Absent, version |-> 0])
  /\ UNCHANGED <<files, holder, serving, trouble>>

\* No embeddings this time, or the questions cannot be read.  There is no classifier, and
\* the record is only withdrawn when questions that were read say that there can be none.
Unembedded(p) ==
  /\ At(p, "idle") /\ Trouble
  /\ \E q \in Questions : \E stage \in {"done", IF q \in Few THEN "record" ELSE "done"} :
       Go(p, [stage |-> stage, read |-> q, model |-> Absent, version |-> 0])
  /\ UNCHANGED <<files, holder, serving>>

ReadSidecar(p) ==
  /\ At(p, "sidecar")
  /\ IF sidecar # Absent /\ sidecar.model = run[p].read
     THEN Go(p, [run[p] EXCEPT !.stage = "weights", !.version = sidecar.version])
     ELSE Move(p, "train")
  /\ UNCHANGED <<files, holder, serving, trouble>>

\* Either file may be unreadable just then, which is to have no stored model.
ReadFails(p) ==
  /\ run[p].stage \in {"sidecar", "weights"} /\ Trouble
  /\ Go(p, [run[p] EXCEPT !.stage = "train", !.version = 0])
  /\ UNCHANGED <<files, holder, serving>>

Loaded(p) == Go(p, [run[p] EXCEPT !.stage = "done", !.model = weights])

\* The sidecar's sha256 is its model's; a model that was loaded is not recorded again.
ReadWeights(p) ==
  /\ At(p, "weights")
  /\ IF weights = run[p].read THEN Loaded(p)
                              ELSE Go(p, [run[p] EXCEPT !.stage = "train", !.version = 0])
  /\ UNCHANGED <<files, holder, serving, trouble>>

\* Too few questions, or a fit that fails: training refuses them.
Train(p) ==
  /\ At(p, "train")
  /\ \/ /\ Go(p, [run[p] EXCEPT !.stage = "record",
                                !.model = IF run[p].read \in Few THEN Absent ELSE run[p].read])
        /\ UNCHANGED trouble
     \/ Trouble /\ Move(p, "record")
  /\ UNCHANGED <<files, holder, serving>>

-------------------------------------------------------------------------------
(* record_artifact()                                                         *)

Newest(line) == IF line = Absent THEN 0 ELSE line.version
LastVersion == IF history = <<>> THEN 0 ELSE history[Len(history)].version

\* The sidecar alone counts.
NextVersionOfSidecar == Newest(sidecar) + 1

NextVersion == Max({Newest(sidecar), LastVersion}) + 1

\* The lock is taken; under it the identical model that is recorded already keeps its
\* version, and any other is given the next.
Lock(p) ==
  /\ At(p, "record") /\ holder = Absent
  /\ IF run[p].model = Absent
     THEN Move(p, "drop weights") /\ holder' = p
     ELSE IF sidecar # Absent /\ sidecar.model = run[p].model /\ weights = run[p].model
     THEN Go(p, [run[p] EXCEPT !.stage = "done", !.version = sidecar.version]) /\ UNCHANGED holder
     ELSE /\ NextVersion =< MaxVersion
          /\ Go(p, [run[p] EXCEPT !.stage = "put weights", !.version = NextVersion])
          /\ holder' = p
  /\ UNCHANGED <<files, serving, trouble>>

\* The sidecar, the weights or the history cannot be read under it: the model passes for one
\* that is not recorded yet, and its version is the next of what could be read.
LockUnread(p) ==
  /\ At(p, "record") /\ holder = Absent /\ run[p].model # Absent
  /\ Trouble
  /\ \E top \in {0, Newest(sidecar), LastVersion, NextVersion - 1} :
       /\ top + 1 =< MaxVersion
       /\ Go(p, [run[p] EXCEPT !.stage = "put weights", !.version = top + 1])
       /\ dropped' = dropped \cup (top + 1)..(NextVersion - 1)
  /\ holder' = p
  /\ UNCHANGED <<weights, sidecar, history, torn, serving>>

\* Another writer holds the lock for longer than LOCK_TIMEOUT_SECONDS, or its file cannot
\* be opened: nothing is recorded.
GiveUp(p) ==
  /\ At(p, "record")
  /\ IF holder # Absent THEN UNCHANGED trouble ELSE Trouble
  /\ Move(p, "done")
  /\ UNCHANGED <<files, holder, serving>>

PutWeights(p) ==
  /\ At(p, "put weights")
  /\ weights' = run[p].model
  /\ Move(p, "put sidecar")
  /\ UNCHANGED <<sidecar, history, holder, serving, trouble, torn, dropped>>

PutSidecar(p) ==
  /\ At(p, "put sidecar")
  /\ sidecar' = [version |-> run[p].version, model |-> run[p].model]
  /\ torn' = FALSE
  /\ Move(p, "append")
  /\ UNCHANGED <<weights, history, holder, serving, trouble, dropped>>

\* One line more, the oldest dropped.
AppendHistory(p) ==
  /\ At(p, "append")
  /\ LET lines == Append(history, [version |-> run[p].version, model |-> run[p].model])
     IN history' = SubSeq(lines, Max({1, Len(lines) - MaxLines + 1}), Len(lines))
  /\ holder' = Absent
  /\ Move(p, "done")
  /\ UNCHANGED <<weights, sidecar, serving, trouble, torn, dropped>>

\* The disk is full, or the directory has become unwritable.  A pair that was not written
\* whole is cleared away, with the model that was there before it.
WriteFails(p) ==
  /\ run[p].stage \in {"put weights", "put sidecar", "append"}
  /\ Trouble
  /\ IF At(p, "append") THEN Move(p, "done") /\ holder' = Absent
     ELSE /\ Go(p, [run[p] EXCEPT !.stage = "drop weights", !.version = 0])
          /\ UNCHANGED holder
  /\ UNCHANGED <<files, serving>>

\* _remove_artifact(): the weights, then the sidecar.
DropWeights(p) ==
  /\ At(p, "drop weights")
  /\ weights' = Absent
  /\ Move(p, "drop sidecar")
  /\ UNCHANGED <<sidecar, history, holder, serving, trouble, torn, dropped>>

DropSidecar(p) ==
  /\ At(p, "drop sidecar")
  /\ sidecar' = Absent
  /\ torn' = FALSE
  /\ dropped' = dropped \cup (LastVersion + 1)..Newest(sidecar)
  /\ holder' = Absent
  /\ Move(p, "done")
  /\ UNCHANGED <<weights, history, serving, trouble>>

\* The files cannot be removed either.
DropFails(p) ==
  /\ run[p].stage \in {"drop weights", "drop sidecar"}
  /\ Trouble
  /\ torn' = (sidecar # Absent /\ weights # sidecar.model)
  /\ holder' = Absent
  /\ Move(p, "done")
  /\ UNCHANGED <<weights, sidecar, history, serving, dropped>>

-------------------------------------------------------------------------------

\* The index and its classifier are published to the worker's globals.
Serve(p) ==
  /\ At(p, "done")
  /\ serving' = [serving EXCEPT ![p] = [read |-> run[p].read, model |-> run[p].model,
                                        version |-> run[p].version]]
  /\ Go(p, Idle)
  /\ UNCHANGED <<files, holder, trouble>>

\* The process dies, and with it its lock; it starts again with a reindex.
Crash(p) ==
  /\ Trouble
  /\ serving' = [serving EXCEPT ![p] = Absent]
  /\ Go(p, Idle)
  /\ IF holder = p
     THEN holder' = Absent /\ torn' = (sidecar # Absent /\ weights # sidecar.model)
     ELSE UNCHANGED <<holder, torn>>
  /\ UNCHANGED <<weights, sidecar, history, dropped>>

Next ==
  \E p \in Process :
    \/ Reindex(p) \/ Unembedded(p) \/ ReadSidecar(p) \/ ReadWeights(p) \/ ReadFails(p) \/ Train(p)
    \/ Lock(p) \/ LockUnread(p) \/ GiveUp(p) \/ PutWeights(p) \/ PutSidecar(p) \/ AppendHistory(p)
    \/ WriteFails(p) \/ DropWeights(p) \/ DropSidecar(p) \/ DropFails(p)
    \/ Serve(p) \/ Crash(p)

Spec == Init /\ [][Next]_vars

-------------------------------------------------------------------------------
(* Properties.                                                               *)

\* "A stored model is served only when its training fingerprint equals the fingerprint of
\* the current data and its weights match the sha256 in its sidecar": whatever writers
\* did between the two reads, the model that is served is the one of the questions read
\* with it.
ServedIsProven ==
  \A p \in Process :
    serving[p] # Absent => serving[p].model \in {Absent, serving[p].read}

\* "An absent record is honest, a sidecar describing other weights is not": while nobody
\* writes, a sidecar describes the weights beside it, unless a writer died between the
\* two files or could not clear them away.
PairHonest ==
  holder = Absent => sidecar = Absent \/ weights = sidecar.model \/ torn

\* "Even after the sidecar is removed, the number does not go back": no two models are
\* served, recorded or remembered under one version, unless a sidecar was removed before
\* a line of the history had reached its version, or a writer could not read the files that
\* mention it and the number did go back.
Named == {serving[p] : p \in {q \in Process : serving[q] # Absent}}
         \cup {sidecar} \cup {history[i] : i \in DOMAIN history}
VersionsNameOne ==
  \A a, b \in Named \ {Absent} :
    a.version = b.version /\ a.version \notin dropped \cup {0} => a.model = b.model
===============================================================================
