------------------------------ MODULE MCIngest ------------------------------
(***************************************************************************)
(* The instance of Ingest that TLC explores, in four slices: two jobs that *)
(* are read, cancelled and purged without a fault; two jobs of different   *)
(* documents with a fault, the first of which may be cancelled; one job    *)
(* that two administrators review, one of whom may lose a request; and two *)
(* jobs, the second sent when the first is out of the model's hands, that  *)
(* one administrator approves without a fault or a cancel.  What a slice   *)
(* leaves out is never something that fairness promises.                   *)
(***************************************************************************)
EXTENDS Ingest
CONSTANT First
MCChunks == <<2, 1>>

VARIABLE slice

MCInit == Init /\ slice \in {"jobs", "faults", "review", "both"}

Calm == faults' = 0
Unreviewed(admins) ==
  reviews' = 0 /\ \A a \in admins : admin'[a].at \in {"idle", IF a = First THEN "unlink" ELSE "idle"}
Never(statuses) == \A j \in Job : job'[j].status \notin statuses

FirstCancelled == \A j \in Job \ {1} : job'[j].status \notin {"cancelled", "cancelling"}
OwnDocuments == \A j \in Job : job'[j] \notin {None, Gone} => job'[j].hash = j
OneRequestDies == faults' = faults \/ admin'[First] # admin[First]
InTurn == job[2] = None /\ job'[2] # None => job[1].status \in {"ready", "done", "failed"}

Within ==
  CASE slice = "jobs" -> Unreviewed(Admin) /\ Calm
    [] slice = "faults" -> Unreviewed(Admin) /\ Never({"gone"}) /\ FirstCancelled /\ OwnDocuments
    [] slice = "review" -> job'[2] = None /\ faults' + reviews' <= MaxReview /\ OneRequestDies
    [] slice = "both" -> /\ Calm /\ Unreviewed(Admin \ {First}) /\ InTurn
                         /\ Never({"cancelled", "cancelling", "gone"})

MCNext == Next /\ Within /\ UNCHANGED slice
MCSpec == MCInit /\ [][MCNext]_<<vars, slice>> /\ Fairness
=============================================================================
