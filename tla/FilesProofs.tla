------------------------------ MODULE FilesProofs ------------------------------
(***************************************************************************)
(* Proofs about what an installation keeps in files: Restore, then         *)
(* BackupStore (Store!...), then ModelRecord (Record!...), each from an    *)
(* inductive invariant of its own, and at the end the specification that   *)
(* TLC runs, of which each of the three is a part.                         *)
(***************************************************************************)
EXTENDS MCFiles, FiniteSetTheorems, SequenceTheorems, WellFoundedInduction, TLAPS

-------------------------------------------------------------------------------
(* RESTORE.  The inductive invariant.                                        *)

\* A restore that has shut the doors and was left in peace still has them shut.
ShutIsFlagged == \A r \in Shut \ disturbed : db.flag

\* A database that was swapped in and left in peace still has the flag of the dump.
UnprovenAsDumped == \A r \in Unproven \ disturbed : db.flag = backup.flag

\* Who finds the doors open was let in by somebody else's switch, or by the dump's flag.
EnteredForCause ==
  \A v \in Visitor :
    /\ entered[v] = "open" => disturbed # {}
    /\ entered[v] = "unproven" => ~backup.flag \/ disturbed # {}

\* A restore has its safety backup from Save on, and not before.
SafetyWhenSaved ==
  \A r \in Restorer :
    /\ restore[r] \in {"idle", "requested", "enabled"} => safety[r] = None
    /\ restore[r] \in {"saved", "swapping"} => safety[r] # None

\* What a safety backup lacks of the database that is about to go was written late.
SafetyLacksTheLate ==
  \A r \in Restorer :
    restore[r] \in {"saved", "swapping"} => db.data \ safety[r].data \subseteq late

\* What is kept nowhere was written late.
LostIsLate == \A v \in Visitor : visitor[v] = "written" /\ v \notin Kept => v \in late

\* The doors of a restore that had shut them are open only by somebody else's doing.
ShutOrFailedStaysClosed ==
  \A r \in Restorer : restore[r] \in Closed \cup {"failed"} =>
    \/ db.flag \/ toggles > 0
    \/ \E s \in Restorer \ {r} : restore[s] \notin {"idle", "requested"}

\* The dump that is restored was taken before anybody wrote.
DumpIsOld == backup.data = {}

IInv ==
  /\ TypeOK
  /\ DumpIsOld
  /\ ShutIsFlagged
  /\ UnprovenAsDumped
  /\ EnteredForCause
  /\ SafetyWhenSaved
  /\ SafetyLacksTheLate
  /\ LostIsLate
  /\ ShutOrFailedStaysClosed

-------------------------------------------------------------------------------
(* Lemmas.                                                                   *)

\* A database is never mistaken for the absence of one.
LEMMA DatabaseIsSomething == \A d \in Database : d # None
<1>1. SUFFICES ASSUME NEW d \in Database PROVE d # None
  OBVIOUS
<1>2. "flag" \in DOMAIN d
  BY DEF Database
<1>3. "flag" \notin DOMAIN None
  BY DEF None
<1> QED BY <1>2, <1>3

\* The first state satisfies the invariant: nobody has written and no restore began.
LEMMA InitInvariant == Init => IInv
<1> SUFFICES ASSUME Init PROVE IInv
  OBVIOUS
<1>1. TypeOK
  BY RestoreAssumption DEF Init, TypeOK, Database, Stage, Closed, Ended, Entry
<1>2. DumpIsOld
  BY DEF Init, DumpIsOld
<1>3. ShutIsFlagged /\ UnprovenAsDumped /\ EnteredForCause
  BY DEF Init, ShutIsFlagged, UnprovenAsDumped, EnteredForCause, Shut, Unproven, Closed
<1>4. SafetyWhenSaved /\ SafetyLacksTheLate /\ LostIsLate /\ ShutOrFailedStaysClosed
  BY DEF Init, SafetyWhenSaved, SafetyLacksTheLate, LostIsLate, ShutOrFailedStaysClosed, Closed
<1> QED BY <1>1, <1>2, <1>3, <1>4 DEF IInv

-------------------------------------------------------------------------------
(* What a visitor does.                                                      *)

\* A request that passes guard() has its reason: the flag, or a read cut off.
LEMMA GuardInvariant == ASSUME IInv, NEW v \in Visitor, Guard(v) PROVE IInv'
<1> USE DEF IInv
<1>0. entered' \in [Visitor -> Entry] /\ \A u \in Visitor \ {v} : entered'[u] = entered[u]
  BY DEF Guard, TypeOK, Entry
<1>1. TypeOK'
  BY <1>0 DEF Guard, TypeOK
<1>2. Swapping => entered'[v] = "blind"
  <2>1. Swapping => Shut # {}
    BY DEF Swapping, Shut, Closed
  <2> QED BY <2>1 DEF Guard, TypeOK
<1>3. entered'[v] = "open" => ~db.flag /\ Shut # {}
  BY <1>2 DEF Guard, TypeOK
<1>4. entered'[v] = "unproven" => ~db.flag /\ Unproven # {}
  BY <1>2 DEF Guard, TypeOK
<1>5. EnteredForCause'
  BY <1>0, <1>3, <1>4
     DEF Guard, TypeOK, Database, EnteredForCause, ShutIsFlagged, UnprovenAsDumped, Shut, Unproven
<1>6. DumpIsOld' /\ ShutIsFlagged' /\ UnprovenAsDumped'
  BY DEF Guard, DumpIsOld, ShutIsFlagged, UnprovenAsDumped, Shut, Unproven
<1>7. SafetyWhenSaved' /\ SafetyLacksTheLate' /\ ShutOrFailedStaysClosed'
  BY DEF Guard, SafetyWhenSaved, SafetyLacksTheLate, ShutOrFailedStaysClosed
<1>8. LostIsLate'
  BY DEF Guard, TypeOK, LostIsLate, Kept
<1> QED BY <1>1, <1>5, <1>6, <1>7, <1>8

\* What is written after a safety backup and before its swap is written late.
LEMMA WriteInvariant == ASSUME IInv, NEW v \in Visitor, WriteRow(v) PROVE IInv'
<1> USE DEF IInv
<1>0. /\ db' \in Database /\ db'.flag = db.flag /\ db'.data = db.data \cup {v}
      /\ late \subseteq late'
  BY DEF WriteRow, TypeOK, Database
<1>1. TypeOK'
  BY <1>0 DEF WriteRow, TypeOK
<1>2. DumpIsOld' /\ ShutIsFlagged' /\ UnprovenAsDumped' /\ EnteredForCause'
  BY <1>0 DEF WriteRow, DumpIsOld, ShutIsFlagged, UnprovenAsDumped, EnteredForCause, Shut, Unproven
<1>3. SafetyWhenSaved' /\ ShutOrFailedStaysClosed'
  BY <1>0 DEF WriteRow, SafetyWhenSaved, ShutOrFailedStaysClosed
<1>4. SafetyLacksTheLate'
  BY <1>0 DEF WriteRow, Swapping, SafetyLacksTheLate
<1>5. LostIsLate'
  <2>1. Kept' = Kept \cup {v}
    BY <1>0 DEF WriteRow, Kept
  <2> QED BY <1>0, <2>1 DEF WriteRow, TypeOK, LostIsLate
<1> QED BY <1>1, <1>2, <1>3, <1>4, <1>5

-------------------------------------------------------------------------------
(* What a restore does.                                                      *)

\* Only the stage of one restore changes.
LEMMA Moving ==
  ASSUME TypeOK, NEW r \in Restorer, NEW stage \in Stage, Goto(r, stage)
  PROVE  /\ restore' \in [Restorer -> Stage]
         /\ restore'[r] = stage
         /\ \A s \in Restorer \ {r} : restore'[s] = restore[s]
  BY DEF TypeOK, Goto

\* A restore that moves on and touches nothing keeps the invariant, provided that it
\* shuts no doors, swaps nothing in, saves nothing and starts nothing by doing so.
LEMMA MovingOn ==
  ASSUME IInv, NEW r \in Restorer, NEW stage \in Stage, Goto(r, stage),
         UNCHANGED <<db, backup, safety, visitor, toggles, history>>, faults' \in 0..MaxFault,
         stage \in Closed \cup {"failed"} => restore[r] \in Closed,
         stage \in {"swapped", "rejected"} => restore[r] \in {"swapped", "rejected"},
         stage \in {"saved", "swapping"} => restore[r] \in {"saved", "swapping"},
         stage \in {"idle", "requested", "enabled"} => restore[r] = "idle"
  PROVE  IInv'
<1> USE DEF IInv, history
<1>0. /\ restore' \in [Restorer -> Stage]
      /\ restore'[r] = stage
      /\ \A s \in Restorer \ {r} : restore'[s] = restore[s]
  BY Moving
<1>1. TypeOK' /\ DumpIsOld'
  BY <1>0 DEF TypeOK, DumpIsOld
<1>2. Shut' \subseteq Shut /\ Unproven' \subseteq Unproven
  BY <1>0 DEF Shut, Unproven, Closed
<1>3. ShutIsFlagged' /\ UnprovenAsDumped' /\ EnteredForCause'
  BY <1>2 DEF ShutIsFlagged, UnprovenAsDumped, EnteredForCause
<1>4. SafetyWhenSaved' /\ SafetyLacksTheLate'
  BY <1>0 DEF SafetyWhenSaved, SafetyLacksTheLate
<1>5. LostIsLate'
  BY DEF LostIsLate, Kept
<1>6. ShutOrFailedStaysClosed'
  BY <1>0 DEF ShutOrFailedStaysClosed, Closed
<1> QED BY <1>1, <1>3, <1>4, <1>5, <1>6

LEMMA FaultCounted == ASSUME TypeOK, Fault PROVE faults' \in 0..MaxFault
  BY RestoreAssumption DEF TypeOK, Fault

\* The steps that only move a restore on: a request, a safety backup or a pg_restore
\* that fails, the first lock, the validation, a crash.
LEMMA QuietInvariant ==
  ASSUME IInv, NEW r \in Restorer,
         Request(r) \/ SaveFails(r) \/ Drop(r) \/ ReplaceFails(r) \/ Validate(r) \/ Crash(r)
  PROVE  IInv'
<1> USE DEF IInv, Stage, Closed, Ended
<1>0. faults \in 0..MaxFault
  BY DEF TypeOK
<1>1. CASE Request(r)
  BY <1>0, <1>1, MovingOn DEF Request
<1>2. CASE SaveFails(r)
  BY <1>2, MovingOn, FaultCounted DEF SaveFails
<1>3. CASE Drop(r)
  BY <1>0, <1>3, MovingOn DEF Drop
<1>4. CASE ReplaceFails(r)
  BY <1>4, MovingOn, FaultCounted DEF ReplaceFails
<1>5. CASE Validate(r)
  BY <1>0, <1>5, MovingOn DEF Validate
<1>6. CASE Crash(r)
  BY <1>6, MovingOn, FaultCounted DEF Crash
<1> QED BY <1>1, <1>2, <1>3, <1>4, <1>5, <1>6

\* The safety backup holds all that is in the database, and replaces none.
LEMMA SaveInvariant == ASSUME IInv, NEW r \in Restorer, Save(r) PROVE IInv'
<1> USE DEF IInv
<1>0. /\ restore' \in [Restorer -> Stage]
      /\ restore'[r] = "saved"
      /\ \A s \in Restorer \ {r} : restore'[s] = restore[s]
  BY Moving DEF Save, Stage, Closed
<1>1. /\ safety' \in [Restorer -> Database \cup {None}]
      /\ safety'[r] = db
      /\ \A s \in Restorer \ {r} : safety'[s] = safety[s]
  BY DEF Save, TypeOK
<1>2. TypeOK' /\ DumpIsOld'
  BY <1>0, <1>1 DEF Save, TypeOK, DumpIsOld, history
<1>3. ShutIsFlagged' /\ UnprovenAsDumped' /\ EnteredForCause'
  <2>1. Shut' = Shut /\ Unproven' = Unproven
    BY <1>0 DEF Save, Shut, Unproven, Closed
  <2> QED BY <2>1 DEF Save, history, ShutIsFlagged, UnprovenAsDumped, EnteredForCause
<1>4. SafetyWhenSaved'
  BY <1>0, <1>1, DatabaseIsSomething DEF TypeOK, SafetyWhenSaved
<1>5. SafetyLacksTheLate'
  BY <1>0, <1>1 DEF Save, history, SafetyLacksTheLate
<1>6. LostIsLate'
  <2>1. safety[r] = None
    BY DEF Save, SafetyWhenSaved
  <2>2. Kept \subseteq Kept'
    BY <1>1, <2>1 DEF Save, Kept
  <2> QED BY <2>2 DEF Save, history, LostIsLate
<1>7. ShutOrFailedStaysClosed'
  BY <1>0 DEF Save, ShutOrFailedStaysClosed, Closed
<1> QED BY <1>2, <1>3, <1>4, <1>5, <1>6, <1>7

\* A switch of the flag: the data stay as they are, and the restores of others are
\* disturbed.
LEMMA FlagSet ==
  ASSUME TypeOK, NEW flag \in BOOLEAN, NEW others \in SUBSET Restorer, SetFlag(flag, others)
  PROVE  /\ db' \in Database /\ db'.flag = flag /\ db'.data = db.data
         /\ disturbed' = disturbed \cup others
  BY DEF TypeOK, SetFlag, Database

\* A restore that shuts the doors puts the flag up.
LEMMA EnableInvariant == ASSUME IInv, NEW r \in Restorer, Enable(r) PROVE IInv'
<1> USE DEF IInv
<1>0. /\ restore' \in [Restorer -> Stage]
      /\ restore'[r] = "enabled"
      /\ \A s \in Restorer \ {r} : restore'[s] = restore[s]
  BY Moving DEF Enable, Stage, Closed, Ended
<1>1. /\ db' \in Database /\ db'.flag = TRUE /\ db'.data = db.data
      /\ disturbed' = disturbed \cup (UnderWay \ {r})
  BY FlagSet DEF Enable, UnderWay, Shut, Unproven
<1>2. TypeOK' /\ DumpIsOld'
  BY <1>0, <1>1 DEF Enable, TypeOK, DumpIsOld, UnderWay, Shut, Unproven
<1>3. ShutIsFlagged' /\ UnprovenAsDumped'
  BY <1>0, <1>1 DEF Enable, ShutIsFlagged, UnprovenAsDumped, UnderWay, Shut, Unproven, Closed
<1>4. EnteredForCause'
  BY <1>1 DEF Enable, EnteredForCause
<1>5. SafetyWhenSaved' /\ SafetyLacksTheLate'
  BY <1>0, <1>1 DEF Enable, SafetyWhenSaved, SafetyLacksTheLate
<1>6. LostIsLate'
  BY <1>1 DEF Enable, LostIsLate, Kept
<1>7. ShutOrFailedStaysClosed'
  BY <1>0, <1>1 DEF Enable, ShutOrFailedStaysClosed, Closed
<1> QED BY <1>2, <1>3, <1>4, <1>5, <1>6, <1>7

\* A restore that has no safety backup opens the doors again, for every other one too.
LEMMA AbortInvariant == ASSUME IInv, NEW r \in Restorer, Abort(r) PROVE IInv'
<1> USE DEF IInv
<1>0. /\ restore' \in [Restorer -> Stage]
      /\ restore'[r] = "aborted"
      /\ \A s \in Restorer \ {r} : restore'[s] = restore[s]
  BY Moving DEF Abort, Stage, Closed, Ended
<1>1. /\ db' \in Database /\ db'.flag = FALSE /\ db'.data = db.data
      /\ disturbed' = disturbed \cup UnderWay
  BY FlagSet DEF Abort, UnderWay, Shut, Unproven
<1>2. TypeOK' /\ DumpIsOld'
  BY <1>0, <1>1 DEF Abort, TypeOK, DumpIsOld, UnderWay, Shut, Unproven
<1>3. ShutIsFlagged' /\ UnprovenAsDumped'
  BY <1>0, <1>1 DEF Abort, ShutIsFlagged, UnprovenAsDumped, UnderWay, Shut, Unproven, Closed
<1>4. EnteredForCause'
  BY <1>1 DEF Abort, EnteredForCause
<1>5. SafetyWhenSaved' /\ SafetyLacksTheLate'
  BY <1>0, <1>1 DEF Abort, SafetyWhenSaved, SafetyLacksTheLate
<1>6. LostIsLate'
  BY <1>1 DEF Abort, LostIsLate, Kept
<1>7. ShutOrFailedStaysClosed'
  BY <1>0, <1>1 DEF Abort, ShutOrFailedStaysClosed, Closed
<1> QED BY <1>2, <1>3, <1>4, <1>5, <1>6, <1>7

\* A restore whose database is valid opens the doors, for every other one too.
LEMMA DisableInvariant == ASSUME IInv, NEW r \in Restorer, Disable(r) PROVE IInv'
<1> USE DEF IInv
<1>0. /\ restore' \in [Restorer -> Stage]
      /\ restore'[r] = "restored"
      /\ \A s \in Restorer \ {r} : restore'[s] = restore[s]
  BY Moving DEF Disable, Stage, Closed, Ended
<1>1. /\ db' \in Database /\ db'.flag = FALSE /\ db'.data = db.data
      /\ disturbed' = disturbed \cup UnderWay
  BY FlagSet DEF Disable, UnderWay, Shut, Unproven
<1>2. TypeOK' /\ DumpIsOld'
  BY <1>0, <1>1 DEF Disable, TypeOK, DumpIsOld, UnderWay, Shut, Unproven
<1>3. ShutIsFlagged' /\ UnprovenAsDumped'
  BY <1>0, <1>1 DEF Disable, ShutIsFlagged, UnprovenAsDumped, UnderWay, Shut, Unproven, Closed
<1>4. EnteredForCause'
  BY <1>1 DEF Disable, EnteredForCause
<1>5. SafetyWhenSaved' /\ SafetyLacksTheLate'
  BY <1>0, <1>1 DEF Disable, SafetyWhenSaved, SafetyLacksTheLate
<1>6. LostIsLate'
  BY <1>1 DEF Disable, LostIsLate, Kept
<1>7. ShutOrFailedStaysClosed'
  BY <1>0, <1>1 DEF Disable, ShutOrFailedStaysClosed, Closed
<1> QED BY <1>2, <1>3, <1>4, <1>5, <1>6, <1>7

\* The database becomes the dump.  What it held is in the safety backup, or was late.
LEMMA ReplaceInvariant == ASSUME IInv, NEW r \in Restorer, Replace(r) PROVE IInv'
<1> USE DEF IInv
<1>0. /\ restore' \in [Restorer -> Stage]
      /\ restore'[r] = "swapped"
      /\ \A s \in Restorer \ {r} : restore'[s] = restore[s]
  BY Moving DEF Replace, Stage
<1>1. TypeOK' /\ DumpIsOld'
  BY <1>0 DEF Replace, TypeOK, DumpIsOld, UnderWay, Shut, Unproven
<1>2. ShutIsFlagged' /\ UnprovenAsDumped'
  BY <1>0 DEF Replace, ShutIsFlagged, UnprovenAsDumped, UnderWay, Shut, Unproven, Closed
<1>3. EnteredForCause'
  BY DEF Replace, EnteredForCause
<1>4. SafetyWhenSaved' /\ SafetyLacksTheLate'
  BY <1>0 DEF Replace, DumpIsOld, SafetyWhenSaved, SafetyLacksTheLate
<1>5. LostIsLate'
  <2>1. safety[r] # None /\ db.data \ safety[r].data \subseteq late
    BY DEF Replace, SafetyWhenSaved, SafetyLacksTheLate
  <2>2. Kept \ late \subseteq Kept'
    BY <2>1 DEF Replace, Kept
  <2> QED BY <2>2 DEF Replace, TypeOK, LostIsLate
<1>6. ShutOrFailedStaysClosed'
  BY <1>0 DEF Replace, ShutOrFailedStaysClosed, Closed
<1> QED BY <1>1, <1>2, <1>3, <1>4, <1>5, <1>6

-------------------------------------------------------------------------------
(* The switch of the panel.                                                  *)

LEMMA ToggleInvariant == ASSUME IInv, Toggle PROVE IInv'
<1> USE DEF IInv
<1>1. /\ db' \in Database /\ db'.data = db.data
      /\ disturbed' = disturbed \cup UnderWay
  <2>1. (~db.flag) \in BOOLEAN /\ UnderWay \in SUBSET Restorer
    BY DEF UnderWay, Shut, Unproven
  <2> QED BY <2>1, FlagSet DEF Toggle
<1>2. toggles' \in 0..MaxToggle /\ toggles' > 0
  BY RestoreAssumption DEF TypeOK, Toggle
<1>3. TypeOK' /\ DumpIsOld'
  BY <1>1, <1>2 DEF Toggle, TypeOK, DumpIsOld, UnderWay, Shut, Unproven
<1>4. ShutIsFlagged' /\ UnprovenAsDumped'
  BY <1>1 DEF Toggle, ShutIsFlagged, UnprovenAsDumped, UnderWay, Shut, Unproven
<1>5. EnteredForCause' /\ SafetyWhenSaved' /\ SafetyLacksTheLate'
  BY <1>1 DEF Toggle, EnteredForCause, SafetyWhenSaved, SafetyLacksTheLate
<1>6. LostIsLate'
  BY <1>1 DEF Toggle, LostIsLate, Kept
<1>7. ShutOrFailedStaysClosed'
  BY <1>2 DEF ShutOrFailedStaysClosed
<1> QED BY <1>3, <1>4, <1>5, <1>6, <1>7

-------------------------------------------------------------------------------
(* The theorems.                                                             *)

\* Every step, and every stutter, keeps the invariant.
LEMMA StepInvariant == IInv /\ [Next]_vars => IInv'
<1> SUFFICES ASSUME IInv, [Next]_vars PROVE IInv'
  OBVIOUS
<1>1. CASE \E v \in Visitor : Guard(v) \/ WriteRow(v)
  BY <1>1, GuardInvariant, WriteInvariant
<1>2. CASE \E r \in Restorer : Step(r)
  BY <1>2, QuietInvariant, EnableInvariant, SaveInvariant, AbortInvariant, ReplaceInvariant,
     DisableInvariant DEF Step
<1>3. CASE Toggle
  BY <1>3, ToggleInvariant
<1>4. CASE UNCHANGED vars
  BY <1>4 DEF vars, history, IInv, TypeOK, DumpIsOld, ShutIsFlagged, UnprovenAsDumped,
              EnteredForCause, SafetyWhenSaved, SafetyLacksTheLate, LostIsLate, Kept,
              ShutOrFailedStaysClosed, Shut, Unproven
<1> QED BY <1>1, <1>2, <1>3, <1>4 DEF Next

LEMMA Invariant == Spec => []IInv
  BY InitInvariant, StepInvariant, PTL DEF Spec

\* The database, the safety backups, the requests and the restores are what they should
\* be, however visitors, restores, switches and faults interleave.
THEOREM TypeCorrect == Spec => []TypeOK
<1>1. IInv => TypeOK
  BY DEF IInv
<1> QED BY <1>1, Invariant, PTL

\* restore(), pg_backup.py: what a visitor wrote is in the database or in a safety backup,
\* unless it was written between the two by a request that maintenance mode could not
\* have stopped.
THEOREM NothingElseLost == Spec => []OnlyStragglersLost
<1>1. IInv => OnlyStragglersLost
  BY DEF IInv, LostIsLate, EnteredForCause, OnlyStragglersLost
<1> QED BY <1>1, Invariant, PTL

\* restore(), pg_backup.py: the doors of a restore whose pg_restore was refused are
\* opened by another restore or by the panel only; and a database not yet validated serves
\* whom the dump's own flag lets in, and nobody else who asked once the doors were shut.
THEOREM DoorsStayShut == Spec => []StaysShut
<1>1. IInv => FailedStaysClosed
  BY DEF IInv, ShutOrFailedStaysClosed, FailedStaysClosed
<1>2. IInv => UnsoundServesOnlyAsDumped
  BY DEF IInv, TypeOK, EnteredForCause, UnsoundServesOnlyAsDumped
<1>3. IInv => StaysShut
  BY <1>1, <1>2 DEF StaysShut
<1> QED BY <1>3, Invariant, PTL

-------------------------------------------------------------------------------
(* THE STORE OF BACKUPS.  The inductive invariant.                           *)

\* The slots from the next run on have not been claimed, and whoever found one due found it
\* in the past.
SlotsAhead ==
  /\ \A t \in 0..MaxTime + 1 : t >= next => claims[t] = 0
  /\ \A r \in Runner : Store!At(r, "due") => runner[r].seen =< now

\* A drill between the lock and its release holds the lock, and what it is about to judge is
\* what it restored, as long as no session of a lock was lost.
InDrill == {"clean", "restore", "check", "cleanup"}
DrillAlone == unlocked \/ \A r \in Runner : runner[r].at \in InDrill => lock = r
DrillsOwn == unlocked \/ \A r \in Runner : Store!At(r, "check") => drilldb = Store!Id(r)

\* A folder belongs to the run that dumps into it until its manifest is there, and until
\* then nobody has verified it.
Dumping ==
  /\ \A r \in Runner : Store!At(r, "dump") => disk[Store!Id(r)] # Store!None /\ ~Store!Readable(Store!Id(r))
  /\ \A r, s \in Runner : Store!At(r, "dump") /\ Store!At(s, "dump") /\ Store!Id(r) = Store!Id(s) => r = s
  /\ \A r \in Runner : Store!At(r, "verify") => disk[Store!Id(r)] = Store!Gone \/ Store!Readable(Store!Id(r))
Unread == \A b \in Store!Backup : Store!Here(b) /\ ~disk[b].readable => disk[b].mark = "unknown"

\* A verified scheduled backup is only on a prune's list while a newer one is not, unless the
\* list is out of date.
Stands(b) == Store!Verified(b) /\ disk[b].reason = "scheduled"
Justified ==
  \A r \in Runner : Store!At(r, "prune") /\ r \notin excused =>
    \A b \in runner[r].doomed : Stands(b) =>
      \E c \in Store!Backup : c > b /\ c \notin runner[r].doomed /\ Stands(c)

StoreIInv == /\ Store!TypeOK /\ SlotsAhead /\ Store!OneRunPerSlot /\ DrillAlone /\ DrillsOwn /\ Store!JudgesItsOwn
             /\ Dumping /\ Unread /\ Justified

-------------------------------------------------------------------------------
(* Lemmas about the data.                                                    *)

LEMMA LessIsWellFounded ==
  \E R : IsWellFoundedOn(R, Nat) /\ \A x, y \in Nat : x < y => <<x, y>> \in R
<1>1. \A x, y \in Nat : x < y => <<x, y>> \in OpToRel(<, Nat)
  BY Zenon DEF OpToRel
<1> QED BY <1>1, NatLessThanWellFounded, Zenon
\* A set of naturals has a least member, and one with a bound a greatest.
LEMMA MinIsMember ==
  ASSUME NEW S \in SUBSET Nat, S # {}
  PROVE  Store!Min(S) \in S /\ \A x \in S : Store!Min(S) =< x
<1>1. PICK R : IsWellFoundedOn(R, Nat) /\ \A x, y \in Nat : x < y => <<x, y>> \in R
  BY LessIsWellFounded, Zenon
<1>2. PICK x \in S : \A y \in S : ~ (<<y, x>> \in R)
  <2>1. IsWellFoundedOn(R, Nat) /\ S \subseteq Nat
    BY <1>1
  <2> QED BY <2>1, WFMin, Zenon
<1>3. \A y \in S : x <= y
  <2> SUFFICES ASSUME NEW y \in S PROVE x <= y
    OBVIOUS
  <2>1. x \in Nat /\ y \in Nat /\ (y < x => <<y, x>> \in R)
    BY <1>1
  <2> QED BY <1>2, <2>1
<1>4. \E z \in S : \A y \in S : z <= y
  BY <1>3
<1> QED BY <1>4 DEF Store!Min

LEMMA MaxIsMember ==
  ASSUME NEW n \in Nat, NEW S \in SUBSET (1..n), S # {}
  PROVE  Store!Max(S) \in S /\ \A x \in S : x =< Store!Max(S)
<1> DEFINE bounds == {k \in Nat : \A x \in S : x =< k}
<1>1. n \in bounds /\ bounds \in SUBSET Nat
  OBVIOUS
<1>2. PICK k \in bounds : \A x \in bounds : k =< x
  BY <1>1, MinIsMember
<1>3. k \in S
  <2> SUFFICES ASSUME k \notin S PROVE FALSE
    OBVIOUS
  <2>1. PICK y \in S : TRUE
    OBVIOUS
  <2>2. k \in Nat /\ y \in Nat /\ y >= 1 /\ y =< k
    BY <1>2
  <2>3. k - 1 \in Nat
    BY <2>2
  <2>4. \A x \in S : x =< k - 1
    BY <1>2, <2>2
  <2>5. k - 1 \in bounds
    BY <2>3, <2>4
  <2> QED BY <1>2, <2>2, <2>5
<1>4. \E z \in S : \A x \in S : z >= x
  BY <1>2, <1>3
<1> QED BY <1>4 DEF Store!Max

LEMMA ThreadFields ==
  ASSUME NEW t \in Store!Thread
  PROVE  /\ t.at = "due" => t.seen \in 0..MaxTime + 1
         /\ t.at \in Store!Running => /\ t \in [at: Store!Running, id: Store!Backup, then: {"list", "off"}]
                                      /\ t.id \in Store!Backup
         /\ t.at = "prune" => t \in [at: {"prune"}, doomed: SUBSET Store!Backup] /\ t.doomed \subseteq Store!Backup
  BY DEF Store!Thread, Store!Running, Store!Off

\* The threads of a step of r, which goes on to t.
Steps(r, t) ==
  /\ runner'[r] = t /\ t \in Store!Thread
  /\ \A q \in Runner \ {r} : runner'[q] = runner[q]
  /\ runner' \in [Runner -> Store!Thread]

LEMMA Went ==
  ASSUME Store!TypeOK, NEW r \in Runner, NEW t \in Store!Thread, Store!Goto(r, t)
  PROVE  Steps(r, t)
  BY DEF Store!TypeOK, Store!Goto, Steps

\* A thread that is working on a backup goes on with it.
Onward(r, t, place) == Steps(r, t) /\ t.at = place /\ t.id = Store!Id(r) /\ t.then = runner[r].then

LEMMA WentOn ==
  ASSUME Store!TypeOK, NEW r \in Runner, runner[r].at \in Store!Running,
         NEW place \in Store!Running, Store!On(r, place)
  PROVE  \E t \in Store!Thread : Onward(r, t, place)
<1>1. runner[r] \in [at: Store!Running, id: Store!Backup, then: {"list", "off"}]
  BY ThreadFields DEF Store!TypeOK
<1>2. PICK t : t = [runner[r] EXCEPT !.at = place]
  OBVIOUS
<1>3. t \in [at: Store!Running, id: Store!Backup, then: {"list", "off"}] /\ t.at = place
      /\ t.id = runner[r].id /\ t.then = runner[r].then
  BY <1>1, <1>2
<1>4. t \in Store!Thread
  BY <1>3 DEF Store!Thread
<1>5. Store!Goto(r, t)
  BY <1>2 DEF Store!On
<1> QED BY <1>3, <1>4, <1>5, Went DEF Onward, Store!Id

LEMMA OffIs == Store!Off \in Store!Thread /\ Store!Off.at = "off"
  BY DEF Store!Off, Store!Thread

LEMMA WentOff ==
  ASSUME Store!TypeOK, NEW r \in Runner, Store!Goto(r, Store!Off)
  PROVE  \E t \in Store!Thread : Steps(r, t) /\ t.at = "off"
  BY OffIs, Went

LEMMA WentToList ==
  ASSUME Store!TypeOK, NEW r \in Runner, Store!Goto(r, [at |-> "list"])
  PROVE  \E t \in Store!Thread : Steps(r, t) /\ t.at = "list"
<1>1. PICK t : t = [at |-> "list"]
  OBVIOUS
<1>2. t \in Store!Thread /\ t.at = "list"
  BY <1>1 DEF Store!Thread
<1> QED BY <1>1, <1>2, Went

LEMMA WentBack ==
  ASSUME Store!TypeOK, NEW r \in Runner, Store!Goto(r, Store!Then(r))
  PROVE  \E t \in Store!Thread : Steps(r, t) /\ t.at \in {"list", "off"}
  BY WentOff, WentToList DEF Store!Then

\* Where the fields of a folder are.
LEMMA FolderFields ==
  ASSUME Store!TypeOK, NEW b \in Store!Backup
  PROVE  /\ disk[b] \in Store!Folder
         /\ Store!Here(b) => /\ disk[b] \in [reason: {"scheduled", "other"}, readable: BOOLEAN,
                                             mark: {"unknown", "verified", "failed"}, good: BOOLEAN]
                             /\ disk[b].readable \in BOOLEAN /\ disk[b].good \in BOOLEAN
                             /\ disk[b].mark \in {"unknown", "verified", "failed"}
                             /\ disk[b].reason \in {"scheduled", "other"}
  BY DEF Store!TypeOK, Store!Folder, Store!Here, Store!None, Store!Gone

FolderRecord == [reason: {"scheduled", "other"}, readable: BOOLEAN,
                 mark: {"unknown", "verified", "failed"}, good: BOOLEAN]

LEMMA RecordIsHere == \A f \in FolderRecord : f \notin {Store!None, Store!Gone} /\ f \in Store!Folder
<1> SUFFICES ASSUME NEW f \in FolderRecord PROVE f \notin {Store!None, Store!Gone} /\ f \in Store!Folder
  OBVIOUS
<1>1. "good" \in DOMAIN f
  BY DEF FolderRecord
<1>2. "good" \notin DOMAIN Store!None /\ "good" \notin DOMAIN Store!Gone
  BY DEF Store!None, Store!Gone
<1> QED BY <1>1, <1>2 DEF FolderRecord, Store!Folder

LEMMA NoneIsNotGone == Store!None # Store!Gone
  BY DEF Store!None, Store!Gone

\* The disk of a step that writes the folder b.
Writes(b, f) ==
  /\ disk' \in [Store!Backup -> Store!Folder] /\ disk'[b] = f
  /\ \A c \in Store!Backup \ {b} : disk'[c] = disk[c]

LEMMA Written ==
  ASSUME Store!TypeOK, NEW b \in Store!Backup, NEW f \in Store!Folder, disk' = [disk EXCEPT ![b] = f]
  PROVE  Writes(b, f)
  BY DEF Store!TypeOK, Writes

-------------------------------------------------------------------------------
(* What a step leaves alone.                                                 *)

LEMMA SlotsKept ==
  ASSUME StoreIInv, NEW r \in Runner, NEW t, Steps(r, t), t.at # "due", UNCHANGED <<Store!clock,
         claims>>
  PROVE  SlotsAhead' /\ Store!OneRunPerSlot'
<1>1. UNCHANGED <<next, now, claims>>
  BY DEF Store!clock
<1> QED BY <1>1 DEF StoreIInv, SlotsAhead, Store!OneRunPerSlot, Store!At, Steps

LEMMA DrillKept ==
  ASSUME StoreIInv, NEW r \in Runner, NEW t, Steps(r, t), t.at \notin InDrill,
         UNCHANGED <<Store!drill, unlocked, mistaken>>
  PROVE  DrillAlone' /\ DrillsOwn' /\ Store!JudgesItsOwn'
<1>1. UNCHANGED <<lock, drilldb, unlocked, mistaken>>
  BY DEF Store!drill
<1> QED BY <1>1 DEF StoreIInv, DrillAlone, DrillsOwn, Store!JudgesItsOwn, Store!At, Store!Id,
       Steps, InDrill

LEMMA DumpingKept ==
  ASSUME StoreIInv, NEW r \in Runner, NEW t, Steps(r, t), t.at \notin {"dump", "verify"},
         UNCHANGED disk
  PROVE  Dumping' /\ Unread'
  BY DEF StoreIInv, Dumping, Unread, Store!Here, Store!Readable, Store!At, Store!Id, Steps

LEMMA JustifiedKept ==
  ASSUME StoreIInv, NEW r \in Runner, NEW t, Steps(r, t), t.at # "prune", excused \subseteq excused',
         \A b \in Store!Backup : Stands(b)' <=> Stands(b)
  PROVE  Justified'
<1> SUFFICES ASSUME NEW q \in Runner, Store!At(q, "prune")', q \notin excused',
                    NEW b \in runner'[q].doomed, Stands(b)'
             PROVE  \E c \in Store!Backup : c > b /\ c \notin runner'[q].doomed /\ Stands(c)'
  BY DEF Justified
<1>1. q # r /\ runner'[q] = runner[q]
  BY DEF Store!At, Steps
<1>2. runner[q].at = "prune" /\ b \in Store!Backup
  BY <1>1, ThreadFields DEF Store!At, StoreIInv, Store!TypeOK
<1>3. PICK c \in Store!Backup : c > b /\ c \notin runner[q].doomed /\ Stands(c)
  BY <1>1, <1>2 DEF StoreIInv, Justified, Store!At
<1> QED BY <1>1, <1>3

\* Every list is out of date.
LEMMA JustifiedExcused ==
  ASSUME StoreIInv, NEW r \in Runner, NEW t, Steps(r, t), t.at # "prune",
         excused' = excused \cup Store!Pruning
  PROVE  Justified'
  BY DEF Justified, Store!Pruning, Store!At, Steps

\* The rest of the types.
LEMMA Typed ==
  ASSUME Store!BackupStoreAssumption, Store!TypeOK, NEW r \in Runner, NEW t, Steps(r, t),
         disk' \in [Store!Backup -> Store!Folder], lock' \in Runner \cup {Store!None}, drilldb' \in Store!Backup \cup {0},
         next' \in 0..MaxTime + 1, now' \in 0..MaxTime, Store!Trouble \/ UNCHANGED troubles,
         claims' \in [0..MaxTime + 1 -> Nat], excused' \subseteq Runner, mistaken' \subseteq Runner,
         unlocked' \in BOOLEAN
  PROVE  Store!TypeOK'
<1>1. troubles' \in 0..MaxTrouble
  BY DEF Store!BackupStoreAssumption, Store!TypeOK, Store!Trouble
<1> QED BY <1>1 DEF Store!TypeOK, Steps

-------------------------------------------------------------------------------
(* The steps that touch no folder.                                           *)

\* A step that goes on to work in which it neither claims, dumps, drills nor prunes.
LEMMA RestKeeps ==
  ASSUME Store!BackupStoreAssumption, StoreIInv, NEW r \in Runner, NEW t, Steps(r, t),
         t.at \in {"off", "list", "lock"},
         UNCHANGED <<disk, Store!drill, Store!clock, claims, unlocked, mistaken>>,
         Store!Trouble \/ UNCHANGED troubles, excused' = excused \/ excused' = excused \cup Store!Pruning
  PROVE  StoreIInv'
<1>1. UNCHANGED <<lock, drilldb, next, now, disk, claims, unlocked, mistaken>>
  BY DEF Store!drill, Store!clock
<1>2. Store!TypeOK'
  <2>1. excused' \subseteq Runner
    BY DEF StoreIInv, Store!TypeOK, Store!Pruning
  <2> QED BY <1>1, <2>1, Typed DEF StoreIInv, Store!TypeOK
<1>3. SlotsAhead' /\ Store!OneRunPerSlot'
  BY SlotsKept
<1>4. DrillAlone' /\ DrillsOwn' /\ Store!JudgesItsOwn'
  BY DrillKept DEF InDrill
<1>5. Dumping' /\ Unread'
  BY <1>1, DumpingKept
<1>6. Justified'
  <2>1. \A b \in Store!Backup : Stands(b)' <=> Stands(b)
    BY <1>1 DEF Stands, Store!Verified, Store!Readable, Store!Here
  <2> QED BY <2>1, JustifiedKept
<1> QED BY <1>2, <1>3, <1>4, <1>5, <1>6 DEF StoreIInv

LEMMA DueKeeps ==
  ASSUME Store!BackupStoreAssumption, StoreIInv, NEW r \in Runner, Store!Due(r)
  PROVE  StoreIInv'
<1>1. /\ now >= next /\ Store!Goto(r, [at |-> "due", seen |-> next])
      /\ UNCHANGED <<disk, lock, drilldb, next, now, troubles, claims, excused, unlocked, mistaken>>
  BY DEF Store!Due, Store!drill, Store!clock, Store!history
<1>2. PICK t : t = [at |-> "due", seen |-> next]
  OBVIOUS
<1>3. t \in Store!Thread /\ t.at = "due" /\ t.seen = next
  BY <1>2 DEF Store!Thread, StoreIInv, Store!TypeOK
<1>4. Steps(r, t)
  BY <1>1, <1>2, <1>3, Went DEF StoreIInv
<1>5. Store!TypeOK'
  BY <1>1, <1>4, Typed DEF StoreIInv, Store!TypeOK
<1>6. SlotsAhead' /\ Store!OneRunPerSlot'
  BY <1>1, <1>3, <1>4 DEF StoreIInv, SlotsAhead, Store!OneRunPerSlot, Store!At, Steps, Store!TypeOK
<1>7. DrillAlone' /\ DrillsOwn' /\ Store!JudgesItsOwn'
  BY <1>1, <1>3, <1>4, DrillKept DEF InDrill, Store!drill
<1>8. Dumping' /\ Unread'
  BY <1>1, <1>3, <1>4, DumpingKept
<1>9. Justified'
  <2>1. \A b \in Store!Backup : Stands(b)' <=> Stands(b)
    BY <1>1 DEF Stands, Store!Verified, Store!Readable, Store!Here
  <2> QED BY <1>1, <1>3, <1>4, <2>1, JustifiedKept
<1> QED BY <1>5, <1>6, <1>7, <1>8, <1>9 DEF StoreIInv

\* The steps of a drill: they leave the folders, the slots and the lists alone.
LEMMA DrillStepKeeps ==
  ASSUME Store!BackupStoreAssumption, StoreIInv, NEW r \in Runner, NEW t, Steps(r, t),
         t.at \notin {"due", "dump", "verify", "prune"},
         UNCHANGED <<disk, Store!clock, claims, excused>>,
         Store!Trouble \/ UNCHANGED troubles,
         lock' \in Runner \cup {Store!None}, drilldb' \in Store!Backup \cup {0}, mistaken' \subseteq Runner,
         unlocked' \in BOOLEAN,
         DrillAlone' /\ DrillsOwn' /\ Store!JudgesItsOwn'
  PROVE  StoreIInv'
<1>1. UNCHANGED <<next, now>>
  BY DEF Store!clock
<1>2. Store!TypeOK'
  BY <1>1, Typed DEF StoreIInv, Store!TypeOK
<1>3. SlotsAhead' /\ Store!OneRunPerSlot'
  BY SlotsKept
<1>4. Dumping' /\ Unread'
  BY DumpingKept
<1>5. Justified'
  <2>1. \A b \in Store!Backup : Stands(b)' <=> Stands(b)
    BY DEF Stands, Store!Verified, Store!Readable, Store!Here
  <2> QED BY <2>1, JustifiedKept
<1> QED BY <1>2, <1>3, <1>4, <1>5 DEF StoreIInv

\* Somebody in the drill has the lock, unless a session was lost.
LEMMA OneDrill ==
  ASSUME Store!BackupStoreAssumption, StoreIInv, NEW r \in Runner, runner[r].at \in InDrill, ~unlocked
  PROVE  lock = r /\ \A q \in Runner \ {r} : runner[q].at \notin InDrill
  BY DEF StoreIInv, DrillAlone

LEMMA DrillLockKeeps ==
  ASSUME Store!BackupStoreAssumption, StoreIInv, NEW r \in Runner, Store!Lock(r)
  PROVE  StoreIInv'
<1>1. /\ runner[r].at = "lock"
      /\ UNCHANGED <<disk, drilldb, Store!clock, claims, excused, unlocked, mistaken>>
  BY DEF Store!Lock, Store!At, Store!history
<1>2. CASE lock = Store!None /\ lock' = r /\ Store!On(r, "clean") /\ UNCHANGED troubles
  <2>1. PICK t \in Store!Thread : Onward(r, t, "clean")
    <3>1. runner[r].at \in Store!Running /\ "clean" \in Store!Running
      BY <1>1 DEF Store!Running
    <3> QED BY <1>2, <3>1, WentOn DEF StoreIInv
  <2>2. Steps(r, t) /\ t.at = "clean"
    BY <2>1 DEF Onward
  <2>3. unlocked \/ \A q \in Runner : runner[q].at \notin InDrill
    BY <1>2 DEF StoreIInv, DrillAlone, Store!BackupStoreAssumption
  <2>4. DrillAlone' /\ DrillsOwn' /\ Store!JudgesItsOwn'
    <3>1. DrillAlone'
      BY <1>1, <1>2, <2>2, <2>3 DEF DrillAlone, Steps
    <3>2. DrillsOwn'
      BY <1>1, <2>2 DEF StoreIInv, DrillsOwn, Store!At, Store!Id, Steps
    <3>3. Store!JudgesItsOwn'
      BY <1>1 DEF StoreIInv, Store!JudgesItsOwn
    <3> QED BY <3>1, <3>2, <3>3
  <2> QED BY <1>1, <1>2, <2>2, <2>4, DrillStepKeeps DEF StoreIInv, Store!TypeOK
<1>3. CASE Store!Goto(r, Store!Then(r)) /\ UNCHANGED lock /\ (Store!Trouble \/ UNCHANGED troubles)
  <2>1. PICK t \in Store!Thread : Steps(r, t) /\ t.at \in {"list", "off"}
    BY <1>3, WentBack DEF StoreIInv
  <2> QED BY <1>1, <1>3, <2>1, RestKeeps DEF Store!drill
<1> QED BY <1>2, <1>3 DEF Store!Lock

LEMMA CleanKeeps ==
  ASSUME Store!BackupStoreAssumption, StoreIInv, NEW r \in Runner, Store!Clean(r)
  PROVE  StoreIInv'
<1>1. /\ runner[r].at = "clean" /\ runner[r].at \in InDrill
      /\ UNCHANGED <<disk, Store!clock, claims, excused, unlocked, mistaken, troubles>>
  BY DEF Store!Clean, Store!At, Store!history, InDrill
<1>2. CASE drilldb' = 0 /\ Store!On(r, "restore") /\ UNCHANGED lock
  <2>1. PICK t \in Store!Thread : Onward(r, t, "restore")
    <3>1. runner[r].at \in Store!Running /\ "restore" \in Store!Running
      BY <1>1 DEF Store!Running
    <3> QED BY <1>2, <3>1, WentOn DEF StoreIInv
  <2>2. Steps(r, t) /\ t.at = "restore"
    BY <2>1 DEF Onward
  <2>3. DrillAlone'
    BY <1>1, <1>2, <2>2 DEF StoreIInv, DrillAlone, Steps
  <2>4. DrillsOwn'
    <3>1. unlocked \/ \A q \in Runner \ {r} : runner[q].at # "check"
      BY <1>1, OneDrill DEF InDrill
    <3> QED BY <1>1, <2>2, <3>1 DEF DrillsOwn, Store!At, Steps
  <2>5. Store!JudgesItsOwn'
    BY <1>1 DEF StoreIInv, Store!JudgesItsOwn
  <2> QED BY <1>1, <1>2, <2>2, <2>3, <2>4, <2>5, DrillStepKeeps DEF StoreIInv, Store!TypeOK
<1>3. CASE drilldb' \in {0, drilldb} /\ Store!Goto(r, Store!Then(r)) /\ Store!Release(r)
  <2>1. PICK t \in Store!Thread : Steps(r, t) /\ t.at \in {"list", "off"}
    BY <1>3, WentBack DEF StoreIInv
  <2>2. unlocked \/ \A q \in Runner : runner'[q].at \notin InDrill
    BY <1>1, <2>1, OneDrill DEF InDrill, Steps
  <2>3. DrillAlone' /\ DrillsOwn' /\ Store!JudgesItsOwn'
    BY <1>1, <2>2 DEF DrillAlone, DrillsOwn, StoreIInv, Store!JudgesItsOwn, Store!At, InDrill
  <2>4. lock' \in Runner \cup {Store!None} /\ drilldb' \in Store!Backup \cup {0}
    BY <1>3 DEF Store!Release, StoreIInv, Store!TypeOK
  <2> QED BY <1>1, <2>1, <2>3, <2>4, DrillStepKeeps DEF StoreIInv, Store!TypeOK
<1> QED BY <1>2, <1>3 DEF Store!Clean

LEMMA RestoreDumpKeeps ==
  ASSUME Store!BackupStoreAssumption, StoreIInv, NEW r \in Runner, Store!RestoreDump(r)
  PROVE  StoreIInv'
<1>1. /\ runner[r].at = "restore" /\ runner[r].at \in InDrill /\ runner[r].at \in Store!Running
      /\ UNCHANGED <<disk, lock, Store!clock, claims, excused, unlocked, mistaken, troubles>>
  BY DEF Store!RestoreDump, Store!At, Store!history, InDrill, Store!Running
<1>2. PICK t \in Store!Thread : \/ Onward(r, t, "check") /\ drilldb' = Store!Id(r)
                                \/ Onward(r, t, "cleanup") /\ drilldb' = drilldb
  <2>1. "check" \in Store!Running /\ "cleanup" \in Store!Running
    BY DEF Store!Running
  <2>2. CASE drilldb' = Store!Id(r) /\ Store!On(r, "check")
    BY <1>1, <2>1, <2>2, WentOn DEF StoreIInv
  <2>3. CASE drilldb' = drilldb /\ Store!On(r, "cleanup")
    BY <1>1, <2>1, <2>3, WentOn DEF StoreIInv
  <2> QED BY <2>2, <2>3 DEF Store!RestoreDump
<1>3. Steps(r, t) /\ t.at \in {"check", "cleanup"} /\ (t.at = "check" => drilldb' = t.id)
  BY <1>2 DEF Onward
<1>4. Store!Id(r) \in Store!Backup
  BY <1>1, ThreadFields DEF StoreIInv, Store!TypeOK, Store!Id
<1>5. drilldb' \in Store!Backup \cup {0}
  BY <1>2, <1>4 DEF StoreIInv, Store!TypeOK
<1>6. unlocked \/ \A q \in Runner \ {r} : runner[q].at # "check"
  BY <1>1, OneDrill DEF InDrill
<1>7. DrillAlone'
  BY <1>1, <1>3, OneDrill DEF StoreIInv, DrillAlone, Steps
<1>8. DrillsOwn'
  BY <1>1, <1>3, <1>6 DEF DrillsOwn, Store!At, Steps, Store!Id
<1>9. Store!JudgesItsOwn'
  BY <1>1 DEF StoreIInv, Store!JudgesItsOwn
<1> QED BY <1>1, <1>3, <1>5, <1>7, <1>8, <1>9, DrillStepKeeps DEF StoreIInv, Store!TypeOK

LEMMA CheckKeeps ==
  ASSUME Store!BackupStoreAssumption, StoreIInv, NEW r \in Runner, Store!Check(r)
  PROVE  StoreIInv'
<1>1. /\ runner[r].at = "check" /\ runner[r].at \in InDrill /\ runner[r].at \in Store!Running
      /\ "cleanup" \in Store!Running
      /\ UNCHANGED <<disk, Store!drill, lock, drilldb, Store!clock, claims, excused, unlocked, troubles>>
      /\ Store!On(r, "cleanup")
  BY DEF Store!Check, Store!At, InDrill, Store!Running, Store!drill
<1>2. PICK t \in Store!Thread : Onward(r, t, "cleanup")
  BY <1>1, WentOn DEF StoreIInv
<1>3. Steps(r, t) /\ t.at = "cleanup"
  BY <1>2 DEF Onward
<1>4. drilldb = Store!Id(r) \/ unlocked
  BY <1>1 DEF StoreIInv, DrillsOwn, Store!At
<1>5. mistaken' = mistaken \/ (unlocked /\ mistaken' = mistaken \cup {r})
  BY <1>4 DEF Store!Check
<1>6. DrillAlone'
  BY <1>1, <1>3, OneDrill DEF StoreIInv, DrillAlone, Steps
<1>7. DrillsOwn'
  BY <1>1, <1>3 DEF StoreIInv, DrillsOwn, Store!At, Steps, Store!Id
<1>8. Store!JudgesItsOwn'
  BY <1>1, <1>5 DEF StoreIInv, Store!JudgesItsOwn
<1>9. mistaken' \subseteq Runner
  BY <1>5 DEF StoreIInv, Store!TypeOK
<1> QED BY <1>1, <1>3, <1>6, <1>7, <1>8, <1>9, DrillStepKeeps DEF StoreIInv, Store!TypeOK

LEMMA CleanupKeeps ==
  ASSUME Store!BackupStoreAssumption, StoreIInv, NEW r \in Runner, Store!Cleanup(r)
  PROVE  StoreIInv'
<1>1. /\ runner[r].at = "cleanup" /\ runner[r].at \in InDrill /\ Store!Release(r) /\ Store!Goto(r, Store!Then(r))
      /\ UNCHANGED <<disk, Store!clock, claims, excused, unlocked, mistaken>>
      /\ drilldb' \in {0, drilldb} /\ (Store!Trouble \/ UNCHANGED troubles)
  BY DEF Store!Cleanup, Store!At, InDrill, Store!history
<1>2. PICK t \in Store!Thread : Steps(r, t) /\ t.at \in {"list", "off"}
  BY <1>1, WentBack DEF StoreIInv
<1>3. unlocked \/ \A q \in Runner : runner'[q].at \notin InDrill
  BY <1>1, <1>2, OneDrill DEF InDrill, Steps
<1>4. DrillAlone' /\ DrillsOwn' /\ Store!JudgesItsOwn'
  BY <1>1, <1>3 DEF DrillAlone, DrillsOwn, StoreIInv, Store!JudgesItsOwn, Store!At, InDrill
<1>5. lock' \in Runner \cup {Store!None} /\ drilldb' \in Store!Backup \cup {0}
  BY <1>1 DEF Store!Release, StoreIInv, Store!TypeOK
<1> QED BY <1>1, <1>2, <1>4, <1>5, DrillStepKeeps DEF StoreIInv, Store!TypeOK

-------------------------------------------------------------------------------
(* The steps that write a folder.                                            *)

\* A folder is made where there was none, and the run that made it dumps into it.
Made(r, t, b) ==
  /\ Steps(r, t) /\ t.at = "dump" /\ t.id = b
  /\ disk[b] = Store!None
  /\ \E f \in FolderRecord : Writes(b, f) /\ ~f.readable /\ f.mark = "unknown"

LEMMA MakeDoes ==
  ASSUME Store!TypeOK, Store!BackupStoreAssumption, NEW r \in Runner,
         NEW reason \in {"scheduled", "other"},
         NEW then \in {"list", "off"}, Store!Make(r, reason, then)
  PROVE  \E b \in Store!Backup : \E t \in Store!Thread : Made(r, t, b)
<1> DEFINE free == {c \in Store!Backup : disk[c] = Store!None}
<1>1. PICK b : b = Store!Min(free)
  OBVIOUS
<1>2. b \in free
  <2>1. free # {} /\ free \in SUBSET Nat
    BY DEF Store!Make, Store!Backup
  <2> HIDE DEF free
  <2> QED BY <1>1, <2>1, MinIsMember
<1>3. b \in Store!Backup /\ disk[b] = Store!None
  BY <1>2
<1>4. PICK f : f = [reason |-> reason, readable |-> FALSE, mark |-> "unknown", good |-> TRUE]
  OBVIOUS
<1>5. f \in FolderRecord /\ ~f.readable /\ f.mark = "unknown"
  BY <1>4 DEF FolderRecord
<1>6. PICK t : t = [at |-> "dump", id |-> b, then |-> then]
  OBVIOUS
<1>7. t \in Store!Thread /\ t.at = "dump" /\ t.id = b
  BY <1>3, <1>6 DEF Store!Thread, Store!Running
<1>8. disk' = [disk EXCEPT ![b] = f] /\ Store!Goto(r, t)
  BY <1>1, <1>4, <1>6 DEF Store!Make
<1>9. Writes(b, f)
  BY <1>3, <1>5, <1>8, RecordIsHere, Written
<1>10. Steps(r, t)
  BY <1>7, <1>8, Went
<1> QED BY <1>3, <1>5, <1>7, <1>9, <1>10 DEF Made

LEMMA MadeKeeps ==
  ASSUME Store!BackupStoreAssumption, StoreIInv, NEW r \in Runner, NEW b \in Store!Backup,
         NEW t \in Store!Thread, Made(r, t, b),
         runner[r].at \notin {"dump", "verify"}, excused' = excused
  PROVE  Dumping' /\ Unread' /\ Justified' /\ disk' \in [Store!Backup -> Store!Folder]
<1>1. PICK f \in FolderRecord : Writes(b, f) /\ ~f.readable /\ f.mark = "unknown"
  BY DEF Made
<1>2. /\ Steps(r, t) /\ t.at = "dump" /\ t.id = b /\ disk[b] = Store!None /\ disk'[b] = f
      /\ f \notin {Store!None, Store!Gone} /\ \A c \in Store!Backup \ {b} : disk'[c] = disk[c]
  BY <1>1, RecordIsHere DEF Made, Writes
<1>3. \A q \in Runner : runner[q].at \in {"dump", "verify"} => Store!Id(q) \in Store!Backup /\ Store!Id(q) # b
  <2> SUFFICES ASSUME NEW q \in Runner, runner[q].at \in {"dump", "verify"}
               PROVE  Store!Id(q) \in Store!Backup /\ disk[Store!Id(q)] # Store!None
    BY <1>2
  <2>1. Store!Id(q) \in Store!Backup
    BY ThreadFields DEF StoreIInv, Store!TypeOK, Store!Running, Store!Id
  <2> QED BY <2>1, NoneIsNotGone DEF StoreIInv, Dumping, Store!At, Store!Readable, Store!Here
<1>4. Dumping'
  BY <1>1, <1>2, <1>3 DEF StoreIInv, Dumping, Store!At, Store!Id, Store!Readable, Store!Here, Steps
<1>5. Unread'
  BY <1>1, <1>2 DEF StoreIInv, Unread, Store!Here
<1>6. Justified'
  <2>1. \A c \in Store!Backup : Stands(c)' <=> Stands(c)
    BY <1>1, <1>2 DEF Stands, Store!Verified, Store!Readable, Store!Here
  <2> QED BY <1>2, <2>1, JustifiedKept
<1> QED BY <1>1, <1>4, <1>5, <1>6 DEF Writes

LEMMA RunManualKeeps ==
  ASSUME Store!BackupStoreAssumption, StoreIInv, NEW r \in Runner, Store!RunManual(r)
  PROVE  StoreIInv'
<1>1. /\ runner[r].at = "off" /\ Store!Make(r, "other", "list")
      /\ UNCHANGED <<Store!drill, Store!clock, claims, excused, unlocked, mistaken, troubles>>
  BY DEF Store!RunManual, Store!At, Store!history
<1>2. PICK b \in Store!Backup, t \in Store!Thread : Made(r, t, b)
  BY <1>1, MakeDoes DEF StoreIInv
<1>3. Steps(r, t) /\ t.at = "dump"
  BY <1>2 DEF Made
<1>4. Dumping' /\ Unread' /\ Justified' /\ disk' \in [Store!Backup -> Store!Folder]
  BY <1>1, <1>2, MadeKeeps
<1>5. SlotsAhead' /\ Store!OneRunPerSlot'
  BY <1>1, <1>3, SlotsKept
<1>6. DrillAlone' /\ DrillsOwn' /\ Store!JudgesItsOwn'
  BY <1>1, <1>3, DrillKept DEF InDrill
<1>7. Store!TypeOK'
  BY <1>1, <1>3, <1>4, Typed DEF StoreIInv, Store!TypeOK, Store!drill, Store!clock
<1> QED BY <1>4, <1>5, <1>6, <1>7 DEF StoreIInv

\* Of the workers that saw a slot due, one finds it unmoved.
LEMMA ClaimKeeps ==
  ASSUME Store!BackupStoreAssumption, StoreIInv, NEW r \in Runner, Store!Claim(r)
  PROVE  StoreIInv'
<1>1. /\ runner[r].at = "due"
      /\ UNCHANGED <<Store!drill, now, excused, unlocked, mistaken, troubles>>
  BY DEF Store!Claim, Store!At
<1>2. CASE next = runner[r].seen
  <2>1. /\ next' = now + 1 /\ claims' = [claims EXCEPT ![next] = @ + 1]
        /\ Store!Make(r, "scheduled", "list")
    BY <1>2 DEF Store!Claim
  <2>2. PICK b \in Store!Backup, t \in Store!Thread : Made(r, t, b)
    BY <2>1, MakeDoes DEF StoreIInv
  <2>3. Steps(r, t) /\ t.at = "dump"
    BY <2>2 DEF Made
  <2>4. Dumping' /\ Unread' /\ Justified' /\ disk' \in [Store!Backup -> Store!Folder]
    BY <1>1, <2>2, MadeKeeps
  <2>5. next =< now /\ now \in 0..MaxTime /\ next \in 0..MaxTime + 1 /\ MaxTime \in Nat
    BY <1>1, <1>2 DEF StoreIInv, SlotsAhead, Store!At, Store!TypeOK, Store!BackupStoreAssumption
  <2>6. /\ claims' \in [0..MaxTime + 1 -> Nat] /\ claims'[next] = 1
        /\ \A s \in 0..MaxTime + 1 : s # next => claims'[s] = claims[s]
    <3>1. claims \in [0..MaxTime + 1 -> Nat] /\ claims[next] = 0
      BY <2>5 DEF StoreIInv, Store!TypeOK, SlotsAhead
    <3> QED BY <2>1, <2>5, <3>1
  <2>7. next' \in 0..MaxTime + 1
    BY <2>1, <2>5
  <2>8. SlotsAhead'
    <3>1. ASSUME NEW s \in 0..MaxTime + 1, s >= next' PROVE claims'[s] = 0
      <4>1. s # next /\ s >= next
        BY <2>1, <2>5, <3>1
      <4> QED BY <2>6, <4>1 DEF StoreIInv, SlotsAhead
    <3>2. ASSUME NEW q \in Runner, Store!At(q, "due")' PROVE runner'[q].seen =< now'
      BY <1>1, <2>3, <3>2 DEF StoreIInv, SlotsAhead, Store!At, Steps
    <3> QED BY <3>1, <3>2 DEF SlotsAhead
  <2>9. Store!OneRunPerSlot'
    BY <2>6 DEF StoreIInv, Store!OneRunPerSlot, Store!TypeOK
  <2>10. DrillAlone' /\ DrillsOwn' /\ Store!JudgesItsOwn'
    BY <1>1, <2>3, DrillKept DEF InDrill
  <2>11. Store!TypeOK'
    BY <1>1, <2>3, <2>4, <2>6, <2>7, Typed DEF StoreIInv, Store!TypeOK, Store!drill
  <2> QED BY <2>4, <2>8, <2>9, <2>10, <2>11 DEF StoreIInv
<1>3. CASE next # runner[r].seen
  <2>1. UNCHANGED <<next, claims, disk>> /\ Store!Goto(r, Store!Off)
    BY <1>3 DEF Store!Claim
  <2>2. PICK t \in Store!Thread : Steps(r, t) /\ t.at = "off"
    BY <2>1, WentOff DEF StoreIInv
  <2> QED BY <1>1, <2>1, <2>2, RestKeeps DEF Store!clock
<1> QED BY <1>2, <1>3

\* What is so of the folder of a run that dumps into it, or has.
LEMMA RunsFolder ==
  ASSUME StoreIInv, NEW r \in Runner, runner[r].at \in {"dump", "verify", "lock"}
  PROVE  Store!Id(r) \in Store!Backup /\ runner[r].at \in Store!Running
<1>1. runner[r].at \in Store!Running
  BY DEF Store!Running
<1> QED BY <1>1, ThreadFields DEF StoreIInv, Store!TypeOK, Store!Id

\* The manifest is written: nobody can have verified the folder before.
LEMMA DumpKeeps ==
  ASSUME Store!BackupStoreAssumption, StoreIInv, NEW r \in Runner, Store!Dump(r)
  PROVE  StoreIInv'
<1>1. /\ runner[r].at = "dump"
      /\ UNCHANGED <<Store!drill, Store!clock, claims, excused, unlocked, mistaken, troubles>>
  BY DEF Store!Dump, Store!At, Store!history
<1>2. PICK b : b = Store!Id(r)
  OBVIOUS
<1>3. b \in Store!Backup /\ runner[r].at \in Store!Running /\ "verify" \in Store!Running
  BY <1>1, <1>2, RunsFolder DEF Store!Running
<1>4. CASE ~Store!Here(b)
  <2>1. UNCHANGED disk /\ Store!Goto(r, Store!Off)
    BY <1>2, <1>4 DEF Store!Dump
  <2>2. PICK t \in Store!Thread : Steps(r, t) /\ t.at = "off"
    BY <2>1, WentOff DEF StoreIInv
  <2> QED BY <1>1, <2>1, <2>2, RestKeeps DEF Store!clock
<1>5. CASE Store!Here(b)
  <2>1. PICK f : f = [disk[b] EXCEPT !.readable = TRUE]
    OBVIOUS
  <2>2. disk[b] \in FolderRecord /\ ~disk[b].readable /\ disk[b].mark = "unknown"
    <3>1. ~Store!Readable(b)
      BY <1>1, <1>2 DEF StoreIInv, Dumping, Store!At
    <3>2. ~disk[b].readable /\ disk[b].mark = "unknown"
      BY <1>3, <1>5, <3>1 DEF StoreIInv, Store!Readable, Unread
    <3> QED BY <1>3, <1>5, <3>2, FolderFields DEF StoreIInv, FolderRecord
  <2>3. f \in FolderRecord /\ f.readable /\ f.mark = "unknown"
    BY <2>1, <2>2 DEF FolderRecord
  <2>4. disk' = [disk EXCEPT ![b] = f] /\ Store!On(r, "verify")
    <3>1. disk' = [disk EXCEPT ![b].readable = TRUE] /\ Store!On(r, "verify")
      BY <1>2, <1>5 DEF Store!Dump
    <3> QED BY <2>1, <3>1
  <2>5. Writes(b, f) /\ f \notin {Store!None, Store!Gone}
    BY <1>3, <2>3, <2>4, RecordIsHere, Written DEF StoreIInv
  <2>6. PICK t \in Store!Thread : Onward(r, t, "verify")
    BY <1>3, <2>4, WentOn DEF StoreIInv
  <2>7. Steps(r, t) /\ t.at = "verify" /\ t.id = b
    BY <1>2, <2>6 DEF Onward
  <2>8. disk'[b] = f /\ \A c \in Store!Backup \ {b} : disk'[c] = disk[c]
    BY <2>5 DEF Writes
  <2>9. Dumping'
    <3>1. ASSUME NEW q \in Runner, runner'[q].at = "dump"
          PROVE  q # r /\ runner'[q] = runner[q] /\ Store!Id(q) \in Store!Backup \ {b}
      <4>1. q # r /\ runner'[q] = runner[q]
        BY <2>7, <3>1 DEF Steps
      <4>2. Store!Id(q) \in Store!Backup
        BY <3>1, <4>1, RunsFolder
      <4>3. Store!Id(q) # b
        BY <1>1, <1>2, <3>1, <4>1 DEF StoreIInv, Dumping, Store!At
      <4> QED BY <4>1, <4>2, <4>3
    <3>2. \A q \in Runner : Store!At(q, "dump")' => disk'[Store!Id(q)'] # Store!None /\ ~Store!Readable(Store!Id(q))'
      BY <2>8, <3>1 DEF StoreIInv, Dumping, Store!At, Store!Id, Store!Readable, Store!Here
    <3>3. \A q, s \in Runner : Store!At(q, "dump")' /\ Store!At(s, "dump")' /\ Store!Id(q)' = Store!Id(s)' => q = s
      BY <3>1 DEF StoreIInv, Dumping, Store!At, Store!Id
    <3>4. ASSUME NEW q \in Runner, runner'[q].at = "verify", q # r
          PROVE  disk'[Store!Id(q)'] = Store!Gone \/ Store!Readable(Store!Id(q))'
      <4>1. runner'[q] = runner[q] /\ Store!Id(q)' = Store!Id(q)
        BY <2>7, <3>4 DEF Steps, Store!Id
      <4>2. Store!Id(q) \in Store!Backup /\ (disk[Store!Id(q)] = Store!Gone \/ Store!Readable(Store!Id(q)))
        BY <3>4, <4>1, RunsFolder DEF StoreIInv, Dumping, Store!At
      <4>3. CASE Store!Id(q) = b
        BY <2>3, <2>5, <2>8, <4>1, <4>3 DEF Store!Readable, Store!Here
      <4>4. CASE Store!Id(q) # b
        BY <2>8, <4>1, <4>2, <4>4 DEF Store!Readable, Store!Here
      <4> QED BY <4>3, <4>4
    <3>5. Store!Id(r)' = b /\ Store!Readable(b)'
      BY <2>3, <2>5, <2>7, <2>8 DEF Store!Readable, Store!Here, Store!Id, Steps
    <3> QED BY <3>2, <3>3, <3>4, <3>5 DEF Dumping, Store!At
  <2>10. Unread'
    BY <2>3, <2>8 DEF StoreIInv, Unread, Store!Here
  <2>11. Justified'
    <3>1. \A c \in Store!Backup : Stands(c)' <=> Stands(c)
      BY <2>2, <2>3, <2>8 DEF Stands, Store!Verified, Store!Readable, Store!Here
    <3> QED BY <1>1, <2>7, <3>1, JustifiedKept
  <2>12. SlotsAhead' /\ Store!OneRunPerSlot'
    BY <1>1, <2>7, SlotsKept
  <2>13. DrillAlone' /\ DrillsOwn' /\ Store!JudgesItsOwn'
    BY <1>1, <2>7, DrillKept DEF InDrill
  <2>14. Store!TypeOK'
    BY <1>1, <2>5, <2>7, Typed DEF StoreIInv, Store!TypeOK, Store!drill, Store!clock, Writes
  <2> QED BY <2>9, <2>10, <2>11, <2>12, <2>13, <2>14 DEF StoreIInv
<1> QED BY <1>4, <1>5

\* A folder stays, goes, or is judged again without its manifest being touched.
Mild(b) ==
  \/ disk'[b] = disk[b]
  \/ disk'[b] = Store!Gone
  \/ /\ Store!Here(b) /\ Store!Here(b)' /\ disk'[b].readable = disk[b].readable
     /\ disk[b].readable \/ disk'[b].mark = disk[b].mark

LEMMA MildKeeps ==
  ASSUME StoreIInv, \A b \in Store!Backup : Mild(b),
         \A q \in Runner : runner'[q] = runner[q] \/ runner'[q].at \notin {"dump", "verify"}
  PROVE  Dumping' /\ Unread'
<1>1. ASSUME NEW q \in Runner, runner'[q].at \in {"dump", "verify"}
      PROVE  runner'[q] = runner[q] /\ Store!Id(q)' = Store!Id(q) /\ Store!Id(q) \in Store!Backup /\ Mild(Store!Id(q))
  <2>1. runner'[q] = runner[q] /\ Store!Id(q)' = Store!Id(q)
    BY <1>1 DEF Store!Id
  <2> QED BY <1>1, <2>1, RunsFolder
<1>2. ASSUME NEW q \in Runner, Store!At(q, "dump")'
      PROVE  disk'[Store!Id(q)'] # Store!None /\ ~Store!Readable(Store!Id(q))'
  <2>1. runner'[q] = runner[q] /\ Store!Id(q)' = Store!Id(q) /\ Store!Id(q) \in Store!Backup /\ Mild(Store!Id(q))
    BY <1>1, <1>2 DEF Store!At
  <2>2. disk[Store!Id(q)] # Store!None /\ ~Store!Readable(Store!Id(q))
    BY <1>2, <2>1 DEF StoreIInv, Dumping, Store!At
  <2> QED BY <2>1, <2>2, NoneIsNotGone DEF Mild, Store!Readable, Store!Here
<1>3. ASSUME NEW q \in Runner, Store!At(q, "verify")'
      PROVE  disk'[Store!Id(q)'] = Store!Gone \/ Store!Readable(Store!Id(q))'
  <2>1. runner'[q] = runner[q] /\ Store!Id(q)' = Store!Id(q) /\ Store!Id(q) \in Store!Backup /\ Mild(Store!Id(q))
    BY <1>1, <1>3 DEF Store!At
  <2>2. disk[Store!Id(q)] = Store!Gone \/ Store!Readable(Store!Id(q))
    BY <1>3, <2>1 DEF StoreIInv, Dumping, Store!At
  <2> QED BY <2>1, <2>2 DEF Mild, Store!Readable, Store!Here
<1>4. \A q, s \in Runner : Store!At(q, "dump")' /\ Store!At(s, "dump")' /\ Store!Id(q)' = Store!Id(s)' => q = s
  BY <1>1 DEF StoreIInv, Dumping, Store!At
<1>5. Unread'
  <2> SUFFICES ASSUME NEW b \in Store!Backup, Store!Here(b)', ~disk'[b].readable
               PROVE  disk'[b].mark = "unknown"
    BY DEF Unread
  <2>1. Mild(b) /\ (Store!Here(b) /\ ~disk[b].readable => disk[b].mark = "unknown")
    BY DEF StoreIInv, Unread
  <2> QED BY <2>1 DEF Mild, Store!Here
<1> QED BY <1>2, <1>3, <1>4, <1>5 DEF Dumping

LEMMA JudgedOrSpoiled ==
  ASSUME Store!TypeOK, NEW b \in Store!Backup, Store!Here(b),
         NEW f, f = [disk[b] EXCEPT !.mark = IF disk[b].good THEN "verified" ELSE "failed"]
                \/ f = [disk[b] EXCEPT !.good = FALSE]
  PROVE  f \in FolderRecord /\ f.readable = disk[b].readable /\ f.reason = disk[b].reason
         /\ f \in Store!Folder /\ f \notin {Store!None, Store!Gone}
<1>1. disk[b] \in FolderRecord
  BY FolderFields DEF FolderRecord
<1>2. f \in FolderRecord /\ f.readable = disk[b].readable /\ f.reason = disk[b].reason
  BY <1>1 DEF FolderRecord
<1> QED BY <1>2, RecordIsHere

\* verify(), of a run or again: the folder is judged.
LEMMA MarkedDoes ==
  ASSUME Store!TypeOK, NEW b \in Store!Backup, Store!Readable(b), disk' = Store!Marked(b)
  PROVE  disk' \in [Store!Backup -> Store!Folder] /\ \A c \in Store!Backup : Mild(c)
<1>1. PICK f : f = [disk[b] EXCEPT !.mark = IF disk[b].good THEN "verified" ELSE "failed"]
  OBVIOUS
<1>2. f \in Store!Folder /\ f \notin {Store!None, Store!Gone} /\ f.readable = disk[b].readable
  BY <1>1, JudgedOrSpoiled DEF Store!Readable
<1>3. disk' = [disk EXCEPT ![b] = f]
  BY <1>1 DEF Store!Marked
<1>4. Writes(b, f)
  BY <1>2, <1>3, Written
<1> QED BY <1>2, <1>4 DEF Writes, Mild, Store!Readable, Store!Here

Removes(b) == disk' = [disk EXCEPT ![b] = Store!Gone]

\* The folder is gone, and it alone.
Removed(b) ==
  /\ disk' \in [Store!Backup -> Store!Folder] /\ disk'[b] = Store!Gone
  /\ \A c \in Store!Backup \ {b} : disk'[c] = disk[c]
  /\ \A d \in Store!Backup : Mild(d)

LEMMA GoneDoes ==
  ASSUME Store!TypeOK, NEW b \in Store!Backup, Removes(b)
  PROVE  Removed(b)
<1>1. Store!Gone \in Store!Folder
  BY DEF Store!Folder
<1>2. Writes(b, Store!Gone)
  BY <1>1, Written DEF Removes
<1> QED BY <1>2 DEF Writes, Mild, Removed

\* A run whose dump fails takes its folder away: it is nobody's backup yet.
LEMMA DumpFailsKeeps ==
  ASSUME Store!BackupStoreAssumption, StoreIInv, NEW r \in Runner, Store!DumpFails(r)
  PROVE  StoreIInv'
<1>1. /\ runner[r].at = "dump" /\ Store!Goto(r, Store!Off) /\ Store!Trouble
      /\ UNCHANGED <<Store!drill, Store!clock, claims, excused, unlocked, mistaken>>
  BY DEF Store!DumpFails, Store!At, Store!history
<1>2. PICK b : b = Store!Id(r)
  OBVIOUS
<1>3. b \in Store!Backup /\ Removes(b)
  BY <1>1, <1>2, RunsFolder DEF Store!DumpFails, Removes
<1>4. PICK t \in Store!Thread : Steps(r, t) /\ t.at = "off"
  BY <1>1, WentOff DEF StoreIInv
<1>5. /\ disk' \in [Store!Backup -> Store!Folder] /\ disk'[b] = Store!Gone
      /\ \A c \in Store!Backup \ {b} : disk'[c] = disk[c]
      /\ \A d \in Store!Backup : Mild(d)
  <2>1. Removed(b)
    BY <1>3, GoneDoes DEF StoreIInv
  <2> QED BY <2>1 DEF Removed
<1>6. Dumping' /\ Unread'
  BY <1>4, <1>5, MildKeeps DEF Steps
<1>7. Justified'
  <2>1. ~Store!Readable(b)
    BY <1>1, <1>2 DEF StoreIInv, Dumping, Store!At
  <2>2. \A c \in Store!Backup : Stands(c)' <=> Stands(c)
    BY <1>5, <2>1 DEF Stands, Store!Verified, Store!Readable, Store!Here
  <2> QED BY <1>1, <1>4, <2>2, JustifiedKept
<1>8. SlotsAhead' /\ Store!OneRunPerSlot'
  BY <1>1, <1>4, SlotsKept
<1>9. DrillAlone' /\ DrillsOwn' /\ Store!JudgesItsOwn'
  BY <1>1, <1>4, DrillKept DEF InDrill
<1>10. Store!TypeOK'
  BY <1>1, <1>4, <1>5, Typed DEF StoreIInv, Store!TypeOK, Store!drill, Store!clock
<1> QED BY <1>6, <1>7, <1>8, <1>9, <1>10 DEF StoreIInv

LEMMA VerifyKeeps ==
  ASSUME Store!BackupStoreAssumption, StoreIInv, NEW r \in Runner, Store!Verify(r)
  PROVE  StoreIInv'
<1>1. /\ runner[r].at = "verify" /\ excused' = excused \cup Store!Pruning
      /\ UNCHANGED <<Store!drill, Store!clock, claims, troubles, unlocked, mistaken>>
  BY DEF Store!Verify, Store!At
<1>2. PICK b : b = Store!Id(r)
  OBVIOUS
<1>3. b \in Store!Backup /\ runner[r].at \in Store!Running /\ "lock" \in Store!Running
  BY <1>1, <1>2, RunsFolder DEF Store!Running
<1>4. CASE ~Store!Here(b)
  <2>1. UNCHANGED disk /\ Store!Goto(r, [at |-> "list"])
    BY <1>2, <1>4 DEF Store!Verify
  <2>2. PICK t \in Store!Thread : Steps(r, t) /\ t.at = "list"
    BY <2>1, WentToList DEF StoreIInv
  <2> QED BY <1>1, <2>1, <2>2, RestKeeps
<1>5. CASE Store!Here(b)
  <2>1. disk' = Store!Marked(b) /\ (Store!On(r, "lock") \/ Store!Goto(r, [at |-> "list"]))
    BY <1>2, <1>5 DEF Store!Verify
  <2>2. PICK t \in Store!Thread : Steps(r, t) /\ t.at \in {"lock", "list"}
    <3>1. CASE Store!On(r, "lock")
      BY <1>3, <3>1, WentOn DEF StoreIInv, Onward
    <3>2. CASE Store!Goto(r, [at |-> "list"])
      BY <3>2, WentToList DEF StoreIInv
    <3> QED BY <2>1, <3>1, <3>2
  <2>3. Store!Readable(b)
    BY <1>1, <1>2, <1>5 DEF StoreIInv, Dumping, Store!At, Store!Here
  <2>4. disk' \in [Store!Backup -> Store!Folder] /\ \A c \in Store!Backup : Mild(c)
    BY <1>3, <2>1, <2>3, MarkedDoes DEF StoreIInv
  <2>5. Dumping' /\ Unread'
    BY <2>2, <2>4, MildKeeps DEF Steps
  <2>6. Justified'
    BY <1>1, <2>2, JustifiedExcused
  <2>7. SlotsAhead' /\ Store!OneRunPerSlot'
    BY <1>1, <2>2, SlotsKept
  <2>8. DrillAlone' /\ DrillsOwn' /\ Store!JudgesItsOwn'
    BY <1>1, <2>2, DrillKept DEF InDrill
  <2>9. excused' \subseteq Runner
    BY <1>1 DEF StoreIInv, Store!TypeOK, Store!Pruning
  <2>10. Store!TypeOK'
    BY <1>1, <2>2, <2>4, <2>9, Typed DEF StoreIInv, Store!TypeOK, Store!drill, Store!clock
  <2> QED BY <2>5, <2>6, <2>7, <2>8, <2>10 DEF StoreIInv
<1> QED BY <1>4, <1>5

LEMMA DrillButtonKeeps ==
  ASSUME Store!BackupStoreAssumption, StoreIInv, NEW r \in Runner, NEW b \in Store!Backup,
         Store!DrillButton(r, b)
  PROVE  StoreIInv'
<1>1. UNCHANGED <<disk, Store!drill, Store!clock, troubles, claims, excused, unlocked, mistaken>>
  BY DEF Store!DrillButton, Store!history
<1>2. PICK t : t = [at |-> "lock", id |-> b, then |-> "off"]
  OBVIOUS
<1>3. t \in Store!Thread /\ t.at = "lock"
  BY <1>2 DEF Store!Thread, Store!Running
<1>4. Steps(r, t)
  BY <1>2, <1>3, Went DEF Store!DrillButton, StoreIInv
<1> QED BY <1>1, <1>3, <1>4, RestKeeps

\* A worker that dies lets go of the lock.
LEMMA CrashKeeps ==
  ASSUME Store!BackupStoreAssumption, StoreIInv, NEW r \in Runner, Store!Crash(r)
  PROVE  StoreIInv'
<1>1. /\ Store!Goto(r, Store!Off) /\ Store!Release(r) /\ Store!Trouble
      /\ UNCHANGED <<disk, drilldb, Store!clock, claims, excused, unlocked, mistaken>>
  BY DEF Store!Crash, Store!history
<1>2. PICK t \in Store!Thread : Steps(r, t) /\ t.at = "off"
  BY <1>1, WentOff DEF StoreIInv
<1>3. DrillAlone'
  BY <1>1, <1>2 DEF StoreIInv, DrillAlone, Steps, InDrill, Store!Release
<1>4. DrillsOwn'
  BY <1>1, <1>2 DEF StoreIInv, DrillsOwn, Store!At, Store!Id, Steps
<1>5. Store!JudgesItsOwn'
  BY <1>1 DEF StoreIInv, Store!JudgesItsOwn
<1>6. lock' \in Runner \cup {Store!None}
  BY <1>1 DEF Store!Release, StoreIInv, Store!TypeOK
<1> QED BY <1>1, <1>2, <1>3, <1>4, <1>5, <1>6, DrillStepKeeps DEF StoreIInv, Store!TypeOK

-------------------------------------------------------------------------------
(* prune().                                                                  *)

LEMMA KeptMeans ==
  ASSUME Store!BackupStoreAssumption
  PROVE  Keep \in Nat \ {0} /\ KeepOther \in Nat \ {0} /\ Last \in Nat
  BY DEF Store!BackupStoreAssumption

\* The number of a set is the same one in the store's module as here.
LEMMA NewestIs ==
  ASSUME NEW n, NEW pool
  PROVE  Store!Newest(n, pool) = {b \in pool : Cardinality({c \in pool : c > b}) < n}
  BY DEF Store!Newest, Store!Cardinality, Cardinality

\* What is not among the n newest of a pool is older than each of them.
LEMMA NewestAreNewer ==
  ASSUME Last \in Nat, NEW pool \in SUBSET Store!Backup, NEW n \in Nat,
         NEW b \in pool, b \notin Store!Newest(n, pool), NEW c \in Store!Newest(n, pool)
  PROVE  c > b
<1>1. b \in 1..Last /\ c \in 1..Last /\ c \in pool
  BY DEF Store!Backup, Store!Newest
<1> DEFINE above(x) == {y \in pool : y > x}
<1>2. IsFiniteSet(above(b)) /\ IsFiniteSet(above(c))
  <2>1. IsFiniteSet(1..Last)
    BY FS_Interval
  <2>2. above(b) \subseteq 1..Last /\ above(c) \subseteq 1..Last
    BY DEF Store!Backup
  <2> QED BY <2>1, <2>2, FS_Subset
<1>3. Cardinality(above(c)) < n /\ ~(Cardinality(above(b)) < n)
  BY NewestIs
<1> SUFFICES ASSUME ~(c > b) PROVE FALSE
  OBVIOUS
<1>4. above(b) \subseteq above(c)
  <2> SUFFICES ASSUME NEW y \in pool, y > b PROVE y > c
    OBVIOUS
  <2>1. y \in 1..Last
    BY DEF Store!Backup
  <2> QED BY <1>1, <2>1
<1>5. Cardinality(above(b)) =< Cardinality(above(c)) /\ Cardinality(above(b)) \in Nat
      /\ Cardinality(above(c)) \in Nat
  BY <1>2, <1>4, FS_Subset, FS_CardinalityType
<1> HIDE DEF above
<1> QED BY <1>3, <1>5

\* The newest verified scheduled backup is not on a list that has been read just now.
LEMMA DoomedJustified ==
  ASSUME Store!BackupStoreAssumption, Store!TypeOK, NEW b \in Store!Doomed, Stands(b)
  PROVE  \E c \in Store!Backup : c > b /\ c \notin Store!Doomed /\ Stands(c)
<1>1. b \in Store!Scheduled /\ b \in Store!Backup /\ b \notin Store!Newest(Keep, Store!Scheduled) \cup Store!Spared
  BY DEF Store!Doomed, Store!Other, Store!Scheduled, Stands, Store!Verified, Store!Readable
<1>2. Store!Scheduled \subseteq Store!Backup /\ Keep \in Nat /\ Last \in Nat
  BY KeptMeans DEF Store!Scheduled
<1>3. \A c \in Store!Scheduled : Store!Verified(c) => Stands(c)
  BY DEF Store!Scheduled, Stands, Store!Verified, Store!Readable
<1>4. \A c \in Store!Newest(Keep, Store!Scheduled) \cup Store!Spared : c \in Store!Scheduled => c \notin Store!Doomed
  BY DEF Store!Doomed, Store!Other
<1>5. CASE \E c \in Store!Newest(Keep, Store!Scheduled) : Store!Verified(c)
  <2>1. PICK c \in Store!Newest(Keep, Store!Scheduled) : Store!Verified(c)
    BY <1>5
  <2>2. c \in Store!Scheduled
    BY DEF Store!Newest
  <2>3. c > b
    BY <1>1, <1>2, NewestAreNewer
  <2> QED BY <1>2, <1>3, <1>4, <2>1, <2>2, <2>3
<1>6. CASE ~\E c \in Store!Newest(Keep, Store!Scheduled) : Store!Verified(c)
  <2>1. PICK beyond : beyond = {c \in Store!Scheduled \ Store!Newest(Keep, Store!Scheduled) : Store!Verified(c)}
    OBVIOUS
  <2>2. b \in beyond
    BY <1>1, <2>1 DEF Stands
  <2>3. Store!Spared = {Store!Max(beyond)}
    BY <1>6, <2>1, <2>2 DEF Store!Spared
  <2>4. beyond \in SUBSET (1..Last)
    BY <1>2, <2>1 DEF Store!Backup
  <2>5. PICK m : m = Store!Max(beyond)
    OBVIOUS
  <2>6. m \in beyond /\ b =< m
    BY <1>2, <2>2, <2>4, <2>5, MaxIsMember
  <2>7. m # b
    BY <1>1, <2>3, <2>5
  <2>8. m > b
    BY <2>2, <2>4, <2>6, <2>7
  <2> QED BY <1>2, <1>3, <1>4, <2>1, <2>3, <2>5, <2>6, <2>8
<1> QED BY <1>5, <1>6

LEMMA ListKeeps ==
  ASSUME Store!BackupStoreAssumption, StoreIInv, NEW r \in Runner, Store!List(r)
  PROVE  StoreIInv'
<1>1. /\ excused' = excused \ {r}
      /\ UNCHANGED <<disk, Store!drill, Store!clock, troubles, claims, unlocked, mistaken>>
  BY DEF Store!List
<1>2. PICK t : t = [at |-> "prune", doomed |-> Store!Doomed]
  OBVIOUS
<1>3. Store!Doomed \subseteq Store!Backup
  BY DEF Store!Doomed, Store!Other, Store!Scheduled
<1>4. t \in Store!Thread /\ t.at = "prune" /\ t.doomed = Store!Doomed
  BY <1>2, <1>3 DEF Store!Thread
<1>5. Steps(r, t)
  BY <1>2, <1>4, Went DEF Store!List, StoreIInv
<1>6. Store!TypeOK'
  BY <1>1, <1>5, Typed DEF StoreIInv, Store!TypeOK, Store!drill, Store!clock
<1>7. SlotsAhead' /\ Store!OneRunPerSlot'
  BY <1>1, <1>4, <1>5, SlotsKept
<1>8. DrillAlone' /\ DrillsOwn' /\ Store!JudgesItsOwn'
  BY <1>1, <1>4, <1>5, DrillKept DEF InDrill
<1>9. Dumping' /\ Unread'
  BY <1>1, <1>4, <1>5, DumpingKept
<1>10. Justified'
  <2>1. \A c \in Store!Backup : Stands(c)' <=> Stands(c)
    BY <1>1 DEF Stands, Store!Verified, Store!Readable, Store!Here
  <2> SUFFICES ASSUME NEW q \in Runner, Store!At(q, "prune")', q \notin excused',
                      NEW b \in runner'[q].doomed, Stands(b)'
               PROVE  \E c \in Store!Backup : c > b /\ c \notin runner'[q].doomed /\ Stands(c)'
    BY DEF Justified
  <2>2. CASE q = r
    <3>1. b \in Store!Doomed /\ Stands(b) /\ runner'[q].doomed = Store!Doomed
      BY <1>3, <1>4, <1>5, <2>1, <2>2 DEF Steps
    <3>2. PICK c \in Store!Backup : c > b /\ c \notin Store!Doomed /\ Stands(c)
      BY <3>1, DoomedJustified DEF StoreIInv
    <3> QED BY <2>1, <3>1, <3>2
  <2>3. CASE q # r
    <3>1. runner'[q] = runner[q] /\ q \notin excused
      BY <1>1, <1>5, <2>3 DEF Steps
    <3>2. runner[q].at = "prune" /\ b \in Store!Backup
      BY <3>1, ThreadFields DEF Store!At, StoreIInv, Store!TypeOK
    <3>3. PICK c \in Store!Backup : c > b /\ c \notin runner[q].doomed /\ Stands(c)
      BY <2>1, <3>1, <3>2 DEF StoreIInv, Justified, Store!At
    <3> QED BY <2>1, <3>1, <3>3
  <2> QED BY <2>2, <2>3
<1> QED BY <1>6, <1>7, <1>8, <1>9, <1>10 DEF StoreIInv

\* What a prune takes away was on its list, and what justified that stays.
LEMMA PruneDoes ==
  ASSUME Store!BackupStoreAssumption, StoreIInv, NEW r \in Runner, Store!Prune(r),
         runner[r].doomed # {}
  PROVE  \E b \in runner[r].doomed, t \in Store!Thread :
           /\ b \in Store!Backup /\ Removed(b)
           /\ Steps(r, t) /\ t.at = "prune" /\ t.doomed = runner[r].doomed \ {b}
           /\ excused' = excused \cup (Store!Pruning \ {r})
<1>1. runner[r] \in [at: {"prune"}, doomed: SUBSET Store!Backup] /\ runner[r].doomed \subseteq Store!Backup
  BY ThreadFields DEF Store!Prune, Store!At, StoreIInv, Store!TypeOK
<1>2. PICK b : b = Store!Max(runner[r].doomed)
  OBVIOUS
<1>3. b \in runner[r].doomed
  <2>1. runner[r].doomed \in SUBSET (1..Last) /\ Last \in Nat
    BY <1>1, KeptMeans DEF Store!Backup
  <2> QED BY <1>2, <2>1, MaxIsMember
<1>4. PICK t : t = [runner[r] EXCEPT !.doomed = @ \ {b}]
  OBVIOUS
<1>5. t \in [at: {"prune"}, doomed: SUBSET Store!Backup] /\ t.doomed = runner[r].doomed \ {b}
      /\ t.at = "prune"
  BY <1>1, <1>4
<1>6. t \in Store!Thread
  BY <1>5 DEF Store!Thread
<1>7. Removes(b) /\ Store!Goto(r, t) /\ excused' = excused \cup (Store!Pruning \ {r})
  BY <1>2, <1>4 DEF Store!Prune, Removes
<1>8. Steps(r, t)
  BY <1>6, <1>7, Went DEF StoreIInv
<1>9. b \in Store!Backup /\ Store!TypeOK
  BY <1>1, <1>3 DEF StoreIInv
<1>10. Removed(b)
  BY <1>7, <1>9, GoneDoes
<1> QED BY <1>3, <1>5, <1>6, <1>7, <1>8, <1>9, <1>10

LEMMA PruneKeeps ==
  ASSUME Store!BackupStoreAssumption, StoreIInv, NEW r \in Runner, Store!Prune(r)
  PROVE  StoreIInv'
<1>1. /\ runner[r].at = "prune"
      /\ UNCHANGED <<Store!drill, Store!clock, troubles, claims, unlocked, mistaken>>
  BY DEF Store!Prune, Store!At
<1>2. CASE runner[r].doomed = {}
  <2>1. UNCHANGED <<disk, excused>> /\ Store!Goto(r, Store!Off)
    BY <1>2 DEF Store!Prune
  <2>2. PICK t \in Store!Thread : Steps(r, t) /\ t.at = "off"
    BY <2>1, WentOff DEF StoreIInv
  <2> QED BY <1>1, <2>1, <2>2, RestKeeps
<1>3. CASE runner[r].doomed # {}
  <2>1. PICK b \in runner[r].doomed, t \in Store!Thread :
          /\ b \in Store!Backup /\ Removed(b)
          /\ Steps(r, t) /\ t.at = "prune" /\ t.doomed = runner[r].doomed \ {b}
          /\ excused' = excused \cup (Store!Pruning \ {r})
    BY <1>3, PruneDoes
  <2>2. /\ disk' \in [Store!Backup -> Store!Folder] /\ disk'[b] = Store!Gone
        /\ \A c \in Store!Backup \ {b} : disk'[c] = disk[c]
        /\ \A d \in Store!Backup : Mild(d)
    BY <2>1 DEF Removed
  <2>3. Dumping' /\ Unread'
    BY <2>1, <2>2, MildKeeps DEF Steps
  <2>4. SlotsAhead' /\ Store!OneRunPerSlot'
    BY <1>1, <2>1, SlotsKept
  <2>5. DrillAlone' /\ DrillsOwn' /\ Store!JudgesItsOwn'
    BY <1>1, <2>1, DrillKept DEF InDrill
  <2>6. excused' \subseteq Runner
    BY <2>1 DEF StoreIInv, Store!TypeOK, Store!Pruning
  <2>7. Store!TypeOK'
    BY <1>1, <2>1, <2>2, <2>6, Typed DEF StoreIInv, Store!TypeOK, Store!drill, Store!clock
  <2>8. Justified'
    <3> SUFFICES ASSUME NEW q \in Runner, Store!At(q, "prune")', q \notin excused',
                        NEW a \in runner'[q].doomed, Stands(a)'
                 PROVE  \E c \in Store!Backup : c > a /\ c \notin runner'[q].doomed /\ Stands(c)'
      BY DEF Justified
    <3>1. q = r /\ r \notin excused
      <4>1. q # r => runner[q].at = "prune"
        BY <2>1 DEF Store!At, Steps
      <4> QED BY <2>1, <4>1 DEF Store!Pruning, Store!At
    <3>2. runner'[q].doomed = runner[r].doomed \ {b}
      BY <2>1, <3>1 DEF Steps
    <3>3. a \in runner[r].doomed /\ a \in Store!Backup
      BY <1>1, <3>2, ThreadFields DEF StoreIInv, Store!TypeOK
    <3>4. \A c \in Store!Backup : c # b => (Stands(c)' <=> Stands(c))
      BY <2>2 DEF Stands, Store!Verified, Store!Readable, Store!Here
    <3>5. ~Stands(b)'
      BY <2>2 DEF Stands, Store!Verified, Store!Readable, Store!Here
    <3>6. PICK c \in Store!Backup : c > a /\ c \notin runner[r].doomed /\ Stands(c)
      BY <1>1, <3>1, <3>3, <3>4, <3>5 DEF StoreIInv, Justified, Store!At
    <3> QED BY <2>1, <3>2, <3>4, <3>6
  <2> QED BY <2>3, <2>4, <2>5, <2>7, <2>8 DEF StoreIInv
<1> QED BY <1>2, <1>3

-------------------------------------------------------------------------------
(* Administrators and faults.                                                *)

\* A step that moves no thread.
LEMMA OutsideKeeps ==
  ASSUME Store!BackupStoreAssumption, StoreIInv, UNCHANGED <<runner, Store!drill, Store!clock,
         claims, unlocked, mistaken>>,
         Store!Trouble, disk' \in [Store!Backup -> Store!Folder], \A b \in Store!Backup : Mild(b),
         \/ excused' = excused \cup Store!Pruning
         \/ excused' = excused /\ \A b \in Store!Backup : Stands(b)' <=> Stands(b)
  PROVE  StoreIInv'
<1>1. UNCHANGED <<runner, lock, drilldb, next, now, claims, unlocked, mistaken>>
  BY DEF Store!drill, Store!clock
<1>2. troubles' \in 0..MaxTrouble
  BY DEF Store!BackupStoreAssumption, StoreIInv, Store!TypeOK, Store!Trouble
<1>3. Store!TypeOK'
  <2>1. excused' \subseteq Runner
    BY DEF StoreIInv, Store!TypeOK, Store!Pruning
  <2> QED BY <1>1, <1>2, <2>1 DEF StoreIInv, Store!TypeOK
<1>4. SlotsAhead' /\ Store!OneRunPerSlot'
  BY <1>1 DEF StoreIInv, SlotsAhead, Store!OneRunPerSlot, Store!At
<1>5. DrillAlone' /\ DrillsOwn' /\ Store!JudgesItsOwn'
  BY <1>1 DEF StoreIInv, DrillAlone, DrillsOwn, Store!JudgesItsOwn, Store!At, Store!Id
<1>6. Dumping' /\ Unread'
  BY <1>1, MildKeeps
<1>7. Justified'
  <2>1. CASE excused' = excused \cup Store!Pruning
    BY <1>1, <2>1 DEF Justified, Store!Pruning, Store!At
  <2>2. CASE excused' = excused /\ \A b \in Store!Backup : Stands(b)' <=> Stands(b)
    <3> SUFFICES ASSUME NEW q \in Runner, Store!At(q, "prune"), q \notin excused,
                        NEW b \in runner[q].doomed, Stands(b)'
                 PROVE  \E c \in Store!Backup : c > b /\ c \notin runner[q].doomed /\ Stands(c)'
      BY <1>1, <2>2 DEF Justified, Store!At
    <3>1. b \in Store!Backup
      BY ThreadFields DEF Store!At, StoreIInv, Store!TypeOK
    <3>2. PICK c \in Store!Backup : c > b /\ c \notin runner[q].doomed /\ Stands(c)
      BY <2>2, <3>1 DEF StoreIInv, Justified
    <3> QED BY <2>2, <3>2
  <2> QED BY <2>1, <2>2
<1> QED BY <1>3, <1>4, <1>5, <1>6, <1>7 DEF StoreIInv

LEMMA OutsideStepsKeep ==
  ASSUME Store!BackupStoreAssumption, StoreIInv, NEW b \in Store!Backup,
         Store!VerifyAgain(b) \/ Store!Delete(b) \/ Store!Spoil(b)
  PROVE  StoreIInv'
<1>1. UNCHANGED <<runner, Store!drill, Store!clock, claims, unlocked, mistaken>> /\ Store!Trouble
  BY DEF Store!VerifyAgain, Store!Delete, Store!Spoil, Store!Meddle, Store!history
<1>2. CASE Store!VerifyAgain(b)
  <2>1. Store!Readable(b) /\ disk' = Store!Marked(b) /\ excused' = excused \cup Store!Pruning
    BY <1>2 DEF Store!VerifyAgain, Store!Meddle
  <2>2. disk' \in [Store!Backup -> Store!Folder] /\ \A c \in Store!Backup : Mild(c)
    BY <2>1, MarkedDoes DEF StoreIInv
  <2> QED BY <1>1, <2>1, <2>2, OutsideKeeps
<1>3. CASE Store!Delete(b)
  <2>1. Removes(b) /\ excused' = excused \cup Store!Pruning /\ Store!TypeOK
    BY <1>3 DEF Store!Delete, Store!Meddle, Removes, StoreIInv
  <2>2. Removed(b)
    BY <2>1, GoneDoes
  <2>3. disk' \in [Store!Backup -> Store!Folder] /\ \A d \in Store!Backup : Mild(d)
    BY <2>2 DEF Removed
  <2> QED BY <1>1, <2>1, <2>3, OutsideKeeps
<1>4. CASE Store!Spoil(b)
  <2>1. PICK f : f = [disk[b] EXCEPT !.good = FALSE]
    OBVIOUS
  <2>2. disk[b] \in FolderRecord /\ Store!Here(b)
    BY <1>4, FolderFields DEF StoreIInv, FolderRecord, Store!Spoil
  <2>3. /\ f \in FolderRecord /\ f.readable = disk[b].readable /\ f.reason = disk[b].reason
        /\ f.mark = disk[b].mark
    BY <2>1, <2>2 DEF FolderRecord
  <2>4. f \in Store!Folder /\ f \notin {Store!None, Store!Gone}
    BY <2>3, RecordIsHere
  <2>5. disk' = [disk EXCEPT ![b] = f] /\ excused' = excused
    BY <1>4, <2>1 DEF Store!Spoil, Store!history
  <2>6. Writes(b, f)
    BY <2>4, <2>5, Written DEF StoreIInv
  <2>7. disk' \in [Store!Backup -> Store!Folder] /\ disk'[b] = f /\ \A c \in Store!Backup \ {b} : disk'[c] = disk[c]
    BY <2>6 DEF Writes
  <2>8. \A c \in Store!Backup : Mild(c)
    BY <2>2, <2>3, <2>4, <2>7 DEF Mild, Store!Here
  <2>9. \A c \in Store!Backup : Stands(c)' <=> Stands(c)
    BY <2>2, <2>3, <2>4, <2>7 DEF Stands, Store!Verified, Store!Readable, Store!Here
  <2> QED BY <1>1, <2>5, <2>7, <2>8, <2>9, OutsideKeeps
<1> QED BY <1>2, <1>3, <1>4

\* The clock ticks, the session of a lock ends, or nothing happens.
LEMMA QuietKeeps ==
  ASSUME Store!BackupStoreAssumption, StoreIInv, Store!Tick \/ Store!LoseLock \/ UNCHANGED Store!vars
  PROVE  StoreIInv'
<1>1. UNCHANGED <<disk, runner, drilldb, next, claims, excused, mistaken>>
  BY DEF Store!Tick, Store!LoseLock, Store!vars, Store!drill, Store!clock, Store!history
<1>2. /\ (UNCHANGED <<lock, unlocked>> \/ (lock' = Store!None /\ unlocked' = TRUE))
      /\ (now' = now \/ (now < MaxTime /\ now' = now + 1))
      /\ (troubles' = troubles \/ Store!Trouble)
  BY DEF Store!Tick, Store!LoseLock, Store!vars, Store!drill, Store!clock, Store!history
<1>3. troubles' \in 0..MaxTrouble /\ now' \in 0..MaxTime /\ now =< now'
  BY <1>2 DEF Store!BackupStoreAssumption, StoreIInv, Store!TypeOK, Store!Trouble
<1>4. Store!TypeOK'
  BY <1>1, <1>2, <1>3 DEF StoreIInv, Store!TypeOK
<1>5. SlotsAhead' /\ Store!OneRunPerSlot'
  <2>1. ASSUME NEW r \in Runner, runner[r].at = "due" PROVE runner[r].seen =< now'
    <3>1. runner[r].seen =< now /\ runner[r].seen \in 0..MaxTime + 1 /\ now \in 0..MaxTime
      BY <2>1, ThreadFields DEF StoreIInv, SlotsAhead, Store!At, Store!TypeOK
    <3> QED BY <1>3, <3>1
  <2> QED BY <1>1, <2>1 DEF StoreIInv, SlotsAhead, Store!OneRunPerSlot, Store!At
<1>6. DrillAlone' /\ DrillsOwn' /\ Store!JudgesItsOwn'
  BY <1>1, <1>2 DEF StoreIInv, DrillAlone, DrillsOwn, Store!JudgesItsOwn, Store!At, Store!Id
<1>7. Dumping' /\ Unread'
  BY <1>1 DEF StoreIInv, Dumping, Unread, Store!Here, Store!Readable, Store!At, Store!Id
<1>8. Justified'
  BY <1>1 DEF StoreIInv, Justified, Stands, Store!Verified, Store!Readable, Store!Here, Store!At
<1> QED BY <1>4, <1>5, <1>6, <1>7, <1>8 DEF StoreIInv

-------------------------------------------------------------------------------
(* The theorems.                                                             *)

LEMMA InitOK ==
  ASSUME Store!BackupStoreAssumption, Store!Init
  PROVE  StoreIInv
<1>1. \A r \in Runner : runner[r] = Store!Off /\ runner[r].at = "off"
  BY OffIs DEF Store!Init
<1>2. \A b \in Store!Backup : disk[b] = Store!None /\ Store!None \in Store!Folder
  BY DEF Store!Init, Store!Folder
<1>3. Store!TypeOK
  <2>1. MaxTime \in Nat /\ MaxTrouble \in Nat
    BY DEF Store!BackupStoreAssumption
  <2>2. 0 \in 0..MaxTime + 1 /\ 0 \in 0..MaxTime /\ 0 \in 0..MaxTrouble
    BY <2>1
  <2> QED BY <1>2, <2>2, OffIs DEF Store!Init, Store!TypeOK
<1>4. SlotsAhead /\ Store!OneRunPerSlot
  BY <1>1 DEF Store!Init, SlotsAhead, Store!OneRunPerSlot, Store!At
<1>5. DrillAlone /\ DrillsOwn /\ Store!JudgesItsOwn
  BY <1>1 DEF Store!Init, DrillAlone, DrillsOwn, Store!JudgesItsOwn, Store!At, InDrill
<1>6. Dumping /\ Unread
  BY <1>1, <1>2 DEF Dumping, Unread, Store!Here, Store!At
<1>7. Justified
  BY <1>1 DEF Justified, Store!At
<1> QED BY <1>3, <1>4, <1>5, <1>6, <1>7 DEF StoreIInv

LEMMA StepKeeps ==
  ASSUME Store!BackupStoreAssumption, StoreIInv, [Store!Next]_(Store!vars)
  PROVE  StoreIInv'
<1>1. CASE Store!Tick \/ Store!LoseLock \/ UNCHANGED Store!vars
  BY <1>1, QuietKeeps
<1>2. ASSUME NEW b \in Store!Backup, Store!VerifyAgain(b) \/ Store!Delete(b) \/ Store!Spoil(b) PROVE StoreIInv'
  BY <1>2, OutsideStepsKeep
<1>3. ASSUME NEW r \in Runner, NEW b \in Store!Backup, Store!DrillButton(r, b) PROVE StoreIInv'
  BY <1>3, DrillButtonKeeps
<1>4. ASSUME NEW r \in Runner, Store!Run(r) PROVE StoreIInv'
  <2>1. CASE Store!Due(r) \/ Store!Claim(r) \/ Store!RunManual(r)
    BY <2>1, DueKeeps, ClaimKeeps, RunManualKeeps
  <2>2. CASE Store!Dump(r) \/ Store!DumpFails(r) \/ Store!Verify(r)
    BY <2>2, DumpKeeps, DumpFailsKeeps, VerifyKeeps
  <2>3. CASE Store!Lock(r) \/ Store!Clean(r) \/ Store!RestoreDump(r) \/ Store!Check(r) \/ Store!Cleanup(r)
    BY <2>3, DrillLockKeeps, CleanKeeps, RestoreDumpKeeps, CheckKeeps, CleanupKeeps
  <2>4. CASE Store!List(r) \/ Store!Prune(r) \/ Store!Crash(r)
    BY <2>4, ListKeeps, PruneKeeps, CrashKeeps
  <2> QED BY <1>4, <2>1, <2>2, <2>3, <2>4 DEF Store!Run
<1> QED BY <1>1, <1>2, <1>3, <1>4 DEF Store!Next

LEMMA Inductive ==
  ASSUME Store!BackupStoreAssumption
  PROVE  Store!Spec => []StoreIInv
<1>1. Store!Init => StoreIInv
  BY InitOK
<1>2. StoreIInv /\ [Store!Next]_(Store!vars) => StoreIInv'
  BY StepKeeps
<1> QED BY <1>1, <1>2, PTL DEF Store!Spec

LEMMA StoreTypeCorrect ==
  ASSUME Store!BackupStoreAssumption PROVE Store!Spec => []Store!TypeOK
<1>1. StoreIInv => Store!TypeOK
  BY DEF StoreIInv
<1> QED BY <1>1, Inductive, PTL

LEMMA StoreApart ==
  ASSUME Store!BackupStoreAssumption PROVE Store!Spec => [](Store!OneRunPerSlot /\ Store!JudgesItsOwn)
<1>1. StoreIInv => Store!OneRunPerSlot /\ Store!JudgesItsOwn
  BY DEF StoreIInv
<1> QED BY <1>1, Inductive, PTL

\* What a step of one pruner does.
SurvivesStep ==
  \A r \in Runner, b \in Store!Backup :
    /\ Store!At(r, "prune") /\ runner'[r] # runner[r] /\ r \notin excused
    /\ Store!Verified(b) /\ disk[b].reason = "scheduled" /\ disk'[b] = Store!Gone
    => \E c \in Store!Backup : c > b /\ Store!Verified(c) /\ disk[c].reason = "scheduled"

\* Only r itself moves r.
LEMMA MovesItself ==
  ASSUME Store!BackupStoreAssumption, StoreIInv, NEW r \in Runner, Store!At(r, "prune"),
         runner'[r] # runner[r], Store!Next
  PROVE  Store!Prune(r) \/ Store!Crash(r)
<1>1. ~Store!Tick /\ ~Store!LoseLock /\ \A b \in Store!Backup : ~Store!VerifyAgain(b) /\ ~Store!Delete(b) /\ ~Store!Spoil(b)
  BY DEF Store!Tick, Store!LoseLock, Store!VerifyAgain, Store!Delete, Store!Spoil
<1>2. ASSUME NEW q \in Runner, NEW stage, Store!Goto(q, stage) PROVE q = r
  BY <1>2 DEF Store!Goto, StoreIInv, Store!TypeOK
<1>3. ASSUME NEW q \in Runner, NEW b \in Store!Backup, Store!DrillButton(q, b) PROVE FALSE
  <2>1. q = r
    BY <1>2, <1>3 DEF Store!DrillButton
  <2> QED BY <1>3, <2>1 DEF Store!DrillButton, Store!At
<1>4. ASSUME NEW q \in Runner, Store!Run(q) PROVE Store!Run(r)
  <2>1. \E stage : Store!Goto(q, stage)
    <3>1. CASE Store!Due(q) \/ Store!Claim(q) \/ Store!RunManual(q)
      BY <3>1 DEF Store!Due, Store!Claim, Store!RunManual, Store!Make
    <3>2. CASE Store!Dump(q) \/ Store!DumpFails(q) \/ Store!Verify(q)
      BY <3>2 DEF Store!Dump, Store!DumpFails, Store!Verify, Store!On
    <3>3. CASE Store!Lock(q) \/ Store!Clean(q)
      BY <3>3 DEF Store!Lock, Store!Clean, Store!On
    <3>4. CASE Store!RestoreDump(q) \/ Store!Check(q) \/ Store!Cleanup(q)
      BY <3>4 DEF Store!RestoreDump, Store!Check, Store!Cleanup, Store!On
    <3>5. CASE Store!List(q) \/ Store!Prune(q) \/ Store!Crash(q)
      BY <3>5 DEF Store!List, Store!Prune, Store!Crash
    <3> QED BY <1>4, <3>1, <3>2, <3>3, <3>4, <3>5 DEF Store!Run
  <2> QED BY <1>2, <1>4, <2>1
<1>5. Store!Run(r)
  BY <1>1, <1>3, <1>4 DEF Store!Next
<1> QED BY <1>5 DEF Store!Run, Store!At, Store!Due, Store!Claim, Store!RunManual, Store!Dump,
       Store!DumpFails, Store!Verify, Store!Lock, Store!Clean, Store!RestoreDump,
                     Store!Check, Store!Cleanup, Store!List

LEMMA StepSurvives ==
  ASSUME Store!BackupStoreAssumption, StoreIInv, Store!Next
  PROVE  SurvivesStep
<1> SUFFICES ASSUME NEW r \in Runner, NEW b \in Store!Backup,
                    Store!At(r, "prune"), runner'[r] # runner[r], r \notin excused,
                    Stands(b), disk'[b] = Store!Gone
             PROVE  \E c \in Store!Backup : c > b /\ Stands(c)
  BY DEF SurvivesStep, Stands
<1>1. disk'[b] # disk[b]
  BY DEF Stands, Store!Verified, Store!Readable, Store!Here
<1>2. Store!Prune(r) /\ runner[r].doomed # {}
  <2>1. Store!Prune(r) \/ Store!Crash(r)
    BY MovesItself
  <2> QED BY <1>1, <2>1 DEF Store!Crash, Store!Prune
<1>3. b \in runner[r].doomed
  <2>1. PICK d \in runner[r].doomed, t \in Store!Thread :
          /\ d \in Store!Backup /\ Removed(d)
          /\ Steps(r, t) /\ t.at = "prune" /\ t.doomed = runner[r].doomed \ {d}
          /\ excused' = excused \cup (Store!Pruning \ {r})
    BY <1>2, PruneDoes
  <2> QED BY <1>1, <2>1 DEF Removed
<1> QED BY <1>3 DEF StoreIInv, Justified

LEMMA StoreSpares ==
  ASSUME Store!BackupStoreAssumption PROVE Store!Spec => Store!VerifiedSurvives
<1>1. StoreIInv /\ [Store!Next]_(Store!vars) => [SurvivesStep]_(Store!vars)
  BY StepSurvives
<1> QED BY <1>1, Inductive, PTL DEF Store!Spec, Store!VerifiedSurvives, SurvivesStep

-------------------------------------------------------------------------------
(* THE RECORD OF THE MODEL.  The inductive invariant.                        *)

Writing == {"put weights", "put sidecar", "append", "drop weights", "drop sidecar"}

\* The lock is held by the process that is between its files, and by nobody else.
HolderWrites == \A p \in Process : holder = p <=> run[p].stage \in Writing

\* What a reindex has come to so far: a model of the questions it read or none, and a version
\* only together with that model.
RunShape ==
  \A p \in Process :
    /\ ~Record!At(p, "idle") => run[p].model \in {Absent, run[p].read}
    /\ run[p].stage \in {"sidecar", "train", "record", "drop weights", "drop sidecar"} =>
         run[p].version = 0
    /\ run[p].stage \in {"put weights", "put sidecar", "append"} =>
         run[p].model # Absent /\ run[p].version \in 1..MaxVersion
    /\ Record!At(p, "weights") => run[p].read \notin Few /\ run[p].version # 0
    /\ Record!At(p, "done") /\ run[p].version # 0 => run[p].model # Absent

\* How far a writer has come with the pair, and with the version that it was given.
PairWritten ==
  \A p \in Process :
    /\ run[p].stage \in {"put sidecar", "append"} => weights = run[p].model
    /\ Record!At(p, "append") => sidecar = [version |-> run[p].version, model |-> run[p].model]

\* No version from v on has been given to anyone, but for those that were dropped.
FreeFrom(v) ==
  /\ v =< Record!NextVersion
  /\ \A u \in 1..MaxVersion : v =< u /\ u < Record!NextVersion => u \in dropped
VersionGiven ==
  \A p \in Process :
    /\ run[p].stage \in {"put weights", "put sidecar"} => FreeFrom(run[p].version)
    /\ Record!At(p, "append") => FreeFrom(run[p].version + 1)

\* The version v is known as the name of the model m: to a worker, to a reader of the files, or
\* to a reindex that has loaded or recorded it.
Serves(p, v, m) == serving[p] # Absent /\ serving[p].version = v /\ serving[p].model = m
Carries(p, v, m) ==
  run[p].stage \in {"weights", "append", "done"} /\ run[p].version = v /\ run[p].read = m
Filed(v, m) ==
  \/ sidecar # Absent /\ sidecar.version = v /\ sidecar.model = m
  \/ \E i \in DOMAIN lines : lines[i].version = v /\ lines[i].model = m
Known(v, m) == Filed(v, m) \/ \E p \in Process : Serves(p, v, m) \/ Carries(p, v, m)

\* No version is given again but one that was dropped, and none is the name of two models.
VersionsPassed ==
  \A v \in 1..MaxVersion, m \in Questions \ Few : Known(v, m) => v < Record!NextVersion \/ v \in dropped
OneNameEach ==
  \A v \in 1..MaxVersion, m, n \in Questions \ Few :
    Known(v, m) /\ Known(v, n) => m = n \/ v \in dropped

\* A worker that serves a version serves a model.
VersionHasModel ==
  \A p \in Process : serving[p] # Absent /\ serving[p].version # 0 => serving[p].model # Absent

Reindexes == Record!ServedIsProven /\ HolderWrites /\ RunShape /\ VersionHasModel
Names == VersionGiven /\ VersionsPassed /\ OneNameEach

RecordIInv == Record!TypeOK /\ Reindexes /\ PairWritten /\ Record!PairHonest /\ Names

-------------------------------------------------------------------------------
(* Lemmas about the data.                                                    *)

\* A reindex under way has the fields of one.
LEMMA RunTyping ==
  ASSUME Record!TypeOK, NEW p \in Process, ~Record!At(p, "idle")
  PROVE  /\ run[p] \in [stage : Record!Stage, read : Questions, model : (Questions \ Few) \cup {Absent},
                        version : 0..MaxVersion]
         /\ run[p].stage \in Record!Stage /\ run[p].read \in Questions
         /\ run[p].model \in (Questions \ Few) \cup {Absent} /\ run[p].version \in 0..MaxVersion
  BY DEF Record!TypeOK, Record!Run, Record!Idle, Record!At

\* Where a process is, it is alone.
LEMMA NotIdle ==
  ASSUME NEW p \in Process, NEW s, Record!At(p, s), s # "idle" PROVE ~Record!At(p, "idle")
  BY DEF Record!At

LEMMA MaxOfTwo ==
  ASSUME NEW a \in Nat, NEW b \in Nat
  PROVE  Record!Max({a, b}) \in {a, b} /\ a =< Record!Max({a, b}) /\ b =< Record!Max({a, b})
<1>1. \E x \in {a, b} : \A y \in {a, b} : x >= y
  BY DEF Record!Max
<1> QED BY <1>1 DEF Record!Max

\* The last version in the history, and the sidecar's.
LEMMA LastVersionIs ==
  ASSUME Record!TypeOK
  PROVE  /\ Record!Newest(sidecar) \in Nat /\ Record!LastVersion \in Nat
         /\ Record!NextVersion = Record!Max({Record!Newest(sidecar), Record!LastVersion}) + 1
         /\ Record!Newest(sidecar) < Record!NextVersion /\ Record!LastVersion < Record!NextVersion
         /\ Record!NextVersion \in {Record!Newest(sidecar) + 1, Record!LastVersion + 1}
<1>1. sidecar # Absent => sidecar.version \in Nat
  BY DEF Record!TypeOK, Record!Line
<1>2. lines # <<>> => lines[Len(lines)].version \in Nat
  <2> SUFFICES ASSUME lines # <<>> PROVE lines[Len(lines)] \in Record!Line
    BY DEF Record!Line
  <2>1. lines \in Seq(Record!Line)
    BY DEF Record!TypeOK
  <2>2. Len(lines) \in 1..Len(lines)
    BY <2>1
  <2> QED BY <2>1, <2>2
<1>3. Record!Newest(sidecar) \in Nat
  BY <1>1 DEF Record!Newest
<1>4. Record!LastVersion \in Nat
  BY <1>2 DEF Record!LastVersion
<1>5. PICK top : /\ top = Record!Max({Record!Newest(sidecar), Record!LastVersion})
                 /\ top \in {Record!Newest(sidecar), Record!LastVersion}
                 /\ Record!Newest(sidecar) =< top /\ Record!LastVersion =< top
  BY <1>3, <1>4, MaxOfTwo
<1>6. Record!NextVersion = top + 1
  BY <1>5 DEF Record!NextVersion
<1> QED BY <1>3, <1>4, <1>5, <1>6

LEMMA NextVersionIs ==
  ASSUME Record!RecordAssumption, Record!TypeOK
  PROVE  /\ Record!NextVersion \in Nat \ {0}
         /\ sidecar # Absent => sidecar \in Record!Line /\ sidecar.version < Record!NextVersion
         /\ lines # <<>> => lines[Len(lines)] \in Record!Line
                            /\ lines[Len(lines)].version < Record!NextVersion
         /\ Record!NextVersion = 1 \/ (sidecar # Absent /\ Record!NextVersion = sidecar.version + 1)
              \/ (lines # <<>> /\ Record!NextVersion = lines[Len(lines)].version + 1)
<1>1. sidecar # Absent => sidecar \in Record!Line /\ sidecar.version \in Nat
  BY DEF Record!TypeOK, Record!Line
<1>2. lines # <<>> => lines[Len(lines)] \in Record!Line /\ lines[Len(lines)].version \in Nat
  <2> SUFFICES ASSUME lines # <<>> PROVE lines[Len(lines)] \in Record!Line
    BY DEF Record!Line
  <2>1. lines \in Seq(Record!Line)
    BY DEF Record!TypeOK
  <2>2. Len(lines) \in 1..Len(lines)
    BY <2>1
  <2> QED BY <2>1, <2>2
<1>3. Record!Newest(sidecar) \in Nat /\ Record!LastVersion \in Nat
  BY <1>1, <1>2 DEF Record!Newest, Record!LastVersion
<1>4. PICK top : /\ Record!NextVersion = top + 1 /\ top \in {Record!Newest(sidecar), Record!LastVersion}
                 /\ Record!Newest(sidecar) =< top /\ Record!LastVersion =< top
  BY <1>3, MaxOfTwo DEF Record!NextVersion
<1> QED BY <1>1, <1>2, <1>3, <1>4 DEF Record!Newest, Record!LastVersion

-------------------------------------------------------------------------------
(* Type correctness.                                                         *)

RunFields == [stage : Record!Stage, read : Questions, model : (Questions \ Few) \cup {Absent},
              version : 0..MaxVersion]

\* A step of one process keeps the type of what it leaves alone.
LEMMA GoesOn ==
  ASSUME Record!TypeOK, NEW p \in Process, NEW onto \in RunFields \cup {Record!Idle},
         Record!Go(p, onto)
  PROVE  run' \in [Process -> Record!Run]
  BY DEF Record!TypeOK, Record!Run, RunFields, Record!Go

\* Of at most max + 1 elements, at most max are kept.
LEMMA FirstKept ==
  ASSUME NEW max \in Nat \ {0}, NEW size \in 1..(max + 1),
         NEW first, first = Record!Max({1, size - max + 1})
  PROVE  first \in 1..size /\ size - first + 1 \in 1..max
<1>1. CASE size - max + 1 >= 1
  <2>1. size - max + 1 \in Nat
    BY <1>1
  <2> QED BY <2>1, <1>1, MaxOfTwo
<1>2. CASE size - max + 1 < 1
  <2>1. \A x \in {1, size - max + 1} : (\A y \in {1, size - max + 1} : x >= y) <=> x = 1
    BY <1>2
  <2>2. first = 1
    BY <2>1 DEF Record!Max
  <2> QED BY <1>2, <2>2
<1> QED BY <1>1, <1>2

\* What is left of a sequence from one of its elements on.
LEMMA LastOnes ==
  ASSUME NEW S, NEW whole \in Seq(S), NEW first \in 1..Len(whole),
         NEW new, new = SubSeq(whole, first, Len(whole))
  PROVE  /\ new \in Seq(S) /\ Len(new) = Len(whole) - first + 1
         /\ new[Len(new)] = whole[Len(whole)]
         /\ \A i \in 1..Len(new) : \E j \in 1..Len(whole) : new[i] = whole[j]
<1>1. Len(whole) \in Int /\ first \in Int /\ first =< Len(whole)
  BY LenProperties
<1>2. \A i \in first..Len(whole) : whole[i] \in S
  <2> SUFFICES ASSUME NEW i \in first..Len(whole) PROVE whole[i] \in S
    OBVIOUS
  <2>1. i \in 1..Len(whole)
    BY <1>1
  <2> QED BY <2>1, ElementOfSeq
<1>3. /\ new \in Seq(S) /\ Len(new) = Len(whole) - first + 1
      /\ \A i \in 1..(Len(whole) - first + 1) : new[i] = whole[first + i - 1]
  BY <1>1, <1>2, SubSeqProperties
<1>4. PICK size \in Nat, kept \in Nat :
        size = Len(whole) /\ kept = Len(new) /\ kept = size - first + 1
  BY <1>1, <1>3
<1>5. kept \in 1..kept /\ first + kept - 1 = size
  BY <1>1, <1>4
<1>6. \A i \in 1..kept : new[i] = whole[first + i - 1] /\ first + i - 1 \in 1..size
  BY <1>1, <1>3, <1>4
<1> QED BY <1>3, <1>4, <1>5, <1>6

\* new is old with the line laid on, and no longer than max.
Laid(new, old, line, max, S) ==
  /\ new \in Seq(S) /\ Len(new) \in 1..max /\ new[Len(new)] = line
  /\ \A i \in 1..Len(new) : new[i] = line \/ \E j \in 1..Len(old) : new[i] = old[j]

LEMMA LineLaid ==
  ASSUME NEW S, NEW old \in Seq(S), NEW line \in S, NEW max \in Nat \ {0}, Len(old) =< max,
         NEW whole, whole = Append(old, line),
         NEW first, first = Record!Max({1, Len(whole) - max + 1}),
         NEW new, new = SubSeq(whole, first, Len(whole))
  PROVE  Laid(new, old, line, max, S)
<1>1. /\ whole \in Seq(S) /\ Len(whole) = Len(old) + 1 /\ Len(old) \in Nat
      /\ whole[Len(whole)] = line /\ \A i \in 1..Len(old) : whole[i] = old[i]
  BY AppendProperties, LenProperties
<1>2. Len(whole) \in 1..(max + 1)
  BY <1>1
<1>4. first \in 1..Len(whole) /\ Len(whole) - first + 1 \in 1..max
  BY <1>2, FirstKept
<1>6. /\ new \in Seq(S) /\ Len(new) = Len(whole) - first + 1 /\ new[Len(new)] = whole[Len(whole)]
      /\ \A i \in 1..Len(new) : \E j \in 1..Len(whole) : new[i] = whole[j]
  <2>1. whole \in Seq(S)
    BY <1>1
  <2>2. first \in 1..Len(whole)
    BY <1>4
  <2>3. new = SubSeq(whole, first, Len(whole))
    OBVIOUS
  <2> HIDE DEF Record!Max
  <2> QED BY ONLY <2>1, <2>2, <2>3, LastOnes, SMTT(30)
<1>7. ASSUME NEW j \in 1..Len(whole)
      PROVE  whole[j] = line \/ \E k \in 1..Len(old) : whole[j] = old[k]
  BY <1>1
<1>8. Len(new) \in 1..max
  BY <1>4, <1>6
<1>9. new[Len(new)] = line
  BY <1>1, <1>6
<1>10. ASSUME NEW i \in 1..Len(new)
       PROVE  new[i] = line \/ \E j \in 1..Len(old) : new[i] = old[j]
  <2>1. PICK j \in 1..Len(whole) : new[i] = whole[j]
    BY <1>6, Zenon
  <2> QED BY <1>7, <2>1, Zenon
<1> QED BY <1>6, <1>8, <1>9, <1>10, Zenon DEF Laid

-------------------------------------------------------------------------------
(* The steps that touch no file and no lock.                                 *)

\* A step of p from r is the whole of what happens to the reindexes.
LEMMA RecordWent ==
  ASSUME Record!TypeOK, NEW p \in Process, NEW onto, Record!Go(p, onto)
  PROVE  run'[p] = onto /\ \A q \in Process \ {p} : run'[q] = run[q]
  BY DEF Record!TypeOK, Record!Go

\* What a reindex may have come to, for each of its stages.
Shaped(r) ==
  /\ r.model \in {Absent, r.read}
  /\ r.stage \in {"sidecar", "train", "record", "drop weights", "drop sidecar"} => r.version = 0
  /\ r.stage \in {"put weights", "put sidecar", "append"} =>
       r.model # Absent /\ r.version \in 1..MaxVersion
  /\ r.stage = "weights" => r.read \notin Few /\ r.version # 0
  /\ r.stage = "done" /\ r.version # 0 => r.model # Absent

QuietStep(p, r) ==
  /\ Record!Go(p, r) /\ r.stage \notin Writing \cup {"idle"}
  /\ run[p].stage \notin Writing
  /\ Shaped(r)
  /\ r.stage \in {"weights", "done"} /\ r.version # 0 =>
       Filed(r.version, r.read) \/ Carries(p, r.version, r.read)
  /\ UNCHANGED <<Record!files, holder, serving>> /\ mishaps' \in 0..MaxMishap

\* A fault is counted.
LEMMA Counted ==
  ASSUME Record!RecordAssumption, Record!TypeOK, Record!Trouble \/ UNCHANGED mishaps
  PROVE  mishaps' \in 0..MaxMishap
  BY DEF Record!RecordAssumption, Record!TypeOK, Record!Trouble

LEMMA ReindexQuiet ==
  ASSUME Record!RecordAssumption, Record!TypeOK, NEW p \in Process,
         Record!Reindex(p) \/ Record!Unembedded(p)
  PROVE  \E r \in RunFields : QuietStep(p, r)
<1>1. mishaps' \in 0..MaxMishap
  BY Counted DEF Record!Reindex, Record!Unembedded
<1>2. PICK q \in Questions, s \in {"sidecar", "done", "record"} :
        Record!Go(p, [stage |-> s, read |-> q, model |-> Absent, version |-> 0])
  BY DEF Record!Reindex, Record!Unembedded
<1>3. run[p].stage = "idle" /\ UNCHANGED <<Record!files, holder, serving>>
  BY DEF Record!Reindex, Record!Unembedded, Record!At
<1>4. PICK r : r = [stage |-> s, read |-> q, model |-> Absent, version |-> 0]
  OBVIOUS
<1>5. 0 \in 0..MaxVersion /\ s \in Record!Stage
  <2>1. MaxVersion \in Nat
    BY DEF Record!RecordAssumption
  <2>2. 0 \in 0..MaxVersion
    BY <2>1
  <2>3. s \in Record!Stage
    BY Zenon DEF Record!Stage
  <2> QED BY <2>2, <2>3
<1>6. r \in RunFields /\ r.stage = s /\ r.read = q /\ r.model = Absent /\ r.version = 0
  BY <1>4, <1>5 DEF RunFields
<1> QED BY <1>1, <1>2, <1>3, <1>4, <1>6 DEF QuietStep, Shaped, Writing

\* At a stage that is not idle, run[p] is a reindex.
LEMMA Under ==
  ASSUME Record!TypeOK, NEW p \in Process, run[p].stage # "idle" PROVE run[p] \in RunFields
  BY DEF Record!TypeOK, Record!Run, RunFields, Record!Idle

LEMMA SidecarLine ==
  ASSUME Record!RecordAssumption, Record!TypeOK, sidecar # Absent
  PROVE  sidecar.version \in 1..MaxVersion /\ sidecar.model \in Questions \ Few
         /\ sidecar.version \in 0..MaxVersion
<1>1. sidecar \in Record!Line /\ MaxVersion \in Nat
  BY DEF Record!TypeOK, Record!RecordAssumption
<1> QED BY <1>1 DEF Record!Line

LEMMA ReadSidecarQuiet ==
  ASSUME Record!RecordAssumption, RecordIInv, NEW p \in Process, Record!ReadSidecar(p)
  PROVE  \E r \in RunFields : QuietStep(p, r)
<1>1. mishaps' \in 0..MaxMishap
  BY Counted DEF Record!ReadSidecar, RecordIInv
<1>2. run[p].stage = "sidecar" /\ UNCHANGED <<Record!files, holder, serving>>
  BY DEF Record!ReadSidecar, Record!At
<1>3. Record!TypeOK /\ Shaped(run[p]) /\ run[p] \in RunFields
  BY <1>2, Under DEF RecordIInv, Reindexes, RunShape, Record!At, Shaped
<1>4. CASE sidecar # Absent /\ sidecar.model = run[p].read
  <2>1. PICK r : r = [run[p] EXCEPT !.stage = "weights", !.version = sidecar.version]
    OBVIOUS
  <2>2. Record!Go(p, r)
    BY <1>4, <2>1 DEF Record!ReadSidecar
  <2>3. sidecar.version \in 1..MaxVersion /\ sidecar.model \in Questions \ Few
        /\ sidecar.version \in 0..MaxVersion
    BY <1>3, <1>4, SidecarLine
  <2>4. "weights" \in Record!Stage
    BY DEF Record!Stage
  <2>5. r \in RunFields /\ r.stage = "weights" /\ r.read = run[p].read
        /\ r.model = run[p].model /\ r.version = sidecar.version
    BY <1>3, <2>1, <2>3, <2>4 DEF RunFields
  <2>6. Filed(r.version, r.read)
    BY <1>4, <2>5 DEF Filed
  <2>7. Shaped(r)
    BY <1>2, <1>3, <1>4, <2>3, <2>5 DEF Shaped
  <2> QED BY <1>1, <1>2, <2>2, <2>5, <2>6, <2>7 DEF QuietStep, Writing
<1>5. CASE ~(sidecar # Absent /\ sidecar.model = run[p].read)
  <2>1. PICK r : r = [run[p] EXCEPT !.stage = "train"]
    OBVIOUS
  <2>2. Record!Go(p, r)
    BY <1>5, <2>1 DEF Record!ReadSidecar, Record!Move
  <2>3. "train" \in Record!Stage
    BY DEF Record!Stage
  <2>4. r \in RunFields /\ r.stage = "train" /\ r.read = run[p].read
        /\ r.model = run[p].model /\ r.version = run[p].version
    BY <1>3, <2>1, <2>3 DEF RunFields
  <2>5. Shaped(r)
    BY <1>2, <1>3, <2>4 DEF Shaped
  <2> QED BY <1>1, <1>2, <2>2, <2>4, <2>5 DEF QuietStep, Writing
<1> QED BY <1>4, <1>5

LEMMA ReadWeightsQuiet ==
  ASSUME Record!RecordAssumption, RecordIInv, NEW p \in Process, Record!ReadWeights(p)
  PROVE  \E r \in RunFields : QuietStep(p, r)
<1>1. mishaps' \in 0..MaxMishap
  BY Counted DEF Record!ReadWeights, RecordIInv
<1>2. run[p].stage = "weights" /\ UNCHANGED <<Record!files, holder, serving>>
  BY DEF Record!ReadWeights, Record!At
<1>3. Record!TypeOK /\ Shaped(run[p]) /\ run[p] \in RunFields
  BY <1>2, Under DEF RecordIInv, Reindexes, RunShape, Record!At, Shaped
<1>4. CASE weights = run[p].read
  <2>1. PICK r : r = [run[p] EXCEPT !.stage = "done", !.model = weights]
    OBVIOUS
  <2>2. Record!Go(p, r)
    BY <1>4, <2>1 DEF Record!ReadWeights, Record!Loaded
  <2>3. weights \in (Questions \ Few) \cup {Absent} /\ weights # Absent /\ "done" \in Record!Stage
    BY <1>3, <1>4 DEF Record!TypeOK, RunFields, Record!RecordAssumption, Record!Stage
  <2>4. r \in RunFields /\ r.stage = "done" /\ r.read = run[p].read
        /\ r.model = weights /\ r.version = run[p].version
    BY <1>3, <2>1, <2>3 DEF RunFields
  <2>5. Carries(p, r.version, r.read)
    BY <1>2, <2>4 DEF Carries
  <2>6. Shaped(r)
    BY <1>2, <1>3, <1>4, <2>3, <2>4 DEF Shaped
  <2> QED BY <1>1, <1>2, <2>2, <2>4, <2>5, <2>6 DEF QuietStep, Writing
<1>5. CASE weights # run[p].read
  <2>1. PICK r : r = [run[p] EXCEPT !.stage = "train", !.version = 0]
    OBVIOUS
  <2>2. Record!Go(p, r)
    BY <1>5, <2>1 DEF Record!ReadWeights
  <2>3. "train" \in Record!Stage /\ 0 \in 0..MaxVersion
    BY DEF Record!Stage, Record!RecordAssumption
  <2>4. r \in RunFields /\ r.stage = "train" /\ r.read = run[p].read
        /\ r.model = run[p].model /\ r.version = 0
    BY <1>3, <2>1, <2>3 DEF RunFields
  <2>5. Shaped(r)
    BY <1>2, <1>3, <2>4 DEF Shaped
  <2> QED BY <1>1, <1>2, <2>2, <2>4, <2>5 DEF QuietStep, Writing
<1> QED BY <1>4, <1>5

LEMMA ReadFailsQuiet ==
  ASSUME Record!RecordAssumption, RecordIInv, NEW p \in Process, Record!ReadFails(p)
  PROVE  \E r \in RunFields : QuietStep(p, r)
<1>1. mishaps' \in 0..MaxMishap
  BY Counted DEF Record!ReadFails, RecordIInv
<1>2. run[p].stage \in {"sidecar", "weights"} /\ UNCHANGED <<Record!files, holder, serving>>
  BY DEF Record!ReadFails
<1>3. Record!TypeOK /\ Shaped(run[p]) /\ run[p] \in RunFields
  BY <1>2, Under DEF RecordIInv, Reindexes, RunShape, Record!At, Shaped
<1>4. PICK r : r = [run[p] EXCEPT !.stage = "train", !.version = 0]
  OBVIOUS
<1>5. Record!Go(p, r)
  BY <1>4 DEF Record!ReadFails
<1>6. "train" \in Record!Stage /\ 0 \in 0..MaxVersion
  BY DEF Record!Stage, Record!RecordAssumption
<1>7. r \in RunFields /\ r.stage = "train" /\ r.read = run[p].read
      /\ r.model = run[p].model /\ r.version = 0
  BY <1>3, <1>4, <1>6 DEF RunFields
<1>8. Shaped(r)
  BY <1>2, <1>3, <1>7 DEF Shaped
<1> QED BY <1>1, <1>2, <1>5, <1>7, <1>8 DEF QuietStep, Writing

LEMMA TrainQuiet ==
  ASSUME Record!RecordAssumption, RecordIInv, NEW p \in Process, Record!Train(p)
  PROVE  \E r \in RunFields : QuietStep(p, r)
<1>1. mishaps' \in 0..MaxMishap
  BY Counted DEF Record!Train, RecordIInv
<1>2. run[p].stage = "train" /\ UNCHANGED <<Record!files, holder, serving>>
  BY DEF Record!Train, Record!At
<1>3. Record!TypeOK /\ Shaped(run[p]) /\ run[p] \in RunFields
  BY <1>2, Under DEF RecordIInv, Reindexes, RunShape, Record!At, Shaped
<1>4. PICK m : /\ m \in {Absent, run[p].read} /\ m \in (Questions \ Few) \cup {Absent}
               /\ Record!Go(p, [run[p] EXCEPT !.stage = "record", !.model = m])
  <2>1. CASE Record!Go(p, [run[p] EXCEPT !.stage = "record",
                                         !.model = IF run[p].read \in Few THEN Absent ELSE run[p].read])
    <3>1. run[p].read \in Questions
      BY <1>3 DEF RunFields
    <3> QED BY <2>1, <3>1
  <2>2. CASE Record!Move(p, "record")
    <3>1. run[p].model \in {Absent, run[p].read} /\ run[p].model \in (Questions \ Few) \cup {Absent}
      BY <1>3 DEF Shaped, RunFields
    <3>2. [run[p] EXCEPT !.stage = "record"]
            = [run[p] EXCEPT !.stage = "record", !.model = run[p].model]
      BY <1>3 DEF RunFields
    <3> QED BY <2>2, <3>1, <3>2 DEF Record!Move
  <2> QED BY <2>1, <2>2 DEF Record!Train
<1>5. PICK r : r = [run[p] EXCEPT !.stage = "record", !.model = m]
  OBVIOUS
<1>6. "record" \in Record!Stage
  BY DEF Record!Stage
<1>7. r \in RunFields /\ r.stage = "record" /\ r.read = run[p].read
      /\ r.model = m /\ r.version = run[p].version
  BY <1>3, <1>4, <1>5, <1>6 DEF RunFields
<1>8. Shaped(r)
  BY <1>2, <1>3, <1>4, <1>7 DEF Shaped
<1> QED BY <1>1, <1>2, <1>4, <1>5, <1>7, <1>8 DEF QuietStep, Writing

\* Nothing is recorded: the model stays without a version.
LEMMA GiveUpQuiet ==
  ASSUME Record!RecordAssumption, RecordIInv, NEW p \in Process, Record!GiveUp(p)
  PROVE  \E r \in RunFields : QuietStep(p, r)
<1>1. mishaps' \in 0..MaxMishap
  BY Counted DEF Record!GiveUp, RecordIInv
<1>2. run[p].stage = "record" /\ UNCHANGED <<Record!files, holder, serving>>
  BY DEF Record!GiveUp, Record!At
<1>3. Record!TypeOK /\ Shaped(run[p]) /\ run[p] \in RunFields
  BY <1>2, Under DEF RecordIInv, Reindexes, RunShape, Record!At, Shaped
<1>4. PICK r : r = [run[p] EXCEPT !.stage = "done"]
  OBVIOUS
<1>5. Record!Go(p, r) /\ "done" \in Record!Stage
  BY <1>4 DEF Record!GiveUp, Record!Move, Record!Stage
<1>6. r \in RunFields /\ r.stage = "done" /\ r.read = run[p].read
      /\ r.model = run[p].model /\ r.version = run[p].version
  BY <1>3, <1>4, <1>5 DEF RunFields
<1>7. Shaped(r) /\ r.version = 0
  BY <1>2, <1>3, <1>6 DEF Shaped
<1> QED BY <1>1, <1>2, <1>5, <1>6, <1>7 DEF QuietStep, Writing

\* The model that is recorded already keeps its version.
LEMMA SameModelQuiet ==
  ASSUME Record!RecordAssumption, RecordIInv, NEW p \in Process, Record!Lock(p),
         run[p].model # Absent,
         sidecar # Absent, sidecar.model = run[p].model, weights = run[p].model
  PROVE  \E r \in RunFields : QuietStep(p, r)
<1>1. mishaps' \in 0..MaxMishap
  BY Counted DEF Record!Lock, RecordIInv
<1>2. run[p].stage = "record" /\ UNCHANGED <<Record!files, holder, serving>>
  BY DEF Record!Lock, Record!At
<1>3. Record!TypeOK /\ Shaped(run[p]) /\ run[p] \in RunFields
  BY <1>2, Under DEF RecordIInv, Reindexes, RunShape, Record!At, Shaped
<1>4. PICK r : r = [run[p] EXCEPT !.stage = "done", !.version = sidecar.version]
  OBVIOUS
<1>5. Record!Go(p, r) /\ "done" \in Record!Stage
  BY <1>4 DEF Record!Lock, Record!Stage
<1>6. sidecar.version \in 0..MaxVersion
  BY <1>3, SidecarLine
<1>7. r \in RunFields /\ r.stage = "done" /\ r.read = run[p].read
      /\ r.model = run[p].model /\ r.version = sidecar.version
  BY <1>3, <1>4, <1>5, <1>6 DEF RunFields
<1>8. Shaped(r) /\ r.read = r.model
  BY <1>2, <1>3, <1>7 DEF Shaped
<1>9. Filed(r.version, r.read)
  BY <1>7, <1>8 DEF Filed
<1> QED BY <1>1, <1>2, <1>5, <1>7, <1>8, <1>9 DEF QuietStep, Writing

\* A step that touches no file, no lock and no worker keeps the invariant.
LEMMA RecordQuietKeeps ==
  ASSUME Record!RecordAssumption, RecordIInv, NEW p \in Process, NEW r \in RunFields, QuietStep(p, r)
  PROVE  RecordIInv'
<1>1. run'[p] = r /\ \A q \in Process \ {p} : run'[q] = run[q]
  BY RecordWent DEF QuietStep, RecordIInv
<1>2. UNCHANGED <<weights, sidecar, lines, torn, dropped, holder, serving>>
  BY DEF QuietStep, Record!files
<1>3. Record!TypeOK'
  <2>1. run' \in [Process -> Record!Run]
    BY GoesOn DEF QuietStep, RecordIInv
  <2> QED BY <1>2, <2>1 DEF QuietStep, RecordIInv, Record!TypeOK
<1>4. r.stage \notin Writing \cup {"idle"} /\ run[p].stage \notin Writing
  BY DEF QuietStep
<1>5. Reindexes'
  <2>1. Record!ServedIsProven' /\ VersionHasModel'
    BY <1>2 DEF RecordIInv, Reindexes, Record!ServedIsProven, VersionHasModel
  <2>2. HolderWrites'
    BY <1>1, <1>2, <1>4 DEF RecordIInv, Reindexes, HolderWrites
  <2>3. RunShape'
    <3>1. Shaped(r)
      BY DEF QuietStep
    <3> QED BY <1>1, <3>1 DEF Shaped, RecordIInv, Reindexes, RunShape, Record!At
  <2> QED BY <2>1, <2>2, <2>3 DEF Reindexes
<1>6. PairWritten'
  BY <1>1, <1>2, <1>4 DEF RecordIInv, PairWritten, Record!At, Writing
<1>7. Record!PairHonest'
  BY <1>2 DEF RecordIInv, Record!PairHonest
<1>8. Record!NextVersion' = Record!NextVersion
  BY <1>2 DEF Record!NextVersion, Record!LastVersion, Record!Newest
<1>9. ASSUME NEW v \in 1..MaxVersion, NEW m \in Questions \ Few, Known(v, m)'
      PROVE  Known(v, m)
  <2>1. Filed(v, m)' => Filed(v, m)
    BY <1>2 DEF Filed
  <2>2. \A q \in Process : Serves(q, v, m)' => Serves(q, v, m)
    BY <1>2 DEF Serves
  <2>3. \A q \in Process \ {p} : Carries(q, v, m)' => Carries(q, v, m)
    BY <1>1 DEF Carries
  <2>4. Carries(p, v, m)' => Filed(v, m) \/ Carries(p, v, m)
    <3> SUFFICES ASSUME r.stage \in {"weights", "append", "done"}, r.version = v, r.read = m
                 PROVE  Filed(v, m) \/ Carries(p, v, m)
      BY <1>1 DEF Carries
    <3>1. r.stage \in {"weights", "done"}
      BY <1>4 DEF Writing
    <3>2. r.version # 0
      OBVIOUS
    <3>3. Filed(r.version, r.read) \/ Carries(p, r.version, r.read)
      BY <3>1, <3>2 DEF QuietStep
    <3> QED BY <3>3
  <2> QED BY <1>9, <2>1, <2>2, <2>3, <2>4 DEF Known
<1>10. VersionGiven'
  BY <1>1, <1>2, <1>4, <1>8 DEF RecordIInv, Names, VersionGiven, FreeFrom, Record!At, Writing
<1>11. VersionsPassed' /\ OneNameEach'
  BY <1>2, <1>8, <1>9 DEF RecordIInv, Names, VersionsPassed, OneNameEach
<1> QED BY <1>3, <1>5, <1>6, <1>7, <1>10, <1>11 DEF RecordIInv, Names

-------------------------------------------------------------------------------
(* The writer's steps.                                                       *)

\* What every step of a process under way keeps: the others, the workers, and the shape of
\* what each reindex has come to.
WriterStep(p, r) ==
  /\ run'[p] = r /\ \A q \in Process \ {p} : run'[q] = run[q]
  /\ run' \in [Process -> Record!Run] /\ r \in RunFields /\ Shaped(r)
  /\ run[p] \in RunFields /\ Shaped(run[p])
  /\ r.read = run[p].read /\ r.model = run[p].model
  /\ mishaps' \in 0..MaxMishap /\ UNCHANGED serving

LEMMA WriterKeeps ==
  ASSUME Record!RecordAssumption, RecordIInv, NEW p \in Process, NEW r, WriterStep(p, r),
         \/ holder = p /\ holder' = p /\ r.stage \in Writing
         \/ holder = p /\ holder' = Absent /\ r.stage \notin Writing
         \/ holder = Absent /\ holder' = p /\ r.stage \in Writing
  PROVE  Reindexes'
<1>1. Record!ServedIsProven' /\ VersionHasModel'
  BY DEF RecordIInv, Reindexes, Record!ServedIsProven, VersionHasModel, WriterStep
<1>2. HolderWrites'
  BY DEF RecordIInv, Reindexes, HolderWrites, WriterStep, Record!RecordAssumption
<1>3. RunShape'
  <2>1. Shaped(r)
    BY DEF WriterStep
  <2> QED BY <2>1 DEF Shaped, RecordIInv, Reindexes, RunShape, Record!At, WriterStep
<1> QED BY <1>1, <1>2, <1>3 DEF Reindexes

LEMMA NotZero ==
  ASSUME NEW v \in 1..MaxVersion PROVE v # 0
  OBVIOUS

LEMMA InVersions ==
  ASSUME NEW v \in 0..MaxVersion, v # 0 PROVE v \in 1..MaxVersion
  OBVIOUS

\* A reindex goes on to the stage s with the version v.
GoesTo(p, s, v) == Record!Go(p, [run[p] EXCEPT !.stage = s, !.version = v])

WriterMove(p, s, v) ==
  /\ GoesTo(p, s, v) /\ run[p].stage # "idle"
  /\ s \in {"put weights", "put sidecar", "append"} => run[p].model # Absent /\ v # 0
  /\ s \in {"drop weights", "drop sidecar"} => v = 0
  /\ s \notin {"sidecar", "train", "record", "weights", "idle"}
  /\ s = "done" /\ v # 0 => run[p].model # Absent
  /\ Record!Trouble \/ UNCHANGED mishaps
  /\ UNCHANGED serving

\* And is there.
GotTo(p, s, v) == \E r \in RunFields : WriterStep(p, r) /\ r.stage = s /\ r.version = v

LEMMA WriterMoves ==
  ASSUME Record!RecordAssumption, RecordIInv, NEW p \in Process, NEW s \in Record!Stage,
         NEW v \in 0..MaxVersion,
         WriterMove(p, s, v)
  PROVE  GotTo(p, s, v)
<1>1. run[p] \in RunFields /\ Shaped(run[p]) /\ Record!TypeOK
  BY Under DEF RecordIInv, Reindexes, RunShape, Record!At, Shaped, WriterMove
<1>2. PICK r : r = [run[p] EXCEPT !.stage = s, !.version = v]
  OBVIOUS
<1>9. Record!Go(p, r)
  BY <1>2 DEF GoesTo, WriterMove
<1>3. r \in RunFields /\ r.stage = s /\ r.read = run[p].read
      /\ r.model = run[p].model /\ r.version = v
  BY <1>1, <1>2 DEF RunFields
<1>4. v # 0 => v \in 1..MaxVersion
  BY InVersions
<1>5. Shaped(r)
  BY <1>1, <1>3, <1>4 DEF Shaped, WriterMove
<1>6. run' \in [Process -> Record!Run]
  BY <1>1, <1>9, <1>3, GoesOn
<1>7. run'[p] = r /\ \A q \in Process \ {p} : run'[q] = run[q]
  BY <1>1, <1>9, RecordWent
<1>8. mishaps' \in 0..MaxMishap
  BY <1>1, Counted DEF WriterMove
<1> QED BY <1>1, <1>3, <1>5, <1>6, <1>7, <1>8 DEF WriterStep, WriterMove, GotTo

\* Nobody else writes.
LEMMA OneWriter ==
  ASSUME Record!RecordAssumption, RecordIInv, NEW p \in Process, holder \in {p, Absent}
  PROVE  \A q \in Process \ {p} : run[q].stage \notin Writing
  BY DEF RecordIInv, Reindexes, HolderWrites, Record!RecordAssumption

\* What is known of the versions only grows less, and none of them is given back.
LEMMA NamesKept ==
  ASSUME RecordIInv, dropped \subseteq dropped',
         \A v \in 1..MaxVersion : v < Record!NextVersion => v < Record!NextVersion' \/ v \in dropped',
         \A v \in 1..MaxVersion, m \in Questions \ Few : Known(v, m)' => Known(v, m)
  PROVE  VersionsPassed' /\ OneNameEach'
  BY DEF RecordIInv, Names, VersionsPassed, OneNameEach

\* The files that are recorded do not change, and p comes to a version only as it already had.
LEMMA KnownKept ==
  ASSUME NEW p \in Process, NEW r, WriterStep(p, r), NEW v \in 1..MaxVersion, NEW m,
         UNCHANGED <<sidecar, lines>>,
         r.stage \notin {"weights", "append", "done"} \/ r.version = 0
           \/ (run[p].stage = "append" /\ r.version = run[p].version),
         Known(v, m)'
  PROVE  Known(v, m)
<1>1. Filed(v, m)' => Filed(v, m)
  BY DEF Filed
<1>2. \A q \in Process : Serves(q, v, m)' => Serves(q, v, m)
  BY DEF Serves, WriterStep
<1>3. \A q \in Process \ {p} : Carries(q, v, m)' => Carries(q, v, m)
  BY DEF Carries, WriterStep
<1>4. Carries(p, v, m)' => Carries(p, v, m)
  BY DEF Carries, WriterStep
<1> QED BY <1>1, <1>2, <1>3, <1>4 DEF Known

\* The lock is taken to remove the pair, or to write one under the onto version.
LEMMA LockKeeps ==
  ASSUME Record!RecordAssumption, RecordIInv, NEW p \in Process, Record!Lock(p), holder' = p
  PROVE  RecordIInv'
<1>1. /\ run[p].stage = "record" /\ holder = Absent /\ UNCHANGED mishaps
      /\ UNCHANGED <<weights, sidecar, lines, torn, dropped, serving>>
  BY DEF Record!Lock, Record!At, Record!files
<1>2. Record!TypeOK /\ run[p] \in RunFields /\ Shaped(run[p]) /\ p # Absent
  BY <1>1, Under DEF RecordIInv, Reindexes, RunShape, Record!At, Shaped, Record!RecordAssumption
<1>3. Record!NextVersion \in Nat \ {0} /\ MaxVersion \in Nat
  BY <1>2, NextVersionIs DEF Record!RecordAssumption
<1>4. PICK r \in RunFields : WriterStep(p, r)
                             /\ \/ r.stage = "drop weights"
                                \/ r.stage = "put weights" /\ r.version = Record!NextVersion
  <2>1. CASE run[p].model = Absent
    <3>1. GoesTo(p, "drop weights", 0)
      <4>1. [run[p] EXCEPT !.stage = "drop weights", !.version = 0]
              = [run[p] EXCEPT !.stage = "drop weights"]
        BY <1>1, <1>2 DEF Shaped, RunFields
      <4> QED BY <2>1, <4>1 DEF Record!Lock, Record!Move, GoesTo
    <3>2. 0 \in 0..MaxVersion
      BY <1>3
    <3>3. WriterMove(p, "drop weights", 0) /\ "drop weights" \in Record!Stage
      BY <1>1, <3>1 DEF WriterMove, Record!Stage
    <3>4. GotTo(p, "drop weights", 0)
      BY <3>2, <3>3, WriterMoves, Zenon
    <3> QED BY <3>4 DEF GotTo
  <2>2. CASE run[p].model # Absent
    <3>1. GoesTo(p, "put weights", Record!NextVersion)
      BY <1>1, <1>2, <2>2 DEF Record!Lock, GoesTo
    <3>0. Record!NextVersion =< MaxVersion
      BY <1>1, <1>2, <2>2 DEF Record!Lock
    <3>5. PICK v : v = Record!NextVersion
      OBVIOUS
    <3>2. v \in 0..MaxVersion /\ v # 0
      BY <1>3, <3>0, <3>5
    <3>3. WriterMove(p, "put weights", v) /\ "put weights" \in Record!Stage
      BY <1>1, <2>2, <3>1, <3>2, <3>5 DEF WriterMove, Record!Stage
    <3>4. GotTo(p, "put weights", v)
      BY <3>2, <3>3, WriterMoves, Zenon
    <3> QED BY <3>4, <3>5 DEF GotTo
  <2> QED BY <2>1, <2>2
<1>5. Record!TypeOK'
  BY <1>1, <1>2, <1>4 DEF Record!TypeOK, WriterStep
<1>6. Reindexes'
  BY <1>1, <1>4, WriterKeeps DEF Writing
<1>7. \A q \in Process \ {p} : run'[q] = run[q] /\ run[q].stage \notin Writing
  BY <1>1, <1>4, OneWriter DEF WriterStep
<1>8. run'[p] = r
  BY <1>4 DEF WriterStep
<1>9. PairWritten' /\ Record!PairHonest'
  BY <1>2, <1>4, <1>7, <1>8 DEF PairWritten, Record!PairHonest, Record!At, Writing
<1>10. Record!NextVersion' = Record!NextVersion
  BY <1>1 DEF Record!NextVersion, Record!LastVersion, Record!Newest
<1>11. VersionGiven'
  <2>1. FreeFrom(Record!NextVersion)'
    BY <1>3, <1>10 DEF FreeFrom, Record!RecordAssumption
  <2> QED BY <1>4, <1>7, <1>8, <1>10, <2>1 DEF VersionGiven, Record!At, Writing
<1>12. VersionsPassed' /\ OneNameEach'
  <2>1. ASSUME NEW v \in 1..MaxVersion, NEW m \in Questions \ Few, Known(v, m)' PROVE Known(v, m)
    BY <1>1, <1>4, <2>1, KnownKept
  <2> QED BY <1>1, <1>10, <2>1, NamesKept
<1> QED BY <1>5, <1>6, <1>9, <1>11, <1>12 DEF RecordIInv, Names

\* The lock is taken by a writer that could not read what is recorded: the versions that it may
\* give again are dropped.
LEMMA LockUnreadKeeps ==
  ASSUME Record!RecordAssumption, RecordIInv, NEW p \in Process, Record!LockUnread(p)
  PROVE  RecordIInv'
<1>1. /\ run[p].stage = "record" /\ holder = Absent /\ holder' = p /\ run[p].model # Absent
      /\ Record!Trouble /\ UNCHANGED <<weights, sidecar, lines, torn, serving>>
  BY DEF Record!LockUnread, Record!At
<1>2. Record!TypeOK /\ p # Absent
  BY DEF RecordIInv, Record!RecordAssumption
<1>3. PICK top \in {0, Record!Newest(sidecar), Record!LastVersion, Record!NextVersion - 1} :
        /\ top + 1 =< MaxVersion
        /\ GoesTo(p, "put weights", top + 1)
        /\ dropped' = dropped \cup (top + 1)..(Record!NextVersion - 1)
  BY DEF Record!LockUnread, GoesTo
<1>4. PICK last \in Nat, new \in Nat, free \in Nat :
        /\ last = Record!LastVersion /\ new = Record!Newest(sidecar) /\ free = Record!NextVersion
        /\ free \in {new + 1, last + 1} /\ new < free /\ last < free
  BY <1>2, LastVersionIs, NextVersionIs
<1>5. top \in Nat /\ top < free /\ MaxVersion \in Nat /\ top + 1 =< MaxVersion
  <2>1. top + 1 =< MaxVersion
    BY <1>3
  <2>2. top = 0 \/ top = new \/ top = last \/ top = free - 1
    <3>1. top \in {0, new, last, free - 1}
      BY <1>3, <1>4, Zenon
    <3> QED BY <3>1
  <2>3. MaxVersion \in Nat /\ free - 1 \in {new, last}
    BY <1>4 DEF Record!RecordAssumption
  <2> QED BY <1>4, <2>1, <2>2, <2>3
<1>6. PICK v : v = top + 1
  OBVIOUS
<1>7. v \in 0..MaxVersion /\ v # 0 /\ v \in 1..MaxVersion /\ v =< free
  BY <1>5, <1>6
<1>8. WriterMove(p, "put weights", v) /\ "put weights" \in Record!Stage
  BY <1>1, <1>3, <1>6, <1>7 DEF WriterMove, Record!Stage
<1>9. GotTo(p, "put weights", v)
  BY <1>7, <1>8, WriterMoves, Zenon
<1>10. PICK r \in RunFields : WriterStep(p, r) /\ r.stage = "put weights" /\ r.version = v
  BY <1>9 DEF GotTo
<1>11. free - 1 =< MaxVersion
  <2>1. sidecar # Absent => sidecar.version =< MaxVersion
    BY <1>2 DEF Record!TypeOK, Record!Line
  <2>2. lines # <<>> => lines[Len(lines)].version =< MaxVersion
    BY <1>2, NextVersionIs DEF Record!Line
  <2>3. new =< MaxVersion /\ last =< MaxVersion
    BY <1>4, <1>5, <2>1, <2>2 DEF Record!Newest, Record!LastVersion
  <2> QED BY <1>4, <1>5, <2>3
<1>12. Record!TypeOK'
  <2>1. v..(free - 1) \subseteq 1..MaxVersion
    BY <1>4, <1>5, <1>7, <1>11
  <2>2. dropped' \subseteq 1..MaxVersion
    BY <1>2, <1>3, <1>4, <1>6, <2>1 DEF Record!TypeOK
  <2> QED BY <1>1, <1>2, <1>10, <2>2 DEF Record!TypeOK, WriterStep
<1>13. Reindexes'
  BY <1>1, <1>10, WriterKeeps DEF Writing
<1>14. /\ run'[p] = r
       /\ \A q \in Process \ {p} : run'[q] = run[q] /\ run[q].stage \notin Writing
  BY <1>1, <1>10, OneWriter DEF WriterStep
<1>15. PairWritten' /\ Record!PairHonest'
  BY <1>1, <1>2, <1>10, <1>14 DEF PairWritten, Record!PairHonest, Record!At, Writing
<1>16. Record!NextVersion' = free
  BY <1>1, <1>4 DEF Record!NextVersion, Record!LastVersion, Record!Newest
<1>17. VersionGiven'
  <2>1. ASSUME NEW u \in 1..MaxVersion, v =< u, u < free PROVE u \in dropped'
    <3>1. u \in v..(free - 1)
      BY <1>4, <1>5, <1>7, <2>1
    <3>2. v..(free - 1) \subseteq dropped'
      BY <1>3, <1>4, <1>6
    <3> QED BY <3>1, <3>2
  <2>2. FreeFrom(v)'
    BY <1>7, <1>16, <2>1 DEF FreeFrom
  <2> QED BY <1>10, <1>14, <2>2 DEF VersionGiven, Record!At, Writing
<1>18. ASSUME NEW u \in 1..MaxVersion, NEW m \in Questions \ Few, Known(u, m)' PROVE Known(u, m)
  BY <1>1, <1>10, <1>18, KnownKept
<1>19. VersionsPassed' /\ OneNameEach'
  BY <1>3, <1>4, <1>16, <1>18, NamesKept
<1> QED BY <1>12, <1>13, <1>15, <1>17, <1>19 DEF RecordIInv, Names

\* A reindex that changes its stage alone keeps its version.
LEMMA MoveIs ==
  ASSUME Record!TypeOK, NEW p \in Process, run[p].stage # "idle", NEW s \in Record!Stage,
         Record!Move(p, s)
  PROVE  GoesTo(p, s, run[p].version)
<1>1. run[p] \in RunFields
  BY Under
<1>2. [run[p] EXCEPT !.stage = s] = [run[p] EXCEPT !.stage = s, !.version = run[p].version]
  BY <1>1 DEF RunFields
<1> QED BY <1>2 DEF Record!Move, GoesTo

\* What is so of the process that holds the lock.
Holds(p) ==
  /\ run[p].stage \in Writing /\ run[p].stage # "idle" /\ holder = p /\ p # Absent
  /\ run[p] \in RunFields /\ Shaped(run[p]) /\ Record!TypeOK /\ run[p].version \in 0..MaxVersion
  /\ \A q \in Process \ {p} : run[q].stage \notin Writing

LEMMA WriterHolds ==
  ASSUME Record!RecordAssumption, RecordIInv, NEW p \in Process, run[p].stage \in Writing
  PROVE  Holds(p)
<1>1. run[p].stage # "idle"
  BY DEF Writing
<1>2. holder = p /\ p # Absent
  BY DEF RecordIInv, Reindexes, HolderWrites, Record!RecordAssumption
<1>3. Record!TypeOK /\ run[p] \in RunFields /\ Shaped(run[p])
  BY <1>1, Under DEF RecordIInv, Reindexes, RunShape, Record!At, Shaped
<1>4. run[p].version \in 0..MaxVersion
  BY <1>3 DEF RunFields
<1> QED BY <1>1, <1>2, <1>3, <1>4, OneWriter DEF Holds

\* A writer of the pair has a model of what it read, and the version that it was given.
LEMMA WriterHasModel ==
  ASSUME Record!RecordAssumption, RecordIInv, NEW p \in Process, Holds(p),
         run[p].stage \in {"put weights", "put sidecar", "append"}
  PROVE  /\ run[p].model \in Questions \ Few /\ run[p].model # Absent
         /\ run[p].model = run[p].read
         /\ run[p].version \in 1..MaxVersion /\ run[p].version # 0
<1>1. run[p].model \in (Questions \ Few) \cup {Absent} /\ Shaped(run[p])
  BY DEF Holds, RunFields
<1>2. /\ run[p].model # Absent /\ run[p].model \in {Absent, run[p].read}
      /\ run[p].version \in 1..MaxVersion
  BY <1>1 DEF Shaped
<1>4. run[p].version # 0
  BY <1>2, NotZero, Zenon
<1> QED BY <1>1, <1>2, <1>4

\* Nothing that was recorded changes.
LEMMA NamesStay ==
  ASSUME Record!RecordAssumption, RecordIInv, NEW p \in Process, NEW r, WriterStep(p, r),
         UNCHANGED <<sidecar, lines, dropped>>,
         r.stage \notin {"weights", "append", "done"} \/ r.version = 0
           \/ (run[p].stage = "append" /\ r.version = run[p].version)
  PROVE  VersionsPassed' /\ OneNameEach' /\ Record!NextVersion' = Record!NextVersion
<1>1. Record!NextVersion' = Record!NextVersion
  BY DEF Record!NextVersion, Record!LastVersion, Record!Newest
<1>2. ASSUME NEW v \in 1..MaxVersion, NEW m \in Questions \ Few, Known(v, m)' PROVE Known(v, m)
  BY <1>2, KnownKept
<1> QED BY <1>1, <1>2, NamesKept

LEMMA PutWeightsKeeps ==
  ASSUME Record!RecordAssumption, RecordIInv, NEW p \in Process, Record!PutWeights(p)
  PROVE  RecordIInv'
<1>1. /\ run[p].stage = "put weights" /\ weights' = run[p].model /\ Record!Move(p, "put sidecar")
      /\ UNCHANGED <<sidecar, lines, holder, serving, mishaps, torn, dropped>>
  BY DEF Record!PutWeights, Record!At
<1>2. Holds(p)
  BY <1>1, WriterHolds DEF Writing
<1>3. PICK v : v = run[p].version
  OBVIOUS
<1>4. v \in 0..MaxVersion /\ run[p].model # Absent /\ v # 0 /\ FreeFrom(v)
      /\ run[p].model \in Questions \ Few
  <2>1. FreeFrom(v)
    BY <1>1, <1>3 DEF RecordIInv, Names, VersionGiven
  <2> QED BY <1>1, <1>2, <1>3, <2>1, WriterHasModel DEF Holds
<1>5. GoesTo(p, "put sidecar", v) /\ "put sidecar" \in Record!Stage
  BY <1>1, <1>2, <1>3, MoveIs DEF Record!Stage, Holds
<1>6. WriterMove(p, "put sidecar", v)
  BY <1>1, <1>4, <1>5 DEF WriterMove
<1>7. GotTo(p, "put sidecar", v)
  BY <1>4, <1>5, <1>6, WriterMoves, Zenon
<1>8. PICK r \in RunFields : WriterStep(p, r) /\ r.stage = "put sidecar" /\ r.version = v
  BY <1>7 DEF GotTo
<1>9. Record!TypeOK'
  BY <1>1, <1>2, <1>4, <1>8 DEF Record!TypeOK, WriterStep, Holds
<1>10. Reindexes'
  BY <1>1, <1>2, <1>8, WriterKeeps DEF Writing, Holds
<1>11. /\ run'[p] = r /\ r.model = run[p].model
       /\ \A q \in Process \ {p} : run'[q] = run[q] /\ run[q].stage \notin Writing
  BY <1>2, <1>8 DEF WriterStep, Holds
<1>12. PairWritten' /\ Record!PairHonest'
  BY <1>1, <1>2, <1>8, <1>11 DEF PairWritten, Record!PairHonest, Record!At, Writing, Holds
<1>13. VersionsPassed' /\ OneNameEach' /\ Record!NextVersion' = Record!NextVersion
  BY <1>1, <1>8, NamesStay
<1>14. VersionGiven'
  <2>1. FreeFrom(v)'
    BY <1>1, <1>4, <1>13 DEF FreeFrom
  <2> QED BY <1>8, <1>11, <2>1 DEF VersionGiven, Record!At, Writing
<1> QED BY <1>9, <1>10, <1>12, <1>13, <1>14 DEF RecordIInv, Names

LEMMA DropWeightsKeeps ==
  ASSUME Record!RecordAssumption, RecordIInv, NEW p \in Process, Record!DropWeights(p)
  PROVE  RecordIInv'
<1>1. /\ run[p].stage = "drop weights" /\ weights' = Absent /\ Record!Move(p, "drop sidecar")
      /\ UNCHANGED <<sidecar, lines, holder, serving, mishaps, torn, dropped>>
  BY DEF Record!DropWeights, Record!At
<1>2. Holds(p)
  BY <1>1, WriterHolds DEF Writing
<1>3. run[p].version = 0 /\ 0 \in 0..MaxVersion
  BY <1>1, <1>2 DEF Holds, Shaped
<1>5. GoesTo(p, "drop sidecar", 0) /\ "drop sidecar" \in Record!Stage
  BY <1>1, <1>2, <1>3, MoveIs DEF Record!Stage, Holds
<1>6. WriterMove(p, "drop sidecar", 0)
  BY <1>1, <1>5 DEF WriterMove
<1>7. GotTo(p, "drop sidecar", 0)
  BY <1>3, <1>5, <1>6, WriterMoves, Zenon
<1>8. PICK r \in RunFields : WriterStep(p, r) /\ r.stage = "drop sidecar" /\ r.version = 0
  BY <1>7 DEF GotTo
<1>9. Record!TypeOK'
  BY <1>1, <1>2, <1>8 DEF Record!TypeOK, WriterStep, Holds
<1>10. Reindexes'
  BY <1>1, <1>2, <1>8, WriterKeeps DEF Writing, Holds
<1>11. /\ run'[p] = r
       /\ \A q \in Process \ {p} : run'[q] = run[q] /\ run[q].stage \notin Writing
  BY <1>2, <1>8 DEF WriterStep, Holds
<1>12. PairWritten' /\ Record!PairHonest'
  BY <1>1, <1>2, <1>8, <1>11 DEF PairWritten, Record!PairHonest, Record!At, Writing, Holds
<1>13. VersionsPassed' /\ OneNameEach' /\ Record!NextVersion' = Record!NextVersion
  BY <1>1, <1>8, NamesStay
<1>14. VersionGiven'
  BY <1>8, <1>11, <1>13 DEF VersionGiven, Record!At, Writing
<1> QED BY <1>9, <1>10, <1>12, <1>13, <1>14 DEF RecordIInv, Names

LEMMA PutSidecarKeeps ==
  ASSUME Record!RecordAssumption, RecordIInv, NEW p \in Process, Record!PutSidecar(p)
  PROVE  RecordIInv'
<1>1. /\ run[p].stage = "put sidecar" /\ torn' = FALSE /\ Record!Move(p, "append")
      /\ UNCHANGED <<weights, lines, holder, serving, mishaps, dropped>>
  BY DEF Record!PutSidecar, Record!At
<1>2. Holds(p)
  BY <1>1, WriterHolds DEF Writing
<1>3. PICK v, q : v = run[p].version /\ q = run[p].model
  OBVIOUS
<1>4. v \in 0..MaxVersion /\ v \in 1..MaxVersion /\ q # Absent /\ v # 0 /\ FreeFrom(v)
      /\ q \in Questions \ Few /\ q = run[p].read
  <2>1. FreeFrom(v)
    BY <1>1, <1>3 DEF RecordIInv, Names, VersionGiven
  <2> QED BY <1>1, <1>2, <1>3, <2>1, WriterHasModel DEF Holds
<1>5. GoesTo(p, "append", v) /\ "append" \in Record!Stage
  BY <1>1, <1>2, <1>3, MoveIs DEF Record!Stage, Holds
<1>6. WriterMove(p, "append", v)
  BY <1>1, <1>3, <1>4, <1>5 DEF WriterMove
<1>7. GotTo(p, "append", v)
  BY <1>4, <1>5, <1>6, WriterMoves, Zenon
<1>8. PICK r \in RunFields : WriterStep(p, r) /\ r.stage = "append" /\ r.version = v
  BY <1>7 DEF GotTo
<1>15. PICK line : line = [version |-> v, model |-> q]
  OBVIOUS
<1>16. sidecar' = line
  BY <1>3, <1>15 DEF Record!PutSidecar
<1>17. line \in Record!Line /\ line # Absent /\ line.version = v /\ line.model = q
  <2>1. line \in Record!Line /\ line.version = v /\ line.model = q
    BY <1>4, <1>15 DEF Record!Line
  <2> QED BY <2>1 DEF Record!RecordAssumption
<1>9. Record!TypeOK'
  BY <1>1, <1>2, <1>8, <1>16, <1>17 DEF Record!TypeOK, WriterStep, Holds
<1>10. Reindexes'
  BY <1>1, <1>2, <1>8, WriterKeeps DEF Writing, Holds
<1>11. /\ run'[p] = r /\ r.model = q /\ r.read = q
       /\ \A o \in Process \ {p} : run'[o] = run[o] /\ run[o].stage \notin Writing
  BY <1>2, <1>3, <1>4, <1>8 DEF WriterStep, Holds
<1>12. PairWritten' /\ Record!PairHonest'
  <2>1. weights' = q
    BY <1>1, <1>3 DEF RecordIInv, PairWritten
  <2> QED BY <1>1, <1>2, <1>8, <1>11, <1>15, <1>16, <2>1
          DEF PairWritten, Record!PairHonest, Record!At, Writing, Holds
<1>13. /\ Record!LastVersion \in Nat /\ Record!LastVersion < Record!NextVersion
       /\ Record!NextVersion \in Nat
       /\ Record!LastVersion' = Record!LastVersion /\ v \in Nat /\ v =< Record!NextVersion
  <2>1. Record!LastVersion \in Nat /\ Record!LastVersion < Record!NextVersion /\ Record!NextVersion \in Nat
    BY <1>2, LastVersionIs, NextVersionIs DEF Holds
  <2>2. Record!LastVersion' = Record!LastVersion
    BY <1>1 DEF Record!LastVersion
  <2>3. v \in Nat
    BY <1>4 DEF Record!RecordAssumption
  <2> QED BY <1>4, <2>1, <2>2, <2>3 DEF FreeFrom
<1>14. /\ v < Record!NextVersion' /\ Record!NextVersion' \in Nat
       /\ Record!NextVersion' =< Record!NextVersion \/ Record!NextVersion' = v + 1
  <2>1. Record!NextVersion' = Record!Max({v, Record!LastVersion}) + 1
    BY <1>13, <1>16, <1>17 DEF Record!NextVersion, Record!Newest
  <2>2. PICK top : /\ top = Record!Max({v, Record!LastVersion})
                   /\ top \in {v, Record!LastVersion} /\ v =< top
    BY <1>13, MaxOfTwo
  <2> QED BY <1>13, <2>1, <2>2
<1>18. VersionGiven'
  <2>1. FreeFrom(v + 1)'
    <3>1. ASSUME NEW u \in 1..MaxVersion, v + 1 =< u, u < Record!NextVersion' PROVE u \in dropped
      <4>1. u \in Nat
        BY DEF Record!RecordAssumption
      <4>2. v =< u /\ u < Record!NextVersion
        BY <1>13, <1>14, <3>1, <4>1
      <4> QED BY <1>4, <4>2 DEF FreeFrom
    <3>2. v + 1 =< Record!NextVersion'
      BY <1>13, <1>14
    <3> QED BY <1>1, <3>1, <3>2 DEF FreeFrom
  <2> QED BY <1>8, <1>11, <2>1 DEF VersionGiven, Record!At, Writing
<1>19. ASSUME NEW u \in 1..MaxVersion, NEW m \in Questions \ Few, Known(u, m)'
       PROVE  Known(u, m) \/ (u = v /\ m = q)
  <2>1. Filed(u, m)' => Filed(u, m) \/ (u = v /\ m = q)
    BY <1>1, <1>16, <1>17 DEF Filed
  <2>2. \A o \in Process : Serves(o, u, m)' => Serves(o, u, m)
    BY <1>1 DEF Serves
  <2>3. \A o \in Process \ {p} : Carries(o, u, m)' => Carries(o, u, m)
    BY <1>11 DEF Carries
  <2>4. Carries(p, u, m)' => u = v /\ m = q
    BY <1>8, <1>11 DEF Carries
  <2> QED BY <1>19, <2>1, <2>2, <2>3, <2>4 DEF Known
<1>20. VersionsPassed'
  <2> SUFFICES ASSUME NEW u \in 1..MaxVersion, NEW m \in Questions \ Few, Known(u, m)'
               PROVE  u < Record!NextVersion' \/ u \in dropped
    BY <1>1 DEF VersionsPassed
  <2>1. Known(u, m) => u < Record!NextVersion \/ u \in dropped
    BY DEF RecordIInv, Names, VersionsPassed
  <2>2. u < Record!NextVersion => u < v \/ u \in dropped
    BY <1>4, <1>13 DEF FreeFrom, Record!RecordAssumption
  <2>3. u \in Nat
    BY DEF Record!RecordAssumption
  <2> QED BY <1>13, <1>14, <1>19, <2>1, <2>2, <2>3
<1>21. OneNameEach'
  <2> SUFFICES ASSUME NEW u \in 1..MaxVersion, NEW m \in Questions \ Few, NEW n \in Questions \ Few,
                      Known(u, m)', Known(u, n)'
               PROVE  m = n \/ u \in dropped
    BY <1>1 DEF OneNameEach
  <2>1. (Known(u, m) \/ (u = v /\ m = q)) /\ (Known(u, n) \/ (u = v /\ n = q))
    BY <1>19
  <2>2. \A k \in Questions \ Few : Known(u, k) => u < v \/ u \in dropped
    <3>1. \A k \in Questions \ Few : Known(u, k) => u < Record!NextVersion \/ u \in dropped
      BY DEF RecordIInv, Names, VersionsPassed
    <3>2. u < Record!NextVersion => u < v \/ u \in dropped
      BY <1>4, <1>13 DEF FreeFrom, Record!RecordAssumption
    <3> QED BY <3>1, <3>2
  <2>3. Known(u, m) /\ Known(u, n) => m = n \/ u \in dropped
    BY DEF RecordIInv, Names, OneNameEach
  <2>4. ~(v < v)
    BY <1>13
  <2> QED BY <2>1, <2>2, <2>3, <2>4
<1> QED BY <1>9, <1>10, <1>12, <1>18, <1>20, <1>21 DEF RecordIInv, Names

LEMMA AppendHistoryKeeps ==
  ASSUME Record!RecordAssumption, RecordIInv, NEW p \in Process, Record!AppendHistory(p)
  PROVE  RecordIInv'
<1>1. /\ run[p].stage = "append" /\ holder' = Absent /\ Record!Move(p, "done")
      /\ UNCHANGED <<weights, sidecar, serving, mishaps, torn, dropped>>
  BY DEF Record!AppendHistory, Record!At
<1>2. Holds(p)
  BY <1>1, WriterHolds DEF Writing
<1>3. PICK v, q : v = run[p].version /\ q = run[p].model
  OBVIOUS
<1>4. v \in 0..MaxVersion /\ v \in 1..MaxVersion /\ q # Absent /\ v # 0
      /\ q \in Questions \ Few /\ q = run[p].read
  BY <1>1, <1>2, <1>3, WriterHasModel DEF Holds
<1>5. GoesTo(p, "done", v) /\ "done" \in Record!Stage
  BY <1>1, <1>2, <1>3, MoveIs DEF Record!Stage, Holds
<1>6. WriterMove(p, "done", v)
  BY <1>1, <1>3, <1>4, <1>5 DEF WriterMove
<1>7. GotTo(p, "done", v)
  BY <1>4, <1>5, <1>6, WriterMoves, Zenon
<1>8. PICK r \in RunFields : WriterStep(p, r) /\ r.stage = "done" /\ r.version = v
  BY <1>7 DEF GotTo
<1>9. PICK line : line = [version |-> v, model |-> q]
  OBVIOUS
<1>10. line \in Record!Line /\ line.version = v /\ line.model = q
  BY <1>4, <1>9 DEF Record!Line
<1>11. sidecar = line /\ weights = q /\ sidecar # Absent /\ FreeFrom(v + 1)
  <2>1. sidecar = line /\ weights = q
    BY <1>1, <1>3, <1>9 DEF RecordIInv, PairWritten, Record!At
  <2>2. sidecar # Absent
    BY <1>10, <2>1 DEF Record!RecordAssumption
  <2>3. FreeFrom(v + 1)
    BY <1>1, <1>3 DEF RecordIInv, Names, VersionGiven, Record!At
  <2> QED BY <2>1, <2>2, <2>3
<1>12. PICK whole, first : /\ whole = Append(lines, line)
                           /\ first = Record!Max({1, Len(whole) - MaxLines + 1})
                           /\ lines' = SubSeq(whole, first, Len(whole))
  BY <1>3, <1>9 DEF Record!AppendHistory
<1>13. PICK new : new = lines'
  OBVIOUS
<1>14. /\ new \in Seq(Record!Line) /\ Len(new) \in 1..MaxLines /\ new[Len(new)] = line
       /\ \A i \in 1..Len(new) : new[i] = line \/ \E j \in 1..Len(lines) : new[i] = lines[j]
  <2>1. lines \in Seq(Record!Line) /\ Len(lines) =< MaxLines
    BY <1>2 DEF Holds, Record!TypeOK
  <2>2. MaxLines \in Nat \ {0}
    BY DEF Record!RecordAssumption
  <2>3. new = SubSeq(whole, first, Len(whole)) /\ whole = Append(lines, line)
        /\ first = Record!Max({1, Len(whole) - MaxLines + 1}) /\ line \in Record!Line
    BY <1>10, <1>12, <1>13
  <2>4. Laid(new, lines, line, MaxLines, Record!Line)
    BY <2>1, <2>2, <2>3, LineLaid, Zenon
  <2> QED BY <2>4 DEF Laid
<1>15. Record!TypeOK'
  <2>1. Len(new) =< MaxLines
    BY <1>14 DEF Record!RecordAssumption
  <2>2. lines' \in Seq(Record!Line) /\ Len(lines') =< MaxLines
    BY <1>13, <1>14, <2>1
  <2> QED BY <1>1, <1>2, <1>8, <2>2 DEF Record!TypeOK, WriterStep, Holds
<1>16. Reindexes'
  BY <1>1, <1>2, <1>8, WriterKeeps DEF Writing, Holds
<1>17. /\ run'[p] = r /\ r.model = q /\ r.read = q
       /\ \A o \in Process \ {p} : run'[o] = run[o] /\ run[o].stage \notin Writing
  BY <1>2, <1>3, <1>4, <1>8 DEF WriterStep, Holds
<1>18. PairWritten' /\ Record!PairHonest'
  BY <1>1, <1>2, <1>8, <1>10, <1>11, <1>17 DEF PairWritten, Record!PairHonest, Record!At,
     Writing, Holds
<1>19. Record!LastVersion' = v /\ v \in Nat
  <2>1. lines' # <<>> /\ lines'[Len(lines')] = line
    BY <1>13, <1>14
  <2>2. v \in Nat
    BY <1>4 DEF Record!RecordAssumption
  <2> QED BY <1>10, <2>1, <2>2 DEF Record!LastVersion
<1>20. Record!NextVersion' = v + 1
  <2>1. Record!NextVersion' = Record!Max({v, v}) + 1
    BY <1>1, <1>10, <1>11, <1>19 DEF Record!NextVersion, Record!Newest
  <2>2. Record!Max({v, v}) = v
    BY <1>19, MaxOfTwo
  <2> QED BY <2>1, <2>2
<1>24. ASSUME NEW u \in 1..MaxVersion, u < Record!NextVersion
       PROVE  u < Record!NextVersion' \/ u \in dropped'
  <2>1. u \in Nat
    BY DEF Record!RecordAssumption
  <2>2. v + 1 =< u => u \in dropped
    BY <1>11, <1>24 DEF FreeFrom
  <2> QED BY <1>1, <1>19, <1>20, <2>1, <2>2
<1>21. VersionGiven'
  BY <1>8, <1>17 DEF VersionGiven, Record!At, Writing
<1>22. ASSUME NEW u \in 1..MaxVersion, NEW m \in Questions \ Few, Known(u, m)'
       PROVE  Known(u, m)
  <2>1. Filed(u, m)' => Filed(u, m)
    <3>1. ASSUME NEW i \in DOMAIN new, new[i].version = u, new[i].model = m
          PROVE  Filed(u, m)
      <4>1. i \in 1..Len(new)
        BY <1>14
      <4>2. CASE new[i] = line
        BY <1>10, <1>11, <3>1, <4>2 DEF Filed
      <4>3. CASE \E j \in 1..Len(lines) : new[i] = lines[j]
        <5>1. PICK j \in 1..Len(lines) : new[i] = lines[j]
          BY <4>3
        <5>2. j \in DOMAIN lines
          BY <1>2, <5>1 DEF Holds, Record!TypeOK
        <5> QED BY <3>1, <5>1, <5>2 DEF Filed
      <4> QED BY <1>14, <4>1, <4>2, <4>3
    <3> QED BY <1>1, <1>13, <3>1 DEF Filed
  <2>2. \A o \in Process : Serves(o, u, m)' => Serves(o, u, m)
    BY <1>1 DEF Serves
  <2>3. \A o \in Process \ {p} : Carries(o, u, m)' => Carries(o, u, m)
    BY <1>17 DEF Carries
  <2>4. Carries(p, u, m)' => Carries(p, u, m)
    BY <1>1, <1>3, <1>4, <1>8, <1>17 DEF Carries
  <2> QED BY <1>22, <2>1, <2>2, <2>3, <2>4 DEF Known
<1>23. VersionsPassed' /\ OneNameEach'
  BY <1>1, <1>22, <1>24, NamesKept
<1> QED BY <1>15, <1>16, <1>18, <1>21, <1>23 DEF RecordIInv, Names

\* The line alone is missing from the history: the version has been given all the same.
LEMMA AppendFailsKeeps ==
  ASSUME Record!RecordAssumption, RecordIInv, NEW p \in Process, Record!WriteFails(p),
         Record!At(p, "append")
  PROVE  RecordIInv'
<1>1. /\ run[p].stage = "append" /\ holder' = Absent /\ Record!Move(p, "done") /\ Record!Trouble
      /\ UNCHANGED <<weights, sidecar, lines, serving, torn, dropped>>
  BY DEF Record!WriteFails, Record!At, Record!files
<1>2. Holds(p)
  BY <1>1, WriterHolds DEF Writing
<1>3. PICK v, q : v = run[p].version /\ q = run[p].model
  OBVIOUS
<1>4. v \in 0..MaxVersion /\ q # Absent /\ v # 0 /\ q \in Questions \ Few
  BY <1>1, <1>2, <1>3, WriterHasModel DEF Holds
<1>5. GoesTo(p, "done", v) /\ "done" \in Record!Stage
  BY <1>1, <1>2, <1>3, MoveIs DEF Record!Stage, Holds
<1>6. WriterMove(p, "done", v)
  BY <1>1, <1>3, <1>4, <1>5 DEF WriterMove
<1>7. GotTo(p, "done", v)
  BY <1>4, <1>5, <1>6, WriterMoves, Zenon
<1>8. PICK r \in RunFields : WriterStep(p, r) /\ r.stage = "done" /\ r.version = v
  BY <1>7 DEF GotTo
<1>9. Record!TypeOK'
  BY <1>1, <1>2, <1>8 DEF Record!TypeOK, WriterStep, Holds
<1>10. Reindexes'
  BY <1>1, <1>2, <1>8, WriterKeeps DEF Writing, Holds
<1>11. /\ run'[p] = r
       /\ \A o \in Process \ {p} : run'[o] = run[o] /\ run[o].stage \notin Writing
  BY <1>2, <1>8 DEF WriterStep, Holds
<1>12. PairWritten' /\ Record!PairHonest'
  <2>1. weights = q /\ sidecar = [version |-> v, model |-> q]
    BY <1>1, <1>3 DEF RecordIInv, PairWritten, Record!At
  <2> QED BY <1>1, <1>8, <1>11, <2>1 DEF PairWritten, Record!PairHonest, Record!At, Writing
<1>13. VersionsPassed' /\ OneNameEach' /\ Record!NextVersion' = Record!NextVersion
  BY <1>1, <1>3, <1>8, NamesStay
<1>14. VersionGiven'
  BY <1>8, <1>11 DEF VersionGiven, Record!At, Writing
<1> QED BY <1>9, <1>10, <1>12, <1>13, <1>14 DEF RecordIInv, Names

\* A pair that was not written whole is cleared away, by the writer that still has the lock.
LEMMA PutFailsKeeps ==
  ASSUME Record!RecordAssumption, RecordIInv, NEW p \in Process, Record!WriteFails(p),
         ~Record!At(p, "append")
  PROVE  RecordIInv'
<1>1. /\ run[p].stage \in {"put weights", "put sidecar"} /\ Record!Trouble
      /\ UNCHANGED <<weights, sidecar, lines, holder, serving, torn, dropped>>
  BY DEF Record!WriteFails, Record!At, Record!files
<1>2. Holds(p)
  BY <1>1, WriterHolds DEF Writing
<1>3. 0 \in 0..MaxVersion
  <2>1. MaxVersion \in Nat
    BY DEF Record!RecordAssumption
  <2> QED BY <2>1
<1>5. GoesTo(p, "drop weights", 0) /\ "drop weights" \in Record!Stage
  BY DEF Record!Stage, GoesTo, Record!WriteFails
<1>6. WriterMove(p, "drop weights", 0)
  BY <1>1, <1>5 DEF WriterMove
<1>7. GotTo(p, "drop weights", 0)
  BY <1>3, <1>5, <1>6, WriterMoves, Zenon
<1>8. PICK r \in RunFields : WriterStep(p, r) /\ r.stage = "drop weights" /\ r.version = 0
  BY <1>7 DEF GotTo
<1>9. Record!TypeOK'
  BY <1>1, <1>2, <1>8 DEF Record!TypeOK, WriterStep, Holds
<1>10. Reindexes'
  BY <1>1, <1>2, <1>8, WriterKeeps DEF Writing, Holds
<1>11. /\ run'[p] = r
       /\ \A o \in Process \ {p} : run'[o] = run[o] /\ run[o].stage \notin Writing
  BY <1>2, <1>8 DEF WriterStep, Holds
<1>12. PairWritten' /\ Record!PairHonest'
  BY <1>1, <1>2, <1>8, <1>11 DEF PairWritten, Record!PairHonest, Record!At, Writing, Holds
<1>13. VersionsPassed' /\ OneNameEach' /\ Record!NextVersion' = Record!NextVersion
  BY <1>1, <1>8, NamesStay
<1>14. VersionGiven'
  BY <1>8, <1>11, <1>13 DEF VersionGiven, Record!At, Writing
<1> QED BY <1>9, <1>10, <1>12, <1>13, <1>14 DEF RecordIInv, Names

\* The versions that the sidecar alone remembered are counted as dropped.
LEMMA DropSidecarKeeps ==
  ASSUME Record!RecordAssumption, RecordIInv, NEW p \in Process, Record!DropSidecar(p)
  PROVE  RecordIInv'
<1>1. /\ run[p].stage = "drop sidecar" /\ sidecar' = Absent /\ torn' = FALSE /\ holder' = Absent
      /\ Record!Move(p, "done") /\ UNCHANGED <<weights, lines, serving, mishaps>>
      /\ dropped' = dropped \cup (Record!LastVersion + 1)..Record!Newest(sidecar)
  BY DEF Record!DropSidecar, Record!At
<1>2. Holds(p)
  BY <1>1, WriterHolds DEF Writing
<1>3. run[p].version = 0 /\ 0 \in 0..MaxVersion
  BY <1>1, <1>2 DEF Holds, Shaped
<1>5. GoesTo(p, "done", 0) /\ "done" \in Record!Stage
  BY <1>1, <1>2, <1>3, MoveIs DEF Record!Stage, Holds
<1>6. WriterMove(p, "done", 0)
  BY <1>1, <1>5 DEF WriterMove
<1>7. GotTo(p, "done", 0)
  BY <1>3, <1>5, <1>6, WriterMoves, Zenon
<1>8. PICK r \in RunFields : WriterStep(p, r) /\ r.stage = "done" /\ r.version = 0
  BY <1>7 DEF GotTo
<1>4. PICK last \in Nat, new \in Nat :
        /\ last = Record!LastVersion /\ new = Record!Newest(sidecar)
        /\ Record!NextVersion \in {new + 1, last + 1} /\ new < Record!NextVersion /\ last < Record!NextVersion
  BY <1>2, LastVersionIs DEF Holds
<1>9. new =< MaxVersion
  <2>1. sidecar # Absent => sidecar.version =< MaxVersion
    BY <1>2 DEF Record!TypeOK, Record!Line, Holds
  <2>2. MaxVersion \in Nat
    BY DEF Record!RecordAssumption
  <2> QED BY <1>4, <2>1, <2>2 DEF Record!Newest
<1>15. Record!TypeOK'
  <2>1. (last + 1)..new \subseteq 1..MaxVersion
    <3>1. MaxVersion \in Nat
      BY DEF Record!RecordAssumption
    <3> QED BY <1>4, <1>9, <3>1
  <2>2. dropped' \subseteq 1..MaxVersion
    BY <1>1, <1>2, <1>4, <2>1 DEF Record!TypeOK, Holds
  <2> QED BY <1>1, <1>2, <1>8, <2>2 DEF Record!TypeOK, WriterStep, Holds
<1>10. Reindexes'
  BY <1>1, <1>2, <1>8, WriterKeeps DEF Writing, Holds
<1>11. /\ run'[p] = r
       /\ \A o \in Process \ {p} : run'[o] = run[o] /\ run[o].stage \notin Writing
  BY <1>2, <1>8 DEF WriterStep, Holds
<1>12. PairWritten' /\ Record!PairHonest'
  BY <1>1, <1>8, <1>11 DEF PairWritten, Record!PairHonest, Record!At, Writing
<1>13. Record!NextVersion' = last + 1
  <2>1. Record!LastVersion' = last /\ Record!Newest(sidecar)' = 0
    BY <1>1, <1>4 DEF Record!LastVersion, Record!Newest
  <2>2. Record!NextVersion' = Record!Max({0, last}) + 1
    BY <2>1 DEF Record!NextVersion
  <2>3. Record!Max({0, last}) = last
    BY <1>4, MaxOfTwo
  <2> QED BY <2>2, <2>3
<1>14. VersionGiven'
  BY <1>8, <1>11 DEF VersionGiven, Record!At, Writing
<1>16. ASSUME NEW v \in 1..MaxVersion, v < Record!NextVersion PROVE v < Record!NextVersion' \/ v \in dropped'
  <2>1. v \in Nat
    BY DEF Record!RecordAssumption
  <2>2. v =< last \/ v =< new
    BY <1>4, <1>16, <2>1
  <2>3. v =< last => v < last + 1
    BY <2>1, <1>4
  <2>4. v > last /\ v =< new => v \in (last + 1)..new
    BY <2>1, <1>4
  <2>5. (last + 1)..new \subseteq dropped'
    BY <1>1, <1>4
  <2> QED BY <1>13, <2>1, <2>2, <2>3, <2>4, <2>5, <1>4
<1>17. ASSUME NEW v \in 1..MaxVersion, NEW m \in Questions \ Few, Known(v, m)' PROVE Known(v, m)
  <2>1. Filed(v, m)' => Filed(v, m)
    BY <1>1 DEF Filed
  <2>2. \A q \in Process : Serves(q, v, m)' => Serves(q, v, m)
    BY <1>1 DEF Serves
  <2>3. \A q \in Process \ {p} : Carries(q, v, m)' => Carries(q, v, m)
    BY <1>11 DEF Carries
  <2>4. ~Carries(p, v, m)'
    <3>1. v # 0
      BY NotZero
    <3> QED BY <1>8, <1>11, <3>1 DEF Carries
  <2> QED BY <1>17, <2>1, <2>2, <2>3, <2>4 DEF Known
<1>18. VersionsPassed' /\ OneNameEach'
  BY <1>1, <1>16, <1>17, NamesKept
<1> QED BY <1>10, <1>12, <1>14, <1>15, <1>18 DEF RecordIInv, Names

\* What could not be cleared away is left torn, if it was.
LEMMA DropFailsKeeps ==
  ASSUME Record!RecordAssumption, RecordIInv, NEW p \in Process, Record!DropFails(p)
  PROVE  RecordIInv'
<1>1. /\ run[p].stage \in {"drop weights", "drop sidecar"} /\ Record!Trouble /\ holder' = Absent
      /\ torn' = (sidecar # Absent /\ weights # sidecar.model)
      /\ Record!Move(p, "done") /\ UNCHANGED <<weights, sidecar, lines, serving, dropped>>
  BY DEF Record!DropFails, Record!At
<1>2. Holds(p)
  BY <1>1, WriterHolds DEF Writing
<1>3. run[p].version = 0 /\ 0 \in 0..MaxVersion
  BY <1>1, <1>2 DEF Holds, Shaped
<1>5. GoesTo(p, "done", 0) /\ "done" \in Record!Stage
  BY <1>1, <1>2, <1>3, MoveIs DEF Record!Stage, Holds
<1>6. WriterMove(p, "done", 0)
  BY <1>1, <1>5 DEF WriterMove
<1>7. GotTo(p, "done", 0)
  BY <1>3, <1>5, <1>6, WriterMoves, Zenon
<1>8. PICK r \in RunFields : WriterStep(p, r) /\ r.stage = "done" /\ r.version = 0
  BY <1>7 DEF GotTo
<1>9. Record!TypeOK'
  BY <1>1, <1>2, <1>8 DEF Record!TypeOK, WriterStep, Holds
<1>10. Reindexes'
  BY <1>1, <1>2, <1>8, WriterKeeps DEF Writing, Holds
<1>11. /\ run'[p] = r
       /\ \A o \in Process \ {p} : run'[o] = run[o] /\ run[o].stage \notin Writing
  BY <1>2, <1>8 DEF WriterStep, Holds
<1>12. PairWritten' /\ Record!PairHonest'
  BY <1>1, <1>8, <1>11 DEF PairWritten, Record!PairHonest, Record!At, Writing
<1>13. VersionsPassed' /\ OneNameEach' /\ Record!NextVersion' = Record!NextVersion
  BY <1>1, <1>8, NamesStay
<1>14. VersionGiven'
  BY <1>8, <1>11 DEF VersionGiven, Record!At, Writing
<1> QED BY <1>9, <1>10, <1>12, <1>13, <1>14 DEF RecordIInv, Names

-------------------------------------------------------------------------------
(* The steps that change what a worker serves.                               *)

\* A step of p to idle.
LEMMA Ends ==
  ASSUME Record!TypeOK, NEW p \in Process, Record!Go(p, Record!Idle)
  PROVE  /\ run'[p].stage = "idle" /\ \A q \in Process \ {p} : run'[q] = run[q]
         /\ run' \in [Process -> Record!Run]
<1>1. run'[p] = Record!Idle /\ \A q \in Process \ {p} : run'[q] = run[q]
  BY RecordWent
<1>2. Record!Idle.stage = "idle"
  BY DEF Record!Idle
<1> QED BY <1>1, <1>2, GoesOn

\* What p serves now: nothing, or what its reindex has come to.
LEMMA WorkerKnown ==
  ASSUME NEW p \in Process, UNCHANGED <<sidecar, lines>>,
         run'[p].stage = "idle", \A q \in Process \ {p} : run'[q] = run[q],
         \A q \in Process \ {p} : serving'[q] = serving[q],
         NEW v \in 1..MaxVersion, NEW m,
         Serves(p, v, m)' => Carries(p, v, m),
         Known(v, m)'
  PROVE  Known(v, m)
<1>1. Filed(v, m)' => Filed(v, m)
  BY DEF Filed
<1>2. \A q \in Process \ {p} : (Serves(q, v, m)' => Serves(q, v, m)) /\ (Carries(q, v, m)' => Carries(q, v, m))
  BY DEF Serves, Carries
<1>3. ~Carries(p, v, m)'
  BY DEF Carries
<1> QED BY <1>1, <1>2, <1>3 DEF Known

LEMMA ServeKeeps ==
  ASSUME Record!RecordAssumption, RecordIInv, NEW p \in Process, Record!Serve(p)
  PROVE  RecordIInv'
<1>1. run[p].stage = "done" /\ UNCHANGED <<weights, sidecar, lines, torn, dropped, holder, mishaps>>
      /\ Record!Go(p, Record!Idle)
  BY DEF Record!Serve, Record!At, Record!files
<1>2. Record!TypeOK /\ run[p] \in RunFields /\ Shaped(run[p])
  BY <1>1, Under DEF RecordIInv, Reindexes, RunShape, Record!At, Shaped
<1>3. PICK new : new = [read |-> run[p].read, model |-> run[p].model, version |-> run[p].version]
  OBVIOUS
<1>4. /\ new \in Record!Served /\ new.read = run[p].read /\ new.model = run[p].model
      /\ new.version = run[p].version
  BY <1>2, <1>3 DEF RunFields, Record!Served
<1>5. /\ serving' \in [Process -> {Absent} \cup Record!Served] /\ serving'[p] = new
      /\ \A q \in Process \ {p} : serving'[q] = serving[q]
  <2>1. serving' = [serving EXCEPT ![p] = new] /\ serving \in [Process -> {Absent} \cup Record!Served]
    BY <1>2, <1>3 DEF Record!Serve, Record!TypeOK
  <2> QED BY <1>4, <2>1
<1>6. /\ run'[p].stage = "idle" /\ \A q \in Process \ {p} : run'[q] = run[q]
      /\ run' \in [Process -> Record!Run]
  BY <1>1, <1>2, Ends
<1>7. Record!TypeOK'
  BY <1>1, <1>2, <1>5, <1>6 DEF Record!TypeOK
<1>8. Record!ServedIsProven' /\ VersionHasModel'
  <2>1. Record!ServedIsProven'
    BY <1>2, <1>4, <1>5 DEF Shaped, RecordIInv, Reindexes, Record!ServedIsProven
  <2>2. VersionHasModel'
    BY <1>1, <1>2, <1>4, <1>5 DEF Shaped, RecordIInv, Reindexes, VersionHasModel
  <2> QED BY <2>1, <2>2
<1>9. HolderWrites'
  BY <1>1, <1>6 DEF RecordIInv, Reindexes, HolderWrites, Writing
<1>10. RunShape'
  BY <1>6 DEF RecordIInv, Reindexes, RunShape, Record!At
<1>11. PairWritten' /\ Record!PairHonest'
  BY <1>1, <1>6 DEF RecordIInv, PairWritten, Record!PairHonest, Record!At
<1>12. Record!NextVersion' = Record!NextVersion
  BY <1>1 DEF Record!NextVersion, Record!LastVersion, Record!Newest
<1>13. VersionGiven'
  BY <1>1, <1>6, <1>12 DEF RecordIInv, Names, VersionGiven, FreeFrom, Record!At
<1>14. ASSUME NEW v \in 1..MaxVersion, NEW m \in Questions \ Few, Known(v, m)' PROVE Known(v, m)
  <2>1. ASSUME Serves(p, v, m)' PROVE Carries(p, v, m)
    <3>1. new.version = v /\ new.model = m /\ v # 0
      BY <1>5, <2>1, NotZero DEF Serves
    <3>2. m \in {Absent, run[p].read} /\ m # Absent
      BY <1>1, <1>2, <1>4, <3>1 DEF Shaped
    <3> QED BY <1>1, <1>4, <3>1, <3>2 DEF Carries
  <2> QED BY <1>1, <1>5, <1>6, <1>14, <2>1, WorkerKnown
<1>15. VersionsPassed' /\ OneNameEach'
  BY <1>1, <1>12, <1>14, NamesKept
<1> QED BY <1>7, <1>8, <1>9, <1>10, <1>11, <1>13, <1>15 DEF RecordIInv, Names, Reindexes

LEMMA RecordCrashKeeps ==
  ASSUME Record!RecordAssumption, RecordIInv, NEW p \in Process, Record!Crash(p)
  PROVE  RecordIInv'
<1>1. UNCHANGED <<weights, sidecar, lines, dropped>> /\ Record!Go(p, Record!Idle) /\ Record!Trouble
  BY DEF Record!Crash
<1>2. \/ holder = p /\ holder' = Absent /\ torn' = (sidecar # Absent /\ weights # sidecar.model)
      \/ holder # p /\ UNCHANGED <<holder, torn>>
  BY DEF Record!Crash
<1>3. Record!TypeOK /\ mishaps' \in 0..MaxMishap
  BY <1>1, Counted DEF RecordIInv
<1>4. /\ serving' \in [Process -> {Absent} \cup Record!Served] /\ serving'[p] = Absent
      /\ \A q \in Process \ {p} : serving'[q] = serving[q]
  BY <1>3 DEF Record!Crash, Record!TypeOK
<1>6. /\ run'[p].stage = "idle" /\ \A q \in Process \ {p} : run'[q] = run[q]
      /\ run' \in [Process -> Record!Run]
  BY <1>1, <1>3, Ends
<1>7. Record!TypeOK'
  BY <1>1, <1>2, <1>3, <1>4, <1>6 DEF Record!TypeOK
<1>8. Record!ServedIsProven' /\ VersionHasModel'
  BY <1>4 DEF RecordIInv, Reindexes, Record!ServedIsProven, VersionHasModel
<1>9. HolderWrites'
  <2>1. run'[p].stage \notin Writing
    BY <1>6 DEF Writing
  <2>2. p # Absent /\ \A q \in Process : q # Absent
    BY DEF Record!RecordAssumption
  <2> QED BY <1>2, <1>6, <2>1, <2>2 DEF RecordIInv, Reindexes, HolderWrites
<1>10. RunShape'
  BY <1>6 DEF RecordIInv, Reindexes, RunShape, Record!At
<1>11. PairWritten' /\ Record!PairHonest'
  BY <1>1, <1>2, <1>6 DEF RecordIInv, PairWritten, Record!PairHonest, Record!At
<1>12. Record!NextVersion' = Record!NextVersion
  BY <1>1 DEF Record!NextVersion, Record!LastVersion, Record!Newest
<1>13. VersionGiven'
  BY <1>1, <1>6, <1>12 DEF RecordIInv, Names, VersionGiven, FreeFrom, Record!At
<1>14. ASSUME NEW v \in 1..MaxVersion, NEW m \in Questions \ Few, Known(v, m)' PROVE Known(v, m)
  <2>1. ~Serves(p, v, m)'
    BY <1>4 DEF Serves
  <2> QED BY <1>1, <1>4, <1>6, <1>14, <2>1, WorkerKnown
<1>15. VersionsPassed' /\ OneNameEach'
  BY <1>1, <1>12, <1>14, NamesKept
<1> QED BY <1>7, <1>8, <1>9, <1>10, <1>11, <1>13, <1>15 DEF RecordIInv, Names, Reindexes

-------------------------------------------------------------------------------
(* The theorems.                                                             *)

LEMMA RecordInitOK ==
  ASSUME Record!RecordAssumption, Record!Init
  PROVE  RecordIInv
<1>1. Record!TypeOK
  <2>1. 0 \in 0..MaxMishap /\ <<>> \in Seq(Record!Line) /\ Len(<<>>) =< MaxLines
    BY DEF Record!RecordAssumption
  <2> QED BY <2>1 DEF Record!Init, Record!TypeOK, Record!Run
<1>2. \A p \in Process : run[p].stage = "idle" /\ serving[p] = Absent
  BY DEF Record!Init, Record!Idle
<1>3. Reindexes
  BY <1>2 DEF Record!Init, Reindexes, Record!ServedIsProven, HolderWrites, RunShape,
     VersionHasModel, Record!At,
              Writing, Record!RecordAssumption
<1>4. PairWritten /\ Record!PairHonest /\ VersionGiven
  BY <1>2 DEF Record!Init, PairWritten, Record!PairHonest, VersionGiven, Record!At
<1>5. \A v, m : ~Known(v, m)
  BY <1>2 DEF Record!Init, Known, Filed, Serves, Carries
<1> QED BY <1>1, <1>3, <1>4, <1>5 DEF RecordIInv, Names, VersionsPassed, OneNameEach

LEMMA RecordStepKeeps ==
  ASSUME Record!RecordAssumption, RecordIInv, [Record!Next]_(Record!vars)
  PROVE  RecordIInv'
<1>1. CASE Record!Next
  <2>1. PICK p \in Process :
          \/ Record!Reindex(p) \/ Record!Unembedded(p) \/ Record!ReadSidecar(p) \/ Record!ReadWeights(p)
          \/ Record!ReadFails(p) \/ Record!Train(p) \/ Record!Lock(p) \/ Record!LockUnread(p) \/ Record!GiveUp(p) \/ Record!PutWeights(p) \/ Record!PutSidecar(p) \/ Record!AppendHistory(p)
          \/ Record!WriteFails(p) \/ Record!DropWeights(p) \/ Record!DropSidecar(p) \/ Record!DropFails(p)
          \/ Record!Serve(p) \/ Record!Crash(p)
    BY <1>1 DEF Record!Next
  <2>2. CASE Record!Reindex(p) \/ Record!Unembedded(p)
    BY <2>2, ReindexQuiet, RecordQuietKeeps DEF RecordIInv
  <2>3. CASE Record!ReadSidecar(p)
    BY <2>3, ReadSidecarQuiet, RecordQuietKeeps
  <2>4. CASE Record!ReadWeights(p)
    BY <2>4, ReadWeightsQuiet, RecordQuietKeeps
  <2>17. CASE Record!ReadFails(p)
    BY <2>17, ReadFailsQuiet, RecordQuietKeeps
  <2>18. CASE Record!LockUnread(p)
    BY <2>18, LockUnreadKeeps
  <2>5. CASE Record!Train(p)
    BY <2>5, TrainQuiet, RecordQuietKeeps
  <2>6. CASE Record!Lock(p)
    <3>1. CASE holder' = p
      BY <2>6, <3>1, LockKeeps
    <3>2. CASE holder' # p
      <4>1. /\ run[p].model # Absent
            /\ sidecar # Absent /\ sidecar.model = run[p].model /\ weights = run[p].model
        BY <2>6, <3>2 DEF Record!Lock
      <4> QED BY <2>6, <4>1, SameModelQuiet, RecordQuietKeeps
    <3> QED BY <3>1, <3>2
  <2>7. CASE Record!GiveUp(p)
    BY <2>7, GiveUpQuiet, RecordQuietKeeps
  <2>8. CASE Record!PutWeights(p)
    BY <2>8, PutWeightsKeeps
  <2>9. CASE Record!PutSidecar(p)
    BY <2>9, PutSidecarKeeps
  <2>10. CASE Record!AppendHistory(p)
    BY <2>10, AppendHistoryKeeps
  <2>11. CASE Record!WriteFails(p)
    BY <2>11, AppendFailsKeeps, PutFailsKeeps
  <2>12. CASE Record!DropWeights(p)
    BY <2>12, DropWeightsKeeps
  <2>13. CASE Record!DropSidecar(p)
    BY <2>13, DropSidecarKeeps
  <2>14. CASE Record!DropFails(p)
    BY <2>14, DropFailsKeeps
  <2>15. CASE Record!Serve(p)
    BY <2>15, ServeKeeps
  <2>16. CASE Record!Crash(p)
    BY <2>16, RecordCrashKeeps
  <2> QED BY <2>1, <2>2, <2>3, <2>4, <2>5, <2>6, <2>7, <2>8, <2>9, <2>10, <2>11, <2>12, <2>13,
             <2>14, <2>15, <2>16, <2>17, <2>18
<1>2. CASE UNCHANGED Record!vars
  <2>1. UNCHANGED <<weights, sidecar, lines, holder, serving, run, mishaps, torn, dropped>>
    BY <1>2 DEF Record!vars
  <2>2. Record!TypeOK' /\ Reindexes' /\ PairWritten' /\ Record!PairHonest'
    BY <2>1 DEF RecordIInv, Record!TypeOK, Reindexes, Record!ServedIsProven, HolderWrites,
       RunShape, VersionHasModel,
                PairWritten, Record!PairHonest, Record!At
  <2>3. Record!NextVersion' = Record!NextVersion
    BY <2>1 DEF Record!NextVersion, Record!LastVersion, Record!Newest
  <2>4. \A v, m : Known(v, m)' => Known(v, m)
    BY <2>1 DEF Known, Filed, Serves, Carries
  <2>5. VersionGiven'
    BY <2>1, <2>3 DEF RecordIInv, Names, VersionGiven, FreeFrom, Record!At
  <2>6. VersionsPassed' /\ OneNameEach'
    BY <2>1, <2>3, <2>4, NamesKept
  <2> QED BY <2>2, <2>5, <2>6 DEF RecordIInv, Names
<1> QED BY <1>1, <1>2

\* The names that are served, recorded or remembered are known.
LEMMA NamesImplyOne ==
  ASSUME Record!RecordAssumption, RecordIInv
  PROVE  Record!VersionsNameOne
<1> SUFFICES ASSUME NEW a \in Record!Named \ {Absent}, NEW b \in Record!Named \ {Absent},
                    a.version = b.version, a.version \notin dropped \cup {0}
             PROVE  a.model = b.model
  BY DEF Record!VersionsNameOne
<1>1. ASSUME NEW c \in Record!Named \ {Absent}, c.version # 0
      PROVE  c.version \in 1..MaxVersion /\ c.model \in Questions \ Few /\ Known(c.version, c.model)
  <2>1. CASE \E p \in Process : serving[p] # Absent /\ c = serving[p]
    <3>1. PICK p \in Process : serving[p] # Absent /\ c = serving[p]
      BY <2>1
    <3>2. c \in Record!Served
      BY <3>1 DEF RecordIInv, Record!TypeOK
    <3>3. c.model # Absent
      BY <1>1, <3>1 DEF RecordIInv, Reindexes, VersionHasModel
    <3>4. c.model \in Questions \ Few /\ c.version \in 0..MaxVersion
      BY <3>2, <3>3 DEF Record!Served
    <3>5. Serves(p, c.version, c.model)
      BY <3>1 DEF Serves
    <3> QED BY <1>1, <3>4, <3>5, InVersions DEF Known
  <2>2. CASE c = sidecar
    <3>1. c \in Record!Line
      BY <2>2 DEF RecordIInv, Record!TypeOK
    <3> QED BY <2>2, <3>1 DEF Record!Line, Known, Filed
  <2>3. CASE \E i \in DOMAIN lines : c = lines[i]
    <3>1. PICK i \in DOMAIN lines : c = lines[i]
      BY <2>3
    <3>2. lines[i] \in Record!Line
      BY DEF RecordIInv, Record!TypeOK
    <3>3. Filed(c.version, c.model)
      BY <3>1 DEF Filed
    <3> QED BY <3>1, <3>2, <3>3 DEF Record!Line, Known
  <2> QED BY <2>1, <2>2, <2>3 DEF Record!Named
<1>2. Known(a.version, a.model) /\ Known(a.version, b.model) /\ a.version \in 1..MaxVersion
      /\ a.model \in Questions \ Few /\ b.model \in Questions \ Few
  BY <1>1
<1> QED BY <1>2 DEF RecordIInv, Names, OneNameEach

LEMMA RecordInductive ==
  ASSUME Record!RecordAssumption
  PROVE  Record!Spec => []RecordIInv
<1>1. Record!Init => RecordIInv
  BY RecordInitOK
<1>2. RecordIInv /\ [Record!Next]_(Record!vars) => RecordIInv'
  BY RecordStepKeeps
<1> QED BY <1>1, <1>2, PTL DEF Record!Spec

LEMMA RecordTypeCorrect ==
  ASSUME Record!RecordAssumption PROVE Record!Spec => []Record!TypeOK
<1>1. RecordIInv => Record!TypeOK
  BY DEF RecordIInv
<1> QED BY <1>1, RecordInductive, PTL

LEMMA RecordSafe ==
  ASSUME Record!RecordAssumption PROVE Record!Spec => [](Record!ServedIsProven /\ Record!PairHonest /\ Record!VersionsNameOne)
<1>1. RecordIInv => Record!ServedIsProven /\ Record!PairHonest /\ Record!VersionsNameOne
  BY NamesImplyOne DEF RecordIInv, Reindexes
<1> QED BY <1>1, RecordInductive, PTL

-------------------------------------------------------------------------------
(* THE THREE TOGETHER: a behaviour that TLC explores moves one of them, in   *)
(* its slice, and leaves the others at rest, so it is a behaviour of each.   *)
(* The theorems are about every behaviour of each, in a slice or not.        *)

LEMMA EachIsAPart == MCSpec => Spec /\ Store!Spec /\ Record!Spec
<1>1. MCInit => Init /\ Store!Init /\ Record!Init
  BY DEF MCInit
<1>2. [MCNext]_<<vars, storeVars, recordVars, focus>> =>
        [Next]_vars /\ [Store!Next]_(Store!vars) /\ [Record!Next]_(Record!vars)
  <2>1. storeVars = Store!vars /\ recordVars = Record!vars
    BY DEF storeVars, recordVars, Store!vars, Record!vars
  <2>2. /\ UNCHANGED storeVars => UNCHANGED Store!vars
        /\ UNCHANGED recordVars => UNCHANGED Record!vars
    BY DEF storeVars, recordVars, Store!vars, Record!vars
  <2> QED BY <2>2 DEF MCNext
<1> QED BY <1>1, <1>2, PTL DEF MCSpec, Spec, Store!Spec, Record!Spec

\* Databases and restores, backups, runs and drills, the files of the trained model and its
\* reindexes are well-typed, for any number of each.
THEOREM FilesTypeCorrect == Spec /\ Store!Spec /\ Record!Spec => []TypesOK
<1>1. Spec => []TypeOK
  BY TypeCorrect, PTL
<1>2. Store!Spec => []Store!TypeOK
  BY FilesAssumption, StoreTypeCorrect, PTL
<1>3. Record!Spec => []Record!TypeOK
  BY FilesAssumption, RecordTypeCorrect, PTL
<1>4. TypeOK /\ Store!TypeOK /\ Record!TypeOK => TypesOK
  BY DEF TypesOK
<1> QED BY <1>1, <1>2, <1>3, <1>4, PTL

\* run_due() and run_drill(), backups.py: a slot is claimed by one run, and a drill judges the
\* backup that it restored itself, for any number of runners and backups.
THEOREM RunsStayApart == Store!Spec => []RunsApart
<1>1. Store!OneRunPerSlot /\ Store!JudgesItsOwn => RunsApart
  BY DEF RunsApart
<1> QED BY <1>1, FilesAssumption, StoreApart, PTL

\* prune(), backups.py: what a pruner takes away of the verified scheduled backups leaves a
\* newer one that is verified, unless somebody verified or deleted one since the list was
\* read, however many backups are kept.
THEOREM PruneSpares == Store!Spec => VerifiedSurvives
<1>1. Store!VerifiedSurvives => VerifiedSurvives
  BY PTL DEF VerifiedSurvives
<1> QED BY <1>1, FilesAssumption, StoreSpares, PTL

\* The sidecar and the history of the trained model: what is served was trained on what its
\* record says, weights and sidecar in one place are of one model, and a version is the name
\* of one model, for any number of processes, crashes and retrainings.
THEOREM RecordStaysTrue == Record!Spec => []RecordTrue
<1>1. Record!ServedIsProven /\ Record!PairHonest /\ Record!VersionsNameOne => RecordTrue
  BY DEF RecordTrue
<1> QED BY <1>1, FilesAssumption, RecordSafe, PTL
================================================================================
