------------------------------- MODULE MCFiles -------------------------------
(***************************************************************************)
(* What an installation keeps in files, for TLC: the store of its backups  *)
(* (BackupStore), the restore that replaces the database from one of them  *)
(* (Restore), and the record of its trained model (ModelRecord).  A        *)
(* restore reads one backup that is there and verified, the store's runs   *)
(* and drills do not touch the live database, and the model is in a        *)
(* directory of its own, so a behaviour explores one of the three while    *)
(* the others rest in one initial state.  The store comes in two slices:   *)
(* all its backups and one trouble, or two backups and all the troubles.   *)
(***************************************************************************)
EXTENDS Restore, TLC

CONSTANTS Last, Runner, Keep, KeepOther, MaxTime, MaxTrouble,
          Questions, Few, Process, Absent, MaxLines, MaxVersion, MaxMishap

VARIABLES disk, runner, lock, drilldb, next, now, troubles, claims, excused, unlocked, mistaken,
          weights, sidecar, lines, holder, serving, run, mishaps, torn, dropped,
          focus     \* which of the four

Store == INSTANCE BackupStore
Record == INSTANCE ModelRecord WITH MaxTrouble <- MaxMishap, trouble <- mishaps, history <- lines
ASSUME FilesAssumption == Store!BackupStoreAssumption /\ Record!RecordAssumption

storeVars == <<disk, runner, lock, drilldb, next, now, troubles, claims, excused, unlocked,
               mistaken>>
recordVars == <<weights, sidecar, lines, holder, serving, run, mishaps, torn, dropped>>

Symmetry == Permutations(Visitor \cup (Questions \ Few))
            \cup Permutations(Restorer \cup Runner \cup Process)

MCInit == /\ Init /\ Store!Init /\ Record!Init
          /\ focus \in {"restore", "store", "troubles", "record"}
          /\ focus # "restore" => backup.flag /\ backup.sound

MCNext ==
  /\ UNCHANGED focus
  /\ \/ focus = "restore" /\ Next /\ UNCHANGED <<storeVars, recordVars>>
     \/ /\ focus \in {"store", "troubles"}
        /\ Store!Next /\ UNCHANGED <<vars, recordVars>>
        /\ focus = "store" => troubles' <= 1
        /\ focus = "troubles" => \A b \in Store!Backup : b > 2 => disk'[b] = Store!None
     \/ focus = "record" /\ Record!Next /\ UNCHANGED <<vars, storeVars>>

MCSpec == MCInit /\ [][MCNext]_<<vars, storeVars, recordVars, focus>>

TypesOK == TypeOK /\ Store!TypeOK /\ Record!TypeOK

\* One run for a slot, and each drill judges what it restored itself.
RunsApart == Store!OneRunPerSlot /\ Store!JudgesItsOwn

VerifiedSurvives == Store!VerifiedSurvives

\* What the files say of the trained model is true of what is served, and a version is the
\* name of one model.
RecordTrue == Record!ServedIsProven /\ Record!PairHonest /\ Record!VersionsNameOne
===============================================================================
