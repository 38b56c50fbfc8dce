---------------------------- MODULE BackupStore -----------------------------
(***************************************************************************)
(* The backups of a PostgreSQL install (app/services/pg_backup.py), the    *)
(* runs that make them (app/services/backup.py) and the drills that prove  *)
(* them (app/services/restore_drill.py).                                   *)
(*                                                                         *)
(* A backup is a folder with a dump and a manifest.  Every worker has a    *)
(* scheduler; a run of any of them makes, verifies, drills and prunes in   *)
(* that order, while administrators start runs and drills, verify again    *)
(* and delete.  The folders have no lock, a manifest is changed under      *)
(* flock, and the drills share one database behind an advisory lock that   *)
(* lives as long as the session that took it.                              *)
(***************************************************************************)
EXTENDS Naturals, FiniteSets, FiniteSetsExt

CONSTANTS Last,       \* how many backups there may be; a backup is named by its age
          Runner,     \* threads that run backups and drills
          Keep,       \* how many scheduled backups a prune keeps
          KeepOther,  \* how many others
          MaxTime,    \* bound on the scheduler's clock
          MaxTrouble  \* bound on what administrators verify again and delete, and on
                      \* crashes, failed dumps, spoiled files and lost sessions

Backup == 1..Last

VARIABLES disk,     \* disk[b]: the folder
          runner,   \* runner[r]: where a thread is
          lock,     \* who holds the drill's advisory lock
          drilldb,  \* what the drill database holds
          next,     \* backup_next_run
          now,      \* the clock
          troubles, \* how often an administrator has meddled or something has failed
          claims,   \* history: claims[t]: how many runs were claimed for the slot t
          excused,  \* history: pruners whose list a verdict or a deletion has made stale
          unlocked, \* history: the session of some drill's lock was lost
          mistaken  \* history: drills that judged what another had restored

vars == <<disk, runner, lock, drilldb, next, now, troubles, claims, excused, unlocked,
          mistaken>>
history == <<claims, excused, unlocked, mistaken>>
clock == <<next, now>>
drill == <<lock, drilldb>>

None == [at |-> "none"]
Gone == [at |-> "gone"]

\* What an instance of this module has to assume of its constants.
BackupStoreAssumption ==
  /\ {Last, MaxTime, MaxTrouble} \subseteq Nat
  /\ {Keep, KeepOther} \subseteq Nat \ {0}
  /\ None \notin Runner

\* readable: create() has written the manifest; mark: verification.status; good: the
\* bytes still are what the manifest says.  The block that a drill writes is left out:
\* only people read it.
Folder == {None, Gone} \cup
  [reason: {"scheduled", "other"}, readable: BOOLEAN, mark: {"unknown", "verified", "failed"},
   good: BOOLEAN]

Off == [at |-> "off"]
Running == {"dump", "verify", "lock", "clean", "restore", "check", "cleanup"}
Thread == {Off} \cup [at: {"due"}, seen: 0..MaxTime + 1]
          \cup [at: Running, id: Backup, then: {"list", "off"}]
          \cup [at: {"list"}]
          \cup [at: {"prune"}, doomed: SUBSET Backup]

TypeOK ==
  /\ disk \in [Backup -> Folder]
  /\ runner \in [Runner -> Thread]
  /\ lock \in Runner \cup {None}
  /\ drilldb \in Backup \cup {0}
  /\ next \in 0..MaxTime + 1 /\ now \in 0..MaxTime
  /\ troubles \in 0..MaxTrouble
  /\ claims \in [0..MaxTime + 1 -> Nat]
  /\ excused \subseteq Runner /\ mistaken \subseteq Runner
  /\ unlocked \in BOOLEAN

Init ==
  /\ disk = [b \in Backup |-> None]
  /\ runner = [r \in Runner |-> Off]
  /\ lock = None
  /\ drilldb = 0
  /\ next = 0 /\ now = 0
  /\ troubles = 0
  /\ claims = [t \in 0..MaxTime + 1 |-> 0]
  /\ excused = {} /\ mistaken = {}
  /\ unlocked = FALSE

Goto(r, stage) == runner' = [runner EXCEPT ![r] = stage]
At(r, place) == runner[r].at = place
On(r, place) == Goto(r, [runner[r] EXCEPT !.at = place])
Id(r) == runner[r].id
Then(r) == IF runner[r].then = "list" THEN [at |-> "list"] ELSE Off

Pruning == {r \in Runner : At(r, "prune")}

Trouble == troubles < MaxTrouble /\ troubles' = troubles + 1

Here(b) == disk[b] \notin {None, Gone}
Readable(b) == Here(b) /\ disk[b].readable
Verified(b) == Readable(b) /\ disk[b].mark = "verified"

-------------------------------------------------------------------------------
(* scheduler_loop(): the slot.                                               *)

Tick ==
  /\ now < MaxTime
  /\ now' = now + 1
  /\ UNCHANGED <<disk, runner, drill, next, troubles, history>>

Due(r) ==
  /\ At(r, "off") /\ now >= next
  /\ Goto(r, [at |-> "due", seen |-> next])
  /\ UNCHANGED <<disk, drill, clock, troubles, history>>

\* The folder of a run, before its dump and its manifest.
Make(r, reason, then) ==
  /\ \E b \in Backup : disk[b] = None
  /\ LET b == Min({c \in Backup : disk[c] = None}) IN
       /\ disk' = [disk EXCEPT ![b] = [reason |-> reason, readable |-> FALSE,
                     mark |-> "unknown", good |-> TRUE]]
       /\ Goto(r, [at |-> "dump", id |-> b, then |-> then])

\* The UPDATE names only the key.
ClaimAnyway(r) ==
  /\ At(r, "due")
  /\ next' = now + 1
  /\ claims' = [claims EXCEPT ![runner[r].seen] = @ + 1]
  /\ Make(r, "scheduled", "list")
  /\ UNCHANGED <<drill, now, troubles, excused, unlocked, mistaken>>

\* _claim_due_slot(): of the workers that saw the slot, one moves it on.
Claim(r) ==
  /\ At(r, "due")
  /\ IF next = runner[r].seen
       THEN /\ next' = now + 1
            /\ claims' = [claims EXCEPT ![next] = @ + 1]
            /\ Make(r, "scheduled", "list")
       ELSE UNCHANGED <<next, claims, disk>> /\ Goto(r, Off)
  /\ UNCHANGED <<drill, now, troubles, excused, unlocked, mistaken>>

\* create_backup_now(), and whoever else makes backups: a deploy, a restore's safety net.
RunManual(r) ==
  /\ At(r, "off")
  /\ Make(r, "other", "list")
  /\ UNCHANGED <<drill, clock, troubles, history>>

-------------------------------------------------------------------------------
(* create() and verify().                                                    *)

\* pg_dump, then the manifest; when the folder was removed meanwhile there is nowhere to
\* write it, and the run ends.
Dump(r) ==
  /\ At(r, "dump")
  /\ IF Here(Id(r))
       THEN disk' = [disk EXCEPT ![Id(r)].readable = TRUE] /\ On(r, "verify")
       ELSE UNCHANGED disk /\ Goto(r, Off)
  /\ UNCHANGED <<drill, clock, troubles, history>>

DumpFails(r) ==
  /\ At(r, "dump") /\ Trouble
  /\ disk' = [disk EXCEPT ![Id(r)] = Gone]
  /\ Goto(r, Off)
  /\ UNCHANGED <<drill, clock, history>>

Marked(b) == [disk EXCEPT ![b].mark = IF disk[b].good THEN "verified" ELSE "failed"]

\* verify() of a run.  A scheduled one that is verified is drilled; every other run, and
\* one whose verify() raises, goes on to prune.
Verify(r) ==
  /\ At(r, "verify")
  /\ IF Here(Id(r))
       THEN /\ disk' = Marked(Id(r))
            /\ IF disk[Id(r)].good /\ disk[Id(r)].reason = "scheduled" THEN On(r, "lock")
               ELSE Goto(r, [at |-> "list"])
       ELSE UNCHANGED disk /\ Goto(r, [at |-> "list"])
  /\ excused' = excused \cup Pruning
  /\ UNCHANGED <<drill, clock, troubles, claims, unlocked, mistaken>>

-------------------------------------------------------------------------------
(* The drill.                                                                *)

\* start(), from the button.
DrillButton(r, b) ==
  /\ At(r, "off") /\ Readable(b)
  /\ Goto(r, [at |-> "lock", id |-> b, then |-> "off"])
  /\ UNCHANGED <<disk, drill, clock, troubles, history>>

Release(r) == lock' = IF lock = r THEN None ELSE lock

\* _take_lock(): a drill that finds another running ends, and so does one that cannot
\* ask for the lock.
Lock(r) ==
  /\ At(r, "lock")
  /\ \/ lock = None /\ lock' = r /\ On(r, "clean") /\ UNCHANGED troubles
     \/ lock # None /\ Goto(r, Then(r)) /\ UNCHANGED <<lock, troubles>>
     \/ Trouble /\ Goto(r, Then(r)) /\ UNCHANGED lock
  /\ UNCHANGED <<disk, drilldb, clock, history>>

\* _drop_app_schemas(); the drill is skipped without a drill database, before, and
\* without room, after.
Clean(r) ==
  /\ At(r, "clean")
  /\ \/ drilldb' = 0 /\ On(r, "restore") /\ UNCHANGED lock
     \/ drilldb' \in {0, drilldb} /\ Goto(r, Then(r)) /\ Release(r)
  /\ UNCHANGED <<disk, clock, troubles, history>>

\* pg_restore into the drill database; it replaces what is there.
RestoreDump(r) ==
  /\ At(r, "restore")
  /\ IF Here(Id(r)) /\ disk[Id(r)].good
       THEN drilldb' = Id(r) /\ On(r, "check")
       ELSE UNCHANGED drilldb /\ On(r, "cleanup")
  /\ UNCHANGED <<disk, lock, clock, troubles, history>>

\* The row counts and the migrations are compared with the manifest's.
Check(r) ==
  /\ At(r, "check")
  /\ mistaken' = IF drilldb = Id(r) THEN mistaken ELSE mistaken \cup {r}
  /\ On(r, "cleanup")
  /\ UNCHANGED <<disk, drill, clock, troubles, claims, excused, unlocked>>

\* The schemas are dropped, or a copy is left behind; the lock is released before the
\* drill's block is written.
Cleanup(r) ==
  /\ At(r, "cleanup")
  /\ \/ drilldb' = 0 /\ UNCHANGED troubles
     \/ Trouble /\ UNCHANGED drilldb
  /\ Release(r)
  /\ Goto(r, Then(r))
  /\ UNCHANGED <<disk, clock, history>>

-------------------------------------------------------------------------------
(* prune()                                                                   *)

\* A folder without a readable manifest counts as scheduled.
Scheduled == {b \in Backup : Here(b) /\ (disk[b].readable => disk[b].reason = "scheduled")}
Other == {b \in Backup : Here(b)} \ Scheduled

Newest(n, pool) == {b \in pool : Cardinality({c \in pool : c > b}) < n}

\* The newest verified one is not looked for.
SparedNone == {}

Spared ==
  LET beyond == {b \in Scheduled \ Newest(Keep, Scheduled) : Verified(b)} IN
    IF beyond # {} /\ ~\E b \in Newest(Keep, Scheduled) : Verified(b) THEN {Max(beyond)} ELSE {}

Doomed == (Other \ Newest(KeepOther, Other))
          \cup (Scheduled \ (Newest(Keep, Scheduled) \cup Spared))

List(r) ==
  /\ At(r, "list")
  /\ Goto(r, [at |-> "prune", doomed |-> Doomed])
  /\ excused' = excused \ {r}
  /\ UNCHANGED <<disk, drill, clock, troubles, claims, unlocked, mistaken>>

\* One folder after the other; one that is gone already is what prune wanted.
Prune(r) ==
  /\ At(r, "prune")
  /\ IF runner[r].doomed = {} THEN UNCHANGED <<disk, excused>> /\ Goto(r, Off)
     ELSE LET b == Max(runner[r].doomed) IN
            /\ disk' = [disk EXCEPT ![b] = Gone]
            /\ excused' = excused \cup (Pruning \ {r})
            /\ Goto(r, [runner[r] EXCEPT !.doomed = @ \ {b}])
  /\ UNCHANGED <<drill, clock, troubles, claims, unlocked, mistaken>>

-------------------------------------------------------------------------------
(* Administrators and faults.                                                *)

Meddle == Trouble /\ excused' = excused \cup Pruning

VerifyAgain(b) ==
  /\ Readable(b) /\ Meddle
  /\ disk' = Marked(b)
  /\ UNCHANGED <<runner, drill, clock, claims, unlocked, mistaken>>

Delete(b) ==
  /\ Here(b) /\ Meddle
  /\ disk' = [disk EXCEPT ![b] = Gone]
  /\ UNCHANGED <<runner, drill, clock, claims, unlocked, mistaken>>

Spoil(b) ==
  /\ Here(b) /\ disk[b].good /\ Trouble
  /\ disk' = [disk EXCEPT ![b].good = FALSE]
  /\ UNCHANGED <<runner, drill, clock, history>>

\* The worker dies, and its sessions with it.
Crash(r) ==
  /\ ~At(r, "off") /\ Trouble
  /\ Goto(r, Off)
  /\ Release(r)
  /\ UNCHANGED <<disk, drilldb, clock, history>>

\* The session that holds the lock ends; the drill does not notice.
LoseLock ==
  /\ lock # None /\ Trouble
  /\ lock' = None
  /\ unlocked' = TRUE
  /\ UNCHANGED <<disk, runner, drilldb, clock, claims, excused, mistaken>>

Run(r) == \/ Due(r) \/ Claim(r) \/ RunManual(r) \/ Dump(r) \/ DumpFails(r) \/ Verify(r)
          \/ Lock(r) \/ Clean(r) \/ RestoreDump(r) \/ Check(r) \/ Cleanup(r)
          \/ List(r) \/ Prune(r) \/ Crash(r)

Next ==
  \/ Tick
  \/ \E r \in Runner : Run(r)
  \/ \E r \in Runner, b \in Backup : DrillButton(r, b)
  \/ \E b \in Backup : VerifyAgain(b) \/ Delete(b) \/ Spoil(b)
  \/ LoseLock

Spec == Init /\ [][Next]_vars

-------------------------------------------------------------------------------
(* What the store promises.                                                  *)

\* "We never get duplicate backups from parallel workers": one run per slot.
OneRunPerSlot == \A t \in DOMAIN claims : claims[t] <= 1

\* "Prune never leaves the install with zero verified scheduled backups": one that goes
\* leaves another behind, unless somebody has verified or deleted a backup since the
\* list was read.
VerifiedSurvives ==
  [][\A r \in Runner, b \in Backup :
       /\ At(r, "prune") /\ runner'[r] # runner[r] /\ r \notin excused
       /\ Verified(b) /\ disk[b].reason = "scheduled" /\ disk'[b] = Gone
       => \E c \in Backup : c > b /\ Verified(c) /\ disk[c].reason = "scheduled"]_vars

\* A drill judges the backup that it restored, unless the session of a lock was lost.
JudgesItsOwn == mistaken = {} \/ unlocked
=============================================================================
