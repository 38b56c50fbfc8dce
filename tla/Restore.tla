------------------------------ MODULE Restore -------------------------------
(***************************************************************************)
(* A restore of the live database (app/services/pg_backup.py, restore())   *)
(* under maintenance mode (app/services/maintenance.py), while visitors    *)
(* write and operators switch maintenance on and off.                      *)
(*                                                                         *)
(* The maintenance flag is a row of the database that the restore          *)
(* replaces.  A visitor's request reads it once, in guard(), and writes    *)
(* later.  pg_restore runs in one transaction that locks the tables it     *)
(* drops: whoever reads or writes meanwhile waits, or is cut off by the    *)
(* role's statement timeout, and a flag that cannot be read counts as off. *)
(***************************************************************************)
EXTENDS Naturals, FiniteSets

CONSTANTS Visitor,     \* requests that write once
          Restorer,    \* requests of administrators that restore
          MaxToggle,   \* bound on switches by operators
          MaxFault     \* bound on crashes and failed steps together

ASSUME RestoreAssumption == {MaxToggle, MaxFault} \subseteq Nat

VARIABLES db,         \* the live database
          backup,     \* what the backup that is restored holds
          safety,     \* safety[r]: the safety backup of a restore
          visitor,    \* visitor[v]: where a request is
          restore,    \* restore[r]: where a restore is
          toggles,    \* how often an operator has switched maintenance
          faults,     \* how many faults there have been
          disturbed,  \* history: restores during which somebody else wrote the flag
          entered,    \* history: entered[v]: how a visitor got past guard()
          served,     \* history: visitors that wrote to a database not yet validated
          late        \* history: visitors that wrote between a safety backup and its swap

history == <<disturbed, entered, served, late>>
vars == <<db, backup, safety, visitor, restore, toggles, faults, history>>

\* flag: maintenance is on; data: whose writes it holds; sound: it passes validation.
Database == [flag: BOOLEAN, data: SUBSET Visitor, sound: BOOLEAN]
None == [none |-> TRUE]

Closed == {"enabled", "saved", "swapping"}         \* maintenance is on for this restore
Ended == {"idle", "restored", "aborted", "failed", "rejected", "crashed"}
Stage == Closed \cup Ended \cup {"requested", "unsafe", "swapped", "valid"}

\* With no restore under way; with a flag that could not be read; with a flag that was
\* off although a restore had shut the doors; and with one that was off in a database
\* that was restored and not validated.
Entry == {"not", "early", "blind", "open", "unproven"}

TypeOK ==
  /\ db \in Database
  /\ backup \in Database
  /\ safety \in [Restorer -> Database \cup {None}]
  /\ visitor \in [Visitor -> {"away", "admitted", "written"}]
  /\ restore \in [Restorer -> Stage]
  /\ toggles \in 0..MaxToggle
  /\ faults \in 0..MaxFault
  /\ disturbed \subseteq Restorer
  /\ entered \in [Visitor -> Entry]
  /\ served \subseteq Visitor
  /\ late \subseteq Visitor

\* The dump was taken when nobody had written yet, with maintenance on or off, and what
\* it holds may or may not be usable.
Init ==
  /\ db = [flag |-> FALSE, data |-> {}, sound |-> TRUE]
  /\ backup \in {b \in Database : b.data = {}}
  /\ safety = [r \in Restorer |-> None]
  /\ visitor = [v \in Visitor |-> "away"]
  /\ restore = [r \in Restorer |-> "idle"]
  /\ toggles = 0
  /\ faults = 0
  /\ disturbed = {}
  /\ entered = [v \in Visitor |-> "not"]
  /\ served = {}
  /\ late = {}

Fault == faults < MaxFault /\ faults' = faults + 1

Swapping == \E r \in Restorer : restore[r] = "swapping"
Shut == {r \in Restorer : restore[r] \in Closed}
Unproven == {r \in Restorer : restore[r] \in {"swapped", "rejected"}}
UnderWay == Shut \cup Unproven
Goto(r, stage) == restore' = [restore EXCEPT ![r] = stage]

\* One UPDATE of the maintenance row by somebody: the restores of others are disturbed.
SetFlag(flag, others) ==
  /\ ~Swapping
  /\ db' = [db EXCEPT !.flag = flag]
  /\ disturbed' = disturbed \cup others

-------------------------------------------------------------------------------
(* The visitors.                                                             *)

\* guard(): refused while the flag is on (and the visitor comes back); a read that is
\* cut off lets the request through.
Guard(v) ==
  /\ visitor[v] = "away"
  /\ Swapping \/ ~db.flag
  /\ visitor' = [visitor EXCEPT ![v] = "admitted"]
  /\ entered' = [entered EXCEPT ![v] = CASE Swapping -> "blind"
                                         [] ~Swapping /\ Shut # {} -> "open"
                                         [] Shut = {} /\ Unproven # {} -> "unproven"
                                         [] OTHER -> "early"]
  /\ UNCHANGED <<db, backup, safety, restore, toggles, faults, disturbed, served, late>>

WriteRow(v) ==
  /\ visitor[v] = "admitted" /\ ~Swapping
  /\ db' = [db EXCEPT !.data = @ \cup {v}]
  /\ visitor' = [visitor EXCEPT ![v] = "written"]
  /\ served' = IF Unproven # {} THEN served \cup {v} ELSE served
  /\ late' = IF \E r \in Restorer : restore[r] = "saved" THEN late \cup {v} ELSE late
  /\ UNCHANGED <<backup, safety, restore, toggles, faults, disturbed, entered>>

-------------------------------------------------------------------------------
(* restore(), step by step.                                                  *)

\* The confirmation, verify(), the tools, the disk and the audit row: anything missing
\* ends the request here.
Request(r) ==
  /\ restore[r] = "idle"
  /\ Goto(r, "requested")
  /\ UNCHANGED <<db, backup, safety, visitor, toggles, faults, history>>

Enable(r) ==
  /\ restore[r] = "requested"
  /\ SetFlag(TRUE, UnderWay \ {r})
  /\ Goto(r, "enabled")
  /\ UNCHANGED <<backup, safety, visitor, toggles, faults, entered, served, late>>

\* Only the rows are dumped, not the schema that a restore needs.
SaveData(r) ==
  /\ restore[r] = "enabled" /\ ~Swapping
  /\ safety' = [safety EXCEPT ![r] = [flag |-> db.flag, data |-> db.data]]
  /\ Goto(r, "saved")
  /\ UNCHANGED <<db, backup, visitor, toggles, faults, history>>

\* The safety backup need not wait for the doors to be closed.
SaveFirst(r) ==
  /\ restore[r] \in {"requested", "enabled"} /\ ~Swapping
  /\ safety' = [safety EXCEPT ![r] = db]
  /\ Goto(r, "saved")
  /\ UNCHANGED <<db, backup, visitor, toggles, faults, history>>

Save(r) ==
  /\ restore[r] = "enabled" /\ ~Swapping
  /\ safety' = [safety EXCEPT ![r] = db]
  /\ Goto(r, "saved")
  /\ UNCHANGED <<db, backup, visitor, toggles, faults, history>>

\* pg_dump fails; anything else that goes wrong in create() is not caught, and leaves
\* maintenance on (Crash).
SaveFails(r) ==
  /\ restore[r] = "enabled"
  /\ Fault
  /\ Goto(r, "unsafe")
  /\ UNCHANGED <<db, backup, safety, visitor, toggles, history>>

Abort(r) ==
  /\ restore[r] = "unsafe"
  /\ SetFlag(FALSE, UnderWay)
  /\ Goto(r, "aborted")
  /\ UNCHANGED <<backup, safety, visitor, toggles, faults, entered, served, late>>

\* pg_restore drops the first table: from here on everybody else waits for it.
Drop(r) ==
  /\ restore[r] = "saved" /\ ~Swapping
  /\ Goto(r, "swapping")
  /\ UNCHANGED <<db, backup, safety, visitor, toggles, faults, history>>

\* Its transaction commits: everything is what the dump says, the flag included.
Replace(r) ==
  /\ restore[r] = "swapping"
  /\ db' = backup
  /\ disturbed' = disturbed \cup (UnderWay \ {r})
  /\ Goto(r, "swapped")
  /\ UNCHANGED <<backup, safety, visitor, toggles, faults, entered, served, late>>

\* It is rolled back, and the switch is left as it is.
ReplaceFailsOpen(r) ==
  /\ restore[r] = "swapping"
  /\ Fault
  /\ db' = [db EXCEPT !.flag = FALSE]
  /\ Goto(r, "failed")
  /\ UNCHANGED <<backup, safety, visitor, toggles, history>>

ReplaceFails(r) ==
  /\ restore[r] = "swapping"
  /\ Fault
  /\ Goto(r, "failed")
  /\ UNCHANGED <<db, backup, safety, visitor, toggles, history>>

Validate(r) ==
  /\ restore[r] = "swapped" /\ ~Swapping
  /\ Goto(r, IF db.sound THEN "valid" ELSE "rejected")
  /\ UNCHANGED <<db, backup, safety, visitor, toggles, faults, history>>

Disable(r) ==
  /\ restore[r] = "valid"
  /\ SetFlag(FALSE, UnderWay)
  /\ Goto(r, "restored")
  /\ UNCHANGED <<backup, safety, visitor, toggles, faults, entered, served, late>>

\* The worker dies, or something that restore() does not catch ends it; the server
\* rolls an open transaction back.
Crash(r) ==
  /\ restore[r] \notin Ended
  /\ Fault
  /\ Goto(r, "crashed")
  /\ UNCHANGED <<db, backup, safety, visitor, toggles, history>>

-------------------------------------------------------------------------------

\* The maintenance switch of the panel (routers/ops.py).
Toggle ==
  /\ toggles < MaxToggle
  /\ SetFlag(~db.flag, UnderWay)
  /\ toggles' = toggles + 1
  /\ UNCHANGED <<backup, safety, visitor, restore, faults, entered, served, late>>

Step(r) == \/ Request(r) \/ Enable(r) \/ Save(r) \/ SaveFails(r) \/ Abort(r) \/ Drop(r)
           \/ Replace(r) \/ ReplaceFails(r) \/ Validate(r) \/ Disable(r) \/ Crash(r)

Next ==
  \/ \E v \in Visitor : Guard(v) \/ WriteRow(v)
  \/ \E r \in Restorer : Step(r)
  \/ Toggle

Spec == Init /\ [][Next]_vars

-------------------------------------------------------------------------------
(* What maintenance mode and the safety backup are for.                      *)

Kept == db.data \cup UNION {safety[r].data : r \in {s \in Restorer : safety[s] # None}}

\* What a visitor wrote is in the database or in a safety backup.  It is gone only if it
\* was written between the two, by a request that had passed guard() before a restore
\* closed the doors or without reading the flag, or that came when somebody else had
\* written the flag during a restore.
OnlyStragglersLost ==
  \A v \in Visitor :
    visitor[v] = "written" /\ v \notin Kept => v \in late /\ (entered[v] # "open" \/ disturbed # {})

\* "Maintenance mode stays ON": the doors of a restore that pg_restore has refused stay
\* closed, unless somebody else has opened them.
FailedStaysClosed ==
  \A r \in Restorer : restore[r] = "failed" => \/ db.flag \/ toggles > 0
                        \/ \E s \in Restorer \ {r} : restore[s] \notin {"idle", "requested"}

\* A database that has not passed validation serves requests that were already inside
\* or could not read the flag, and otherwise only whom the flag of the dump lets in.
UnsoundServesOnlyAsDumped ==
  \A v \in served : entered[v] \in {"open", "unproven"} => ~backup.flag \/ disturbed # {}

\* Neither a failed restore nor an unproven one opens the doors by itself.
StaysShut == FailedStaysClosed /\ UnsoundServesOnlyAsDumped

\* "Deliberately stay in maintenance: a database that failed validation must not
\* receive live traffic."
RejectedStaysClosed ==
  \A r \in Restorer : restore[r] = "rejected" /\ toggles = 0 /\ disturbed = {} => db.flag
=============================================================================
