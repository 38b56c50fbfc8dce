------------------------------ MODULE CircuitRow ------------------------------
(***************************************************************************)
(* One row of ai_circuit_state (app/services/ai/circuit.py) and the UPDATE *)
(* statements that write it.  Every operator below is ONE statement, or    *)
(* several statements of one transaction that holds the row lock between   *)
(* them, so it is atomic in PostgreSQL at READ COMMITTED.                   *)
(*                                                                         *)
(* Timestamps are kept as the time that is left until them (cooldown_until,*)
(* probe_expires_at) or as the age of the instant (window_started_at):     *)
(* comparing a column with the clock is comparing a countdown with zero.   *)
(* NULL is a countdown of 0 and an age of Window, because every comparison *)
(* of the code treats NULL as "already passed".                            *)
(***************************************************************************)
EXTENDS Naturals

CONSTANTS Threshold,     \* ai_circuit_threshold
          Window,        \* ai_circuit_window_s, in ticks
          Cooldown,      \* ai_circuit_cooldown_s, in ticks
          AuthCooldown,  \* ai_circuit_auth_cooldown_s, in ticks
          Lease          \* PROBE_LEASE_S, in ticks

ASSUME PolicyAssumption ==
  /\ Threshold \in Nat \ {0}
  /\ Window \in Nat \ {0}
  /\ Cooldown \in Nat \ {0}
  /\ AuthCooldown \in Nat \ {0}
  /\ Lease \in Nat \ {0}

CircuitState == {"closed", "open", "half_open"}

Row == [state: CircuitState, failures: 0..Threshold, windowAge: 0..Window,
        cooldown: Nat, lease: 0..Lease]

\* The row _ensure_row inserts; a missing row is treated like it by every reader.
FreshRow == [state |-> "closed", failures |-> 0, windowAge |-> Window,
             cooldown |-> 0, lease |-> 0]

\* One tick of wall-clock time, as every comparison of the row with now() sees it.
Elapse(row) ==
  [row EXCEPT !.windowAge = IF @ < Window THEN @ + 1 ELSE @,
              !.cooldown = IF @ = 0 THEN 0 ELSE @ - 1,
              !.lease = IF @ = 0 THEN 0 ELSE @ - 1]

-------------------------------------------------------------------------------
(* The reads and the conditional UPDATEs of allows().                        *)

CooldownPassed(row) == row.state = "open" /\ row.cooldown = 0

LeaseExpired(row) == row.state = "half_open" /\ row.lease = 0

\* Both conditional UPDATEs write the same two columns over what is there.
Leased(row) == [row EXCEPT !.state = "half_open", !.lease = Lease]

-------------------------------------------------------------------------------
(* record_success() and reset(): all counters and timers back to the start.  *)

Closed(row) == FreshRow

\* The second UPDATE of record_success, when the first one matched no row.
WindowCleared(row) == [row EXCEPT !.failures = 0, !.windowAge = Window]

-------------------------------------------------------------------------------
(* record_failure().                                                         *)

\* The event name written where the state belongs.
OpenedMisspelt(row, cooldown) ==
  [row EXCEPT !.state = "opened", !.failures = Threshold,
              !.cooldown = cooldown, !.lease = 0]

\* UPDATE ... state='open': a trip or a failed probe.  The counter is kept by a
\* trip (it has just reached Threshold) and set to Threshold by a failed probe.
Opened(row, cooldown) ==
  [row EXCEPT !.state = "open", !.failures = Threshold,
              !.cooldown = cooldown, !.lease = 0]

\* The AUTH branch also restarts the window.
OpenedByAuth(row) == [Opened(row, AuthCooldown) EXCEPT !.windowAge = 0]

\* The counter is not restarted when its window has aged out.
CountedNoReset(row) ==
  [row EXCEPT !.failures = IF @ < Threshold THEN @ + 1 ELSE @,
              !.windowAge = IF @ = Window THEN 0 ELSE @]

\* The CASE expressions of the atomic windowed increment.  The counter saturates
\* at Threshold: past it the row is open and no statement reads the counter.
Counted(row) ==
  [row EXCEPT
     !.failures = IF row.windowAge = Window THEN 1
                  ELSE IF @ < Threshold THEN @ + 1 ELSE @,
     !.windowAge = IF @ = Window THEN 0 ELSE @]

\* count > threshold instead of count >= threshold.
FailedOffByOne(row) ==
  LET counted == Counted(row) IN
  IF \/ counted.state = "half_open"
     \/ counted.state = "closed" /\ counted.failures > Threshold
  THEN Opened(counted, Cooldown)
  ELSE counted

\* A counted failure: the increment, then the transition decided under its lock.
Failed(row) ==
  LET counted == Counted(row) IN
  IF \/ counted.state = "half_open"
     \/ counted.state = "closed" /\ counted.failures >= Threshold
  THEN Opened(counted, Cooldown)
  ELSE counted
===============================================================================
