------------------------------- MODULE Circuit -------------------------------
(***************************************************************************)
(* The shared circuit breaker of one provider instance: the row of         *)
(* ai_circuit_state, the Prometheus gauge that mirrors it, and the workers *)
(* that ask allows(), call the provider and record what came back.         *)
(*                                                                         *)
(* A worker is one provider call of one uvicorn process.  allows() is two  *)
(* statements (SELECT, conditional UPDATE), record_success() two UPDATEs   *)
(* of which the first takes no lock when it matches nothing, and the gauge *)
(* is set after the commit: each is a step of its own, and the steps of    *)
(* different workers interleave.                                           *)
(***************************************************************************)
EXTENDS CircuitRow

CONSTANTS Worker,
          CallTicks      \* longest time from the grant of a call to its return:
                         \* wait for the concurrency gate, retry back-off, timeout

ASSUME CallAssumption == CallTicks \in Nat

VARIABLES row,       \* the committed ai_circuit_state row
          pc,        \* where each worker is
          probe,     \* probe[w]: w's call holds the half-open probe
          age,       \* ticks since the grant of w's call
          pending,   \* the value w is about to publish
          gauge,     \* ai_circuit_state{instance=...}
          calm       \* the provider answers, requests are well formed, no worker dies

vars == <<row, pc, probe, age, pending, gauge, calm>>

Stage == {"idle", "claim", "reclaim", "calling",
          "answered", "clear", "failed", "auth", "publish", "boot"}

TypeOK ==
  /\ row \in Row
  /\ pc \in [Worker -> Stage]
  /\ probe \in [Worker -> BOOLEAN]
  /\ age \in [Worker -> 0..CallTicks]
  /\ pending \in [Worker -> CircuitState]
  /\ gauge \in CircuitState
  /\ calm \in BOOLEAN

Init ==
  /\ row = FreshRow
  /\ pc = [w \in Worker |-> "idle"]
  /\ probe = [w \in Worker |-> FALSE]
  /\ age = [w \in Worker |-> 0]
  /\ pending = [w \in Worker |-> "closed"]
  /\ gauge = "closed"
  /\ calm = TRUE

\* A granted call: from the grant until the provider's answer is in hand.
InFlight(w) == probe[w] \/ pc[w] = "calling"

Goto(w, stage) == pc' = [pc EXCEPT ![w] = stage]

\* w has committed state and still has to set the gauge to it.
ThenPublish(w, state) ==
  /\ Goto(w, "publish")
  /\ pending' = [pending EXCEPT ![w] = state]

-------------------------------------------------------------------------------
(* allows(): the SELECT, and the conditional UPDATE it may lead to.  A       *)
(* refusal changes nothing.                                                  *)

Allows(w) ==
  /\ pc[w] = "idle"
  /\ \/ row.state = "closed" /\ Goto(w, "calling")
     \/ CooldownPassed(row) /\ Goto(w, "claim")
     \/ LeaseExpired(row) /\ Goto(w, "reclaim")
  /\ UNCHANGED <<row, probe, age, pending, gauge, calm>>

\* A claim whose UPDATE matches whatever state the row is in by now.
ClaimUnchecked(w) ==
  /\ pc[w] = "claim"
  /\ row' = Leased(row)
  /\ probe' = [probe EXCEPT ![w] = TRUE]
  /\ ThenPublish(w, "half_open")
  /\ UNCHANGED <<age, gauge, calm>>

\* UPDATE ... WHERE state='open' AND cooldown_until <= now: rowcount is the winner.
Claim(w) ==
  /\ pc[w] = "claim"
  /\ IF CooldownPassed(row)
     THEN /\ row' = Leased(row)
          /\ probe' = [probe EXCEPT ![w] = TRUE]
          /\ ThenPublish(w, "half_open")
     ELSE /\ Goto(w, "idle")
          /\ UNCHANGED <<row, probe, pending>>
  /\ UNCHANGED <<age, gauge, calm>>

\* A re-claim that relies on the lease it read earlier.
ReclaimUnchecked(w) ==
  /\ pc[w] = "reclaim"
  /\ row' = Leased(row)
  /\ probe' = [probe EXCEPT ![w] = TRUE]
  /\ Goto(w, "calling")
  /\ UNCHANGED <<age, pending, gauge, calm>>

\* UPDATE ... WHERE state='half_open' AND probe_expires_at <= now.
Reclaim(w) ==
  /\ pc[w] = "reclaim"
  /\ IF LeaseExpired(row)
     THEN /\ row' = Leased(row)
          /\ probe' = [probe EXCEPT ![w] = TRUE]
          /\ Goto(w, "calling")
     ELSE /\ Goto(w, "idle")
          /\ UNCHANGED <<row, probe>>
  /\ UNCHANGED <<age, pending, gauge, calm>>

-------------------------------------------------------------------------------
(* The call itself.  "ours" errors (invalid request, content rejected,       *)
(* context limit) stamp last_failure_* and change nothing else, so the       *)
(* worker goes straight back to idle.                                        *)

Return(w) ==
  /\ pc[w] = "calling"
  /\ \/ Goto(w, "answered")
     \/ ~calm /\ \E stage \in {"failed", "auth", "idle"} : Goto(w, stage)
  /\ probe' = [probe EXCEPT ![w] = FALSE]
  /\ age' = [age EXCEPT ![w] = 0]
  /\ UNCHANGED <<row, pending, gauge, calm>>

-------------------------------------------------------------------------------
(* record_success(), record_failure(), reset().                              *)

RecordSuccess(w) ==
  /\ pc[w] = "answered"
  /\ IF row.state # "closed"
     THEN row' = Closed(row) /\ ThenPublish(w, "closed")
     ELSE Goto(w, "clear") /\ UNCHANGED <<row, pending>>
  /\ UNCHANGED <<probe, age, gauge, calm>>

\* The second UPDATE has no condition on the state.
ClearWindow(w) ==
  /\ pc[w] = "clear"
  /\ row' = WindowCleared(row)
  /\ Goto(w, "idle")
  /\ UNCHANGED <<probe, age, pending, gauge, calm>>

RecordFailure(w) ==
  /\ pc[w] = "failed"
  /\ row' = Failed(row)
  /\ IF row'.state = "open" /\ row.state # "open"
     THEN ThenPublish(w, "open")
     ELSE Goto(w, "idle") /\ UNCHANGED pending
  /\ UNCHANGED <<probe, age, gauge, calm>>

RecordAuthFailure(w) ==
  /\ pc[w] = "auth"
  /\ row' = OpenedByAuth(row)
  /\ ThenPublish(w, "open")
  /\ UNCHANGED <<probe, age, gauge, calm>>

\* An administrator's reset, served by a worker that is between calls.
Reset(w) ==
  /\ pc[w] = "idle"
  /\ row' = Closed(row)
  /\ ThenPublish(w, "closed")
  /\ UNCHANGED <<probe, age, gauge, calm>>

\* _metrics_state(), after the commit.  The winner of a claim now makes its call.
Publish(w) ==
  /\ pc[w] = "publish"
  /\ gauge' = pending[w]
  /\ Goto(w, IF probe[w] THEN "calling" ELSE "idle")
  /\ pending' = [pending EXCEPT ![w] = "closed"]
  /\ UNCHANGED <<row, probe, age, calm>>

-------------------------------------------------------------------------------
(* A worker that dies loses its call and everything it had not committed; on *)
(* its way up publish_stored_states() reads the row, then sets the gauge.    *)

Crash(w) ==
  /\ ~calm
  /\ pc[w] \notin {"idle", "boot"}
  /\ Goto(w, "boot")
  /\ probe' = [probe EXCEPT ![w] = FALSE]
  /\ age' = [age EXCEPT ![w] = 0]
  /\ pending' = [pending EXCEPT ![w] = "closed"]
  /\ UNCHANGED <<row, gauge, calm>>

Boot(w) ==
  /\ pc[w] = "boot"
  /\ ThenPublish(w, row.state)
  /\ UNCHANGED <<row, probe, age, gauge, calm>>

-------------------------------------------------------------------------------
(* The environment: time, and whether all is calm.   Time cannot pass the   *)
(* moment an in-flight call times out.                                       *)

Tick ==
  /\ \A w \in Worker : InFlight(w) => age[w] < CallTicks
  /\ row' = Elapse(row)
  /\ age' = [w \in Worker |-> IF InFlight(w) THEN age[w] + 1 ELSE age[w]]
  /\ UNCHANGED <<pc, probe, pending, gauge, calm>>

CalmChanges ==
  /\ calm' = ~calm
  /\ UNCHANGED <<row, pc, probe, age, pending, gauge>>

\* What a worker does on its own once its request has started.
Work(w) == \/ Claim(w) \/ Reclaim(w) \/ Return(w)
           \/ RecordSuccess(w) \/ ClearWindow(w)
           \/ RecordFailure(w) \/ RecordAuthFailure(w)
           \/ Publish(w) \/ Boot(w)

Next == \/ \E w \in Worker : Allows(w) \/ Work(w) \/ Reset(w) \/ Crash(w)
        \/ Tick
        \/ CalmChanges

Spec == Init /\ [][Next]_vars

\* Requests keep coming, handlers run to their end, time passes.
Fairness == /\ WF_vars(Tick)
            /\ \A w \in Worker : WF_vars(Work(w)) /\ WF_vars(Allows(w))

FairSpec == Spec /\ Fairness

-------------------------------------------------------------------------------
(* What the breaker promises.                                                *)

\* The time nobody takes a probe away from its call: until its lease has run out, or a
\* cooldown that may have begun after its grant.
Patience ==
  LET limits == {Lease, Cooldown, AuthCooldown}
  IN CHOOSE p \in limits : \A q \in limits : p <= q

\* The probes in flight that are still within it.
Probing == {w \in Worker : probe[w] /\ age[w] < Patience}

\* A second probe is let in only after the first has had its time, whatever late failures,
\* late successes, resets, crashes and re-claims happen around it (circuit.py, "Half-open
\* is entered by exactly ONE worker"; a call of 45 s and the wait for the concurrency gate
\* outlive the lease of 45 s, so that two calls may be in flight: never two young ones).
SingleProbe == \A v, w \in Probing : v = w

\* The row's columns agree with its state after every statement: an open row
\* holds no lease, a half-open row no cooldown, a closed row neither, and a
\* count that reached the threshold never rests in a closed row.
RowConsistent ==
  /\ row.state = "closed" => row.cooldown = 0 /\ row.failures < Threshold
  /\ row.state = "half_open" => row.cooldown = 0
  /\ row.state # "half_open" => row.lease = 0

\* Once all stays calm, every circuit closes again and stays closed: neither an
\* expired cooldown, a lease left by a dead probe, nor a late failure can wedge it.
Recovers == <>[]calm => <>[](row.state = "closed")

\* The abstract breaker this implements.
B == INSTANCE Breaker WITH mode <- row.state, probes <- Probing
ImplementsBreaker == B!Spec
===============================================================================
