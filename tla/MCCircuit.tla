------------------------------ MODULE MCCircuit ------------------------------
(***************************************************************************)
(* The two protocols that repair themselves by being tried again, for TLC: *)
(* the circuit with its history, and the poll of the SMS outbox.  They     *)
(* share nothing, so a behaviour explores one while the other rests, and   *)
(* fairness is asked of the one that is explored.                          *)
(***************************************************************************)
EXTENDS CircuitHistory

CONSTANTS Message, Poller, Limit, PollWindow, LastSend

VARIABLES status, created, arrived, poll, now, crossed,
          focus     \* which of the two runs

Outbox == INSTANCE SmsOutbox WITH Window <- PollWindow
ASSUME PollAssumption == Outbox!OutboxAssumption

outboxVars == <<status, created, arrived, poll, now, crossed>>

MCInit == HInit /\ Outbox!Init /\ focus \in {"circuit", "outbox"}

OnCircuit(A) == focus = "circuit" /\ A /\ UNCHANGED <<focus, outboxVars>>
OnOutbox(A) == focus = "outbox" /\ A /\ UNCHANGED <<focus, hvars>>

MCNext == OnCircuit(HNext) \/ OnOutbox(Outbox!Next)

MCSpec == MCInit /\ [][MCNext]_<<hvars, outboxVars, focus>>

MCFairness ==
  /\ WF_vars(focus = "circuit" /\ Tick)
  /\ \A w \in Worker : /\ WF_vars(focus = "circuit" /\ Work(w))
                       /\ WF_vars(focus = "circuit" /\ Allows(w))
  /\ WF_outboxVars(focus = "outbox" /\ Outbox!Tick)
  /\ WF_outboxVars(focus = "outbox" /\ \E p \in Poller : Outbox!Begin(p))
  /\ SF_outboxVars(focus = "outbox" /\ \E p \in Poller : Outbox!Close(p))
  /\ WF_outboxVars(focus = "outbox" /\ \E p \in Poller : Outbox!Round(p))

MCFairSpec == MCSpec /\ MCFairness

\* What the count of failures is worth: nothing that was counted is lost, and what trips
\* the circuit was counted inside one window.
CountsFailures == []BoundedHammering /\ NoEarlyTrip

FinalUnlessCrossed == Outbox!FinalUnlessCrossed

\* Both come to rest by themselves: a circuit nobody disturbs closes for good, and no message
\* stays queued for ever.
Settles == Recovers /\ Outbox!Settles
===============================================================================
