------------------------------- MODULE Breaker -------------------------------
(***************************************************************************)
(* What a circuit breaker shared by many workers promises to its callers,  *)
(* with no row, no clock and no interleaved statements: the mode changes   *)
(* hands atomically and a probe is granted only while nobody else probes.  *)
(***************************************************************************)
CONSTANT Worker

VARIABLES mode,     \* closed, open or half_open
          probes    \* the workers whose probe call is in flight and within its time

vars == <<mode, probes>>

Init == mode = "closed" /\ probes = {}

Trip == /\ mode # "open"
        /\ mode' = "open"
        /\ UNCHANGED probes

\* The open circuit lets one call through, or hands a lost probe to someone else.
GrantProbe(w) ==
  /\ mode \in {"open", "half_open"}
  /\ probes = {}
  /\ mode' = "half_open"
  /\ probes' = {w}

\* The probe call returned, died, or has had its time.
EndProbe == /\ probes' = {}
            /\ UNCHANGED mode

\* A recorded success, or an administrator.
Close == /\ mode # "closed"
         /\ mode' = "closed"
         /\ UNCHANGED probes

Next == Trip \/ EndProbe \/ Close \/ \E w \in Worker : GrantProbe(w)

Spec == Init /\ [][Next]_vars
===============================================================================
