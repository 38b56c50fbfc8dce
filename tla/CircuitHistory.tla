---------------------------- MODULE CircuitHistory ----------------------------
(***************************************************************************)
(* Circuit with one history variable: the counted failures a closed        *)
(* circuit has seen since its last success, by age.  It says what the      *)
(* counter of the row is for, which the counter itself cannot.             *)
(***************************************************************************)
EXTENDS Circuit

VARIABLE recent     \* recent[a]: failures recorded a ticks ago, all of them consecutive

hvars == <<vars, recent>>

Age == 0..(Window - 1)

NoFailures == [a \in Age |-> 0]

\* The failures of less than n ticks ago, and all of them.
Newer(f, n) ==
  LET sum[k \in 0..Window] == IF k = 0 THEN 0 ELSE sum[k - 1] + f[k - 1]
  IN sum[n]
Total(f) == Newer(f, Window)

HInit == Init /\ recent = NoFailures

HFailure(w) ==
  /\ RecordFailure(w)
  /\ recent' = IF row'.state = "closed" THEN [recent EXCEPT ![0] = @ + 1] ELSE NoFailures

HForget(w) ==
  /\ RecordSuccess(w) \/ ClearWindow(w) \/ RecordAuthFailure(w) \/ Reset(w)
  /\ recent' = IF pc'[w] = "clear" THEN recent ELSE NoFailures

HTick ==
  /\ Tick
  /\ recent' = [a \in Age |-> IF a = 0 THEN 0 ELSE recent[a - 1]]

HOther(w) ==
  /\ \/ Allows(w) \/ Claim(w) \/ Reclaim(w) \/ Return(w)
     \/ Publish(w) \/ Crash(w) \/ Boot(w)
  /\ UNCHANGED recent

HNext == \/ \E w \in Worker : HFailure(w) \/ HForget(w) \/ HOther(w)
         \/ HTick
         \/ CalmChanges /\ UNCHANGED recent

HSpec == HInit /\ [][HNext]_hvars

-------------------------------------------------------------------------------

\* No counted failure is lost to a concurrent one: however the failures of
\* different workers interleave and straddle windows, a circuit that is still
\* closed has seen at most two windows' worth of sub-threshold failures.
BoundedHammering == row.state = "closed" => Total(recent) <= 2 * (Threshold - 1)

\* A count trips the circuit only on Threshold consecutive failures inside one
\* window: no success in between, none of them older than the window.
NoEarlyTrip ==
  [][\A w \in Worker :
       pc[w] = "failed" /\ pc'[w] = "publish" /\ row.state = "closed"
         => Total(recent) + 1 >= Threshold]_hvars

\* The documented policy: Threshold consecutive failures inside the window trip it.
TripsAtThreshold == row.state = "closed" => Total(recent) < Threshold
===============================================================================
