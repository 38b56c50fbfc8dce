----------------------------- MODULE CircuitProofs -----------------------------
(***************************************************************************)
(* Proofs about the circuit, for every set of workers and every policy:    *)
(* type correctness, the consistency of the row, that one probe at most is *)
(* within its time, and that the interleaved statements implement the      *)
(* atomic Breaker.  Then about the poll of the SMS outbox (Outbox!...),    *)
(* for any number of rounds, and about the two side by side as TLC runs    *)
(* them; and what the count of failures is worth, from their history.      *)
(***************************************************************************)
EXTENDS MCCircuit, FiniteSetTheorems, WellFoundedInduction, TLAPS

-------------------------------------------------------------------------------
(* What each UPDATE leaves in the row.                                       *)

\* Every statement maps a well-typed row to a well-typed row.
LEMMA RowTyping ==
  ASSUME NEW r \in Row
  PROVE  /\ FreshRow \in Row
         /\ Elapse(r) \in Row
         /\ Leased(r) \in Row
         /\ Closed(r) \in Row
         /\ WindowCleared(r) \in Row
         /\ Counted(r) \in Row
         /\ Failed(r) \in Row
         /\ OpenedByAuth(r) \in Row
<1> USE PolicyAssumption DEF Row, CircuitState
<1>1. FreshRow \in Row /\ Closed(r) \in Row
  BY DEF FreshRow, Closed
<1>2. Elapse(r) \in Row
  <2>1. /\ (IF r.windowAge < Window THEN r.windowAge + 1 ELSE r.windowAge) \in 0..Window
        /\ (IF r.cooldown = 0 THEN 0 ELSE r.cooldown - 1) \in Nat
        /\ (IF r.lease = 0 THEN 0 ELSE r.lease - 1) \in 0..Lease
    OBVIOUS
  <2>2. QED
    BY <2>1 DEF Elapse
<1>3. Leased(r) \in Row /\ WindowCleared(r) \in Row
  <2>1. 0 \in 0..Threshold /\ Window \in 0..Window /\ Lease \in 0..Lease
    OBVIOUS
  <2>2. Leased(r) \in Row
    BY <2>1 DEF Leased
  <2>3. WindowCleared(r) \in Row
    BY <2>1 DEF WindowCleared
  <2>4. QED
    BY <2>2, <2>3
<1>4. Counted(r) \in Row
  <2>1. /\ (IF r.windowAge = Window THEN 1
            ELSE IF r.failures < Threshold THEN r.failures + 1 ELSE r.failures) \in 0..Threshold
        /\ (IF r.windowAge = Window THEN 0 ELSE r.windowAge) \in 0..Window
    OBVIOUS
  <2>2. QED
    BY <2>1 DEF Counted
<1>5. ASSUME NEW q \in Row, NEW c \in Nat
      PROVE  Opened(q, c) \in Row
  <2>1. Threshold \in 0..Threshold /\ 0 \in 0..Lease
    OBVIOUS
  <2>2. QED
    BY <1>5, <2>1 DEF Opened
<1>6. Failed(r) \in Row
  BY <1>4, <1>5 DEF Failed
<1>7. OpenedByAuth(r) \in Row
  BY <1>5 DEF OpenedByAuth
<1>8. QED
  BY <1>1, <1>2, <1>3, <1>4, <1>6, <1>7

\* Type correctness of every reachable state.
THEOREM TypeCorrect == Spec => []TypeOK
<1>1. Init => TypeOK
  <2> SUFFICES ASSUME Init PROVE TypeOK
    OBVIOUS
  <2>1. FreshRow \in Row
    BY PolicyAssumption DEF FreshRow, Row, CircuitState
  <2>2. QED
    BY <2>1, CallAssumption DEF Init, TypeOK, Stage, CircuitState
<1>2. TypeOK /\ [Next]_vars => TypeOK'
  <2> SUFFICES ASSUME TypeOK, [Next]_vars
               PROVE  TypeOK'
    OBVIOUS
  <2> USE CallAssumption DEF TypeOK, Stage, CircuitState, Goto, ThenPublish
  <2>r. /\ Elapse(row) \in Row /\ Leased(row) \in Row /\ Closed(row) \in Row
        /\ WindowCleared(row) \in Row /\ Failed(row) \in Row /\ OpenedByAuth(row) \in Row
    BY RowTyping
  <2>s. row.state \in CircuitState
    BY DEF Row
  <2>1. ASSUME NEW w \in Worker, Allows(w) PROVE TypeOK'
    BY <2>1 DEF Allows
  <2>2. ASSUME NEW w \in Worker, Claim(w) PROVE TypeOK'
    BY <2>2, <2>r DEF Claim
  <2>3. ASSUME NEW w \in Worker, Reclaim(w) PROVE TypeOK'
    BY <2>3, <2>r DEF Reclaim
  <2>4. ASSUME NEW w \in Worker, Return(w) PROVE TypeOK'
    BY <2>4 DEF Return
  <2>5. ASSUME NEW w \in Worker, RecordSuccess(w) PROVE TypeOK'
    BY <2>5, <2>r DEF RecordSuccess
  <2>6. ASSUME NEW w \in Worker, ClearWindow(w) PROVE TypeOK'
    BY <2>6, <2>r DEF ClearWindow
  <2>7. ASSUME NEW w \in Worker, RecordFailure(w) PROVE TypeOK'
    BY <2>7, <2>r DEF RecordFailure
  <2>8. ASSUME NEW w \in Worker, RecordAuthFailure(w) PROVE TypeOK'
    BY <2>8, <2>r DEF RecordAuthFailure
  <2>9. ASSUME NEW w \in Worker, Reset(w) PROVE TypeOK'
    BY <2>9, <2>r DEF Reset
  <2>10. ASSUME NEW w \in Worker, Publish(w) PROVE TypeOK'
    BY <2>10 DEF Publish
  <2>11. ASSUME NEW w \in Worker, Crash(w) PROVE TypeOK'
    BY <2>11 DEF Crash
  <2>12. ASSUME NEW w \in Worker, Boot(w) PROVE TypeOK'
    BY <2>12, <2>s DEF Boot
  <2>13. ASSUME Tick PROVE TypeOK'
    <3>1. ASSUME NEW w \in Worker
          PROVE  (IF InFlight(w) THEN age[w] + 1 ELSE age[w]) \in 0..CallTicks
      BY <2>13 DEF Tick
    <3>2. age' \in [Worker -> 0..CallTicks]
      BY <3>1, <2>13 DEF Tick
    <3>3. QED
      BY <3>2, <2>13, <2>r DEF Tick
  <2>14. CASE CalmChanges
    BY <2>14 DEF CalmChanges
  <2>15. CASE UNCHANGED vars
    BY <2>15 DEF vars
  <2>16. QED
    BY <2>1, <2>2, <2>3, <2>4, <2>5, <2>6, <2>7, <2>8, <2>9, <2>10, <2>11,
       <2>12, <2>13, <2>14, <2>15 DEF Next, Work
<1>3. QED
  BY <1>1, <1>2, PTL DEF Spec

-------------------------------------------------------------------------------
(* The row.                                                                  *)

\* After every statement the columns of the row agree with its state: the case
\* of a count resting at the threshold in a closed row is what the increment and
\* the transition sharing one transaction rule out (record_failure).
THEOREM RowAlwaysConsistent == Spec => []RowConsistent
<1>1. Init => RowConsistent
  BY PolicyAssumption DEF Init, RowConsistent, FreshRow
<1>2. TypeOK /\ RowConsistent /\ [Next]_vars => RowConsistent'
  <2> SUFFICES ASSUME TypeOK, RowConsistent, [Next]_vars
               PROVE  RowConsistent'
    OBVIOUS
  <2> USE PolicyAssumption DEF RowConsistent, TypeOK, Row, CircuitState
  <2>k. ASSUME row' = row PROVE RowConsistent'
    BY <2>k
  <2>c. ASSUME row' = Closed(row) PROVE RowConsistent'
    BY <2>c DEF Closed, FreshRow
  <2>l. ASSUME row' = Leased(row), row.cooldown = 0 PROVE RowConsistent'
    <3>1. row'.state = "half_open" /\ row'.cooldown = 0
      BY <2>l DEF Leased
    <3>2. QED
      BY <3>1
  <2>1. ASSUME NEW w \in Worker, Claim(w) PROVE RowConsistent'
    BY <2>1, <2>k, <2>l DEF Claim, CooldownPassed
  <2>2. ASSUME NEW w \in Worker, Reclaim(w) PROVE RowConsistent'
    BY <2>2, <2>k, <2>l DEF Reclaim, LeaseExpired
  <2>3. ASSUME NEW w \in Worker, RecordSuccess(w) PROVE RowConsistent'
    BY <2>3, <2>k, <2>c DEF RecordSuccess
  <2>4. ASSUME NEW w \in Worker, ClearWindow(w) PROVE RowConsistent'
    <3>1. row' = WindowCleared(row)
      BY <2>4 DEF ClearWindow
    <3>2. /\ row'.state = row.state /\ row'.cooldown = row.cooldown
          /\ row'.lease = row.lease /\ row'.failures = 0
      BY <3>1 DEF WindowCleared
    <3>3. QED
      BY <3>2
  <2>5. ASSUME NEW w \in Worker, RecordFailure(w) PROVE RowConsistent'
    <3>1. Counted(row).state = row.state /\ Counted(row).cooldown = row.cooldown
          /\ Counted(row).lease = row.lease
      BY DEF Counted
    <3>2. Counted(row) \in Row
      BY RowTyping
    <3>3. CASE Failed(row) = Counted(row)
      <4>1. row' = Counted(row)
        BY <2>5, <3>3 DEF RecordFailure
      <4>2. row.state = "closed" => Counted(row).failures < Threshold
        <5> SUFFICES ASSUME row.state = "closed", ~(Counted(row).failures < Threshold)
                     PROVE  FALSE
          OBVIOUS
        <5>1. Failed(row) = Opened(Counted(row), Cooldown)
          BY <3>1, <3>2 DEF Failed
        <5>2. Opened(Counted(row), Cooldown).state = "open"
          BY <3>2 DEF Opened
        <5>3. QED
          BY <3>1, <3>3, <5>1, <5>2
      <4>3. QED
        BY <3>1, <4>1, <4>2
    <3>4. CASE Failed(row) = Opened(Counted(row), Cooldown)
      <4>1. /\ Failed(row).state = "open"
            /\ Failed(row).lease = 0
        BY <3>2, <3>4 DEF Opened
      <4>2. QED
        BY <2>5, <4>1 DEF RecordFailure
    <3>5. QED
      BY <3>3, <3>4 DEF Failed
  <2>6. ASSUME NEW w \in Worker, RecordAuthFailure(w) PROVE RowConsistent'
    BY <2>6 DEF RecordAuthFailure, OpenedByAuth, Opened
  <2>7. ASSUME Tick PROVE RowConsistent'
    BY <2>7 DEF Tick, Elapse
  <2>8. QED
    BY <2>k, <2>c, <2>1, <2>2, <2>3, <2>4, <2>5, <2>6, <2>7
       DEF Next, Work, Allows, Return, Reset, Publish, Crash, Boot, CalmChanges, vars
<1>3. QED
  BY <1>1, <1>2, TypeCorrect, PTL DEF Spec

-------------------------------------------------------------------------------
(* One probe at most within its time.  SingleProbe is not inductive: what     *)
(* keeps a second worker out while a probe is young is that the lease, or the *)
(* cooldown of a trip that came after the grant, lasts until it is not.       *)

\* The time a probe is given is that of the lease or of a cooldown, whichever is shortest.
LEMMA PatienceIsShortest ==
  Patience \in Nat \ {0} /\ Patience <= Lease /\ Patience <= Cooldown /\ Patience <= AuthCooldown
<1> DEFINE limits == {Lease, Cooldown, AuthCooldown}
<1>1. \E p \in limits : \A q \in limits : p <= q
  BY PolicyAssumption
<1>2. Patience \in limits /\ \A q \in limits : Patience <= q
  BY <1>1 DEF Patience
<1>3. QED
  BY <1>2, PolicyAssumption

\* Where a call in flight can be, and that its age starts at its grant.
CallShape ==
  \A w \in Worker : /\ probe[w] => pc[w] \in {"publish", "calling"}
                    /\ ~InFlight(w) => age[w] = 0

\* What is left of the lease, or of the cooldown, lasts until every probe has had its time.
RowOutlastsProbes ==
  \A w \in Worker : probe[w] =>
    /\ row.state = "half_open" => row.lease + age[w] >= Patience
    /\ row.state = "open" => row.cooldown + age[w] >= Patience

ProbeInv == SingleProbe /\ CallShape /\ RowOutlastsProbes

LEMMA ProbeInvInit == Init => ProbeInv
BY DEF Init, ProbeInv, SingleProbe, Probing, CallShape, RowOutlastsProbes, InFlight

\* A step of a granted call, or of time, keeps the shape of calls in flight.
LEMMA CallShapeStep == TypeOK /\ CallShape /\ [Next]_vars => CallShape'
<1> SUFFICES ASSUME TypeOK, CallShape, [Next]_vars
             PROVE  CallShape'
  OBVIOUS
<1> USE DEF TypeOK, CallShape, InFlight, Goto, ThenPublish
<1>1. ASSUME NEW w \in Worker, Allows(w) PROVE CallShape'
  BY <1>1 DEF Allows
<1>2. ASSUME NEW w \in Worker, Claim(w) PROVE CallShape'
  BY <1>2 DEF Claim
<1>3. ASSUME NEW w \in Worker, Reclaim(w) PROVE CallShape'
  BY <1>3 DEF Reclaim
<1>4. ASSUME NEW w \in Worker, Return(w) PROVE CallShape'
  BY <1>4 DEF Return
<1>5. ASSUME NEW w \in Worker, RecordSuccess(w) PROVE CallShape'
  BY <1>5 DEF RecordSuccess
<1>6. ASSUME NEW w \in Worker, ClearWindow(w) PROVE CallShape'
  BY <1>6 DEF ClearWindow
<1>7. ASSUME NEW w \in Worker, RecordFailure(w) PROVE CallShape'
  BY <1>7 DEF RecordFailure
<1>8. ASSUME NEW w \in Worker, RecordAuthFailure(w) PROVE CallShape'
  BY <1>8 DEF RecordAuthFailure
<1>9. ASSUME NEW w \in Worker, Reset(w) PROVE CallShape'
  BY <1>9 DEF Reset
<1>10. ASSUME NEW w \in Worker, Publish(w) PROVE CallShape'
  BY <1>10 DEF Publish
<1>11. ASSUME NEW w \in Worker, Crash(w) PROVE CallShape'
  BY <1>11 DEF Crash
<1>12. ASSUME NEW w \in Worker, Boot(w) PROVE CallShape'
  BY <1>12 DEF Boot
<1>13. ASSUME Tick PROVE CallShape'
  BY <1>13 DEF Tick
<1>14. CASE CalmChanges
  BY <1>14 DEF CalmChanges
<1>15. CASE UNCHANGED vars
  BY <1>15 DEF vars
<1>16. QED
  BY <1>1, <1>2, <1>3, <1>4, <1>5, <1>6, <1>7, <1>8, <1>9, <1>10, <1>11, <1>12,
     <1>13, <1>14, <1>15 DEF Next, Work

\* Every probe in flight has had its time when a claim or a re-claim succeeds.
LEMMA GrantFindsNoProbe ==
  ASSUME TypeOK, RowOutlastsProbes, CooldownPassed(row) \/ LeaseExpired(row)
  PROVE  Probing = {} /\ \A w \in Worker : probe[w] => age[w] >= Patience
<1>1. \A w \in Worker : age[w] \in Nat
  BY CallAssumption DEF TypeOK
<1>2. ASSUME NEW w \in Worker, probe[w] PROVE age[w] >= Patience
  BY <1>1, <1>2 DEF RowOutlastsProbes, CooldownPassed, LeaseExpired
<1>3. QED
  BY <1>1, <1>2, PatienceIsShortest DEF Probing

\* A statement that opens or closes the row, and every step that leaves it, keeps
\* the row outlasting the probes that stay in flight.
LEMMA OutlastsStep ==
  ASSUME TypeOK, ProbeInv,
         \A w \in Worker : probe'[w] => probe[w] /\ age'[w] = age[w],
         \/ row' = row \/ row' = Closed(row) \/ row' = WindowCleared(row)
         \/ row' = Failed(row) \/ row' = OpenedByAuth(row)
  PROVE  RowOutlastsProbes'
<1>p. Patience' = Patience
  BY DEF Patience
<1> USE <1>p, PatienceIsShortest, PolicyAssumption, CallAssumption
        DEF RowOutlastsProbes, ProbeInv
<1>1. row \in Row /\ \A w \in Worker : age[w] \in Nat
  BY DEF TypeOK
<1>2. CASE row' = row
  BY <1>2
<1>3. CASE row' = Closed(row)
  BY <1>3 DEF Closed, FreshRow
<1>4. CASE row' = WindowCleared(row)
  <2>1. row'.state = row.state /\ row'.cooldown = row.cooldown /\ row'.lease = row.lease
    BY <1>1, <1>4 DEF WindowCleared, Row
  <2>2. QED
    BY <2>1
<1>5. CASE row' = Failed(row)
  <2>1. Counted(row) \in Row
    BY <1>1, RowTyping
  <2>2. CASE Failed(row) = Counted(row)
    <3>1. row'.state = row.state /\ row'.cooldown = row.cooldown /\ row'.lease = row.lease
      BY <1>1, <1>5, <2>2 DEF Counted, Row
    <3>2. QED
      BY <3>1
  <2>3. CASE Failed(row) = Opened(Counted(row), Cooldown)
    <3>1. row'.state = "open" /\ row'.cooldown = Cooldown
      BY <1>5, <2>1, <2>3 DEF Opened, Row
    <3>2. QED
      BY <1>1, <3>1
  <2>4. QED
    BY <2>2, <2>3 DEF Failed
<1>6. CASE row' = OpenedByAuth(row)
  <2>1. row'.state = "open" /\ row'.cooldown = AuthCooldown
    BY <1>1, <1>6 DEF OpenedByAuth, Opened, Row
  <2>2. QED
    BY <1>1, <2>1
<1>7. QED
  BY <1>2, <1>3, <1>4, <1>5, <1>6

\* The winner of a claim or a re-claim becomes the only young probe, under a fresh lease.
LEMMA GrantStep ==
  ASSUME TypeOK, ProbeInv, NEW w \in Worker,
         CooldownPassed(row) \/ LeaseExpired(row),
         pc[w] \in {"claim", "reclaim"},
         row' = Leased(row), probe' = [probe EXCEPT ![w] = TRUE], age' = age
  PROVE  SingleProbe' /\ RowOutlastsProbes' /\ Probing' = {w}
<1> USE DEF ProbeInv
<1>p. Patience' = Patience /\ Patience \in Nat \ {0} /\ Patience <= Lease
  BY PatienceIsShortest DEF Patience
<1>t. /\ Lease \in Nat /\ \A v \in Worker : age[v] \in Nat
  BY PolicyAssumption, CallAssumption DEF TypeOK
<1>1. \A v \in Worker : probe[v] => age[v] >= Patience
  BY GrantFindsNoProbe
<1>2. \A v \in Worker : probe'[v] <=> (v = w \/ probe[v])
  BY DEF TypeOK
<1>3. age[w] = 0
  BY DEF CallShape, InFlight
<1>4. row'.state = "half_open" /\ row'.lease = Lease
  BY DEF Leased, TypeOK, Row
<1>5. RowOutlastsProbes'
  <2> SUFFICES ASSUME NEW v \in Worker, probe'[v]
               PROVE  row'.lease + age'[v] >= Patience'
    BY <1>4 DEF RowOutlastsProbes
  <2>1. CASE v = w
    BY <2>1, <1>3, <1>4, <1>p, <1>t
  <2>2. CASE probe[v]
    BY <2>2, <1>1, <1>4, <1>p, <1>t
  <2>3. QED
    BY <2>1, <2>2, <1>2
<1>6. Probing' = {w}
  <2>1. \A v \in Worker : v \in Probing' <=> (probe'[v] /\ age[v] < Patience)
    BY <1>p DEF Probing
  <2>2. w \in Probing'
    BY <2>1, <1>2, <1>3, <1>p
  <2>3. ASSUME NEW v \in Worker, v \in Probing' PROVE v = w
    BY <2>1, <2>3, <1>1, <1>2, <1>p, <1>t
  <2>4. Probing' \subseteq Worker
    BY DEF Probing
  <2>5. QED
    BY <2>2, <2>3, <2>4
<1>7. QED
  BY <1>5, <1>6 DEF SingleProbe

\* A probe that returns, dies or grows old leaves the young ones fewer.
LEMMA FewerProbes ==
  ASSUME ProbeInv, Probing' \subseteq Probing
  PROVE  SingleProbe' /\ (Probing' = Probing \/ Probing' = {})
BY DEF ProbeInv, SingleProbe

\* A worker leaves its call: nobody becomes a probe, and nobody grows younger.
LEMMA CallEnds ==
  ASSUME TypeOK, NEW w \in Worker, probe' = [probe EXCEPT ![w] = FALSE], age' = [age EXCEPT ![w] = 0]
  PROVE  /\ \A v \in Worker : probe'[v] => probe[v] /\ age'[v] = age[v]
         /\ Probing' \subseteq Probing
<1>1. \A v \in Worker : probe'[v] => probe[v] /\ age'[v] = age[v]
  BY DEF TypeOK
<1>2. Patience' = Patience
  BY DEF Patience
<1>3. QED
  BY <1>1, <1>2 DEF Probing

\* Time only makes the probes older.
LEMMA TimeEndsProbes ==
  ASSUME TypeOK, Tick
  PROVE  Probing' \subseteq Probing
<1>1. Patience' = Patience /\ Patience \in Nat /\ probe' = probe
  BY PatienceIsShortest DEF Patience, Tick
<1>2. \A w \in Worker : age[w] \in Nat /\ age'[w] \in Nat /\ age'[w] >= age[w]
  BY CallAssumption DEF TypeOK, Tick
<1>3. QED
  BY <1>1, <1>2 DEF Probing

\* Nobody's call begins, ends or ages.
LEMMA SameProbes ==
  ASSUME probe' = probe, age' = age
  PROVE  Probing' = Probing
BY DEF Probing, Patience

LEMMA ProbeInvStep ==
  TypeOK /\ ProbeInv /\ [Next]_vars => SingleProbe' /\ RowOutlastsProbes'
<1> SUFFICES ASSUME TypeOK, ProbeInv, [Next]_vars
             PROVE  SingleProbe' /\ RowOutlastsProbes'
  OBVIOUS
<1>k. ASSUME probe' = probe, age' = age,
             \/ row' = row \/ row' = Closed(row) \/ row' = WindowCleared(row)
             \/ row' = Failed(row) \/ row' = OpenedByAuth(row)
      PROVE  SingleProbe' /\ RowOutlastsProbes'
  BY <1>k, SameProbes, FewerProbes, OutlastsStep
<1>e. ASSUME NEW w \in Worker, probe' = [probe EXCEPT ![w] = FALSE],
             age' = [age EXCEPT ![w] = 0], row' = row
      PROVE  SingleProbe' /\ RowOutlastsProbes'
  BY <1>e, CallEnds, FewerProbes, OutlastsStep
<1>1. ASSUME NEW w \in Worker, Claim(w) PROVE SingleProbe' /\ RowOutlastsProbes'
  BY <1>1, <1>k, GrantStep DEF Claim
<1>2. ASSUME NEW w \in Worker, Reclaim(w) PROVE SingleProbe' /\ RowOutlastsProbes'
  BY <1>2, <1>k, GrantStep DEF Reclaim
<1>3. ASSUME NEW w \in Worker, Return(w) \/ Crash(w)
      PROVE  SingleProbe' /\ RowOutlastsProbes'
  BY <1>3, <1>e DEF Return, Crash
<1>4. ASSUME Tick PROVE SingleProbe' /\ RowOutlastsProbes'
  <2>1. probe' = probe /\ row' = Elapse(row)
    BY <1>4 DEF Tick
  <2>2. \A w \in Worker : probe[w] => age'[w] = age[w] + 1
    BY <1>4 DEF Tick, InFlight
  <2>3. /\ row'.state = row.state
        /\ row.cooldown > 0 => row'.cooldown = row.cooldown - 1
        /\ row.cooldown = 0 => row'.cooldown = 0
        /\ row.lease > 0 => row'.lease = row.lease - 1
        /\ row.lease = 0 => row'.lease = 0
    BY <2>1 DEF Elapse, TypeOK, Row
  <2>4. /\ row.cooldown \in Nat /\ row.lease \in Nat /\ \A w \in Worker : age[w] \in Nat
        /\ Patience' = Patience /\ Patience \in Nat
    BY PolicyAssumption, CallAssumption, PatienceIsShortest DEF TypeOK, Row, Patience
  <2>5. ASSUME NEW w \in Worker, probe[w]
        PROVE  /\ row'.state = "half_open" => row'.lease + age'[w] >= Patience
               /\ row'.state = "open" => row'.cooldown + age'[w] >= Patience
    BY <2>2, <2>3, <2>4, <2>5 DEF ProbeInv, RowOutlastsProbes
  <2>6. RowOutlastsProbes'
    BY <2>1, <2>4, <2>5 DEF RowOutlastsProbes
  <2>7. QED
    BY <2>6, <1>4, TimeEndsProbes, FewerProbes
<1>5. QED
  BY <1>k, <1>1, <1>2, <1>3, <1>4
     DEF Next, Work, Allows, RecordSuccess, ClearWindow, RecordFailure,
         RecordAuthFailure, Reset, Publish, Boot, CalmChanges, vars

\* For every lease, cooldown and length of a call, a second probe is let in only after the
\* first has had the time of a lease or of a cooldown, whichever is shortest (allows()).
THEOREM AtMostOneProbe == Spec => []SingleProbe
<1>1. Init => ProbeInv
  BY ProbeInvInit
<1>2. TypeOK /\ ProbeInv /\ [Next]_vars => ProbeInv'
  BY CallShapeStep, ProbeInvStep DEF ProbeInv
<1>3. ProbeInv => SingleProbe
  BY DEF ProbeInv
<1>4. QED
  BY <1>1, <1>2, <1>3, TypeCorrect, PTL DEF Spec

\* Where no call outlives that time, no second probe is let in at all.  The premise is not one
\* the code provides: its lease is the default timeout of a call, and the wait for the
\* concurrency gate comes on top of it.
THEOREM OneProbeInFlight ==
  CallTicks < Patience => (Spec => [](\A v, w \in Worker : probe[v] /\ probe[w] => v = w))
<1> DEFINE OneProbe == \A v, w \in Worker : probe[v] /\ probe[w] => v = w
<1> SUFFICES ASSUME CallTicks < Patience PROVE Spec => []OneProbe
  OBVIOUS
<1>1. TypeOK /\ SingleProbe => OneProbe
  <2> SUFFICES ASSUME TypeOK, SingleProbe, NEW v \in Worker, NEW w \in Worker, probe[v], probe[w]
               PROVE  v = w
    OBVIOUS
  <2>1. v \in Probing /\ w \in Probing
    BY CallAssumption, PatienceIsShortest DEF TypeOK, Probing
  <2>2. QED
    BY <2>1 DEF SingleProbe
<1>2. QED
  BY <1>1, TypeCorrect, AtMostOneProbe, PTL

-------------------------------------------------------------------------------
(* The interleaved statements implement the atomic breaker.                  *)

LEMMA BreakerStep ==
  ASSUME TypeOK, ProbeInv, [Next]_vars
  PROVE  [B!Next]_(B!vars)
<1> USE DEF B!Next, B!vars
<1>t. row \in Row /\ row.state \in CircuitState
  BY DEF TypeOK, Row
<1>k. ASSUME row'.state = row.state, probe' = probe, age' = age PROVE [B!Next]_(B!vars)
  BY <1>k, SameProbes
<1>c. ASSUME row' = Closed(row), probe' = probe, age' = age PROVE [B!Next]_(B!vars)
  <2>1. row'.state = "closed"
    BY <1>c DEF Closed, FreshRow
  <2>2. QED
    BY <2>1, <1>c, SameProbes DEF B!Close
<1>o. ASSUME row'.state = "open", probe' = probe, age' = age PROVE [B!Next]_(B!vars)
  BY <1>o, SameProbes DEF B!Trip
<1>g. ASSUME NEW w \in Worker, CooldownPassed(row) \/ LeaseExpired(row),
             pc[w] \in {"claim", "reclaim"},
             row' = Leased(row), probe' = [probe EXCEPT ![w] = TRUE], age' = age
      PROVE  [B!Next]_(B!vars)
  <2>1. Probing = {}
    BY <1>g, GrantFindsNoProbe DEF ProbeInv
  <2>2. Probing' = {w}
    BY <1>g, GrantStep
  <2>3. row'.state = "half_open"
    BY <1>g, <1>t DEF Leased, Row
  <2>4. row.state \in {"open", "half_open"}
    BY <1>g DEF CooldownPassed, LeaseExpired
  <2>5. B!GrantProbe(w)
    BY <2>1, <2>2, <2>3, <2>4 DEF B!GrantProbe
  <2>6. QED
    BY <2>5
<1>f. ASSUME row'.state = row.state, Probing' \subseteq Probing PROVE [B!Next]_(B!vars)
  <2>1. Probing' = Probing \/ Probing' = {}
    BY <1>f, FewerProbes
  <2>2. QED
    BY <2>1, <1>f DEF B!EndProbe
<1>1. ASSUME NEW w \in Worker, Claim(w) PROVE [B!Next]_(B!vars)
  BY <1>1, <1>g, <1>k DEF Claim
<1>2. ASSUME NEW w \in Worker, Reclaim(w) PROVE [B!Next]_(B!vars)
  BY <1>2, <1>g, <1>k DEF Reclaim
<1>3. ASSUME NEW w \in Worker, Return(w) \/ Crash(w) PROVE [B!Next]_(B!vars)
  BY <1>3, <1>f, CallEnds DEF Return, Crash
<1>4. ASSUME NEW w \in Worker, RecordSuccess(w) \/ Reset(w) PROVE [B!Next]_(B!vars)
  BY <1>4, <1>c, <1>k DEF RecordSuccess, Reset
<1>5. ASSUME NEW w \in Worker, ClearWindow(w) PROVE [B!Next]_(B!vars)
  <2>1. row'.state = row.state /\ probe' = probe /\ age' = age
    BY <1>5, <1>t DEF ClearWindow, WindowCleared, Row
  <2>2. QED
    BY <2>1, <1>k
<1>6. ASSUME NEW w \in Worker, RecordFailure(w) PROVE [B!Next]_(B!vars)
  <2>1. row' = Failed(row) /\ probe' = probe /\ age' = age
    BY <1>6 DEF RecordFailure
  <2>2. Counted(row) \in Row /\ Counted(row).state = row.state
    BY <1>t, RowTyping DEF Counted, Row
  <2>3. Opened(Counted(row), Cooldown).state = "open"
    BY <2>2 DEF Opened, Row
  <2>4. row'.state = "open" \/ row'.state = row.state
    BY <2>1, <2>2, <2>3 DEF Failed
  <2>5. QED
    BY <2>1, <2>4, <1>k, <1>o
<1>7. ASSUME NEW w \in Worker, RecordAuthFailure(w) PROVE [B!Next]_(B!vars)
  <2>1. row'.state = "open" /\ probe' = probe /\ age' = age
    BY <1>7, <1>t DEF RecordAuthFailure, OpenedByAuth, Opened, Row
  <2>2. QED
    BY <2>1, <1>o
<1>8. ASSUME Tick PROVE [B!Next]_(B!vars)
  <2>1. row'.state = row.state
    BY <1>8, <1>t DEF Tick, Elapse, Row
  <2>2. QED
    BY <2>1, <1>8, <1>f, TimeEndsProbes
<1>9. QED
  BY <1>k, <1>1, <1>2, <1>3, <1>4, <1>5, <1>6, <1>7, <1>8
     DEF Next, Work, Allows, Publish, Boot, CalmChanges, vars

\* The row protocol implements the atomic breaker: reading and claiming in two
\* statements, recording out of order, dying in between and a call that outlives its
\* lease are all stutters or steps of Breaker, and a probe is granted only while nobody
\* else is within the time of his.
THEOREM CircuitImplementsBreaker == Spec => ImplementsBreaker
<1> SUFFICES Spec => B!Spec
  BY DEF ImplementsBreaker
<1>1. Init => B!Init
  BY DEF Init, B!Init, FreshRow, Probing
<1>2. TypeOK /\ ProbeInv /\ [Next]_vars => [B!Next]_(B!vars)
  BY BreakerStep
<1>3. Init => ProbeInv
  BY ProbeInvInit
<1>4. TypeOK /\ ProbeInv /\ [Next]_vars => ProbeInv'
  BY CallShapeStep, ProbeInvStep DEF ProbeInv
<1>5. QED
  BY <1>1, <1>2, <1>3, <1>4, TypeCorrect, PTL DEF Spec, B!Spec

-------------------------------------------------------------------------------
(* THE OUTBOX.  The inductive invariant.                                     *)

\* The shape of a round; what it is told of, it is told of a row it holds.
Rounds == [pc: {"home", "close", "list", "ask", "write"}, cutoff: Nat, rows: SUBSET Message,
           told: SUBSET [row: Message, word: {"queued", "delivered"}]]
RoundShape ==
  /\ poll \in [Poller -> Rounds]
  /\ \A p \in Poller : \A t \in poll[p].told : t.row \in poll[p].rows

\* Between its two SELECTs and outside of a round, a poll holds no row, and it is told
\* something only when it is about to write it.
HoldsNothing ==
  \A p \in Poller : /\ poll[p].pc \in {"home", "list"} => poll[p].rows = {}
                    /\ poll[p].pc # "write" => poll[p].told = {}

\* A row that a round holds is still as its SELECT found it, or somebody crossed the round.
HeldQueuedOrCrossed ==
  \A p \in Poller : \A m \in poll[p].rows : status[m] = "queued" \/ <<p, m>> \in crossed

\* Only a round that holds the row is excused.
CrossedHolds == \A p \in Poller, m \in Message : <<p, m>> \in crossed => m \in poll[p].rows

OutboxIInv ==
  /\ Outbox!TypeOK
  /\ RoundShape
  /\ HoldsNothing
  /\ HeldQueuedOrCrossed
  /\ CrossedHolds

-------------------------------------------------------------------------------
(* Lemmas on what a SELECT returns.                                          *)

\* Finiteness and size of a set mean the same in the outbox's module as here.
LEMMA SameSize ==
  /\ \A S : Outbox!Cardinality(S) = Cardinality(S)
  /\ \A S : Outbox!IsFiniteSet(S) <=> IsFiniteSet(S)
<1>1. \A S : Outbox!Cardinality(S) = Cardinality(S)
  BY DEF Outbox!Cardinality, Cardinality
<1>2. \A S : Outbox!IsFiniteSet(S) <=> IsFiniteSet(S)
  BY DEF Outbox!IsFiniteSet, IsFiniteSet
<1> QED BY <1>1, <1>2

\* A round takes rows the SELECT asked for, and Limit of them at most.
LEMMA Selected ==
  ASSUME Outbox!OutboxAssumption, NEW rows \in SUBSET Message
  PROVE  /\ \A s \in Outbox!AnyOf(rows) : s \subseteq rows /\ Cardinality(s) =< Limit
         /\ \A s \in Outbox!Oldest(rows) : s \subseteq rows /\ Cardinality(s) =< Limit
<1>1. Cardinality(rows) \in Nat /\ Limit \in Nat
  <2>1. IsFiniteSet(rows)
    BY SameSize, FS_Subset DEF Outbox!OutboxAssumption
  <2>2. QED
    BY <2>1, FS_CardinalityType DEF Outbox!OutboxAssumption
<1>2. (IF Cardinality(rows) < Limit THEN Cardinality(rows) ELSE Limit) =< Limit
  BY <1>1
<1>3. QED
  BY SameSize, <1>2 DEF Outbox!AnyOf, Outbox!Oldest

\* A part of what a round holds is not more than it held.
LEMMA FewerRows ==
  ASSUME Outbox!OutboxAssumption, NEW rows \in SUBSET Message, Cardinality(rows) =< Limit,
         NEW fewer \in SUBSET rows
  PROVE  Cardinality(fewer) =< Limit
<1>1. IsFiniteSet(rows)
  BY SameSize, FS_Subset DEF Outbox!OutboxAssumption
<1>2. IsFiniteSet(fewer) /\ Cardinality(fewer) =< Cardinality(rows)
  BY <1>1, FS_Subset
<1>3. Cardinality(rows) \in Nat /\ Cardinality(fewer) \in Nat /\ Limit \in Nat
  BY <1>1, <1>2, FS_CardinalityType DEF Outbox!OutboxAssumption
<1>4. QED
  BY <1>2, <1>3

-------------------------------------------------------------------------------
(* What a step of one round does to the others.                              *)

\* What type correctness says of one round.
Typed(r) ==
  /\ r.pc \in {"home", "close", "list", "ask", "write"}
  /\ r.cutoff \in Nat /\ r.cutoff =< now
  /\ r.rows \subseteq Message /\ Cardinality(r.rows) =< Limit
  /\ r.told \subseteq [row : r.rows, word : {"queued", "delivered"}]
  /\ Cardinality(r.told) = IF r.pc = "write" THEN 1 ELSE 0
  /\ r.pc \in {"home", "list"} => r.rows = {}
  /\ r.pc # "write" => r.told = {}

\* A round is typed in every state the invariant allows.
LEMMA RoundTyping ==
  ASSUME Outbox!OutboxAssumption, OutboxIInv, NEW p \in Poller
  PROVE  Typed(poll[p]) /\ now \in Nat
<1>1. now \in Nat /\ poll[p].cutoff \in 0..now
  BY DEF OutboxIInv, Outbox!TypeOK, Outbox!MaxNow, Outbox!OutboxAssumption
<1>2. QED
  BY SameSize, <1>1 DEF Typed, OutboxIInv, Outbox!TypeOK, RoundShape, Rounds, HoldsNothing

\* A step of one round that leaves it typed keeps the shape of all of them.
LEMMA RoundSteps ==
  ASSUME Outbox!OutboxAssumption, OutboxIInv, NEW p \in Poller,
         poll' \in [Poller -> Rounds], Typed(poll'[p]),
         \A q \in Poller \ {p} : poll'[q] = poll[q],
         now' = now, created' = created, status' \in [Message -> Outbox!Status],
         arrived' \subseteq {m \in Message : status'[m] # "none"},
         crossed' \subseteq Poller \X Message
  PROVE  Outbox!TypeOK' /\ RoundShape' /\ HoldsNothing'
<1>1. \A q \in Poller : Typed(poll[q])
  BY RoundTyping
<1>2. \A q \in Poller : Typed(poll'[q])
  BY <1>1
<1>3. now \in Nat /\ now \in 0..Outbox!MaxNow
  BY DEF OutboxIInv, Outbox!TypeOK, Outbox!MaxNow, Outbox!OutboxAssumption
<1>4. Outbox!TypeOK'
  <2>1. \A q \in Poller : poll'[q].cutoff \in 0..now
    BY <1>2, <1>3 DEF Typed
  <2>2. QED
    BY SameSize, <1>2, <1>3, <2>1 DEF Typed, Outbox!TypeOK, OutboxIInv
<1>5. RoundShape'
  BY <1>2 DEF Typed, RoundShape
<1>6. HoldsNothing'
  BY <1>2 DEF Typed, HoldsNothing
<1>7. QED
  BY <1>4, <1>5, <1>6

-------------------------------------------------------------------------------
(* The invariant is inductive.                                               *)

\* The first state satisfies the invariant.
LEMMA OutboxInit == ASSUME Outbox!OutboxAssumption PROVE Outbox!Init => OutboxIInv
<1> SUFFICES ASSUME Outbox!Init PROVE OutboxIInv
  OBVIOUS
<1>1. Cardinality({}) = 0 /\ 0 \in 0..LastSend /\ 0 \in 0..Outbox!MaxNow /\ 0 =< Limit /\ 0 \in 0..0
  BY FS_EmptySet DEF Outbox!OutboxAssumption, Outbox!MaxNow
<1>2. \A p \in Poller : poll[p] = Outbox!Home
  BY DEF Outbox!Init
<1>3. /\ Outbox!Home.pc = "home" /\ Outbox!Home.cutoff = 0 /\ Outbox!Home.rows = {} /\ Outbox!Home.told = {}
  BY DEF Outbox!Home
<1>4. Outbox!TypeOK
  BY SameSize, <1>1, <1>2, <1>3 DEF Outbox!Init, Outbox!TypeOK, Outbox!Status
<1>5. RoundShape /\ HoldsNothing /\ HeldQueuedOrCrossed /\ CrossedHolds
  BY <1>2, <1>3 DEF Outbox!Init, Outbox!Home, RoundShape, Rounds, HoldsNothing,
     HeldQueuedOrCrossed, CrossedHolds
<1>6. QED
  BY <1>4, <1>5 DEF OutboxIInv

\* Every step keeps the invariant.
LEMMA OutboxStep == ASSUME Outbox!OutboxAssumption PROVE OutboxIInv /\ [Outbox!Next]_(Outbox!vars) => OutboxIInv'
<1> SUFFICES ASSUME OutboxIInv, [Outbox!Next]_(Outbox!vars) PROVE OutboxIInv'
  OBVIOUS
<1>a. Outbox!TypeOK /\ RoundShape /\ HoldsNothing /\ HeldQueuedOrCrossed /\ CrossedHolds
  BY DEF OutboxIInv
<1>n. /\ now \in Nat /\ now \in 0..Outbox!MaxNow /\ Outbox!MaxNow \in Nat /\ LastSend \in Nat /\ PollWindow \in Nat
      /\ Limit \in Nat /\ Cardinality({}) = 0
      /\ status \in [Message -> Outbox!Status] /\ arrived \subseteq {m \in Message : status[m] # "none"}
      /\ crossed \subseteq Poller \X Message
  BY <1>a, FS_EmptySet DEF Outbox!TypeOK, Outbox!MaxNow, Outbox!OutboxAssumption
<1>r. \A p \in Poller : Typed(poll[p])
  BY RoundTyping
<1>1. ASSUME Outbox!Tick
      PROVE  OutboxIInv'
  <2>1. now + 1 \in 0..Outbox!MaxNow /\ now' = now + 1 /\ poll' = poll
    BY <1>1, <1>n DEF Outbox!Tick
  <2>2. \A p \in Poller : poll[p].cutoff \in 0..(now + 1)
    BY <1>n, <1>r DEF Typed
  <2>3. Outbox!TypeOK'
    BY <1>1, <1>a, <2>1, <2>2 DEF Outbox!Tick, Outbox!TypeOK, Outbox!MaxNow
  <2>4. QED
    BY <1>1, <1>a, <2>3
       DEF Outbox!Tick, OutboxIInv, RoundShape, HoldsNothing, HeldQueuedOrCrossed, CrossedHolds
<1>2. ASSUME NEW m \in Message, Outbox!Record(m)
      PROVE  OutboxIInv'
  <2>1. PICK s \in {"queued", "unknown"} : status' = [status EXCEPT ![m] = s]
    BY <1>2 DEF Outbox!Record
  <2>2. /\ status' \in [Message -> Outbox!Status] /\ status[m] = "none"
        /\ \A k \in Message \ {m} : status'[k] = status[k]
        /\ created' \in [Message -> 0..LastSend]
        /\ UNCHANGED <<arrived, poll, now, crossed>>
    BY <1>2, <1>a, <1>n, <2>1 DEF Outbox!Record, Outbox!TypeOK, Outbox!Status
  <2>3. Outbox!TypeOK'
    BY <1>a, <1>n, <2>1, <2>2 DEF Outbox!TypeOK
  <2>4. HeldQueuedOrCrossed'
    BY <1>a, <1>r, <2>2 DEF HeldQueuedOrCrossed, Typed
  <2>5. QED
    BY <1>a, <2>2, <2>3, <2>4 DEF OutboxIInv, RoundShape, HoldsNothing, CrossedHolds
<1>3. ASSUME NEW m \in Message, Outbox!Arrive(m)
      PROVE  OutboxIInv'
  <2>1. Outbox!TypeOK'
    BY <1>3, <1>a DEF Outbox!Arrive, Outbox!TypeOK
  <2>2. QED
    BY <1>3, <1>a, <2>1
       DEF Outbox!Arrive, OutboxIInv, RoundShape, HoldsNothing, HeldQueuedOrCrossed, CrossedHolds
<1>4. ASSUME NEW p \in Poller, Outbox!Begin(p)
      PROVE  OutboxIInv'
  <2>1. PICK s \in Outbox!AnyOf(Outbox!Expired(now)) :
          poll' = [poll EXCEPT ![p] = [Outbox!Home EXCEPT !.pc = "close", !.cutoff = now, !.rows = s]]
    BY <1>4 DEF Outbox!Begin
  <2>2. s \subseteq Outbox!Expired(now) /\ s \subseteq Message /\ Cardinality(s) =< Limit
    BY Selected DEF Outbox!Expired
  <2>3. /\ poll' \in [Poller -> Rounds]
        /\ \A q \in Poller \ {p} : poll'[q] = poll[q]
        /\ poll'[p].pc = "close" /\ poll'[p].cutoff = now
        /\ poll'[p].rows = s /\ poll'[p].told = {}
    BY <1>a, <1>n, <2>1, <2>2 DEF Outbox!Home, RoundShape, Rounds
  <2>4. Typed(poll'[p])
    BY <1>n, <2>2, <2>3 DEF Typed
  <2>5. Outbox!TypeOK' /\ RoundShape' /\ HoldsNothing'
    BY <1>4, <1>n, <2>3, <2>4, RoundSteps DEF Outbox!Begin
  <2>6. poll[p].rows = {}
    BY <1>4, <1>a DEF HoldsNothing, Outbox!Begin
  <2>7. HeldQueuedOrCrossed' /\ CrossedHolds'
    BY <1>4, <1>a, <2>2, <2>3, <2>6 DEF Outbox!Begin, HeldQueuedOrCrossed, CrossedHolds,
       Outbox!Expired
  <2>8. QED
    BY <2>5, <2>7 DEF OutboxIInv
<1>5. ASSUME NEW p \in Poller, Outbox!Close(p)
      PROVE  OutboxIInv'
  <2>1. /\ poll' \in [Poller -> Rounds]
        /\ \A q \in Poller \ {p} : poll'[q] = poll[q]
        /\ poll'[p].pc = "list" /\ poll'[p].cutoff = poll[p].cutoff
        /\ poll'[p].rows = {} /\ poll'[p].told = {}
    BY <1>5, <1>a DEF Outbox!Close, HoldsNothing, RoundShape, Rounds
  <2>2. Typed(poll'[p])
    BY <1>n, <1>r, <2>1 DEF Typed
  <2>3. \A m \in Message : status'[m] = IF m \in poll[p].rows THEN "unknown" ELSE status[m]
    BY <1>5 DEF Outbox!Close
  <2>4. \A q \in Poller, m \in Message :
          <<q, m>> \in crossed' <=> q # p /\ \/ <<q, m>> \in crossed
                                             \/ m \in poll[p].rows /\ m \in poll[q].rows
    <3>1. \A q \in Poller, m \in Message :
            <<q, m>> \in UNION {Outbox!Holders(p, k) \X {k} : k \in poll[p].rows}
              <=> m \in poll[p].rows /\ q \in Outbox!Holders(p, m)
      OBVIOUS
    <3>2. QED
      BY <1>5, <3>1 DEF Outbox!Close, Outbox!Holders
  <2>5. crossed' \subseteq Poller \X Message
    BY <1>5, <1>n, <1>r DEF Outbox!Close, Outbox!Holders, Typed
  <2>6. status' \in [Message -> Outbox!Status] /\ arrived' \subseteq {m \in Message : status'[m] # "none"}
    BY <1>5, <1>n, <2>3 DEF Outbox!Close, Outbox!Status
  <2>7. Outbox!TypeOK' /\ RoundShape' /\ HoldsNothing'
    BY <1>5, <2>1, <2>2, <2>5, <2>6, RoundSteps DEF Outbox!Close
  <2>8. HeldQueuedOrCrossed'
    BY <1>a, <1>r, <2>1, <2>3, <2>4 DEF HeldQueuedOrCrossed, Typed
  <2>9. CrossedHolds'
    BY <1>a, <2>1, <2>4 DEF CrossedHolds
  <2>10. QED
    BY <2>7, <2>8, <2>9 DEF OutboxIInv
<1>6. ASSUME NEW p \in Poller, Outbox!List(p)
      PROVE  OutboxIInv'
  <2>1. PICK s \in Outbox!Oldest(Outbox!Open(poll[p].cutoff)) :
          poll' = [poll EXCEPT ![p].pc = "ask", ![p].rows = s]
    BY <1>6 DEF Outbox!List
  <2>2. s \subseteq Outbox!Open(poll[p].cutoff) /\ s \subseteq Message /\ Cardinality(s) =< Limit
    BY Selected DEF Outbox!Open
  <2>h. poll[p].rows = {} /\ poll[p].told = {}
    BY <1>6, <1>a DEF Outbox!List, HoldsNothing
  <2>3. /\ poll' \in [Poller -> Rounds]
        /\ \A q \in Poller \ {p} : poll'[q] = poll[q]
        /\ poll'[p].pc = "ask" /\ poll'[p].cutoff = poll[p].cutoff
        /\ poll'[p].rows = s /\ poll'[p].told = {}
    BY <1>a, <2>1, <2>2, <2>h DEF RoundShape, Rounds
  <2>4. Typed(poll'[p])
    BY <1>n, <1>r, <2>2, <2>3 DEF Typed
  <2>5. Outbox!TypeOK' /\ RoundShape' /\ HoldsNothing'
    BY <1>6, <1>n, <2>3, <2>4, RoundSteps DEF Outbox!List
  <2>6. HeldQueuedOrCrossed' /\ CrossedHolds'
    BY <1>6, <1>a, <2>2, <2>3, <2>h DEF Outbox!List, HeldQueuedOrCrossed, CrossedHolds, Outbox!Open
  <2>7. QED
    BY <2>5, <2>6 DEF OutboxIInv
<1>7. ASSUME NEW p \in Poller, NEW m \in Message, Outbox!Ask(p, m)
      PROVE  OutboxIInv'
  <2> DEFINE t == [row |-> m, word |-> IF m \in arrived THEN "delivered" ELSE "queued"]
  <2>1. t \in [row : poll[p].rows, word : {"queued", "delivered"}]
    BY <1>7 DEF Outbox!Ask
  <2>2. /\ poll' \in [Poller -> Rounds]
        /\ \A q \in Poller \ {p} : poll'[q] = poll[q]
        /\ poll'[p].pc = "write" /\ poll'[p].cutoff = poll[p].cutoff
        /\ poll'[p].rows = poll[p].rows /\ poll'[p].told = {t}
    BY <1>7, <1>a, <1>r, <2>1 DEF Outbox!Ask, RoundShape, Rounds, Typed
  <2>3. Typed(poll'[p])
    <3>1. Cardinality({t}) = 1
      BY FS_Singleton
    <3>2. {t} \subseteq [row : poll[p].rows, word : {"queued", "delivered"}]
      BY <2>1
    <3> HIDE DEF t
    <3>3. QED
      BY <1>r, <2>2, <3>1, <3>2 DEF Typed
  <2>4. Outbox!TypeOK' /\ RoundShape' /\ HoldsNothing'
    BY <1>7, <1>n, <2>2, <2>3, RoundSteps DEF Outbox!Ask
  <2>5. HeldQueuedOrCrossed' /\ CrossedHolds'
    BY <1>7, <1>a, <2>2 DEF Outbox!Ask, HeldQueuedOrCrossed, CrossedHolds
  <2>6. QED
    BY <2>4, <2>5 DEF OutboxIInv
<1>8. ASSUME NEW p \in Poller, NEW m \in Message, Outbox!Unanswered(p, m)
      PROVE  OutboxIInv'
  <2> DEFINE left == poll[p].rows \ {m}
  <2>1. /\ poll' \in [Poller -> Rounds]
        /\ \A q \in Poller \ {p} : poll'[q] = poll[q]
        /\ poll'[p].pc = "ask" /\ poll'[p].cutoff = poll[p].cutoff
        /\ poll'[p].rows = left /\ poll'[p].told = {}
    BY <1>8, <1>a DEF Outbox!Unanswered, HoldsNothing, RoundShape, Rounds
  <2>2. Typed(poll'[p])
    BY <1>n, <1>r, <2>1, FewerRows DEF Typed
  <2>3. crossed' = crossed \ {<<p, m>>} /\ crossed' \subseteq Poller \X Message
    BY <1>8, <1>n DEF Outbox!Unanswered
  <2>4. Outbox!TypeOK' /\ RoundShape' /\ HoldsNothing'
    BY <1>8, <1>n, <2>1, <2>2, <2>3, RoundSteps DEF Outbox!Unanswered
  <2>5. HeldQueuedOrCrossed' /\ CrossedHolds'
    BY <1>8, <1>a, <2>1, <2>3 DEF Outbox!Unanswered, HeldQueuedOrCrossed, CrossedHolds
  <2>6. QED
    BY <2>4, <2>5 DEF OutboxIInv
<1>9. ASSUME NEW p \in Poller, Outbox!Write(p)
      PROVE  OutboxIInv'
  <2>1. PICK t \in poll[p].told :
          /\ status' = [status EXCEPT ![t.row] = t.word]
          /\ poll' = [poll EXCEPT ![p].pc = "ask", ![p].rows = @ \ {t.row}, ![p].told = {}]
          /\ crossed' = (crossed \ {<<p, t.row>>})
                        \cup IF t.word = "delivered" THEN Outbox!Holders(p, t.row) \X {t.row} ELSE {}
    BY <1>9 DEF Outbox!Write
  <2>2. /\ t.row \in poll[p].rows /\ t.row \in Message /\ t.word \in {"queued", "delivered"}
    BY <1>r DEF Typed
  <2>3. PICK m \in Message, w \in {"queued", "delivered"}, left \in SUBSET poll[p].rows :
          m = t.row /\ w = t.word /\ left = poll[p].rows \ {m}
    BY <2>2
  <2>4. /\ poll' \in [Poller -> Rounds]
        /\ \A q \in Poller \ {p} : poll'[q] = poll[q]
        /\ poll'[p].pc = "ask" /\ poll'[p].cutoff = poll[p].cutoff
        /\ poll'[p].rows = left /\ poll'[p].told = {}
    BY <1>a, <2>1, <2>3 DEF RoundShape, Rounds
  <2>5. Typed(poll'[p])
    BY <1>n, <1>r, <2>4, FewerRows DEF Typed
  <2>6. /\ \A k \in Message : status'[k] = IF k = m THEN w ELSE status[k]
        /\ status' \in [Message -> Outbox!Status]
        /\ arrived' \subseteq {k \in Message : status'[k] # "none"}
    BY <1>9, <1>n, <2>1, <2>3 DEF Outbox!Write, Outbox!Status
  <2>7. /\ \A q \in Poller, k \in Message :
             <<q, k>> \in crossed' <=>
               \/ <<q, k>> \in crossed /\ ~(q = p /\ k = m)
               \/ w = "delivered" /\ k = m /\ q # p /\ m \in poll[q].rows
        /\ crossed' \subseteq Poller \X Message
    BY <1>n, <2>1, <2>3 DEF Outbox!Holders
  <2>8. Outbox!TypeOK' /\ RoundShape' /\ HoldsNothing'
    BY <1>9, <2>4, <2>5, <2>6, <2>7, RoundSteps DEF Outbox!Write
  <2>9. HeldQueuedOrCrossed'
    BY <1>a, <1>r, <2>3, <2>4, <2>6, <2>7 DEF HeldQueuedOrCrossed, Typed
  <2>10. CrossedHolds'
    BY <1>a, <2>3, <2>4, <2>7 DEF CrossedHolds
  <2>11. QED
    BY <2>8, <2>9, <2>10 DEF OutboxIInv
<1>10. ASSUME NEW p \in Poller, Outbox!End(p)
       PROVE  OutboxIInv'
  <2>1. /\ poll' \in [Poller -> Rounds]
        /\ \A q \in Poller \ {p} : poll'[q] = poll[q]
        /\ poll'[p].pc = "home" /\ poll'[p].cutoff = 0
        /\ poll'[p].rows = {} /\ poll'[p].told = {}
    BY <1>10, <1>a DEF Outbox!End, Outbox!Home, RoundShape, Rounds
  <2>2. Typed(poll'[p])
    BY <1>n, <2>1 DEF Typed
  <2>3. crossed' = {c \in crossed : c[1] # p} /\ crossed' \subseteq Poller \X Message
    BY <1>10, <1>n DEF Outbox!End
  <2>4. Outbox!TypeOK' /\ RoundShape' /\ HoldsNothing'
    BY <1>10, <1>n, <2>1, <2>2, <2>3, RoundSteps DEF Outbox!End
  <2>5. HeldQueuedOrCrossed' /\ CrossedHolds'
    BY <1>10, <1>a, <2>1, <2>3 DEF Outbox!End, HeldQueuedOrCrossed, CrossedHolds
  <2>6. QED
    BY <2>4, <2>5 DEF OutboxIInv
<1>11. CASE UNCHANGED Outbox!vars
  BY <1>a, <1>11 DEF Outbox!vars, OutboxIInv, Outbox!TypeOK, RoundShape, HoldsNothing,
     HeldQueuedOrCrossed,
                     CrossedHolds
<1>12. QED
  BY <1>1, <1>2, <1>3, <1>4, <1>5, <1>6, <1>7, <1>8, <1>9, <1>10, <1>11 DEF Outbox!Next, Outbox!Round

\* The invariant holds in every reachable state.
LEMMA OutboxInvariant == ASSUME Outbox!OutboxAssumption PROVE Outbox!Spec => []OutboxIInv
BY OutboxInit, OutboxStep, PTL DEF Outbox!Spec

-------------------------------------------------------------------------------
(* The theorems.                                                             *)

\* Type correctness of every reachable state, with any number of rounds at once: no round
\* holds more rows than it may take, and it is told of one of them at a time.
LEMMA OutboxTypeCorrect == ASSUME Outbox!OutboxAssumption PROVE Outbox!Spec => []Outbox!TypeOK
<1>1. OutboxIInv => Outbox!TypeOK
  BY DEF OutboxIInv
<1>2. QED
  BY <1>1, OutboxInvariant, PTL

\* A delivered message is queued or given up again only by a step of a round that held its
\* row when another round settled it: with one round at a time poll_deliveries() never takes
\* a final word back, although its UPDATEs do not ask for the status they found.
LEMMA OutboxWordsStay == ASSUME Outbox!OutboxAssumption PROVE Outbox!Spec => Outbox!FinalUnlessCrossed
<1> DEFINE Final(m) == status[m] \in {"delivered", "unknown"} /\ status'[m] # status[m]
           Stays == \A m \in Message : Final(m) =>
                      \E p \in Poller : <<p, m>> \in crossed /\ poll'[p] # poll[p]
<1>1. OutboxIInv /\ [Outbox!Next]_(Outbox!vars) => [Stays]_(Outbox!vars)
  <2> SUFFICES ASSUME OutboxIInv, [Outbox!Next]_(Outbox!vars), NEW m \in Message, Final(m)
               PROVE  \E p \in Poller : <<p, m>> \in crossed /\ poll'[p] # poll[p]
    OBVIOUS
  <2>a. /\ HeldQueuedOrCrossed /\ status \in [Message -> Outbox!Status]
        /\ \A p \in Poller : Typed(poll[p])
        /\ \A p \in Poller : /\ poll[p].rows \subseteq Message
                             /\ \A t \in poll[p].told : t.row \in poll[p].rows
    BY RoundTyping DEF OutboxIInv, Outbox!TypeOK, RoundShape, Typed
  <2>1. ASSUME NEW k \in Message, Outbox!Record(k)
        PROVE  FALSE
    BY <2>a, <2>1 DEF Outbox!Record
  <2>2. ASSUME NEW p \in Poller, Outbox!Close(p)
        PROVE  <<p, m>> \in crossed /\ poll'[p] # poll[p]
    <3>1. m \in poll[p].rows /\ status[m] # "queued"
      BY <2>2 DEF Outbox!Close
    <3>2. poll'[p].pc = "list" /\ poll[p].pc = "close"
      BY <2>2 DEF Outbox!Close, OutboxIInv, RoundShape
    <3>3. QED
      BY <2>a, <3>1, <3>2 DEF HeldQueuedOrCrossed
  <2>3. ASSUME NEW p \in Poller, Outbox!Write(p)
        PROVE  <<p, m>> \in crossed /\ poll'[p] # poll[p]
    <3>1. m \in poll[p].rows /\ status[m] # "queued"
      BY <2>a, <2>3 DEF Outbox!Write
    <3>2. poll'[p].pc = "ask" /\ poll[p].pc = "write"
      BY <2>3 DEF Outbox!Write, OutboxIInv, RoundShape
    <3>3. QED
      BY <2>a, <3>1, <3>2 DEF HeldQueuedOrCrossed
  <2>4. status' # status
    OBVIOUS
  <2>5. QED
    BY <2>1, <2>2, <2>3, <2>4
       DEF Outbox!Next, Outbox!Round, Outbox!vars, Outbox!Tick, Outbox!Arrive, Outbox!Begin, Outbox!List, Outbox!Ask, Outbox!Unanswered, Outbox!End
<1>2. QED
  BY <1>1, OutboxInvariant, PTL DEF Outbox!Spec, Outbox!FinalUnlessCrossed

-------------------------------------------------------------------------------
(* THE TWO TOGETHER: a behaviour moves one of them, and is one of both.      *)

LEMMA BothArePart == MCSpec => Spec /\ Outbox!Spec
<1>1. MCInit => Init /\ Outbox!Init
  BY DEF MCInit, HInit
<1>2. [MCNext]_<<hvars, outboxVars, focus>> => [Next]_vars /\ [Outbox!Next]_(Outbox!vars)
  <2>1. HNext => Next
    BY DEF HNext, HFailure, HForget, HTick, HOther, Next, Work
  <2>2. UNCHANGED hvars => UNCHANGED vars
    BY DEF hvars
  <2>3. UNCHANGED outboxVars => UNCHANGED Outbox!vars
    BY DEF outboxVars, Outbox!vars
  <2> QED BY <2>1, <2>2, <2>3 DEF MCNext, OnCircuit, OnOutbox
<1> QED BY <1>1, <1>2, PTL DEF MCSpec, Spec, Outbox!Spec

\* poll_deliveries(), sms_outbox.py: what the gateway's last word settled stays settled, unless
\* a round that had read the row before crosses it, for any number of rounds and messages.
THEOREM FinalWordsStay == MCSpec => FinalUnlessCrossed
<1>1. Outbox!FinalUnlessCrossed => FinalUnlessCrossed
  BY PTL DEF FinalUnlessCrossed
<1> QED BY <1>1, PollAssumption, BothArePart, OutboxWordsStay, PTL

-------------------------------------------------------------------------------
(* THE HISTORY.  Sums of failures by age, and the inductive invariant.       *)

\* What the counter of a closed row counts: the failures since its window began, before which
\* there were too few to trip it; once the window is over, all that are left are among those it
\* counted, and none is of now.
CounterTrue ==
  /\ recent \in [Age -> Nat]
  /\ row.state # "closed" => recent = NoFailures
  /\ row.state = "closed" =>
       IF row.windowAge = Window THEN recent[0] = 0 /\ Total(recent) <= row.failures
       ELSE /\ Newer(recent, row.windowAge + 1) = row.failures
            /\ Total(recent) <= row.failures + (Threshold - 1)

\* What holds of no ticks, and of one tick more whenever it holds, holds of the whole window.
LEMMA TickByTick ==
  ASSUME NEW S, 0 \in S, \A k \in 1..Window : k - 1 \in S => k \in S
  PROVE  \A k \in 0..Window : k \in S
<1> DEFINE Bad == {k \in 0..Window : k \notin S}
<1> SUFFICES ASSUME Bad # {} PROVE FALSE
  OBVIOUS
<1>0. Window \in Nat
  BY PolicyAssumption
<1>1. PICK R : IsWellFoundedOn(R, Nat) /\ \A x, y \in Nat : x < y => <<x, y>> \in R
  <2>1. \A x, y \in Nat : x < y => <<x, y>> \in OpToRel(<, Nat)
    BY Zenon DEF OpToRel
  <2> QED BY <2>1, NatLessThanWellFounded, Zenon
<1>2. PICK k \in Bad : \A j \in Bad : ~ (<<j, k>> \in R)
  <2>1. IsWellFoundedOn(R, Nat) /\ Bad \subseteq Nat
    BY <1>0, <1>1
  <2> HIDE DEF Bad
  <2> QED BY <2>1, WFMin, Zenon
<1>3. k \in 1..Window /\ k - 1 \in 0..Window
  BY <1>0
<1>4. k - 1 \in Bad
  BY <1>3
<1>5. <<k - 1, k>> \in R
  BY <1>1, <1>3, <1>0
<1> QED BY <1>2, <1>4, <1>5

\* The recurrence that Newer is computed by, over the first n ticks.
Sums(F, f, n) == F = [k \in 0..n |-> IF k = 0 THEN 0 ELSE F[k - 1] + f[k - 1]]

\* Some function satisfies it.
LEMMA SumsAreMet ==
  ASSUME NEW f
  PROVE  \E F : Sums(F, f, Window)
<1> DEFINE S == {n \in 0..Window : \E F : Sums(F, f, n)}
<1>0. Window \in Nat
  BY PolicyAssumption
<1>1. 0 \in S
  <2>1. Sums([k \in 0..0 |-> 0], f, 0)
    BY DEF Sums
  <2> QED BY <2>1, <1>0
<1>2. ASSUME NEW n \in 1..Window, n - 1 \in S PROVE n \in S
  <2>1. PICK G : Sums(G, f, n - 1)
    BY <1>2
  <2>2. PICK H : H = [k \in 0..n |-> IF k = n THEN G[n - 1] + f[n - 1] ELSE G[k]]
    OBVIOUS
  <2>3. ASSUME NEW k \in 0..n
        PROVE  H[k] = IF k = 0 THEN 0 ELSE H[k - 1] + f[k - 1]
    <3>1. CASE k = n
      <4>1. H[k - 1] = G[n - 1] /\ k # 0
        BY <3>1, <2>2, <1>2, <1>0
      <4>2. H[k] = G[n - 1] + f[n - 1]
        BY <3>1, <2>2
      <4> QED BY <4>1, <4>2, <3>1
    <3>2. CASE k # n
      <4>1. H[k] = G[k] /\ k \in 0..(n - 1)
        BY <3>2, <2>2, <1>2, <1>0
      <4>2. k # 0 => H[k - 1] = G[k - 1]
        BY <3>2, <2>2, <1>2, <1>0
      <4>3. G[k] = IF k = 0 THEN 0 ELSE G[k - 1] + f[k - 1]
        BY <2>1, <4>1 DEF Sums
      <4> QED BY <4>1, <4>2, <4>3
    <3> QED BY <3>1, <3>2
  <2>4. H = [k \in 0..n |-> H[k]]
    BY <2>2
  <2>5. Sums(H, f, n)
    BY <2>3, <2>4 DEF Sums
  <2> QED BY <2>5, <1>0
<1>3. \A n \in 0..Window : n \in S
  <2> HIDE DEF S
  <2> QED BY <1>1, <1>2, TickByTick
<1> QED BY <1>3, <1>0

\* One tick more adds the failures of that age.
LEMMA NewerStep ==
  ASSUME NEW f
  PROVE  /\ Newer(f, 0) = 0
         /\ \A k \in 1..Window : Newer(f, k) = Newer(f, k - 1) + f[k - 1]
<1>0. Window \in Nat
  BY PolicyAssumption
<1>1. \E F : Sums(F, f, Window) /\ \A n : Newer(f, n) = F[n]
  BY SumsAreMet, Zenon DEF Newer, Sums
<1>2. PICK F : Sums(F, f, Window) /\ \A n : Newer(f, n) = F[n]
  BY <1>1
<1>3. \A k \in 0..Window : F[k] = IF k = 0 THEN 0 ELSE F[k - 1] + f[k - 1]
  BY <1>2 DEF Sums
<1> QED BY <1>0, <1>2, <1>3

\* There are as many failures of less than k ticks ago as a number says, and no more than in all.
LEMMA NewerGrows ==
  ASSUME NEW f \in [Age -> Nat], NEW k \in 0..Window
  PROVE  Newer(f, k) \in Nat /\ Newer(f, k) <= Total(f)
<1>0. Window \in Nat
  BY PolicyAssumption
<1> DEFINE S == {n \in 0..Window :
                  \A j \in 0..n : Newer(f, j) \in Nat /\ Newer(f, j) <= Newer(f, n)}
<1>1. 0 \in S
  BY NewerStep, <1>0
<1>2. ASSUME NEW n \in 1..Window, n - 1 \in S PROVE n \in S
  <2>1. n - 1 \in Age /\ f[n - 1] \in Nat
    BY <1>0 DEF Age
  <2>2. Newer(f, n) = Newer(f, n - 1) + f[n - 1]
    BY NewerStep
  <2>3. \A j \in 0..(n - 1) : Newer(f, j) \in Nat /\ Newer(f, j) <= Newer(f, n - 1)
    BY <1>2
  <2>4. Newer(f, n) \in Nat /\ Newer(f, n - 1) <= Newer(f, n) /\ Newer(f, n - 1) \in Nat
    BY <2>1, <2>2, <2>3, <1>0
  <2>5. ASSUME NEW j \in 0..n PROVE Newer(f, j) \in Nat /\ Newer(f, j) <= Newer(f, n)
    <3>1. CASE j = n
      BY <3>1, <2>4
    <3>2. CASE j # n
      <4>1. Newer(f, j) \in Nat /\ Newer(f, j) <= Newer(f, n - 1)
        BY <3>2, <2>3, <1>0
      <4> QED BY <4>1, <2>4
    <3> QED BY <3>1, <3>2
  <2> QED BY <2>5
<1>3. \A n \in 0..Window : n \in S
  <2> HIDE DEF S
  <2> QED BY <1>1, <1>2, TickByTick
<1> QED BY <1>3, <1>0 DEF Total

\* Without failures there is nothing to count.
LEMMA NothingToCount == Total(NoFailures) = 0
<1> DEFINE S == {n \in 0..Window : Newer(NoFailures, n) = 0}
<1>0. Window \in Nat
  BY PolicyAssumption
<1>1. 0 \in S
  BY NewerStep, <1>0
<1>2. ASSUME NEW n \in 1..Window, n - 1 \in S PROVE n \in S
  <2>1. NoFailures[n - 1] = 0
    BY <1>0 DEF NoFailures, Age
  <2> QED BY <2>1, <1>2, NewerStep, <1>0
<1>3. \A n \in 0..Window : n \in S
  <2> HIDE DEF S
  <2> QED BY <1>1, <1>2, TickByTick
<1> QED BY <1>3, <1>0 DEF Total

\* A failure of now counts among those of less than any number of ticks ago.
LEMMA OneMoreNow ==
  ASSUME NEW f \in [Age -> Nat], NEW g, g = [f EXCEPT ![0] = @ + 1], NEW k \in 1..Window
  PROVE  Newer(g, k) = Newer(f, k) + 1
<1> DEFINE S == {n \in 0..Window : n # 0 => Newer(g, n) = Newer(f, n) + 1}
<1>0. Window \in Nat /\ 0 \in Age
  BY PolicyAssumption DEF Age
<1>1. 0 \in S
  BY <1>0
<1>2. ASSUME NEW n \in 1..Window, n - 1 \in S PROVE n \in S
  <2>1. /\ Newer(g, n) = Newer(g, n - 1) + g[n - 1]
        /\ Newer(f, n) = Newer(f, n - 1) + f[n - 1]
        /\ Newer(g, 0) = 0 /\ Newer(f, 0) = 0
    BY NewerStep
  <2>2. n - 1 \in Age /\ n - 1 \in 0..Window /\ f[n - 1] \in Nat
    BY <1>0 DEF Age
  <2>3. Newer(f, n - 1) \in Nat
    BY <2>2, NewerGrows
  <2>4. g[n - 1] = IF n - 1 = 0 THEN f[n - 1] + 1 ELSE f[n - 1]
    BY <2>2
  <2> QED BY <2>1, <2>2, <2>3, <2>4, <1>2
<1>3. \A n \in 0..Window : n \in S
  <2> HIDE DEF S
  <2> QED BY <1>1, <1>2, TickByTick
<1>4. k \in 0..Window /\ k # 0
  BY <1>0
<1>5. k \in S
  <2> HIDE DEF S
  <2> QED BY <1>3, <1>4
<1> QED BY <1>4, <1>5

\* With a tick, what was of less than k - 1 ticks ago is of less than k.
LEMMA TickShifts ==
  ASSUME NEW f \in [Age -> Nat], NEW g, g = [a \in Age |-> IF a = 0 THEN 0 ELSE f[a - 1]],
         NEW k \in 1..Window
  PROVE  Newer(g, k) = Newer(f, k - 1)
<1> DEFINE S == {n \in 0..Window : n # 0 => Newer(g, n) = Newer(f, n - 1)}
<1>0. Window \in Nat /\ 0 \in Age
  BY PolicyAssumption DEF Age
<1>1. 0 \in S
  BY <1>0
<1>2. ASSUME NEW n \in 1..Window, n - 1 \in S PROVE n \in S
  <2>1. Newer(g, n) = Newer(g, n - 1) + g[n - 1] /\ Newer(g, 0) = 0 /\ Newer(f, 0) = 0
    BY NewerStep
  <2>2. n - 1 \in Age
    BY <1>0 DEF Age
  <2>3. CASE n = 1
    BY <2>1, <2>3, <2>2
  <2>4. CASE n # 1
    <3>1. n - 1 \in 1..Window /\ Newer(f, n - 1) = Newer(f, n - 2) + f[n - 2]
      <4>1. n - 1 \in 1..Window /\ (n - 1) - 1 = n - 2
        BY <2>4, <1>0
      <4> QED BY <4>1, NewerStep
    <3>2. g[n - 1] = f[n - 2]
      BY <2>2, <2>4
    <3>3. Newer(g, n - 1) = Newer(f, n - 2)
      BY <1>2, <2>4
    <3> QED BY <2>1, <3>1, <3>2, <3>3
  <2> QED BY <2>3, <2>4
<1>3. \A n \in 0..Window : n \in S
  <2> HIDE DEF S
  <2> QED BY <1>1, <1>2, TickByTick
<1> QED BY <1>3, <1>0

-------------------------------------------------------------------------------
(* What each statement does to the count.                                    *)

\* The first row has counted nothing.
LEMMA CounterStarts == HInit => CounterTrue
<1> SUFFICES ASSUME HInit PROVE CounterTrue
  OBVIOUS
<1>1. Window \in Nat \ {0} /\ 0 \in Age
  BY PolicyAssumption DEF Age
<1> QED BY <1>1, NothingToCount DEF HInit, Init, FreshRow, NoFailures, CounterTrue

\* A row that was cleared has nothing to count.
LEMMA Cleared ==
  ASSUME NEW r, r.windowAge = Window /\ r.failures = 0, row' = r, recent' = NoFailures
  PROVE  CounterTrue'
<1>1. 0 \in Age /\ 0 <= 0
  BY PolicyAssumption DEF Age
<1>2. Total(NoFailures) = 0 /\ NoFailures[0] = 0 /\ NoFailures \in [Age -> Nat]
  BY <1>1, NothingToCount DEF NoFailures
<1> QED BY <1>1, <1>2 DEF CounterTrue

\* An open row counts nothing.
LEMMA NotClosed ==
  ASSUME row'.state # "closed", recent' = NoFailures
  PROVE  CounterTrue'
<1>1. NoFailures \in [Age -> Nat]
  BY DEF NoFailures
<1> QED BY <1>1 DEF CounterTrue

\* A failure is counted in the window it falls in, or begins one.
LEMMA FailureCounts ==
  ASSUME TypeOK, RowConsistent, CounterTrue, NEW w \in Worker, HFailure(w)
  PROVE  CounterTrue'
<1>0. Window \in Nat \ {0} /\ Threshold \in Nat \ {0} /\ 0 \in Age
  BY PolicyAssumption DEF Age
<1>1. row' = Failed(row) /\ row \in Row
  BY DEF HFailure, RecordFailure, TypeOK
<1>2. CASE row'.state # "closed"
  BY <1>2, NotClosed DEF HFailure
<1>3. CASE row'.state = "closed"
  <2>1. /\ row.state = "closed" /\ row' = Counted(row)
        /\ row.failures \in 0..(Threshold - 1) /\ row.windowAge \in 0..Window
    <3>1. row.failures \in 0..Threshold /\ row.windowAge \in 0..Window
      BY <1>1 DEF Row
    <3>2. Counted(row).state = row.state
      BY <1>1 DEF Counted, Row
    <3>3. Opened(Counted(row), Cooldown).state = "open"
      BY <1>1, RowTyping DEF Opened, Row
    <3>4. row.state = "closed" /\ row' = Counted(row)
      BY <1>1, <1>3, <3>2, <3>3 DEF Failed
    <3> QED BY <3>1, <3>4, <1>0 DEF RowConsistent
  <2>2. recent' = [recent EXCEPT ![0] = @ + 1] /\ recent \in [Age -> Nat]
    BY <1>3 DEF HFailure, CounterTrue
  <2>3. /\ recent' \in [Age -> Nat]
        /\ \A k \in 1..Window : Newer(recent', k) = Newer(recent, k) + 1
    <3>1. recent' \in [Age -> Nat]
      BY <2>2, <1>0
    <3>2. \A k \in 1..Window : Newer(recent', k) = Newer(recent, k) + 1
      BY ONLY <2>2, OneMoreNow
    <3> QED BY <3>1, <3>2
  <2>4. Total(recent') = Total(recent) + 1 /\ Total(recent) \in Nat
    <3>1. Window \in 1..Window /\ Window \in 0..Window
      BY <1>0
    <3>2. Newer(recent, Window) \in Nat
      BY <2>2, <3>1, NewerGrows
    <3> QED BY <2>3, <3>1, <3>2 DEF Total
  <2>5. CASE row.windowAge = Window
    <3>1. row'.windowAge = 0 /\ row'.failures = 1
      BY <2>1, <2>5, <1>1 DEF Counted, Row
    <3>2. Newer(recent', 1) = 1
      <4>1. Newer(recent, 1) = Newer(recent, 0) + recent[0] /\ Newer(recent, 0) = 0
        BY <1>0, NewerStep
      <4>2. recent[0] = 0
        BY <2>1, <2>5 DEF CounterTrue
      <4> QED BY <4>1, <4>2, <2>3, <1>0
    <3>3. Total(recent') <= 1 + (Threshold - 1)
      BY <2>1, <2>4, <2>5, <1>0 DEF CounterTrue
    <3> QED BY <1>3, <2>3, <3>1, <3>2, <3>3, <1>0 DEF CounterTrue
  <2>6. CASE row.windowAge # Window
    <3>1. row'.windowAge = row.windowAge /\ row'.failures = row.failures + 1
      BY <2>1, <2>6, <1>0, <1>1 DEF Counted, Row
    <3>2. row.windowAge + 1 \in 1..Window
      BY <2>1, <2>6, <1>0
    <3>3. Newer(recent', row'.windowAge + 1) = row'.failures
      BY <2>1, <2>3, <2>6, <3>1, <3>2 DEF CounterTrue
    <3>4. Total(recent') <= row'.failures + (Threshold - 1)
      BY <2>1, <2>4, <2>6, <3>1, <1>0 DEF CounterTrue
    <3> QED BY <1>3, <2>3, <2>6, <3>1, <3>3, <3>4 DEF CounterTrue
  <2> QED BY <2>5, <2>6
<1> QED BY <1>2, <1>3

\* A tick ages the window and its failures alike, and ends it when its first are forgotten.
LEMMA TimeCounts ==
  ASSUME TypeOK, CounterTrue, HTick
  PROVE  CounterTrue'
<1>0. Window \in Nat \ {0} /\ Threshold \in Nat \ {0} /\ 0 \in Age
  BY PolicyAssumption DEF Age
<1>1. row' = Elapse(row) /\ row \in Row /\ row.windowAge \in 0..Window /\ row.failures \in Nat
  BY <1>0 DEF HTick, Tick, TypeOK, Row
<1>2. /\ row'.state = row.state /\ row'.failures = row.failures
      /\ row'.windowAge = IF row.windowAge < Window THEN row.windowAge + 1 ELSE row.windowAge
  BY <1>1 DEF Elapse, Row
<1>3. recent' = [a \in Age |-> IF a = 0 THEN 0 ELSE recent[a - 1]] /\ recent \in [Age -> Nat]
  BY DEF HTick, CounterTrue
<1>4. recent' \in [Age -> Nat] /\ recent'[0] = 0
  <2>1. ASSUME NEW a \in Age, a # 0 PROVE recent[a - 1] \in Nat
    BY <2>1, <1>0, <1>3 DEF Age
  <2> QED BY <2>1, <1>0, <1>3
<1>5. \A k \in 1..Window : Newer(recent', k) = Newer(recent, k - 1)
  BY <1>3, TickShifts
<1>6. /\ Total(recent') = Newer(recent, Window - 1) /\ Window - 1 \in 0..Window
      /\ Total(recent') \in Nat /\ Total(recent) \in Nat /\ Total(recent') <= Total(recent)
  <2>1. Window \in 1..Window /\ Window - 1 \in 0..Window /\ Window \in 0..Window
    BY <1>0
  <2> QED BY <2>1, <1>5, <1>3, NewerGrows DEF Total
<1>7. CASE row.state # "closed"
  <2>1. recent' = NoFailures
    <3>1. \A a \in Age : a # 0 => recent[a - 1] = 0
      BY <1>7, <1>0 DEF CounterTrue, NoFailures, Age
    <3> QED BY <3>1, <1>3 DEF NoFailures
  <2> QED BY <2>1, <1>2, <1>7, NotClosed
<1>8. CASE row.state = "closed" /\ row.windowAge = Window
  <2>1. row'.windowAge = Window /\ Total(recent') <= row'.failures
    BY <1>0, <1>1, <1>2, <1>6, <1>8 DEF CounterTrue
  <2> QED BY <2>1, <1>2, <1>4, <1>8 DEF CounterTrue
<1>9. CASE row.state = "closed" /\ row.windowAge # Window
  <2>1. row'.windowAge = row.windowAge + 1 /\ row.windowAge + 1 \in 1..Window
    BY <1>0, <1>1, <1>2, <1>9
  <2>2. /\ Newer(recent, row.windowAge + 1) = row.failures
        /\ Total(recent) <= row.failures + (Threshold - 1)
    BY <1>9 DEF CounterTrue
  <2>3. CASE row'.windowAge = Window
    <3>1. Newer(recent, Window) = row.failures
      BY <2>1, <2>2, <2>3
    <3>2. Total(recent') <= row'.failures
      BY <3>1, <1>6, <1>2 DEF Total
    <3> QED BY <3>2, <2>3, <1>2, <1>4, <1>9 DEF CounterTrue
  <2>4. CASE row'.windowAge # Window
    <3>1. row'.windowAge + 1 \in 1..Window /\ (row'.windowAge + 1) - 1 = row.windowAge + 1
      BY <2>1, <2>4, <1>0
    <3>2. Newer(recent', row'.windowAge + 1) = row'.failures
      BY <3>1, <1>5, <2>2, <1>2
    <3>3. Total(recent') <= row'.failures + (Threshold - 1)
      BY <2>2, <1>6, <1>2, <1>1, <1>0
    <3> QED BY <3>2, <3>3, <2>4, <1>2, <1>4, <1>9 DEF CounterTrue
  <2> QED BY <2>3, <2>4
<1> QED BY <1>7, <1>8, <1>9

\* A success, a refused key and a reset forget what was counted; between the two statements of a
\* success nothing is forgotten yet.
LEMMA ForgettingCounts ==
  ASSUME TypeOK, CounterTrue, NEW w \in Worker, HForget(w)
  PROVE  CounterTrue'
<1>0. row \in Row
  BY DEF TypeOK
<1>1. CASE RecordSuccess(w) /\ row.state = "closed"
  <2>1. pc'[w] = "clear" /\ row' = row
    BY <1>1 DEF RecordSuccess, Goto, TypeOK
  <2>2. recent' = recent
    BY <2>1 DEF HForget
  <2> QED BY <2>1, <2>2 DEF CounterTrue
<1>2. CASE (RecordSuccess(w) /\ row.state # "closed") \/ Reset(w)
  <2>1. row' = FreshRow /\ pc'[w] = "publish"
    BY <1>2 DEF RecordSuccess, Reset, Closed, ThenPublish, Goto, TypeOK
  <2>2. recent' = NoFailures
    BY <2>1 DEF HForget
  <2> QED BY <2>1, <2>2, Cleared DEF FreshRow
<1>3. CASE ClearWindow(w)
  <2>1. row' = WindowCleared(row) /\ pc'[w] = "idle"
    BY <1>3 DEF ClearWindow, Goto, TypeOK
  <2>2. recent' = NoFailures
    BY <2>1 DEF HForget
  <2>3. row'.windowAge = Window /\ row'.failures = 0
    BY <2>1, <1>0 DEF WindowCleared, Row
  <2> QED BY <2>2, <2>3, Cleared
<1>4. CASE RecordAuthFailure(w)
  <2>1. row' = OpenedByAuth(row) /\ pc'[w] = "publish"
    BY <1>4 DEF RecordAuthFailure, ThenPublish, Goto, TypeOK
  <2>2. recent' = NoFailures
    BY <2>1 DEF HForget
  <2>3. row'.state # "closed"
    BY <2>1, <1>0 DEF OpenedByAuth, Opened, Row
  <2> QED BY <2>2, <2>3, NotClosed
<1> QED BY <1>1, <1>2, <1>3, <1>4 DEF HForget

\* The other statements neither count nor forget, nor close a row.
LEMMA OthersCount ==
  ASSUME TypeOK, CounterTrue, NEW w \in Worker, HOther(w)
  PROVE  CounterTrue'
<1>0. row \in Row /\ recent' = recent
  BY DEF TypeOK, HOther
<1>1. row' = row \/ (row.state # "closed" /\ row' = Leased(row))
  BY DEF HOther, Allows, Claim, Reclaim, Return, Publish, Crash, Boot, CooldownPassed,
         LeaseExpired
<1>2. CASE row' = row
  BY <1>2, <1>0 DEF CounterTrue
<1>3. CASE row.state # "closed" /\ row' = Leased(row)
  <2>1. row'.state # "closed"
    BY <1>3, <1>0 DEF Leased, Row
  <2>2. recent' = NoFailures
    BY <1>3, <1>0 DEF CounterTrue
  <2> QED BY <2>1, <2>2, NotClosed
<1> QED BY <1>1, <1>2, <1>3

\* Every step keeps it.
LEMMA CounterKept ==
  ASSUME TypeOK, RowConsistent, CounterTrue, [HNext]_hvars
  PROVE  CounterTrue'
<1>1. CASE HTick
  BY <1>1, TimeCounts
<1>2. CASE CalmChanges /\ UNCHANGED recent
  BY <1>2 DEF CalmChanges, CounterTrue
<1>3. CASE UNCHANGED hvars
  BY <1>3 DEF hvars, vars, CounterTrue
<1>4. ASSUME NEW w \in Worker, HFailure(w) \/ HForget(w) \/ HOther(w) PROVE CounterTrue'
  BY <1>4, FailureCounts, ForgettingCounts, OthersCount
<1> QED BY <1>1, <1>2, <1>3, <1>4 DEF HNext

\* What the counter is worth.
LEMMA CounterBounds ==
  ASSUME TypeOK, RowConsistent, CounterTrue
  PROVE  BoundedHammering
<1>1. CASE row.state = "closed"
  <2>1. Threshold \in Nat \ {0} /\ Window \in Nat /\ row.failures \in 0..(Threshold - 1)
    BY <1>1, PolicyAssumption DEF TypeOK, Row, RowConsistent
  <2>2. Total(recent) \in Nat
    BY <2>1, NewerGrows DEF CounterTrue, Total
  <2>3. Total(recent) <= row.failures + (Threshold - 1)
    BY <1>1, <2>1, <2>2 DEF CounterTrue
  <2> QED BY <2>1, <2>2, <2>3 DEF BoundedHammering
<1> QED BY <1>1 DEF BoundedHammering

\* NoEarlyTrip, of one step.
TripHasCause ==
  \A w \in Worker : pc[w] = "failed" /\ pc'[w] = "publish" /\ row.state = "closed"
                      => Total(recent) + 1 >= Threshold

\* Whoever opens a closed row has counted enough in its window.
LEMMA TripsForCause ==
  ASSUME TypeOK, RowConsistent, CounterTrue, [HNext]_hvars
  PROVE  TripHasCause
<1> SUFFICES ASSUME NEW w \in Worker, pc[w] = "failed", pc'[w] = "publish", row.state = "closed"
             PROVE  Total(recent) + 1 >= Threshold
  BY DEF TripHasCause
<1>0. /\ Threshold \in Nat \ {0} /\ Window \in Nat \ {0} /\ row \in Row
      /\ row.failures \in 0..(Threshold - 1) /\ row.windowAge \in 0..Window
  BY PolicyAssumption DEF TypeOK, Row, RowConsistent
<1>1. RecordFailure(w)
  <2>1. pc'[w] # pc[w]
    OBVIOUS
  <2>2. ASSUME NEW v \in Worker, v # w, HFailure(v) \/ HForget(v) \/ HOther(v) PROVE FALSE
    BY <2>1, <2>2 DEF HFailure, HForget, HOther, RecordFailure, RecordSuccess, ClearWindow,
         RecordAuthFailure, Reset, Allows, Claim, Reclaim, Return, Publish, Crash, Boot,
         ThenPublish, Goto, TypeOK
  <2>3. HForget(w) \/ HOther(w) => FALSE
    BY DEF HForget, HOther, RecordSuccess, ClearWindow, RecordAuthFailure, Reset, Allows, Claim,
           Reclaim, Return, Publish, Crash, Boot, ThenPublish, Goto, TypeOK
  <2>4. HTick \/ CalmChanges \/ UNCHANGED hvars => FALSE
    BY <2>1 DEF HTick, Tick, CalmChanges, hvars, vars
  <2> QED BY <2>2, <2>3, <2>4 DEF HNext, HFailure
<1>2. Failed(row).state = "open"
  BY <1>1, <1>0 DEF RecordFailure, Goto, TypeOK
<1>3. Counted(row).failures >= Threshold
  <2>1. Counted(row).state = "closed"
    BY <1>0 DEF Counted, Row
  <2> QED BY <1>2, <2>1 DEF Failed
<1>4. recent \in [Age -> Nat] /\ Total(recent) \in Nat
  BY <1>0, NewerGrows DEF CounterTrue, Total
<1>5. CASE row.windowAge = Window
  <2>1. Counted(row).failures = 1
    BY <1>5, <1>0 DEF Counted, Row
  <2> QED BY <2>1, <1>3, <1>4, <1>0
<1>6. CASE row.windowAge # Window
  <2>1. Counted(row).failures = row.failures + 1
    BY <1>6, <1>0 DEF Counted, Row
  <2>2. row.windowAge + 1 \in 0..Window /\ row.failures = Newer(recent, row.windowAge + 1)
    BY <1>6, <1>0 DEF CounterTrue
  <2>3. row.failures <= Total(recent)
    BY <2>2, <1>4, NewerGrows
  <2> QED BY <2>1, <2>3, <1>3, <1>4, <1>0
<1> QED BY <1>5, <1>6

\* What record_failure() counts is worth something, circuit.py: a circuit that is still closed
\* has seen two windows' worth of failures that do not trip it at most, and one that trips has
\* seen as many in one window as do; for any number of workers and every policy.
THEOREM CounterIsWorth == MCSpec => CountsFailures
<1>1. MCInit => CounterTrue
  BY CounterStarts DEF MCInit
<1>2. [MCNext]_<<hvars, outboxVars, focus>> => [HNext]_hvars
  BY DEF MCNext, OnCircuit, OnOutbox
<1>3. TypeOK /\ RowConsistent /\ CounterTrue /\ [HNext]_hvars => CounterTrue'
  BY CounterKept
<1>4. TypeOK /\ RowConsistent /\ CounterTrue => BoundedHammering
  BY CounterBounds
<1>5. TypeOK /\ RowConsistent /\ CounterTrue /\ [HNext]_hvars => [TripHasCause]_hvars
  BY TripsForCause
<1>6. [][TripHasCause]_hvars => NoEarlyTrip
  BY PTL DEF NoEarlyTrip, TripHasCause
<1> QED
  BY <1>1, <1>2, <1>3, <1>4, <1>5, <1>6, BothArePart, TypeCorrect, RowAlwaysConsistent, PTL
     DEF MCSpec, CountsFailures
================================================================================
