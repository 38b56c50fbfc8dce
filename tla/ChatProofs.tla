------------------------------ MODULE ChatProofs ------------------------------
(***************************************************************************)
(* Proofs about what a chat request does: its walk over the providers      *)
(* (RoutingEngine), the conversation it belongs to (Conversation, Booth!), *)
(* and what the next turn remembers (Dialogue, Talk!), each from an        *)
(* inductive invariant of its own, for every route, policy, number of      *)
(* requests, visitors, conversations, sittings and records; at the end the *)
(* specification that TLC runs, of which each of the three is a part.      *)
(***************************************************************************)
EXTENDS MCChat, FiniteSetTheorems, SequenceTheorems, WellFoundedInduction, NaturalsInduction,
        TLAPS

-------------------------------------------------------------------------------
(* THE ROUTE.  The inductive invariant: what the local variables q of a      *)
(* request say of its calls c and of its usage rows u, and what the rows of  *)
(* the circuits say of the calls of all requests.                            *)

Called(c, t) == {n \in DOMAIN c : c[n].target = t}
Last(c) == c[Len(c)]

\* Each call but the first has its reason in the one before it.
Justified(c) ==
  \A n \in DOMAIN c \ {1} :
    \/ c[n].target = c[n - 1].target /\ c[n - 1].end = "transient"
    \/ /\ Eligible(c[n - 1].end)
       /\ \E a, b \in DOMAIN Route :
            a < b /\ Route[a] = c[n - 1].target /\ Route[b] = c[n].target

Limited(c) == \A t \in Target : Cardinality(Called(c, t)) <= MaxAttempts[t]

\* Every call went to a target of the route before position n.
CalledBefore(c, n) ==
  \A k \in DOMAIN c : \E m \in DOMAIN Route : m < n /\ c[k].target = Route[m]

\* Between two targets: the last call, if there was one, ended in an error that another
\* provider can cure.
Walking(q, c) ==
  q.step \in {"new", "route"} =>
    /\ q.attempt = 0
    /\ CalledBefore(c, q.at)
    /\ c # <<>> => Eligible(Last(c).end)
    /\ q.step = "new" => c = <<>>

\* At a target: the last call is to it, and the attempts are the calls to it.
Calling(q, c) ==
  q.step \in {"call", "wait"} =>
    /\ q.at \in DOMAIN Route
    /\ c # <<>> /\ Last(c).target = Route[q.at]
    /\ Last(c).end = IF q.step = "call" THEN "open" ELSE "transient"
    /\ CalledBefore(c, q.at + 1)
    /\ Cardinality(Called(c, Route[q.at])) = q.attempt
    /\ q.step = "wait" => q.attempt < MaxAttempts[Route[q.at]]

\* The verdict and the usage rows of a request that ran to its end, as LedgerAgrees has
\* them.
Final(c) == IF c = <<>> THEN "none" ELSE Last(c).end

Settled(q, c, u) ==
  /\ q.step \in {"done", "unrecorded"} /\ q.code # "disabled" =>
       q.code = CASE Final(c) = "ok" -> "none"
                  [] Final(c) = "ours" -> "ours"
                  [] OTHER -> "all_routes_failed"
  /\ IF q.step = "done" /\ q.code # "disabled"
     THEN /\ Len(u) = 1
          /\ u[1].attempts = Len(c)
          /\ u[1].status = "success" <=> Final(c) = "ok"
          /\ u[1].code = q.code
     ELSE u = <<>>

\* What RecordUsage() leaves of a request that had no row.
Recorded(q, u, attempts, status) ==
  \/ /\ q.step = "done"
     /\ Len(u) = 1 /\ u[1].attempts = attempts /\ u[1].status = status /\ u[1].code = q.code
  \/ q.step = "unrecorded" /\ u = <<>>

Counts(q, c) ==
  /\ q.attempts = Len(c)
  /\ q.failovers < q.at
  /\ q.step \notin {"done", "unrecorded"} => q.code = "none"

Truthful(q, c, u) ==
  /\ Justified(c)
  /\ Limited(c)
  /\ Walking(q, c)
  /\ Calling(q, c)
  /\ Settled(q, c, u)
  /\ Counts(q, c)

RequestsTruthful == \A r \in Request : Truthful(req[r], calls[r], usage[r])

Spared(p) == Failures(p, {"transient", "refused"})

\* A closed circuit has not counted more failures than there were.
CountCovered ==
  \A p \in Provider :
    /\ IsFiniteSet(Spared(p))
    /\ circuit[p].state = "closed" => circuit[p].failures <= Cardinality(Spared(p))

IInv ==
  /\ TypeOK
  /\ RequestsTruthful
  /\ CountCovered
  /\ TripsHaveCause

-------------------------------------------------------------------------------
(* Lemmas about sequences of calls.                                          *)

LEMMA RouteShape ==
  /\ Len(Route) \in Nat /\ DOMAIN Route = 1..Len(Route)
  /\ \A n \in DOMAIN Route : Route[n] \in Target
  BY EngineAssumption, LenProperties, ElementOfSeq

LEMMA CallsShape ==
  ASSUME NEW c \in Seq(Call)
  PROVE  /\ Len(c) \in Nat /\ DOMAIN c = 1..Len(c)
         /\ c # <<>> <=> Len(c) > 0
         /\ \A n \in DOMAIN c : c[n] \in Call
  BY LenProperties, ElementOfSeq, EmptySeq

LEMMA CalledFinite ==
  ASSUME NEW c \in Seq(Call), NEW t
  PROVE  IsFiniteSet(Called(c, t)) /\ Cardinality(Called(c, t)) \in Nat
<1>1. IsFiniteSet(1..Len(c))
  BY CallsShape, FS_Interval
<1>2. Called(c, t) \in SUBSET (1..Len(c))
  BY CallsShape DEF Called
<1> QED BY <1>1, <1>2, FS_Subset, FS_CardinalityType

Extended(c, t) == Append(c, [target |-> t, end |-> "open"])

\* One more call is one more call to its target, and none to another.
LEMMA AppendedCall ==
  ASSUME NEW c \in Seq(Call), NEW t \in Target,
         NEW d, d = Extended(c, t)
  PROVE  /\ d \in Seq(Call) /\ Len(d) = Len(c) + 1 /\ d # <<>>
         /\ Last(d).target = t /\ Last(d).end = "open"
         /\ \A n \in 1..Len(c) : d[n] = c[n]
         /\ Cardinality(Called(d, t)) = Cardinality(Called(c, t)) + 1
         /\ \A s \in Target \ {t} : Called(d, s) = Called(c, s)
<1>1. [target |-> t, end |-> "open"] \in Call
  BY DEF Call
<1>2. /\ d \in Seq(Call) /\ Len(d) = Len(c) + 1
      /\ d[Len(d)] = [target |-> t, end |-> "open"]
      /\ \A n \in 1..Len(c) : d[n] = c[n]
  BY <1>1, CallsShape, AppendProperties DEF Extended
<1>3. d # <<>> /\ Last(d).target = t /\ Last(d).end = "open"
  BY <1>2, CallsShape DEF Last
<1>4. DOMAIN c = 1..Len(c) /\ DOMAIN d = 1..(Len(c) + 1) /\ Len(c) \in Nat
  BY <1>2, CallsShape
<1>5. Called(d, t) = Called(c, t) \cup {Len(d)} /\ Len(d) \notin Called(c, t)
  BY <1>2, <1>3, <1>4 DEF Called, Last
<1>6. Cardinality(Called(d, t)) = Cardinality(Called(c, t)) + 1
  BY <1>5, CalledFinite, FS_AddElement
<1>7. \A s \in Target \ {t} : Called(d, s) = Called(c, s)
  BY <1>2, <1>3, <1>4 DEF Called, Last
<1> QED BY <1>2, <1>3, <1>6, <1>7

EndedAs(c, how) == [c EXCEPT ![Len(c)].end = how]

\* The end of a call changes how the last call ended.
LEMMA EndedCall ==
  ASSUME NEW c \in Seq(Call), c # <<>>, NEW how \in Error \cup {"open", "ok", "cancelled"},
         NEW d, d = EndedAs(c, how)
  PROVE  /\ d \in Seq(Call) /\ Len(d) = Len(c) /\ d # <<>>
         /\ Last(d).target = Last(c).target /\ Last(d).end = how
         /\ \A n \in 1..Len(c) : d[n].target = c[n].target /\ (n # Len(c) => d[n] = c[n])
         /\ \A t : Called(d, t) = Called(c, t)
<1> DEFINE e == [c[Len(c)] EXCEPT !.end = how]
<1>1. Len(c) \in 1..Len(c) /\ c[Len(c)] \in Call
  BY CallsShape
<1>2. e \in Call /\ e.target = Last(c).target /\ e.end = how
  BY <1>1 DEF Call, Last
<1>3. d = [c EXCEPT ![Len(c)] = e]
  BY DEF EndedAs
<1> HIDE DEF e
<1>4. /\ d \in Seq(Call) /\ Len(d) = Len(c)
      /\ \A n \in 1..Len(c) : d[n] = IF n = Len(c) THEN e ELSE c[n]
  BY <1>1, <1>2, <1>3, ExceptSeq
<1>5. d # <<>> /\ Last(d).target = Last(c).target /\ Last(d).end = how
  BY <1>1, <1>2, <1>4, CallsShape DEF Last
<1>6. \A n \in 1..Len(c) : d[n].target = c[n].target /\ (n # Len(c) => d[n] = c[n])
  BY <1>2, <1>4 DEF Last
<1>7. \A t : Called(d, t) = Called(c, t)
  BY <1>4, <1>6, CallsShape DEF Called
<1> QED BY <1>4, <1>5, <1>6, <1>7

-------------------------------------------------------------------------------
(* Lemmas about the rows of the circuits.                                    *)

\* Every statement maps a well-typed row to a well-typed row.
LEMMA RowTyping ==
  ASSUME NEW r \in Row
  PROVE  /\ FreshRow \in Row
         /\ Elapse(r) \in Row
         /\ Leased(r) \in Row
         /\ Closed(r) \in Row
         /\ WindowCleared(r) \in Row
         /\ Counted(r) \in Row
         /\ Failed(r) \in Row
         /\ OpenedByAuth(r) \in Row
<1> USE PolicyAssumption DEF Row, CircuitState
<1>1. FreshRow \in Row /\ Closed(r) \in Row
  BY DEF FreshRow, Closed
<1>2. Elapse(r) \in Row
  <2>1. /\ (IF r.windowAge < Window THEN r.windowAge + 1 ELSE r.windowAge) \in 0..Window
        /\ (IF r.cooldown = 0 THEN 0 ELSE r.cooldown - 1) \in Nat
        /\ (IF r.lease = 0 THEN 0 ELSE r.lease - 1) \in 0..Lease
    OBVIOUS
  <2>2. QED
    BY <2>1 DEF Elapse
<1>3. Leased(r) \in Row /\ WindowCleared(r) \in Row
  <2>1. 0 \in 0..Threshold /\ Window \in 0..Window /\ Lease \in 0..Lease
    OBVIOUS
  <2>2. Leased(r) \in Row
    BY <2>1 DEF Leased
  <2>3. WindowCleared(r) \in Row
    BY <2>1 DEF WindowCleared
  <2>4. QED
    BY <2>2, <2>3
<1>4. Counted(r) \in Row
  <2>1. /\ (IF r.windowAge = Window THEN 1
            ELSE IF r.failures < Threshold THEN r.failures + 1 ELSE r.failures) \in 0..Threshold
        /\ (IF r.windowAge = Window THEN 0 ELSE r.windowAge) \in 0..Window
    OBVIOUS
  <2>2. QED
    BY <2>1 DEF Counted
<1>5. ASSUME NEW q \in Row, NEW c \in Nat
      PROVE  Opened(q, c) \in Row
  <2>1. Threshold \in 0..Threshold /\ 0 \in 0..Lease
    OBVIOUS
  <2>2. QED
    BY <1>5, <2>1 DEF Opened
<1>6. Failed(r) \in Row
  BY <1>4, <1>5 DEF Failed
<1>7. OpenedByAuth(r) \in Row
  BY <1>5 DEF OpenedByAuth
<1>8. QED
  BY <1>1, <1>2, <1>3, <1>4, <1>6, <1>7

-------------------------------------------------------------------------------
(* What a step of a request makes of the truth about it, value by value: q,  *)
(* c and u before the step, qq, cc and uu after it.                          *)

\* A target is passed over.
LEMMA OnwardTruthful ==
  ASSUME NEW q \in Req, NEW c \in Seq(Call), NEW u, Truthful(q, c, u),
         q.step = "route", q.at <= Len(Route),
         NEW qq \in Req, qq.step = "route", qq.at = q.at + 1, qq.attempt = 0,
         qq.attempts = q.attempts, qq.failovers = q.failovers, qq.code = q.code
  PROVE  Truthful(qq, c, u)
<1> USE DEF Truthful
<1>1. q.at \in Nat /\ q.failovers \in Nat
  BY RouteShape DEF Req
<1>2. CalledBefore(c, q.at + 1)
  BY <1>1, RouteShape DEF Walking, CalledBefore
<1>3. Walking(qq, c)
  BY <1>2 DEF Walking
<1>4. Calling(qq, c)
  BY DEF Calling
<1>5. Settled(qq, c, u)
  BY DEF Settled
<1>6. Counts(qq, c)
  BY <1>1 DEF Counts
<1> QED BY <1>3, <1>4, <1>5, <1>6

\* A target is called, for the first time or again.
LEMMA CallTruthful ==
  ASSUME NEW q \in Req, NEW c \in Seq(Call), NEW u, Truthful(q, c, u),
         q.step = "wait" \/ (q.step = "route" /\ q.at <= Len(Route)),
         NEW d, d = Extended(c, Route[q.at]),
         NEW qq \in Req, qq.step = "call", qq.at = q.at, qq.attempt = q.attempt + 1,
         qq.attempts = q.attempts + 1, qq.failovers = q.failovers, qq.code = q.code
  PROVE  Truthful(qq, d, u)
<1> USE DEF Truthful
<1>1. /\ q.at \in DOMAIN Route /\ q.at \in Nat /\ q.failovers \in Nat /\ q.attempt \in Nat
      /\ Route[q.at] \in Target /\ MaxAttempts[Route[q.at]] \in Nat \ {0}
  BY RouteShape, EngineAssumption DEF Req, Calling
<1>2. /\ d \in Seq(Call) /\ Len(d) = Len(c) + 1 /\ d # <<>>
      /\ Last(d).target = Route[q.at] /\ Last(d).end = "open"
      /\ \A n \in 1..Len(c) : d[n] = c[n]
      /\ Cardinality(Called(d, Route[q.at])) = Cardinality(Called(c, Route[q.at])) + 1
      /\ \A s \in Target \ {Route[q.at]} : Called(d, s) = Called(c, s)
  BY <1>1, AppendedCall
<1>3. Len(c) \in Nat /\ DOMAIN c = 1..Len(c) /\ DOMAIN d = 1..(Len(c) + 1)
  BY <1>2, CallsShape
<1>4. Cardinality(Called(c, Route[q.at])) = q.attempt
  <2>1. CASE q.step = "route"
    <3>1. CalledBefore(c, q.at) /\ q.attempt = 0
      BY <2>1 DEF Walking
    <3>2. Called(c, Route[q.at]) = {}
      BY <1>1, <3>1, RouteShape, EngineAssumption DEF CalledBefore, Called
    <3> QED BY <3>1, <3>2, FS_EmptySet
  <2>2. CASE q.step = "wait"
    BY <2>2 DEF Calling
  <2> QED BY <2>1, <2>2
<1>5. q.attempt + 1 <= MaxAttempts[Route[q.at]]
  BY <1>1 DEF Calling, Walking
<1>6. Limited(d)
  BY <1>2, <1>4, <1>5 DEF Limited
<1>7. CalledBefore(d, q.at + 1)
  <2>1. CalledBefore(c, q.at + 1)
    BY <1>1, RouteShape DEF Walking, Calling, CalledBefore
  <2>2. d[Len(c) + 1].target = Route[q.at] /\ q.at < q.at + 1
    BY <1>1, <1>2 DEF Last
  <2>3. ASSUME NEW k \in DOMAIN d
        PROVE  \E m \in DOMAIN Route : m < q.at + 1 /\ d[k].target = Route[m]
    <3>1. CASE k \in 1..Len(c)
      <4>1. d[k] = c[k] /\ k \in DOMAIN c
        BY <1>2, <1>3, <3>1
      <4> QED BY <2>1, <4>1 DEF CalledBefore
    <3>2. CASE k = Len(c) + 1
      BY <1>1, <2>2, <3>2
    <3> QED BY <1>3, <3>1, <3>2
  <2> QED BY <2>3 DEF CalledBefore
<1>8. Justified(d)
  <2> SUFFICES ASSUME NEW n \in DOMAIN d \ {1}
               PROVE  \/ d[n].target = d[n - 1].target /\ d[n - 1].end = "transient"
                      \/ /\ Eligible(d[n - 1].end)
                         /\ \E a, b \in DOMAIN Route :
                              a < b /\ Route[a] = d[n - 1].target /\ Route[b] = d[n].target
    BY DEF Justified
  <2>1. CASE n \in 1..Len(c)
    <3>1. n \in DOMAIN c \ {1} /\ d[n] = c[n] /\ d[n - 1] = c[n - 1]
      BY <1>2, <1>3, <2>1
    <3> QED BY <3>1 DEF Justified
  <2>2. CASE n = Len(c) + 1
    <3>0. Len(c) > 0 /\ c # <<>>
      BY <1>3, <2>2, EmptySeq
    <3>1. n - 1 = Len(c) /\ Len(c) \in DOMAIN c /\ c # <<>> /\ d[n - 1] = Last(c)
          /\ d[n].target = Route[q.at]
      BY <1>2, <1>3, <2>2, <3>0 DEF Last
    <3>2. CASE q.step = "wait"
      BY <3>1, <3>2 DEF Calling
    <3>3. CASE q.step = "route"
      <4>1. Eligible(Last(c).end) /\ CalledBefore(c, q.at)
        BY <3>1, <3>3 DEF Walking
      <4>2. PICK m \in DOMAIN Route : m < q.at /\ Last(c).target = Route[m]
        BY <3>1, <4>1 DEF CalledBefore, Last
      <4> QED BY <1>1, <3>1, <4>1, <4>2
    <3> QED BY <3>2, <3>3
  <2> QED BY <1>3, <2>1, <2>2
<1>9. Walking(qq, d) /\ Settled(qq, d, u)
  BY DEF Walking, Settled
<1>10. Calling(qq, d)
  BY <1>1, <1>2, <1>4, <1>7 DEF Calling
<1>11. Counts(qq, d)
  BY <1>1, <1>2 DEF Counts
<1> QED BY <1>6, <1>8, <1>9, <1>10, <1>11

\* The call comes to an end, whatever the engine makes of it.
LEMMA EndOfCall ==
  ASSUME NEW q \in Req, NEW c \in Seq(Call), NEW u, Truthful(q, c, u), q.step = "call",
         NEW how \in Error \cup {"ok", "cancelled"}, NEW d, d = EndedAs(c, how)
  PROVE  /\ d \in Seq(Call) /\ d # <<>>
         /\ q.at \in DOMAIN Route /\ Last(d).target = Route[q.at] /\ Last(d).end = how
         /\ Justified(d) /\ Limited(d) /\ CalledBefore(d, q.at + 1)
         /\ Cardinality(Called(d, Route[q.at])) = q.attempt
         /\ Len(d) = q.attempts /\ q.failovers < q.at
<1> USE DEF Truthful
<1>1. c # <<>> /\ q.at \in DOMAIN Route /\ Last(c).target = Route[q.at]
  BY DEF Calling
<1>2. /\ d \in Seq(Call) /\ Len(d) = Len(c) /\ d # <<>>
      /\ Last(d).target = Last(c).target /\ Last(d).end = how
      /\ \A n \in 1..Len(c) : d[n].target = c[n].target /\ (n # Len(c) => d[n] = c[n])
      /\ \A t : Called(d, t) = Called(c, t)
  BY <1>1, EndedCall
<1>3. Len(c) \in Nat /\ DOMAIN c = 1..Len(c) /\ DOMAIN d = 1..Len(c)
  BY <1>2, CallsShape
<1>4. Justified(d)
  <2> SUFFICES ASSUME NEW n \in DOMAIN d \ {1}
               PROVE  \/ d[n].target = d[n - 1].target /\ d[n - 1].end = "transient"
                      \/ /\ Eligible(d[n - 1].end)
                         /\ \E a, b \in DOMAIN Route :
                              a < b /\ Route[a] = d[n - 1].target /\ Route[b] = d[n].target
    BY DEF Justified
  <2>1. n \in 1..Len(c) /\ n - 1 \in 1..Len(c) /\ n - 1 # Len(c) /\ n \in DOMAIN c \ {1}
    BY <1>3
  <2>2. d[n].target = c[n].target /\ d[n - 1] = c[n - 1]
    BY <1>2, <2>1
  <2> QED BY <2>1, <2>2 DEF Justified
<1>5. Limited(d) /\ Cardinality(Called(d, Route[q.at])) = q.attempt
  BY <1>2 DEF Limited, Calling
<1>6. CalledBefore(d, q.at + 1)
  <2>1. CalledBefore(c, q.at + 1)
    BY DEF Calling
  <2> QED BY <1>2, <1>3, <2>1 DEF CalledBefore
<1> QED BY <1>1, <1>2, <1>4, <1>5, <1>6 DEF Counts

\* It failed, and the target may be tried again.
LEMMA WaitTruthful ==
  ASSUME NEW q \in Req, NEW c \in Seq(Call), NEW u, Truthful(q, c, u), q.step = "call",
         NEW d, d = EndedAs(c, "transient"), q.attempt < MaxAttempts[Route[q.at]],
         NEW qq \in Req, qq.step = "wait", qq.at = q.at, qq.attempt = q.attempt,
         qq.attempts = q.attempts, qq.failovers = q.failovers, qq.code = q.code
  PROVE  Truthful(qq, d, u)
<1> USE DEF Truthful
<1>1. "transient" \in Error
  BY DEF Error
<1>2. /\ d # <<>>
      /\ q.at \in DOMAIN Route /\ Last(d).target = Route[q.at] /\ Last(d).end = "transient"
      /\ Justified(d) /\ Limited(d) /\ CalledBefore(d, q.at + 1)
      /\ Cardinality(Called(d, Route[q.at])) = q.attempt
      /\ Len(d) = q.attempts /\ q.failovers < q.at
  BY <1>1, EndOfCall
<1>3. Walking(qq, d) /\ Calling(qq, d)
  BY <1>2 DEF Walking, Calling
<1>4. Settled(qq, d, u) /\ Counts(qq, d)
  BY <1>2 DEF Settled, Counts
<1> QED BY <1>2, <1>3, <1>4

\* It failed, and the next target has its turn.
LEMMA LeaveTruthful ==
  ASSUME NEW q \in Req, NEW c \in Seq(Call), NEW u, Truthful(q, c, u), q.step = "call",
         NEW e \in Error, Eligible(e), NEW d, d = EndedAs(c, e),
         NEW qq \in Req, qq.step = "route", qq.at = q.at + 1, qq.attempt = 0,
         qq.attempts = q.attempts, qq.failovers = q.failovers + 1, qq.code = q.code
  PROVE  Truthful(qq, d, u)
<1> USE DEF Truthful
<1>1. /\ d # <<>> /\ Last(d).end = e
      /\ Justified(d) /\ Limited(d) /\ CalledBefore(d, q.at + 1)
      /\ Len(d) = q.attempts /\ q.failovers < q.at
  BY EndOfCall
<1>2. Walking(qq, d) /\ Calling(qq, d)
  BY <1>1 DEF Walking, Calling
<1>3. q.at \in Nat /\ q.failovers \in Nat
  BY RouteShape DEF Req
<1>4. Settled(qq, d, u) /\ Counts(qq, d)
  BY <1>1, <1>3 DEF Settled, Counts
<1> QED BY <1>1, <1>2, <1>4

\* It was answered, or failed with an error of our own: that is the end of the request.
LEMMA DoneTruthful ==
  ASSUME NEW q \in Req, NEW c \in Seq(Call), NEW u, Truthful(q, c, u), q.step = "call",
         NEW how \in {"ok", "ours"}, NEW d, d = EndedAs(c, how),
         NEW qq \in Req, qq.at = q.at,
         qq.attempts = q.attempts, qq.failovers = q.failovers,
         qq.code = IF how = "ok" THEN "none" ELSE "ours",
         NEW uu, Recorded(qq, uu, q.attempts, IF how = "ok" THEN "success" ELSE "failed")
  PROVE  Truthful(qq, d, uu)
<1> USE DEF Truthful
<1>1. how \in Error \cup {"ok", "cancelled"}
  BY DEF Error
<1>2. /\ d # <<>> /\ Last(d).end = how
      /\ Justified(d) /\ Limited(d)
      /\ Len(d) = q.attempts /\ q.failovers < q.at
  BY <1>1, EndOfCall
<1>3. Walking(qq, d) /\ Calling(qq, d) /\ Counts(qq, d)
  BY <1>2 DEF Walking, Calling, Counts, Recorded
<1>4. Settled(qq, d, uu)
  BY <1>2 DEF Settled, Final, Recorded
<1> QED BY <1>2, <1>3, <1>4

\* The route is at its end.
LEMMA ExhaustedTruthful ==
  ASSUME NEW q \in Req, NEW c \in Seq(Call), NEW u, Truthful(q, c, u), q.step = "route",
         NEW qq \in Req, qq.at = q.at, qq.attempts = q.attempts,
         qq.failovers = q.failovers, qq.code = "all_routes_failed",
         NEW uu, Recorded(qq, uu, q.attempts, "failed")
  PROVE  Truthful(qq, c, uu)
<1> USE DEF Truthful
<1>1. Walking(qq, c) /\ Calling(qq, c) /\ Counts(qq, c)
  BY DEF Walking, Calling, Counts, Recorded
<1>2. c = <<>> \/ Eligible(Last(c).end)
  BY DEF Walking
<1>3. Settled(qq, c, uu)
  BY <1>2 DEF Settled, Final, Counts, Eligible, Recorded
<1> QED BY <1>1, <1>3

\* Nothing more happens: the request starts, is refused by the kill switch, or is cut off.
LEMMA QuietTruthful ==
  ASSUME NEW q \in Req, NEW c \in Seq(Call), NEW u, Truthful(q, c, u),
         q.step \notin {"done", "unrecorded"}, NEW d, Justified(d), Limited(d), Len(d) = Len(c),
         NEW qq \in Req, qq.at = q.at, qq.attempt = q.attempt, qq.attempts = q.attempts,
         qq.failovers = q.failovers,
         \/ q.step = "new" /\ d = c /\ qq.step = "route" /\ qq.code = q.code
         \/ q.step = "new" /\ d = c /\ qq.step = "done" /\ qq.code = "disabled"
         \/ qq.step = "cancelled" /\ qq.code = q.code
  PROVE  Truthful(qq, d, u)
<1> USE DEF Truthful
<1>1. Walking(qq, d) /\ Calling(qq, d)
  BY DEF Walking, Calling
<1>2. Settled(qq, d, u) /\ Counts(qq, d)
  BY DEF Settled, Counts
<1> QED BY <1>1, <1>2

-------------------------------------------------------------------------------
(* The steps of a request: what they leave of its variables, and of those of *)
(* the others.                                                               *)

RequestTyped ==
  /\ req \in [Request -> Req]
  /\ usage \in [Request -> Seq(UsageRow)]
  /\ calls \in [Request -> Seq(Call)]

OthersRest(r) == \A o \in Request \ {r} :
  req'[o] = req[o] /\ usage'[o] = usage[o] /\ calls'[o] = calls[o]

LEMMA OneMoves ==
  ASSUME RequestsTruthful, NEW r \in Request, OthersRest(r),
         Truthful(req'[r], calls'[r], usage'[r])
  PROVE  RequestsTruthful'
  BY DEF RequestsTruthful, OthersRest

LEMMA StartStep ==
  ASSUME RequestTyped, RequestsTruthful, NEW r \in Request, Start(r)
  PROVE  RequestTyped' /\ RequestsTruthful'
<1>1. /\ req'[r] \in Req /\ req'[r].at = req[r].at /\ req'[r].attempt = req[r].attempt
      /\ req'[r].attempts = req[r].attempts /\ req'[r].failovers = req[r].failovers
      /\ \/ req'[r].step = "route" /\ req'[r].code = req[r].code
         \/ req'[r].step = "done" /\ req'[r].code = "disabled"
  <2>1. PICK q \in Req : q = req[r]
    BY DEF RequestTyped
  <2>2. \/ req'[r] = [q EXCEPT !.step = "route"]
        \/ req'[r] = [q EXCEPT !.step = "done", !.code = "disabled"]
    BY <2>1 DEF RequestTyped, Start
  <2> QED BY <2>1, <2>2 DEF Req, Step, Code
<1>2. RequestTyped' /\ OthersRest(r) /\ calls'[r] = calls[r] /\ usage'[r] = usage[r]
  BY <1>1 DEF RequestTyped, Start, OthersRest
<1>3. calls[r] \in Seq(Call) /\ req[r] \in Req /\ req[r].step = "new"
  BY DEF RequestTyped, Start
<1>4. Truthful(req[r], calls[r], usage[r]) /\ Justified(calls[r]) /\ Limited(calls[r])
  BY DEF RequestsTruthful, Truthful
<1>5. Truthful(req'[r], calls'[r], usage'[r])
  BY <1>1, <1>2, <1>3, <1>4, QuietTruthful
<1> QED BY <1>2, <1>5, OneMoves

\* Skip, and an entry that finds no secret.
LEMMA OnwardStep ==
  ASSUME RequestTyped, RequestsTruthful, NEW r \in Request, Skip(r) \/ EnterWithoutSecret(r)
  PROVE  RequestTyped' /\ RequestsTruthful'
<1>1. calls[r] \in Seq(Call) /\ req[r] \in Req /\ req[r].step = "route" /\ req[r].at <= Len(Route)
  BY DEF RequestTyped, Skip, EnterWithoutSecret, OnRoute
<1>2. /\ req'[r] \in Req /\ req'[r].step = "route" /\ req'[r].at = req[r].at + 1
      /\ req'[r].attempt = 0
      /\ req'[r].attempts = req[r].attempts /\ req'[r].failovers = req[r].failovers
      /\ req'[r].code = req[r].code
  <2>1. PICK q \in Req : q = req[r]
    BY <1>1
  <2>2. PICK at \in 1..(Len(Route) + 1) : at = q.at + 1
    BY <1>1, <2>1, RouteShape DEF Req
  <2>3. req'[r] = [q EXCEPT !.step = "route", !.at = at, !.attempt = 0]
    BY <2>1, <2>2 DEF RequestTyped, Skip, EnterWithoutSecret, NextTarget
  <2>4. req'[r] \in Req
    <3>1. PICK step \in Step, attempt \in Nat : step = "route" /\ attempt = 0
      BY DEF Step
    <3>2. [q EXCEPT !.step = step, !.at = at, !.attempt = attempt] \in Req
      BY DEF Req
    <3> QED BY <2>3, <3>1, <3>2
  <2>5. /\ req'[r].step = "route" /\ req'[r].at = at /\ req'[r].attempt = 0
        /\ req'[r].attempts = q.attempts /\ req'[r].failovers = q.failovers
        /\ req'[r].code = q.code
    BY <2>3 DEF Req
  <2> QED BY <2>1, <2>2, <2>4, <2>5
<1>3. RequestTyped' /\ OthersRest(r) /\ calls'[r] = calls[r] /\ usage'[r] = usage[r]
  BY <1>2 DEF RequestTyped, Skip, EnterWithoutSecret, OthersRest
<1>4. Truthful(req[r], calls[r], usage[r])
  BY DEF RequestsTruthful
<1>5. Truthful(req'[r], calls'[r], usage'[r])
  BY <1>1, <1>2, <1>3, <1>4, OnwardTruthful
<1> QED BY <1>3, <1>5, OneMoves

\* Enter and Retry.
LEMMA CallStep ==
  ASSUME RequestTyped, RequestsTruthful, NEW r \in Request, Enter(r) \/ Retry(r)
  PROVE  /\ RequestTyped' /\ RequestsTruthful'
         /\ calls' = [calls EXCEPT ![r] = Extended(@, Route[req[r].at])]
         /\ Route[req[r].at] \in Target
<1>1. /\ calls[r] \in Seq(Call) /\ req[r] \in Req
      /\ req[r].step = "wait" \/ (req[r].step = "route" /\ req[r].at <= Len(Route))
  BY DEF RequestTyped, Enter, Retry, OnRoute
<1>2. Truthful(req[r], calls[r], usage[r])
  BY DEF RequestsTruthful
<1>3. CallNow(r) /\ usage' = usage
  BY DEF Enter, Retry
<1>4. /\ req'[r] \in Req /\ req'[r].step = "call" /\ req'[r].at = req[r].at
      /\ req'[r].attempt = req[r].attempt + 1 /\ req'[r].attempts = req[r].attempts + 1
      /\ req'[r].failovers = req[r].failovers /\ req'[r].code = req[r].code
  <2>1. PICK q \in Req : q = req[r]
    BY <1>1
  <2>2. PICK attempt \in Nat, attempts \in Nat :
          attempt = q.attempt + 1 /\ attempts = q.attempts + 1
    BY DEF Req
  <2>3. req'[r] = [q EXCEPT !.step = "call", !.attempt = attempt, !.attempts = attempts]
    BY <1>3, <2>1, <2>2 DEF RequestTyped, CallNow
  <2> QED BY <2>1, <2>2, <2>3 DEF Req, Step
<1>5. calls' = [calls EXCEPT ![r] = Extended(@, Route[req[r].at])]
  BY <1>3 DEF CallNow, Extended, At
<1>6. calls'[r] = Extended(calls[r], Route[req[r].at])
  BY <1>5 DEF RequestTyped
<1>7. Route[req[r].at] \in Target
  BY <1>1, <1>2, RouteShape DEF Truthful, Calling, Req
<1>8. Truthful(req'[r], calls'[r], usage'[r])
  BY <1>1, <1>2, <1>3, <1>4, <1>6, CallTruthful
<1>9. calls'[r] \in Seq(Call)
  BY <1>1, <1>6, <1>7, AppendedCall
<1>10. RequestTyped' /\ OthersRest(r)
  BY <1>3, <1>4, <1>5, <1>9 DEF RequestTyped, CallNow, OthersRest
<1> QED BY <1>5, <1>7, <1>8, <1>10, OneMoves

\* The end of a request that had no usage row.
LEMMA RecordedOnce ==
  ASSUME RequestTyped, NEW r \in Request, usage[r] = <<>>,
         NEW status \in {"success", "failed"}, NEW code \in Code, RecordUsage(r, status, code)
  PROVE  /\ usage' \in [Request -> Seq(UsageRow)] /\ req' \in [Request -> Req]
         /\ \A o \in Request \ {r} : usage'[o] = usage[o] /\ req'[o] = req[o]
         /\ req'[r] \in Req /\ req'[r].at = req[r].at /\ req'[r].attempts = req[r].attempts
         /\ req'[r].failovers = req[r].failovers /\ req'[r].code = code
         /\ Recorded(req'[r], usage'[r], req[r].attempts, status)
<1> DEFINE entry == [status |-> status, attempts |-> req[r].attempts,
                     failovers |-> req[r].failovers, code |-> code]
<1>1. entry \in UsageRow
  BY DEF RequestTyped, UsageRow, Req
<1>2. entry.attempts = req[r].attempts /\ entry.status = status /\ entry.code = code
  OBVIOUS
<1>3. PICK step \in {"done", "unrecorded"} :
        /\ req' = [req EXCEPT ![r].step = step, ![r].code = code]
        /\ usage' = IF step = "done" THEN [usage EXCEPT ![r] = Append(usage[r], entry)] ELSE usage
  BY DEF RecordUsage, RequestTyped
<1> HIDE DEF entry
<1>4. usage[r] \in Seq(UsageRow) /\ Len(usage[r]) = 0
  BY EmptySeq DEF RequestTyped
<1>5. /\ Append(usage[r], entry) \in Seq(UsageRow) /\ Len(Append(usage[r], entry)) = 1
      /\ Append(usage[r], entry)[1] = entry
  BY <1>1, <1>4, AppendProperties
<1>6. /\ req'[r] \in Req /\ req'[r].at = req[r].at /\ req'[r].attempts = req[r].attempts
      /\ req'[r].failovers = req[r].failovers /\ req'[r].code = code /\ req'[r].step = step
  <2>1. PICK q \in Req : q = req[r]
    BY DEF RequestTyped
  <2>2. req'[r] = [q EXCEPT !.step = step, !.code = code]
    BY <1>3, <2>1 DEF RequestTyped
  <2>3. step \in Step
    BY DEF Step
  <2> QED BY <2>1, <2>2, <2>3 DEF Req
<1>7. req' \in [Request -> Req] /\ \A o \in Request \ {r} : req'[o] = req[o]
  BY <1>3, <1>6 DEF RequestTyped
<1>8. CASE step = "done"
  <2>1. usage' = [usage EXCEPT ![r] = Append(usage[r], entry)]
    BY <1>3, <1>8
  <2>2. usage'[r] = Append(usage[r], entry)
    BY <2>1 DEF RequestTyped
  <2>3. Recorded(req'[r], usage'[r], req[r].attempts, status)
    BY <1>2, <1>5, <1>6, <1>8, <2>2 DEF Recorded
  <2> QED BY <1>5, <1>6, <1>7, <2>1, <2>3 DEF RequestTyped
<1>9. CASE step = "unrecorded"
  BY <1>3, <1>6, <1>7, <1>9 DEF RequestTyped, Recorded
<1> QED BY <1>8, <1>9

LEMMA ExhaustedStep ==
  ASSUME RequestTyped, RequestsTruthful, NEW r \in Request, Exhausted(r)
  PROVE  RequestTyped' /\ RequestsTruthful'
<1>1. calls[r] \in Seq(Call) /\ req[r] \in Req /\ req[r].step = "route"
  BY DEF RequestTyped, Exhausted
<1>2. Truthful(req[r], calls[r], usage[r]) /\ usage[r] = <<>>
  BY <1>1 DEF RequestsTruthful, Truthful, Settled
<1>3. /\ usage' \in [Request -> Seq(UsageRow)] /\ req' \in [Request -> Req]
      /\ \A o \in Request \ {r} : usage'[o] = usage[o] /\ req'[o] = req[o]
      /\ req'[r] \in Req /\ req'[r].at = req[r].at /\ req'[r].attempts = req[r].attempts
      /\ req'[r].failovers = req[r].failovers /\ req'[r].code = "all_routes_failed"
      /\ Recorded(req'[r], usage'[r], req[r].attempts, "failed")
  <2>1. "all_routes_failed" \in Code
    BY DEF Code
  <2> QED BY <1>2, <2>1, RecordedOnce DEF Exhausted
<1>4. RequestTyped' /\ OthersRest(r) /\ calls'[r] = calls[r]
  BY <1>3 DEF RequestTyped, Exhausted, OthersRest
<1>5. Truthful(req'[r], calls'[r], usage'[r])
  BY <1>1, <1>2, <1>3, <1>4, ExhaustedTruthful
<1> QED BY <1>4, <1>5, OneMoves

\* What Ended() writes.
LEMMA EndedWrites ==
  ASSUME RequestTyped, RequestsTruthful, NEW r \in Request, req[r].step = "call",
         NEW how \in Error \cup {"ok", "cancelled"}, Ended(r, how)
  PROVE  /\ calls' \in [Request -> Seq(Call)] /\ calls'[r] = EndedAs(calls[r], how)
         /\ \A o \in Request \ {r} : calls'[o] = calls[o]
         /\ calls[r] \in Seq(Call) /\ req[r] \in Req /\ usage[r] = <<>>
         /\ req[r].at \in DOMAIN Route
         /\ Truthful(req[r], calls[r], usage[r])
<1>1. Truthful(req[r], calls[r], usage[r]) /\ calls[r] \in Seq(Call) /\ req[r] \in Req
  BY DEF RequestsTruthful, RequestTyped
<1>2. calls[r] # <<>> /\ req[r].at \in DOMAIN Route /\ usage[r] = <<>>
  BY <1>1 DEF Truthful, Calling, Settled
<1>3. calls'[r] = EndedAs(calls[r], how) /\ \A o \in Request \ {r} : calls'[o] = calls[o]
  BY DEF RequestTyped, Ended, EndedAs
<1>4. EndedAs(calls[r], how) \in Seq(Call)
  BY <1>1, <1>2, EndedCall
<1>5. calls' \in [Request -> Seq(Call)]
  <2>1. calls' = [calls EXCEPT ![r] = EndedAs(calls[r], how)]
    BY DEF RequestTyped, Ended, EndedAs
  <2> QED BY <1>4, <2>1 DEF RequestTyped
<1> QED BY <1>1, <1>2, <1>3, <1>5

LEMMA AnswerStep ==
  ASSUME RequestTyped, RequestsTruthful, NEW r \in Request, Answer(r)
  PROVE  RequestTyped' /\ RequestsTruthful'
<1>1. /\ calls' \in [Request -> Seq(Call)] /\ calls'[r] = EndedAs(calls[r], "ok")
      /\ \A o \in Request \ {r} : calls'[o] = calls[o]
      /\ calls[r] \in Seq(Call) /\ req[r] \in Req /\ usage[r] = <<>>
      /\ Truthful(req[r], calls[r], usage[r])
  BY EndedWrites DEF Answer
<1>2. req[r].step = "call"
  BY DEF Answer
<1>3. /\ usage' \in [Request -> Seq(UsageRow)] /\ req' \in [Request -> Req]
      /\ \A o \in Request \ {r} : usage'[o] = usage[o] /\ req'[o] = req[o]
      /\ req'[r] \in Req /\ req'[r].at = req[r].at /\ req'[r].attempts = req[r].attempts
      /\ req'[r].failovers = req[r].failovers /\ req'[r].code = "none"
      /\ Recorded(req'[r], usage'[r], req[r].attempts, "success")
  <2>1. "none" \in Code
    BY DEF Code
  <2> QED BY <1>1, <2>1, RecordedOnce DEF Answer
<1>4. RequestTyped' /\ OthersRest(r)
  BY <1>1, <1>3 DEF RequestTyped, OthersRest
<1>5. Truthful(req'[r], calls'[r], usage'[r])
  BY <1>1, <1>2, <1>3, DoneTruthful
<1> QED BY <1>4, <1>5, OneMoves

LEMMA FailAndRetryStep ==
  ASSUME RequestTyped, RequestsTruthful, NEW r \in Request, NEW e \in Error,
         req[r].step = "call", FailAndRetry(r, e), Ended(r, e)
  PROVE  RequestTyped' /\ RequestsTruthful'
<1>1. /\ calls' \in [Request -> Seq(Call)] /\ calls'[r] = EndedAs(calls[r], e)
      /\ \A o \in Request \ {r} : calls'[o] = calls[o]
      /\ calls[r] \in Seq(Call) /\ req[r] \in Req
      /\ Truthful(req[r], calls[r], usage[r])
  BY EndedWrites
<1>2. e = "transient" /\ req[r].attempt < MaxAttempts[Route[req[r].at]] /\ usage' = usage
  BY DEF FailAndRetry, MayRetry, Retryable, At
<1>3. /\ req'[r] \in Req /\ req'[r].step = "wait" /\ req'[r].at = req[r].at
      /\ req'[r].attempt = req[r].attempt /\ req'[r].attempts = req[r].attempts
      /\ req'[r].failovers = req[r].failovers /\ req'[r].code = req[r].code
  BY DEF RequestTyped, FailAndRetry, Req, Step
<1>4. RequestTyped' /\ OthersRest(r)
  BY <1>1, <1>2, <1>3 DEF RequestTyped, FailAndRetry, OthersRest
<1>5. Truthful(req'[r], calls'[r], usage'[r])
  BY <1>1, <1>2, <1>3, WaitTruthful
<1> QED BY <1>4, <1>5, OneMoves

LEMMA FailAndLeaveStep ==
  ASSUME RequestTyped, RequestsTruthful, NEW r \in Request, NEW e \in Error,
         req[r].step = "call", FailAndLeave(r, e), Ended(r, e)
  PROVE  RequestTyped' /\ RequestsTruthful'
<1>1. /\ calls' \in [Request -> Seq(Call)] /\ calls'[r] = EndedAs(calls[r], e)
      /\ \A o \in Request \ {r} : calls'[o] = calls[o]
      /\ calls[r] \in Seq(Call) /\ req[r] \in Req /\ usage[r] = <<>>
      /\ req[r].at \in DOMAIN Route
      /\ Truthful(req[r], calls[r], usage[r])
  BY EndedWrites
<1>2. CASE FailoverEligible(e)
  <2>1. Eligible(e)
    BY <1>2 DEF FailoverEligible, Eligible, Error
  <2>2. req' = [req EXCEPT ![r] = [NextTarget(r) EXCEPT !.failovers = @ + 1]] /\ usage' = usage
    BY <1>2 DEF FailAndLeave
  <2>3. PICK q \in Req : q = req[r]
    BY <1>1
  <2>4. PICK at \in 1..(Len(Route) + 1) : at = q.at + 1
    BY <1>1, <2>3, RouteShape DEF Req
  <2>5. PICK failovers \in 0..Len(Route) : failovers = q.failovers + 1
    BY <1>1, <2>3, RouteShape DEF Req, Truthful, Counts
  <2>6. req'[r] = [[q EXCEPT !.step = "route", !.at = at, !.attempt = 0]
                     EXCEPT !.failovers = failovers]
    <3>1. NextTarget(r) = [q EXCEPT !.step = "route", !.at = at, !.attempt = 0]
      BY <2>3, <2>4 DEF NextTarget
    <3>2. NextTarget(r).failovers = q.failovers
      BY <3>1 DEF Req
    <3> QED BY <2>2, <2>5, <3>1, <3>2 DEF RequestTyped
  <2>7. req'[r] \in Req
    <3>1. PICK step \in Step, attempt \in Nat : step = "route" /\ attempt = 0
      BY DEF Step
    <3>2. [q EXCEPT !.step = step, !.at = at, !.attempt = attempt] \in Req
      BY DEF Req
    <3>3. PICK p \in Req : p = [q EXCEPT !.step = "route", !.at = at, !.attempt = 0]
      BY <3>1, <3>2
    <3>4. req'[r] = [p EXCEPT !.failovers = failovers]
      BY <2>6, <3>3
    <3> QED BY <3>4 DEF Req
  <2>8. /\ req'[r].step = "route" /\ req'[r].at = at /\ req'[r].attempt = 0
        /\ req'[r].attempts = q.attempts /\ req'[r].failovers = failovers
        /\ req'[r].code = q.code
    BY <2>6 DEF Req
  <2>9. Truthful(req'[r], calls'[r], usage'[r])
    BY <1>1, <2>1, <2>2, <2>3, <2>4, <2>5, <2>7, <2>8, LeaveTruthful
  <2>10. RequestTyped' /\ OthersRest(r)
    BY <1>1, <2>2, <2>7 DEF RequestTyped, OthersRest
  <2> QED BY <2>9, <2>10, OneMoves
<1>3. CASE ~FailoverEligible(e)
  <2>1. e = "ours" /\ e \in Code
    BY <1>3 DEF FailoverEligible, Code
  <2>2. RecordUsage(r, "failed", e)
    BY <1>3 DEF FailAndLeave
  <2>3. /\ usage' \in [Request -> Seq(UsageRow)] /\ req' \in [Request -> Req]
        /\ \A o \in Request \ {r} : usage'[o] = usage[o] /\ req'[o] = req[o]
        /\ req'[r] \in Req /\ req'[r].at = req[r].at /\ req'[r].attempts = req[r].attempts
        /\ req'[r].failovers = req[r].failovers /\ req'[r].code = "ours"
        /\ Recorded(req'[r], usage'[r], req[r].attempts, "failed")
    BY <1>1, <2>1, <2>2, RecordedOnce
  <2>4. Truthful(req'[r], calls'[r], usage'[r])
    BY <1>1, <2>1, <2>3, DoneTruthful
  <2>5. RequestTyped' /\ OthersRest(r)
    BY <1>1, <2>3 DEF RequestTyped, OthersRest
  <2> QED BY <2>4, <2>5, OneMoves
<1> QED BY <1>2, <1>3

LEMMA CancelStep ==
  ASSUME RequestTyped, RequestsTruthful, NEW r \in Request, Cancel(r) \/ Break(r)
  PROVE  RequestTyped' /\ RequestsTruthful'
<1>1. /\ req'[r] \in Req /\ req'[r].step = "cancelled" /\ req'[r].at = req[r].at
      /\ req'[r].attempt = req[r].attempt /\ req'[r].attempts = req[r].attempts
      /\ req'[r].failovers = req[r].failovers /\ req'[r].code = req[r].code
  BY DEF RequestTyped, Cancel, Break, Req, Step
<1>2. /\ calls[r] \in Seq(Call) /\ req[r] \in Req
      /\ req[r].step \in {"new", "route", "call", "wait"}
      /\ Truthful(req[r], calls[r], usage[r]) /\ usage' = usage
  BY DEF RequestTyped, RequestsTruthful, Cancel, Break, OnRoute
<1>3. /\ calls' \in [Request -> Seq(Call)] /\ \A o \in Request \ {r} : calls'[o] = calls[o]
      /\ Justified(calls'[r]) /\ Limited(calls'[r]) /\ Len(calls'[r]) = Len(calls[r])
  <2>1. CASE req[r].step = "call"
    <3>1. PICK how \in Error \cup {"ok", "cancelled"} : Ended(r, how)
      BY <2>1 DEF Cancel, Break, OnRoute
    <3>2. /\ calls' \in [Request -> Seq(Call)] /\ calls'[r] = EndedAs(calls[r], how)
          /\ \A o \in Request \ {r} : calls'[o] = calls[o]
      BY <2>1, <3>1, EndedWrites
    <3>3. Justified(calls'[r]) /\ Limited(calls'[r]) /\ Len(calls'[r]) = req[r].attempts
      BY <1>2, <2>1, <3>2, EndOfCall
    <3> QED BY <1>2, <3>2, <3>3 DEF Truthful, Counts
  <2>2. CASE req[r].step # "call"
    <3>1. calls' = calls
      BY <2>2 DEF Cancel, Break
    <3> QED BY <1>2, <3>1 DEF RequestTyped, Truthful
  <2> QED BY <2>1, <2>2
<1>4. RequestTyped' /\ OthersRest(r)
  BY <1>1, <1>2, <1>3 DEF RequestTyped, Cancel, Break, OthersRest
<1>5. Truthful(req'[r], calls'[r], usage'[r])
  BY <1>1, <1>2, <1>3, QuietTruthful
<1> QED BY <1>4, <1>5, OneMoves

-------------------------------------------------------------------------------
(* The failures of a provider, over all requests.                            *)

LEMMA FailuresMember ==
  ASSUME NEW p, NEW ends
  PROVE  /\ \A x : x \in Failures(p, ends) <=>
               \E r \in Request : \E n \in DOMAIN calls[r] :
                 x = <<r, n>> /\ ProviderOf[calls[r][n].target] = p /\ calls[r][n].end \in ends
         /\ \A x : x \in Failures(p, ends)' <=>
               \E r \in Request : \E n \in DOMAIN calls'[r] :
                 x = <<r, n>> /\ ProviderOf[calls'[r][n].target] = p /\ calls'[r][n].end \in ends
  BY DEF Failures

\* A call that begins is no failure.
LEMMA CallFailsNothing ==
  ASSUME RequestTyped, NEW r \in Request, NEW t \in Target,
         calls' = [calls EXCEPT ![r] = Extended(@, t)], NEW p, NEW ends \in SUBSET Error
  PROVE  Failures(p, ends)' = Failures(p, ends)
<1>1. /\ calls[r] \in Seq(Call) /\ calls'[r] = Extended(calls[r], t)
      /\ \A o \in Request \ {r} : calls'[o] = calls[o]
  BY DEF RequestTyped
<1>2. /\ Len(calls'[r]) = Len(calls[r]) + 1 /\ Last(calls'[r]).end = "open"
      /\ \A n \in 1..Len(calls[r]) : calls'[r][n] = calls[r][n]
      /\ calls'[r] \in Seq(Call)
  BY <1>1, AppendedCall
<1>3. /\ DOMAIN calls[r] = 1..Len(calls[r]) /\ DOMAIN calls'[r] = 1..(Len(calls[r]) + 1)
      /\ Len(calls[r]) \in Nat
  BY <1>1, <1>2, CallsShape
<1>4. calls'[r][Len(calls[r]) + 1].end \notin ends
  BY <1>2 DEF Last, Error
<1>5. ASSUME NEW o \in Request, NEW n
      PROVE  n \in DOMAIN calls'[o] /\ calls'[o][n].end \in ends
               <=> n \in DOMAIN calls[o] /\ calls[o][n].end \in ends
  BY <1>1, <1>2, <1>3, <1>4
<1>6. ASSUME NEW o \in Request, NEW n \in DOMAIN calls[o], calls[o][n].end \in ends
      PROVE  calls'[o][n] = calls[o][n]
  BY <1>1, <1>2, <1>3
<1>7. ASSUME NEW x \in Failures(p, ends) PROVE x \in Failures(p, ends)'
  BY <1>5, <1>6, FailuresMember
<1>8. ASSUME NEW x \in Failures(p, ends)' PROVE x \in Failures(p, ends)
  BY <1>5, <1>6, FailuresMember
<1> QED BY <1>7, <1>8

\* A call that ends is one failure more of its provider, or none.
LEMMA EndFailsOnce ==
  ASSUME RequestTyped, NEW r \in Request, calls[r] # <<>>, Last(calls[r]).end = "open",
         NEW how \in Error \cup {"ok", "cancelled"}, calls'[r] = EndedAs(calls[r], how),
         \A o \in Request \ {r} : calls'[o] = calls[o], NEW p, NEW ends \in SUBSET Error
  PROVE  /\ <<r, Len(calls[r])>> \notin Failures(p, ends)
         /\ Failures(p, ends)' =
              IF ProviderOf[Last(calls[r]).target] = p /\ how \in ends
              THEN Failures(p, ends) \cup {<<r, Len(calls[r])>>} ELSE Failures(p, ends)
<1>1. calls[r] \in Seq(Call)
  BY DEF RequestTyped
<1>2. /\ Len(calls'[r]) = Len(calls[r]) /\ calls'[r] \in Seq(Call)
      /\ Last(calls'[r]).target = Last(calls[r]).target /\ Last(calls'[r]).end = how
      /\ \A n \in 1..Len(calls[r]) : n # Len(calls[r]) => calls'[r][n] = calls[r][n]
  BY <1>1, EndedCall
<1>3. /\ DOMAIN calls[r] = 1..Len(calls[r]) /\ DOMAIN calls'[r] = 1..Len(calls[r])
      /\ Len(calls[r]) \in 1..Len(calls[r])
  BY <1>1, <1>2, CallsShape
<1>4. /\ calls[r][Len(calls[r])].end \notin ends
      /\ calls'[r][Len(calls[r])].end = how
      /\ calls'[r][Len(calls[r])].target = Last(calls[r]).target
  BY <1>2 DEF Last, Error
<1> DEFINE x0 == <<r, Len(calls[r])>>
<1>5. x0 \notin Failures(p, ends)
  BY <1>4, FailuresMember
<1>6. x0 \in Failures(p, ends)' <=> ProviderOf[Last(calls[r]).target] = p /\ how \in ends
  BY <1>3, <1>4, FailuresMember
<1>7. ASSUME NEW x, x # x0 PROVE x \in Failures(p, ends)' <=> x \in Failures(p, ends)
  <2>1. ASSUME NEW o \in Request, NEW n, x = <<o, n>>
        PROVE  /\ n \in DOMAIN calls'[o] <=> n \in DOMAIN calls[o]
               /\ n \in DOMAIN calls[o] => calls'[o][n] = calls[o][n]
    BY <1>2, <1>3, <1>7, <2>1
  <2> QED BY <2>1, FailuresMember
<1>8. CASE ProviderOf[Last(calls[r]).target] = p /\ how \in ends
  <2>1. Failures(p, ends)' = Failures(p, ends) \cup {x0}
    BY <1>6, <1>7, <1>8
  <2> QED BY <1>5, <1>8, <2>1
<1>9. CASE ~(ProviderOf[Last(calls[r]).target] = p /\ how \in ends)
  <2>1. Failures(p, ends)' = Failures(p, ends)
    BY <1>5, <1>6, <1>7, <1>9
  <2> QED BY <1>5, <1>9, <2>1
<1> QED BY <1>8, <1>9

LEMMA NothingFails ==
  ASSUME calls' = calls, NEW p, NEW ends PROVE Failures(p, ends)' = Failures(p, ends)
  BY DEF Failures

-------------------------------------------------------------------------------
(* The circuits.                                                             *)

\* Nobody has to be blamed for row b after row a.
Calm(a, b) ==
  \/ b.state = a.state /\ b.failures = a.failures
  \/ b.state = "closed" /\ b.failures = 0
  \/ a.state # "closed" /\ b.state # "closed"

\* One failure more accounts for row b after row a.
Blamed(a, b) ==
  \/ Calm(a, b)
  \/ /\ a.state = "closed"
     /\ IF b.state = "closed" THEN b.failures <= a.failures + 1 ELSE a.failures + 1 >= Threshold

LEMMA RowMoves ==
  ASSUME NEW a \in Row
  PROVE  /\ Grants(a) => Calm(a, Granted(a))
         /\ Granted(a) \in Row
         /\ Granted(a).state = "closed" <=> a.state = "closed"
         /\ Granted(a).failures = a.failures
         /\ Calm(a, Elapse(a)) /\ Calm(a, Closed(a))
         /\ a.state = "closed" => Calm(a, WindowCleared(a))
         /\ OpenedByAuth(a).state = "open"
         /\ Blamed(a, Failed(a))
<1> USE PolicyAssumption DEF Calm
<1>1. /\ Leased(a) \in Row /\ Leased(a).state = "half_open" /\ Leased(a).failures = a.failures
  BY RowTyping DEF Leased, Row
<1>2. /\ Grants(a) => Calm(a, Granted(a))
      /\ Granted(a) \in Row
      /\ Granted(a).state = "closed" <=> a.state = "closed"
      /\ Granted(a).failures = a.failures
  BY <1>1 DEF Grants, Granted, CooldownPassed, LeaseExpired
<1>3. Calm(a, Elapse(a)) /\ Calm(a, Closed(a))
  BY DEF Elapse, Closed, FreshRow, Row
<1>4. a.state = "closed" => Calm(a, WindowCleared(a))
  BY DEF WindowCleared, Row
<1>5. OpenedByAuth(a).state = "open"
  BY DEF OpenedByAuth, Opened, Row
<1>6. Blamed(a, Failed(a))
  <2> DEFINE b == Counted(a)
  <2>1. b \in Row /\ b.state = a.state /\ b.failures <= a.failures + 1
    <3>1. b \in Row
      BY RowTyping
    <3>2. /\ b.state = a.state
          /\ b.failures = IF a.windowAge = Window THEN 1
                           ELSE IF a.failures < Threshold THEN a.failures + 1 ELSE a.failures
      BY DEF Counted, Row
    <3>3. a.failures \in Nat
      BY DEF Row
    <3> HIDE DEF b
    <3> QED BY <3>1, <3>2, <3>3
  <2>2. Opened(b, Cooldown).state = "open"
    BY <2>1 DEF Opened, Row
  <2>3. a.failures \in Nat /\ b.failures \in Nat /\ Threshold \in Nat
    BY <2>1 DEF Row
  <2> QED BY <2>1, <2>2, <2>3 DEF Failed, Blamed
<1> QED BY <1>2, <1>3, <1>4, <1>5, <1>6

Covered(p) ==
  /\ IsFiniteSet(Spared(p))
  /\ circuit[p].state = "closed" => circuit[p].failures <= Cardinality(Spared(p))
  /\ circuit[p].state # "closed" =>
       Failures(p, {"auth"}) # {} \/ Cardinality(Spared(p)) >= Threshold

LEMMA AllCovered == (CountCovered /\ TripsHaveCause) <=> \A p \in Provider : Covered(p)
  BY DEF CountCovered, TripsHaveCause, Covered, Spared

\* A row stays covered when nobody is to blame, when one failure more is, and when a
\* credential was refused.
LEMMA CoveredStep ==
  ASSUME NEW p \in Provider, circuit[p] \in Row, circuit'[p] \in Row, Covered(p), NEW x,
         Failures(p, {"auth"}) \subseteq Failures(p, {"auth"})',
         Spared(p)' = Spared(p) \/ Spared(p)' = Spared(p) \cup {x},
         \/ Calm(circuit[p], circuit'[p])
         \/ /\ Blamed(circuit[p], circuit'[p])
            /\ x \notin Spared(p) /\ Spared(p)' = Spared(p) \cup {x}
         \/ circuit'[p].state # "closed" /\ Failures(p, {"auth"})' # {}
  PROVE  Covered(p)'
<1>1. /\ IsFiniteSet(Spared(p)) /\ IsFiniteSet(Spared(p)')
      /\ Cardinality(Spared(p)) \in Nat /\ Cardinality(Spared(p)') \in Nat
      /\ Cardinality(Spared(p)) <= Cardinality(Spared(p)')
      /\ x \notin Spared(p) /\ Spared(p)' = Spared(p) \cup {x}
           => Cardinality(Spared(p)') = Cardinality(Spared(p)) + 1
  <2>1. PICK S, T : S = Spared(p) /\ T = Spared(p)'
    OBVIOUS
  <2>2. IsFiniteSet(S) /\ Cardinality(S) \in Nat
    BY <2>1, FS_CardinalityType DEF Covered
  <2>3. /\ IsFiniteSet(S \cup {x})
        /\ Cardinality(S \cup {x}) = IF x \in S THEN Cardinality(S) ELSE Cardinality(S) + 1
    BY <2>2, FS_AddElement
  <2>4. T = S \/ T = S \cup {x}
    BY <2>1
  <2>5. /\ IsFiniteSet(T) /\ Cardinality(T) \in Nat /\ Cardinality(S) <= Cardinality(T)
        /\ x \notin S /\ T = S \cup {x} => Cardinality(T) = Cardinality(S) + 1
    BY <2>2, <2>3, <2>4
  <2> QED BY <2>1, <2>2, <2>5
<1>2. /\ circuit[p].failures \in Nat /\ circuit'[p].failures \in Nat /\ Threshold \in Nat
  BY PolicyAssumption DEF Row
<1>3. CASE Calm(circuit[p], circuit'[p])
  BY <1>1, <1>2, <1>3 DEF Covered, Calm
<1>4. CASE Blamed(circuit[p], circuit'[p]) /\ x \notin Spared(p) /\ Spared(p)' = Spared(p) \cup {x}
  BY <1>1, <1>2, <1>3, <1>4 DEF Covered, Blamed
<1>5. CASE circuit'[p].state # "closed" /\ Failures(p, {"auth"})' # {}
  BY <1>1, <1>5 DEF Covered
<1> QED BY <1>3, <1>4, <1>5

CircuitsRight == circuit \in [Provider -> Row] /\ \A p \in Provider : Covered(p)

\* A step in which nothing fails: each row is granted, cleared or left to time.
LEMMA CalmStep ==
  ASSUME CircuitsRight, circuit' \in [Provider -> Row],
         \A p \in Provider : /\ Calm(circuit[p], circuit'[p])
                            /\ \A ends \in SUBSET Error : Failures(p, ends)' = Failures(p, ends)
  PROVE  CircuitsRight'
<1> SUFFICES ASSUME NEW p \in Provider PROVE Covered(p)'
  BY DEF CircuitsRight
<1>1. Spared(p)' = Spared(p) /\ Failures(p, {"auth"})' = Failures(p, {"auth"})
  BY DEF Spared, Error
<1>2. circuit[p] \in Row /\ circuit'[p] \in Row /\ Covered(p)
  BY DEF CircuitsRight
<1> QED BY <1>1, <1>2, CoveredStep

LEMMA OneRow ==
  ASSUME CircuitsRight, NEW P \in Provider, NEW new \in Row,
         circuit' = [circuit EXCEPT ![P] = new]
  PROVE  /\ circuit' \in [Provider -> Row] /\ circuit'[P] = new
         /\ \A p \in Provider \ {P} : circuit'[p] = circuit[p] /\ Calm(circuit[p], circuit'[p])
  BY DEF CircuitsRight, Calm

\* A lease is granted, and no call follows.
LEMMA LeaseLeft ==
  ASSUME RequestTyped, CircuitsRight, NEW r \in Request, OnRoute(r), calls' = calls,
         Grants(Circuit(r)), SetCircuit(r, Granted(Circuit(r)))
  PROVE  CircuitsRight'
<1>1. \A p \in Provider : \A ends \in SUBSET Error : Failures(p, ends)' = Failures(p, ends)
  BY NothingFails
<1>2. req[r].at \in DOMAIN Route
  BY RouteShape DEF OnRoute, RequestTyped, Req
<1>3. PICK P \in Provider : P = ProviderOf[At(r)]
  BY <1>2, RouteShape, EngineAssumption DEF At
<1>4. PICK was \in Row : was = circuit[P]
  BY DEF CircuitsRight
<1>5. Grants(was) /\ circuit' = [circuit EXCEPT ![P] = Granted(was)]
  BY <1>3, <1>4 DEF Circuit, SetCircuit
<1>6. Granted(was) \in Row /\ Calm(was, Granted(was))
  BY <1>5, RowMoves
<1>7. circuit' \in [Provider -> Row] /\ \A p \in Provider : Calm(circuit[p], circuit'[p])
  BY <1>4, <1>5, <1>6, OneRow
<1> QED BY <1>1, <1>7, CalmStep

\* Start, Skip, Exhausted and EnterWithoutSecret.
LEMMA NoCallCircuits ==
  ASSUME RequestTyped, CircuitsRight, NEW r \in Request,
         Start(r) \/ Skip(r) \/ Exhausted(r) \/ EnterWithoutSecret(r)
  PROVE  CircuitsRight'
<1>1. \A p \in Provider : \A ends \in SUBSET Error : Failures(p, ends)' = Failures(p, ends)
  BY NothingFails DEF Start, Skip, Exhausted, EnterWithoutSecret
<1>2. CASE circuit' = circuit
  BY <1>1, <1>2, CalmStep DEF CircuitsRight, Calm
<1>3. CASE EnterWithoutSecret(r)
  BY <1>3, LeaseLeft DEF EnterWithoutSecret
<1> QED BY <1>2, <1>3 DEF Start, Skip, Exhausted

LEMMA TickCircuits == ASSUME CircuitsRight, Tick PROVE CircuitsRight'
<1>1. \A p \in Provider : \A ends \in SUBSET Error : Failures(p, ends)' = Failures(p, ends)
  BY NothingFails DEF Tick
<1>2. \A p \in Provider : circuit'[p] = Elapse(circuit[p]) /\ circuit[p] \in Row
  BY DEF CircuitsRight, Tick
<1>3. \A p \in Provider : Calm(circuit[p], circuit'[p]) /\ circuit'[p] \in Row
  BY <1>2, RowMoves, RowTyping
<1>4. circuit' \in [Provider -> Row]
  BY <1>3 DEF Tick
<1> QED BY <1>1, <1>3, <1>4, CalmStep

\* Enter and Retry.
LEMMA CallCircuits ==
  ASSUME RequestTyped, RequestsTruthful, CircuitsRight, NEW r \in Request, Enter(r) \/ Retry(r)
  PROVE  CircuitsRight'
<1>1. /\ calls' = [calls EXCEPT ![r] = Extended(@, Route[req[r].at])]
      /\ Route[req[r].at] \in Target
  BY CallStep
<1>2. \A p \in Provider : \A ends \in SUBSET Error : Failures(p, ends)' = Failures(p, ends)
  BY <1>1, CallFailsNothing
<1>3. CASE Retry(r)
  <2>1. circuit' = circuit
    BY <1>3 DEF Retry
  <2> QED BY <1>2, <2>1, CalmStep DEF CircuitsRight, Calm
<1>4. CASE Enter(r)
  <2>1. PICK P \in Provider : P = ProviderOf[At(r)]
    BY <1>1, EngineAssumption DEF At
  <2>2. PICK was \in Row : was = circuit[P]
    BY DEF CircuitsRight
  <2>3. Grants(was) /\ circuit' = [circuit EXCEPT ![P] = Granted(was)]
    BY <1>4, <2>1, <2>2 DEF Enter, Circuit, SetCircuit
  <2>4. Granted(was) \in Row /\ Calm(was, Granted(was))
    BY <2>3, RowMoves
  <2>5. circuit' \in [Provider -> Row] /\ \A p \in Provider : Calm(circuit[p], circuit'[p])
    BY <2>2, <2>3, <2>4, OneRow
  <2> QED BY <1>2, <2>5, CalmStep
<1> QED BY <1>3, <1>4

\* What an ended call may do to the row of its provider.
AccountsFor(how, a, b) ==
  \/ Calm(a, b)
  \/ how \in {"transient", "refused"} /\ Blamed(a, b)
  \/ how = "auth" /\ b.state # "closed"

LEMMA FailureAccounts ==
  ASSUME NEW a \in Row, NEW e \in Error, NEW b, b = AfterFailure(a, e)
  PROVE  /\ b \in Row /\ AccountsFor(e, a, b)
         /\ Granted(b) \in Row /\ AccountsFor(e, a, Granted(b))
<1>1. CASE e = "auth"
  <2>1. b = OpenedByAuth(a)
    BY <1>1 DEF AfterFailure
  <2>2. b \in Row /\ b.state = "open"
    BY <2>1, RowTyping, RowMoves
  <2>3. Granted(b) \in Row /\ Granted(b).state # "closed"
    BY <2>2, RowMoves
  <2> QED BY <1>1, <2>2, <2>3 DEF AccountsFor
<1>2. CASE e \in {"transient", "refused"}
  <2>1. b = Failed(a)
    BY <1>2 DEF AfterFailure
  <2>2. b \in Row /\ Blamed(a, b)
    BY <2>1, RowTyping, RowMoves
  <2>3. /\ Granted(b) \in Row /\ Granted(b).failures = b.failures
        /\ Granted(b).state = "closed" <=> b.state = "closed"
        /\ b.state = "closed" => Granted(b) = b
    BY <2>2, RowMoves DEF Granted
  <2>4. Blamed(a, Granted(b))
    BY <2>2, <2>3 DEF Blamed, Calm
  <2> QED BY <1>2, <2>2, <2>3, <2>4 DEF AccountsFor
<1>3. CASE e = "ours"
  <2>1. b = a
    BY <1>3 DEF AfterFailure
  <2>2. b \in Row /\ Calm(a, b)
    BY <2>1 DEF Calm
  <2>3. /\ Granted(b) \in Row /\ Granted(b).failures = b.failures
        /\ Granted(b).state = "closed" <=> b.state = "closed"
        /\ b.state = "closed" => Granted(b) = b
    BY <2>2, RowMoves DEF Granted
  <2>4. Calm(a, Granted(b))
    BY <2>1, <2>3 DEF Calm
  <2> QED BY <2>2, <2>3, <2>4 DEF AccountsFor
<1> QED BY <1>1, <1>2, <1>3 DEF Error

LEMMA EndCircuits ==
  ASSUME RequestTyped, RequestsTruthful, CircuitsRight, NEW r \in Request, req[r].step = "call",
         NEW how \in Error \cup {"ok", "cancelled"}, Ended(r, how),
         NEW P \in Provider, P = ProviderOf[At(r)], NEW new \in Row,
         circuit' = [circuit EXCEPT ![P] = new], AccountsFor(how, circuit[P], new)
  PROVE  CircuitsRight'
<1>1. /\ calls'[r] = EndedAs(calls[r], how) /\ \A o \in Request \ {r} : calls'[o] = calls[o]
      /\ Truthful(req[r], calls[r], usage[r])
  BY EndedWrites
<1>2. /\ calls[r] # <<>> /\ Last(calls[r]).end = "open"
      /\ ProviderOf[Last(calls[r]).target] = P
  BY <1>1 DEF Truthful, Calling, At
<1>3. PICK x : x = <<r, Len(calls[r])>>
  OBVIOUS
<1>4. \A p \in Provider : \A ends \in SUBSET Error :
        /\ x \notin Failures(p, ends)
        /\ Failures(p, ends)' = IF P = p /\ how \in ends
                                THEN Failures(p, ends) \cup {x} ELSE Failures(p, ends)
  BY <1>1, <1>2, <1>3, EndFailsOnce
<1>5. /\ circuit' \in [Provider -> Row] /\ circuit'[P] = new
      /\ \A p \in Provider \ {P} : Calm(circuit[p], circuit'[p])
  BY OneRow
<1> SUFFICES ASSUME NEW p \in Provider PROVE Covered(p)'
  BY <1>5 DEF CircuitsRight
<1>6. {"auth"} \in SUBSET Error /\ {"transient", "refused"} \in SUBSET Error
  BY DEF Error
<1>7. /\ x \notin Spared(p)
      /\ Spared(p)' = IF P = p /\ how \in {"transient", "refused"}
                      THEN Spared(p) \cup {x} ELSE Spared(p)
      /\ Failures(p, {"auth"})' = IF P = p /\ how \in {"auth"}
                                  THEN Failures(p, {"auth"}) \cup {x} ELSE Failures(p, {"auth"})
  BY <1>4, <1>6 DEF Spared
<1>8. circuit[p] \in Row /\ circuit'[p] \in Row /\ Covered(p)
  BY <1>5 DEF CircuitsRight
<1>9. CASE p # P
  BY <1>5, <1>7, <1>8, <1>9, CoveredStep
<1>10. CASE p = P
  BY <1>5, <1>7, <1>8, <1>10, CoveredStep DEF AccountsFor
<1> QED BY <1>9, <1>10

LEMMA ProviderHere ==
  ASSUME RequestTyped, RequestsTruthful, NEW r \in Request, req[r].step = "call"
  PROVE  ProviderOf[At(r)] \in Provider
<1>1. req[r].at \in DOMAIN Route
  BY DEF RequestsTruthful, Truthful, Calling
<1> QED BY <1>1, RouteShape, EngineAssumption DEF At

LEMMA AnswerCircuits ==
  ASSUME RequestTyped, RequestsTruthful, CircuitsRight, NEW r \in Request, Answer(r)
  PROVE  CircuitsRight'
<1>1. PICK P \in Provider : P = ProviderOf[At(r)]
  BY ProviderHere DEF Answer
<1>2. PICK was \in Row : was = circuit[P]
  BY DEF CircuitsRight
<1>3. PICK new : new = IF was.state = "closed" THEN WindowCleared(was) ELSE Closed(was)
  OBVIOUS
<1>4. new \in Row /\ Calm(was, new)
  BY <1>3, RowTyping, RowMoves
<1>5. circuit' = [circuit EXCEPT ![P] = new]
  BY <1>1, <1>2, <1>3 DEF Answer, Circuit, SetCircuit, AfterSuccess
<1>6. AccountsFor("ok", circuit[P], new)
  BY <1>2, <1>4 DEF AccountsFor
<1> QED BY <1>1, <1>4, <1>5, <1>6, EndCircuits DEF Answer

LEMMA CancelCircuits ==
  ASSUME RequestTyped, RequestsTruthful, CircuitsRight, NEW r \in Request, Cancel(r)
  PROVE  CircuitsRight'
<1>1. CASE req[r].step = "call"
  <2>1. PICK P \in Provider : P = ProviderOf[At(r)]
    BY <1>1, ProviderHere
  <2>2. PICK new \in Row : new = circuit[P]
    BY DEF CircuitsRight
  <2>3. circuit' = [circuit EXCEPT ![P] = new]
    BY <2>2 DEF Cancel, CircuitsRight
  <2>4. AccountsFor("cancelled", circuit[P], new)
    BY <2>2 DEF AccountsFor, Calm
  <2> QED BY <1>1, <2>1, <2>3, <2>4, EndCircuits DEF Cancel
<1>2. CASE req[r].step = "wait"
  <2>1. calls' = calls /\ circuit' = circuit
    BY <1>2 DEF Cancel
  <2> QED BY <2>1, NothingFails, CalmStep DEF CircuitsRight, Calm
<1> QED BY <1>1, <1>2 DEF Cancel

LEMMA FailCircuits ==
  ASSUME RequestTyped, RequestsTruthful, CircuitsRight, NEW r \in Request, NEW e \in Error,
         req[r].step = "call", FailAndRetry(r, e) \/ FailAndLeave(r, e), Ended(r, e)
  PROVE  CircuitsRight'
<1>1. PICK P \in Provider : P = ProviderOf[At(r)]
  BY ProviderHere
<1>2. PICK was \in Row : was = circuit[P]
  BY DEF CircuitsRight
<1>3. PICK after : after = AfterFailure(was, e)
  OBVIOUS
<1>4. PICK new : new \in {after, Granted(after)} /\ circuit' = [circuit EXCEPT ![P] = new]
  BY <1>1, <1>2, <1>3 DEF FailAndRetry, FailAndLeave, Circuit, SetCircuit
<1>5. new \in Row /\ AccountsFor(e, circuit[P], new)
  BY <1>2, <1>3, <1>4, FailureAccounts
<1> QED BY <1>1, <1>4, <1>5, EndCircuits

LEMMA BreakCircuits ==
  ASSUME RequestTyped, RequestsTruthful, CircuitsRight, NEW r \in Request, Break(r)
  PROVE  CircuitsRight'
<1>1. CASE calls' = calls /\ circuit' = circuit
  BY <1>1, NothingFails, CalmStep DEF CircuitsRight, Calm
<1>2. CASE OnRoute(r) /\ Grants(Circuit(r)) /\ SetCircuit(r, Granted(Circuit(r))) /\ calls' = calls
  BY <1>2, LeaseLeft
<1>3. CASE req[r].step = "call"
  <2>1. PICK P \in Provider : P = ProviderOf[At(r)]
    BY <1>3, ProviderHere
  <2>2. PICK was \in Row : was = circuit[P]
    BY DEF CircuitsRight
  <2>3. PICK how, new :
          /\ how \in {"ok"} \cup Error /\ Ended(r, how)
          /\ circuit' = [circuit EXCEPT ![P] = new]
          /\ \/ new = was
             \/ how = "ok" /\ new = AfterSuccess(was)
             \/ how \in Error /\ new = AfterFailure(was, how)
    BY <1>3, <2>1, <2>2 DEF Break, OnRoute, Circuit, SetCircuit, CircuitsRight
  <2>4. /\ AfterSuccess(was) \in Row /\ Calm(was, AfterSuccess(was)) /\ Calm(was, was)
        /\ how \in Error => /\ AfterFailure(was, how) \in Row
                            /\ AccountsFor(how, was, AfterFailure(was, how))
    BY RowTyping, RowMoves, FailureAccounts DEF AfterSuccess, Calm
  <2>5. new \in Row /\ AccountsFor(how, was, new)
    <3>1. CASE new = was \/ (how = "ok" /\ new = AfterSuccess(was))
      BY <2>4, <3>1 DEF AccountsFor
    <3>2. CASE how \in Error /\ new = AfterFailure(was, how)
      BY <2>4, <3>2
    <3> QED BY <2>3, <3>1, <3>2
  <2> QED BY <1>3, <2>1, <2>2, <2>3, <2>5, EndCircuits
<1>4. \/ calls' = calls /\ circuit' = circuit
      \/ OnRoute(r) /\ Grants(Circuit(r)) /\ SetCircuit(r, Granted(Circuit(r))) /\ calls' = calls
      \/ req[r].step = "call"
  BY DEF Break
<1> QED BY <1>1, <1>2, <1>3, <1>4

-------------------------------------------------------------------------------
(* The theorems.                                                             *)

\* The inductive invariant, by requests and by circuits.
Right == RequestTyped /\ RequestsTruthful /\ CircuitsRight

LEMMA IInvIsRight == IInv <=> Right
  BY AllCovered DEF IInv, Right, TypeOK, RequestTyped, CircuitsRight

LEMMA InitRight == Init => Right
<1> SUFFICES ASSUME Init PROVE Right
  OBVIOUS
<1>1. RequestTyped
  <2>1. \A r \in Request : req[r] \in Req
    BY RouteShape DEF Init, Req, Step, Code
  <2>2. <<>> \in Seq(UsageRow) /\ <<>> \in Seq(Call)
    BY EmptySeq
  <2>3. req \in [Request -> Req]
    BY <2>1 DEF Init
  <2> QED BY <2>2, <2>3 DEF Init, RequestTyped
<1>2. RequestsTruthful
  <2> SUFFICES ASSUME NEW r \in Request PROVE Truthful(req[r], calls[r], usage[r])
    BY DEF RequestsTruthful
  <2>1. /\ req[r].step = "new" /\ req[r].at = 1 /\ req[r].attempt = 0 /\ req[r].attempts = 0
        /\ req[r].failovers = 0 /\ req[r].code = "none"
        /\ calls[r] = <<>> /\ usage[r] = <<>>
    BY DEF Init
  <2>2. Len(calls[r]) = 0 /\ DOMAIN calls[r] = {}
    BY <2>1
  <2>3. Justified(calls[r])
    BY <2>2 DEF Justified
  <2>4. Limited(calls[r])
    <3>1. \A t \in Target : Called(calls[r], t) = {}
      BY <2>2 DEF Called
    <3>2. Cardinality({}) = 0 /\ \A t \in Target : MaxAttempts[t] \in Nat
      BY FS_EmptySet, EngineAssumption
    <3>3. \A t \in Target : Cardinality(Called(calls[r], t)) = 0
      BY <3>1, <3>2
    <3> QED BY <3>2, <3>3 DEF Limited
  <2>5. Walking(req[r], calls[r]) /\ Calling(req[r], calls[r]) /\ Counts(req[r], calls[r])
    BY <2>1, <2>2 DEF Walking, Calling, Counts, CalledBefore
  <2>6. Settled(req[r], calls[r], usage[r])
    BY <2>1 DEF Settled
  <2> QED BY <2>3, <2>4, <2>5, <2>6 DEF Truthful
<1>3. CircuitsRight
  <2>1. FreshRow \in Row /\ FreshRow.state = "closed" /\ FreshRow.failures = 0
    BY PolicyAssumption DEF FreshRow, Row, CircuitState
  <2> SUFFICES ASSUME NEW p \in Provider PROVE Covered(p)
    BY <2>1 DEF Init, CircuitsRight
  <2>2. \A r \in Request : DOMAIN calls[r] = {}
    BY DEF Init
  <2>3. Spared(p) = {}
    BY <2>2, FailuresMember DEF Spared
  <2> QED BY <2>1, <2>3, FS_EmptySet DEF Init, Covered
<1> QED BY <1>1, <1>2, <1>3 DEF Right

LEMMA StepRight == Right /\ [Next]_vars => Right'
<1> SUFFICES ASSUME Right, [Next]_vars PROVE Right'
  OBVIOUS
<1> USE DEF Right
<1>1. ASSUME NEW r \in Request, Proceed(r) PROVE Right'
  <2>1. CASE Start(r)
    BY <2>1, StartStep, NoCallCircuits
  <2>2. CASE Skip(r) \/ EnterWithoutSecret(r)
    BY <2>2, OnwardStep, NoCallCircuits
  <2>3. CASE Enter(r) \/ Retry(r)
    BY <2>3, CallStep, CallCircuits
  <2>4. CASE Answer(r)
    BY <2>4, AnswerStep, AnswerCircuits
  <2>5. CASE Fail(r)
    BY <2>5, FailAndRetryStep, FailAndLeaveStep, FailCircuits DEF Fail
  <2>6. CASE Exhausted(r)
    BY <2>6, ExhaustedStep, NoCallCircuits
  <2> QED BY <1>1, <2>1, <2>2, <2>3, <2>4, <2>5, <2>6 DEF Proceed
<1>2. ASSUME NEW r \in Request, Cancel(r) \/ Break(r) PROVE Right'
  BY <1>2, CancelStep, CancelCircuits, BreakCircuits
<1>3. CASE Tick
  <2>1. CircuitsRight'
    BY <1>3, TickCircuits
  <2> QED BY <1>3, <2>1 DEF Tick, RequestTyped, RequestsTruthful
<1>4. CASE UNCHANGED vars
  BY <1>4 DEF vars, RequestTyped, RequestsTruthful, CircuitsRight, Covered, Spared, Failures
<1> QED BY <1>1, <1>2, <1>3, <1>4 DEF Next

LEMMA Invariant == Spec => []IInv
  BY InitRight, StepRight, IInvIsRight, PTL DEF Spec

\* The rows of the circuits, the local variables of execute_request and what is recorded
\* of it have their types, however requests, breakers and time interleave.
THEOREM TypeCorrect == Spec => []TypeOK
<1>1. IInv => TypeOK
  BY DEF IInv
<1> QED BY <1>1, Invariant, PTL

\* execute_request(), engine.py: every provider call of a request has its reason in the
\* call before it, ai_usage has the one row the request deserves, and no circuit opened
\* but for what its provider did.
THEOREM RouteIsTrue == Spec => []RouteTrue
<1>1. IInv => EveryCallJustified
  BY DEF IInv, RequestsTruthful, Truthful, Justified, Limited, Called, EveryCallJustified, Positions
<1>2. IInv => LedgerAgrees
  BY DEF IInv, RequestsTruthful, Truthful, Settled, Final, Counts, Last, LedgerAgrees
<1>3. IInv => RouteTrue
  BY <1>1, <1>2 DEF IInv, RouteTrue
<1> QED BY <1>3, Invariant, PTL

-------------------------------------------------------------------------------
(* THE CONVERSATION.  The inductive invariant.                               *)

Person == Visitor \cup {Booth!Anon}
Doer == Request \cup Signup

ConvRow == [exists : BOOLEAN, owner : Person, fresh : BOOLEAN, count : Nat,
            summary : SUBSET Nat, upto : Nat]
Entry == [id : Nat, conv : Conv, sit : Nat, by : Person, sure : BOOLEAN]

Early == {"create", "look", "forget", "ask"}
Later == {"ask", "answer", "read", "fold"}
TaskRow == [pc : {"idle", "attach"} \cup Early \cup Later, conv : SUBSET Conv, who : Person,
            sure : BOOLEAN, heard : SUBSET Nat, newest : Nat, summary : SUBSET Nat, upto : Nat]

\* A request, or a registration, has the fields its place promises.
TaskTrue(t, r) ==
  /\ r.pc = "idle" => r = Booth!Idle
  /\ r.pc # "idle" => \E c \in Conv : r.conv = {c}
  /\ t \in Signup => r.pc \in {"idle", "attach"}
  /\ t \in Request => r.pc # "attach"
  /\ r.sure => r.who # Booth!Anon
  /\ r.newest <= lastId /\ r.upto <= lastId /\ r.summary \subseteq 0..sitting

RowTrue(q) ==
  /\ ~q.exists => q = Booth!NoConv
  /\ q.upto <= lastId /\ q.summary \subseteq 0..sitting

EntryTrue(m) ==
  /\ m.id \in 1..lastId /\ m.sit \in 0..sitting
  /\ m.sure => m.by # Booth!Anon
  /\ conv[m.conv].exists

BoothCounted(c) == conv[c].count >= Cardinality(Booth!Of(c))

\* The messages that requests under way may still append.
Awaited == Cardinality({r \in Request : task[r].pc \in Early})
           + Cardinality({r \in Request : task[r].pc \in Early \cup {"answer"}})

Typed ==
  /\ conv \in [Conv -> ConvRow] /\ \A c \in Conv : RowTrue(conv[c])
  /\ log \in SUBSET Entry /\ IsFiniteSet(log) /\ \A m \in log : EntryTrue(m)
  /\ \A c \in Conv : BoothCounted(c)
  /\ lastId \in Nat /\ lastId + Awaited <= MaxId
  /\ person \in [Visitor -> {"new", "known", "deleted"}]
  /\ task \in [Doer -> TaskRow] /\ \A t \in Doer : TaskTrue(t, task[t])
  /\ sitting \in 0..LastSitting /\ faults \in 0..MaxFault
  /\ kept \in SUBSET Conv /\ late \in SUBSET Conv

\* Whoever is sure of a conversation owns it, once it is made.
SureTrue(r) ==
  r.sure => \A c \in r.conv : IF conv[c].exists THEN conv[c].owner = r.who ELSE r.pc = "create"

\* What is deleted comes back through those that were under way only.
LateTrue(r) == r.who \in Visitor /\ person[r.who] = "deleted" => r.conv \subseteq late

\* Nothing of another sitting is past this line of the conversation.
Past(c, n) == \A m \in Booth!Of(c) : m.id > n => m.sit = sitting
Clean(c, q) == q.summary \subseteq {sitting} /\ Past(c, q.upto)

\* A row that is fresh has nothing of another sitting, and so has the row of a request that got
\* past its look at it.
FreshTrue(c) == c \notin kept /\ conv[c].fresh => Clean(c, conv[c])
HearTrue(r) ==
  \A c \in Conv \ kept : r.conv = {c} =>
    /\ r.heard \subseteq {sitting}
    /\ r.pc \in Later => Clean(c, conv[c])
    /\ r.pc = "forget" => Past(c, r.newest)
    /\ r.pc = "fold" => Clean(c, r)

BoothIInv ==
  /\ Typed
  /\ \A t \in Doer : SureTrue(task[t]) /\ LateTrue(task[t]) /\ HearTrue(task[t])
  /\ \A c \in Conv : FreshTrue(c)
  /\ Booth!Defended /\ Booth!DeletedIsGone

-------------------------------------------------------------------------------
(* Records, the newest of a set of messages, and what may still be appended.  *)

\* Finiteness and size of a set mean the same in the conversation's module as here.
LEMMA SameSize ==
  /\ \A S : Booth!Cardinality(S) = Cardinality(S)
  /\ \A S : Booth!IsFiniteSet(S) <=> IsFiniteSet(S)
<1>1. \A S : Booth!Cardinality(S) = Cardinality(S)
  BY DEF Booth!Cardinality, Cardinality
<1>2. \A S : Booth!IsFiniteSet(S) <=> IsFiniteSet(S)
  BY DEF Booth!IsFiniteSet, IsFiniteSet
<1> QED BY <1>1, <1>2

\* A task with one field changed is a task still.
LEMMA RowIs ==
  ASSUME NEW q \in ConvRow
  PROVE  /\ q.exists \in BOOLEAN /\ q.owner \in Person /\ q.fresh \in BOOLEAN
         /\ q.count \in Nat /\ q.summary \in SUBSET Nat /\ q.upto \in Nat
BY DEF ConvRow

\* The fields of a task.
LEMMA TaskIs ==
  ASSUME NEW r \in TaskRow
  PROVE  /\ r.pc \in {"idle", "attach"} \cup Early \cup Later /\ r.conv \in SUBSET Conv
         /\ r.who \in Person /\ r.sure \in BOOLEAN /\ r.heard \in SUBSET Nat
         /\ r.newest \in Nat /\ r.summary \in SUBSET Nat /\ r.upto \in Nat
BY DEF TaskRow

\* The fields of a message.
LEMMA EntryIs ==
  ASSUME NEW m \in Entry
  PROVE  /\ m.id \in Nat /\ m.conv \in Conv /\ m.sit \in Nat /\ m.by \in Person
         /\ m.sure \in BOOLEAN
BY DEF Entry

\* An idle task and an absent row are what they are.
LEMMA Blank ==
  /\ Booth!Idle \in TaskRow /\ Booth!NoConv \in ConvRow
  /\ Booth!Idle.pc = "idle" /\ Booth!Idle.conv = {} /\ Booth!Idle.who = Booth!Anon
       /\ Booth!Idle.sure = FALSE
  /\ Booth!Idle.heard = {} /\ Booth!Idle.newest = 0 /\ Booth!Idle.summary = {}
       /\ Booth!Idle.upto = 0
  /\ Booth!NoConv.exists = FALSE /\ Booth!NoConv.owner = Booth!Anon /\ Booth!NoConv.fresh = FALSE
       /\ Booth!NoConv.count = 0
  /\ Booth!NoConv.summary = {} /\ Booth!NoConv.upto = 0
BY DEF Booth!Idle, Booth!NoConv, TaskRow, ConvRow, Person, Early, Later

\* The order of the naturals is a well-founded relation.
LEMMA LessIsWellFounded ==
  \E R : IsWellFoundedOn(R, Nat) /\ \A x, y \in Nat : x < y => <<x, y>> \in R
<1>1. \A x, y \in Nat : x < y => <<x, y>> \in OpToRel(<, Nat)
  BY Zenon DEF OpToRel
<1> QED BY <1>1, NatLessThanWellFounded, Zenon

\* A set of numbers that has a bound has a greatest member.
LEMMA Greatest ==
  ASSUME NEW S \in SUBSET Nat, S # {}, NEW top \in Nat, \A i \in S : i <= top
  PROVE  \E i \in S : \A j \in S : j <= i
<1>1. PICK R : IsWellFoundedOn(R, Nat) /\ \A x, y \in Nat : x < y => <<x, y>> \in R
  BY LessIsWellFounded, Zenon
<1>2. PICK D : D = {d \in Nat : top - d \in S}
  OBVIOUS
<1>3. D \subseteq Nat /\ D # {}
  <2>1. PICK i \in S : TRUE
    OBVIOUS
  <2>2. i \in Nat /\ i <= top
    OBVIOUS
  <2>3. top - i \in Nat /\ top - (top - i) = i
    BY <2>2
  <2> QED BY <1>2, <2>3
<1>4. PICK x \in D : \A y \in D : ~ (<<y, x>> \in R)
  <2>1. IsWellFoundedOn(R, Nat)
    BY <1>1
  <2> QED BY <2>1, <1>3, WFMin, Zenon
<1>5. PICK i \in S : i = top - x /\ x \in Nat
  BY <1>2
<1>6. \A j \in S : j <= i
  <2> SUFFICES ASSUME NEW j \in S, i < j PROVE FALSE
    OBVIOUS
  <2>1. top - j \in D /\ top - j \in Nat /\ x \in Nat /\ top - j < x
    BY <1>2, <1>5
  <2> QED BY <1>1, <1>4, <2>1
<1> QED BY <1>6

\* The newest of some messages.
LEMMA NewestIs ==
  ASSUME NEW S \in SUBSET Entry, NEW top \in Nat, \A m \in S : m.id <= top
  PROVE  /\ Booth!Newest(S) \in Nat /\ Booth!Newest(S) <= top
         /\ \A m \in S : m.id <= Booth!Newest(S)
         /\ S # {} => \E m \in S : Booth!Newest(S) = m.id
<1>1. CASE S = {}
  BY <1>1 DEF Booth!Newest
<1>2. CASE S # {}
  <2>1. PICK ids : ids = {m.id : m \in S}
    OBVIOUS
  <2>2. ids \in SUBSET Nat /\ ids # {} /\ \A i \in ids : i <= top
    BY <1>2, <2>1, EntryIs
  <2>3. PICK i \in ids : \A j \in ids : j <= i
    BY <2>2, Greatest
  <2>4. \A m \in S : m.id <= i
    BY <2>1, <2>3
  <2>5. Booth!Newest(S) \in ids /\ \A m \in S : m.id <= Booth!Newest(S)
    <3>1. Booth!Newest(S) = CHOOSE k \in ids : \A m \in S : m.id <= k
      BY <1>2, <2>1 DEF Booth!Newest
    <3> QED BY <3>1, <2>3, <2>4
  <2>6. \E m \in S : Booth!Newest(S) = m.id
    BY <2>1, <2>5
  <2> QED BY <2>2, <2>5, <2>6
<1> QED BY <1>1, <1>2

\* What may still be appended does not grow unless a request goes back.
LEMMA AwaitedStays ==
  ASSUME Booth!ConversationAssumption,
         \A r \in Request : task'[r].pc \in Early => task[r].pc \in Early,
         \A r \in Request : task'[r].pc \in Early \cup {"answer"}
           => task[r].pc \in Early \cup {"answer"}
  PROVE  Awaited \in Nat /\ Awaited' \in Nat /\ Awaited' <= Awaited
<1> DEFINE A == {r \in Request : task[r].pc \in Early}
           B == {r \in Request : task[r].pc \in Early \cup {"answer"}}
           C == {r \in Request : task'[r].pc \in Early}
           D == {r \in Request : task'[r].pc \in Early \cup {"answer"}}
<1>1. IsFiniteSet(Request)
  BY SameSize DEF Booth!ConversationAssumption
<1>2. C \subseteq A /\ D \subseteq B /\ A \subseteq Request /\ B \subseteq Request
  OBVIOUS
<1>3. IsFiniteSet(A) /\ IsFiniteSet(B)
  BY <1>1, <1>2, FS_Subset
<1>4. Cardinality(C) <= Cardinality(A) /\ Cardinality(D) <= Cardinality(B)
      /\ IsFiniteSet(C) /\ IsFiniteSet(D)
  BY <1>2, <1>3, FS_Subset
<1>5. /\ Cardinality(A) \in Nat /\ Cardinality(B) \in Nat
      /\ Cardinality(C) \in Nat /\ Cardinality(D) \in Nat
  BY <1>3, <1>4, FS_CardinalityType
<1>6. Awaited = Cardinality(A) + Cardinality(B) /\ Awaited' = Cardinality(C) + Cardinality(D)
  BY DEF Awaited
<1> HIDE DEF A, B, C, D
<1> QED BY <1>4, <1>5, <1>6

\* It falls by one when a request is past one of its two appends.
LEMMA AwaitedFalls ==
  ASSUME Booth!ConversationAssumption, NEW t \in Request, task[t].pc \in {"ask", "answer"},
         task'[t].pc = IF task[t].pc = "ask" THEN "answer" ELSE "read",
         \A r \in Request \ {t} : task'[r].pc = task[r].pc
  PROVE  Awaited \in Nat /\ Awaited' \in Nat /\ Awaited' + 1 <= Awaited
<1> DEFINE A == {r \in Request : task[r].pc \in Early}
           B == {r \in Request : task[r].pc \in Early \cup {"answer"}}
           C == {r \in Request : task'[r].pc \in Early}
           D == {r \in Request : task'[r].pc \in Early \cup {"answer"}}
<1>1. IsFiniteSet(Request)
  BY SameSize DEF Booth!ConversationAssumption
<1>2. IsFiniteSet(A) /\ IsFiniteSet(B)
  <2>1. A \subseteq Request /\ B \subseteq Request
    OBVIOUS
  <2> QED BY <1>1, <2>1, FS_Subset
<1>3. Cardinality(A) \in Nat /\ Cardinality(B) \in Nat
  BY <1>2, FS_CardinalityType
<1>4. \/ C = A \ {t} /\ t \in A /\ D = B
      \/ C = A /\ D = B \ {t} /\ t \in B
  <2>1. CASE task[t].pc = "ask"
    BY <2>1 DEF Early
  <2>2. CASE task[t].pc = "answer"
    BY <2>2 DEF Early
  <2> QED BY <2>1, <2>2
<1>5. Awaited = Cardinality(A) + Cardinality(B) /\ Awaited' = Cardinality(C) + Cardinality(D)
  BY DEF Awaited
<1> HIDE DEF A, B, C, D
<1>6. CASE C = A \ {t} /\ t \in A /\ D = B
  <2>1. Cardinality(C) = Cardinality(A) - 1 /\ IsFiniteSet(C)
    BY <1>2, <1>6, FS_RemoveElement
  <2>2. Cardinality(C) \in Nat
    BY <2>1, FS_CardinalityType
  <2> QED BY <1>3, <1>5, <1>6, <2>1, <2>2
<1>7. CASE C = A /\ D = B \ {t} /\ t \in B
  <2>1. Cardinality(D) = Cardinality(B) - 1 /\ IsFiniteSet(D)
    BY <1>2, <1>7, FS_RemoveElement
  <2>2. Cardinality(D) \in Nat
    BY <2>1, FS_CardinalityType
  <2> QED BY <1>3, <1>5, <1>7, <2>1, <2>2
<1> QED BY <1>4, <1>6, <1>7

\* A request that arrives may append twice, and so may every one that is under way.
LEMMA AwaitedRises ==
  ASSUME Booth!ConversationAssumption, NEW t \in Request, ~Booth!Busy(t), NEW n \in Nat,
         \A r \in Request \ {t} : task'[r].pc = task[r].pc,
         \A r \in Request : task[r].pc \in Early \cup {"answer"} => Booth!Busy(r),
         n = Cardinality({u \in Request : Booth!Busy(u)})
  PROVE  Awaited' \in Nat /\ Awaited' <= 2 * n + 2
<1> DEFINE U == {u \in Request : Booth!Busy(u)}
           C == {r \in Request : task'[r].pc \in Early}
           D == {r \in Request : task'[r].pc \in Early \cup {"answer"}}
<1>1. IsFiniteSet(U)
  <2>1. U \subseteq Request /\ IsFiniteSet(Request)
    BY SameSize DEF Booth!ConversationAssumption
  <2> QED BY <2>1, FS_Subset
<1>2. t \notin U /\ C \subseteq U \cup {t} /\ D \subseteq U \cup {t}
  OBVIOUS
<1>3. Awaited' = Cardinality(C) + Cardinality(D) /\ n = Cardinality(U)
  BY DEF Awaited
<1> HIDE DEF U, C, D
<1>4. IsFiniteSet(U \cup {t}) /\ Cardinality(U \cup {t}) = n + 1
  BY <1>1, <1>2, <1>3, FS_AddElement
<1>5. /\ IsFiniteSet(C) /\ Cardinality(C) <= n + 1
      /\ IsFiniteSet(D) /\ Cardinality(D) <= n + 1
  BY <1>2, <1>4, FS_Subset
<1>6. Cardinality(C) \in Nat /\ Cardinality(D) \in Nat
  BY <1>5, FS_CardinalityType
<1> QED BY <1>3, <1>5, <1>6

-------------------------------------------------------------------------------
(* A step of one task over one row.                                          *)

Same(r, s) ==
  /\ r.pc = s.pc /\ r.conv = s.conv /\ r.who = s.who /\ r.heard = s.heard
  /\ r.newest = s.newest /\ r.summary = s.summary /\ r.upto = s.upto
  /\ r.sure => s.sure
  /\ s.conv = {} => r = s

Moves(t, c, q, r, C) ==
  /\ conv' = [conv EXCEPT ![c] = q] /\ Booth!MoveOver(t, r, C)
  /\ log' = log /\ lastId' = lastId /\ sitting' = sitting /\ late' = late
  /\ faults' \in 0..MaxFault /\ kept \subseteq kept' /\ kept' \in SUBSET Conv

\* A person who registers is not a deleted one.
Registers == /\ person' \in [Visitor -> {"new", "known", "deleted"}]
             /\ \A v \in Visitor : person'[v] = "deleted" <=> person[v] = "deleted"

\* A task that loses its certainty is the task it was otherwise.
LEMMA Doubted ==
  ASSUME NEW s \in TaskRow, NEW r, r = [s EXCEPT !.sure = FALSE], s.conv # {}
  PROVE  r \in TaskRow /\ Same(r, s) /\ ~r.sure
BY DEF Same, TaskRow

\* What the tasks are after a move.
LEMMA MovedTo ==
  ASSUME Typed, NEW t \in Doer, NEW r \in TaskRow, NEW C \in SUBSET Conv, Booth!MoveOver(t, r, C)
  PROVE  /\ task' \in [Doer -> TaskRow] /\ task'[t] = r
         /\ \A u \in Doer \ {t} : /\ Same(task'[u], task[u])
                                  /\ task'[u].sure => task[u].conv \cap C = {}
<1>1. DOMAIN task = Doer /\ \A u \in Doer : task[u] \in TaskRow
  BY DEF Typed
<1>2. task' = [u \in Doer |-> IF u = t THEN r
                 ELSE IF task[u].conv \cap C # {} THEN [task[u] EXCEPT !.sure = FALSE] ELSE task[u]]
  BY <1>1 DEF Booth!MoveOver
<1>3. task'[t] = r
  BY <1>2
<1>4. ASSUME NEW u \in Doer \ {t}
      PROVE  /\ task'[u] \in TaskRow /\ Same(task'[u], task[u])
             /\ task'[u].sure => task[u].conv \cap C = {}
  <2>1. task[u] \in TaskRow
    BY <1>1
  <2>2. CASE task[u].conv \cap C # {}
    <3>1. task'[u] = [task[u] EXCEPT !.sure = FALSE]
      BY <1>2, <2>2
    <3>2. task[u].conv # {}
      BY <2>2
    <3> QED BY <2>1, <3>1, <3>2, Doubted
  <2>3. CASE task[u].conv \cap C = {}
    <3>1. task'[u] = task[u]
      BY <1>2, <2>3
    <3> QED BY <2>1, <2>3, <3>1 DEF Same
  <2> QED BY <2>2, <2>3
<1>5. task' \in [Doer -> TaskRow]
  <2>1. \A u \in Doer : task'[u] \in TaskRow
    BY <1>3, <1>4
  <2> QED BY <1>2, <2>1
<1> QED BY <1>3, <1>4, <1>5

\* A move without a change of a row is a move over none.
LEMMA MoveIs ==
  ASSUME Typed, NEW t \in Doer, NEW r, Booth!Move(t, r)
  PROVE  Booth!MoveOver(t, r, {})
<1>1. task \in [Doer -> TaskRow]
  BY DEF Typed
<1>2. \A u \in Doer : task[u].conv \cap {} = {}
  OBVIOUS
<1> QED BY <1>1, <1>2 DEF Booth!Move, Booth!MoveOver

\* What the rows are after it.
LEMMA RowAt ==
  ASSUME Typed, NEW c \in Conv, NEW q \in ConvRow, conv' = [conv EXCEPT ![c] = q]
  PROVE  /\ conv' \in [Conv -> ConvRow] /\ conv'[c] = q
         /\ \A d \in Conv \ {c} : conv'[d] = conv[d]
BY DEF Typed

\* The types after a move.
LEMMA MovesTyped ==
  ASSUME Booth!ConversationAssumption, Typed, NEW t \in Doer, NEW c \in Conv, NEW q \in ConvRow,
         NEW r \in TaskRow, NEW C \in SUBSET Conv, Moves(t, c, q, r, C), Registers,
         RowTrue(q), TaskTrue(t, r), conv[c].exists => q.exists, q.count >= conv[c].count,
         lastId + Awaited' <= MaxId
  PROVE  Typed'
<1> USE DEF Moves
<1>1. /\ conv' \in [Conv -> ConvRow] /\ conv'[c] = q
      /\ \A d \in Conv \ {c} : conv'[d] = conv[d]
  BY RowAt
<1>2. /\ task' \in [Doer -> TaskRow] /\ task'[t] = r
      /\ \A u \in Doer \ {t} : Same(task'[u], task[u])
  BY MovedTo
<1>3. (\A d \in Conv : RowTrue(conv[d]))'
  <2>1. \A d \in Conv : RowTrue(conv[d])
    BY DEF Typed
  <2>2. \A d \in Conv : RowTrue(conv'[d])
    BY <1>1, <2>1
  <2> QED BY <2>2 DEF RowTrue
<1>4. (\A m \in log : EntryTrue(m))'
  <2> SUFFICES ASSUME NEW m \in log PROVE EntryTrue(m)'
    OBVIOUS
  <2>1. EntryTrue(m) /\ m \in Entry
    BY DEF Typed
  <2>2. m.conv \in Conv /\ conv'[m.conv].exists
    BY <1>1, <2>1, EntryIs DEF EntryTrue
  <2> QED BY <2>1, <2>2 DEF EntryTrue
<1>5. (\A d \in Conv : BoothCounted(d))'
  <2> SUFFICES ASSUME NEW d \in Conv PROVE conv'[d].count >= Cardinality(Booth!Of(d)')
    BY DEF BoothCounted
  <2>1. conv[d].count >= Cardinality(Booth!Of(d)) /\ Booth!Of(d)' = Booth!Of(d)
          /\ IsFiniteSet(Booth!Of(d))
    <3>1. Booth!Of(d) \subseteq log /\ IsFiniteSet(log)
      BY DEF Booth!Of, Typed
    <3> QED BY <3>1, FS_Subset DEF Typed, BoothCounted, Booth!Of
  <2>2. Cardinality(Booth!Of(d)) \in Nat
    BY <2>1, FS_CardinalityType
  <2>3. conv'[d].count >= conv[d].count /\ conv[d].count \in Nat /\ conv'[d].count \in Nat
    <3>1. conv[d] \in ConvRow /\ conv'[d] \in ConvRow
      BY <1>1 DEF Typed
    <3>2. conv[d].count \in Nat /\ conv'[d].count \in Nat
      BY <3>1, RowIs
    <3> QED BY <1>1, <3>2
  <2> QED BY <2>1, <2>2, <2>3
<1>6. (\A u \in Doer : TaskTrue(u, task[u]))'
  <2> SUFFICES ASSUME NEW u \in Doer PROVE TaskTrue(u, task'[u])
    BY DEF TaskTrue
  <2>1. CASE u = t
    BY <1>2, <2>1
  <2>2. CASE u # t
    <3>1. Same(task'[u], task[u]) /\ TaskTrue(u, task[u])
      BY <1>2, <2>2 DEF Typed
    <3>2. task[u].pc = "idle" => task'[u] = task[u]
      BY <3>1, Blank DEF Same, TaskTrue
    <3> QED BY <3>1, <3>2 DEF Same, TaskTrue
  <2> QED BY <2>1, <2>2
<1> QED BY <1>1, <1>2, <1>3, <1>4, <1>5, <1>6 DEF Typed, Registers

\* Whose the row is: a step that changes it leaves nobody else sure of it.
LEMMA MovesOwned ==
  ASSUME Typed, Booth!Defended, Booth!DeletedIsGone,
         \A u \in Doer : SureTrue(task[u]) /\ LateTrue(task[u]),
         NEW t \in Doer, NEW c \in Conv, NEW q \in ConvRow,
         NEW r \in TaskRow, NEW C \in SUBSET Conv, Moves(t, c, q, r, C), Registers,
         conv[c].exists => q.exists,
         (q.owner = conv[c].owner /\ q.exists = conv[c].exists) \/ C = {c},
         q.owner # conv[c].owner => conv[c].owner = Booth!Anon,
         q.owner # conv[c].owner /\ q.owner \in Visitor /\ person[q.owner] = "deleted"
           => c \in late,
         r.sure => \A d \in r.conv :
                     IF conv'[d].exists THEN conv'[d].owner = r.who ELSE r.pc = "create",
         LateTrue(r)
  PROVE  (\A u \in Doer : SureTrue(task[u]) /\ LateTrue(task[u]))' /\ Booth!Defended'
           /\ Booth!DeletedIsGone'
<1> USE DEF Moves
<1>1. /\ conv' \in [Conv -> ConvRow] /\ conv'[c] = q
      /\ \A d \in Conv \ {c} : conv'[d] = conv[d]
  BY RowAt
<1>2. /\ task' \in [Doer -> TaskRow] /\ task'[t] = r
      /\ \A u \in Doer \ {t} : Same(task'[u], task[u]) /\ (task'[u].sure
           => task[u].conv \cap C = {})
  BY MovedTo
<1>3. (\A u \in Doer : SureTrue(task[u]))'
  <2> SUFFICES ASSUME NEW u \in Doer, task'[u].sure, NEW d \in task'[u].conv
               PROVE  IF conv'[d].exists THEN conv'[d].owner = task'[u].who ELSE task'[u].pc
                        = "create"
    BY DEF SureTrue
  <2>1. CASE u = t
    BY <1>2, <2>1
  <2>2. CASE u # t
    <3>1. Same(task'[u], task[u]) /\ task[u].conv \cap C = {} /\ task[u] \in TaskRow
      BY <1>2, <2>2 DEF Typed
    <3>2. task[u].sure /\ d \in task[u].conv /\ d \in Conv /\ task[u].who = task'[u].who
          /\ task[u].pc = task'[u].pc /\ d \notin C
      BY <3>1, TaskIs DEF Same
    <3>3. IF conv[d].exists THEN conv[d].owner = task[u].who ELSE task[u].pc = "create"
      BY <3>2 DEF SureTrue
    <3>4. conv'[d].exists = conv[d].exists /\ conv'[d].owner = conv[d].owner
      BY <1>1, <3>2
    <3> QED BY <3>2, <3>3, <3>4
  <2> QED BY <2>1, <2>2
<1>4. (\A u \in Doer : LateTrue(task[u]))'
  <2> SUFFICES ASSUME NEW u \in Doer PROVE LateTrue(task'[u])
    BY DEF LateTrue, Registers
  <2>1. CASE u = t
    BY <1>2, <2>1
  <2>2. CASE u # t
    BY <1>2, <2>2 DEF Same, LateTrue
  <2> QED BY <2>1, <2>2
<1>5. Booth!Defended'
  <2> SUFFICES ASSUME NEW m \in log, m.sure PROVE conv'[m.conv].exists /\ conv'[m.conv].owner = m.by
    BY DEF Booth!Defended
  <2>1. /\ conv[m.conv].exists /\ conv[m.conv].owner = m.by
        /\ m.by # Booth!Anon /\ m.conv \in Conv
    BY EntryIs DEF Typed, EntryTrue, Booth!Defended
  <2> QED BY <1>1, <2>1
<1>6. Booth!DeletedIsGone'
  <2> SUFFICES ASSUME NEW v \in Visitor, person[v] = "deleted"
               PROVE  /\ \A d \in Conv : conv'[d].owner = v => d \in late
                      /\ \A m \in log : m.by = v /\ m.sure => m.conv \in late
    BY DEF Booth!DeletedIsGone, Registers
  <2>1. \A m \in log : m.by = v /\ m.sure => m.conv \in late
    BY DEF Booth!DeletedIsGone
  <2>2. ASSUME NEW d \in Conv, conv'[d].owner = v PROVE d \in late
    <3>1. CASE d = c /\ q.owner # conv[c].owner
      BY <1>1, <2>2, <3>1
    <3>2. CASE ~(d = c /\ q.owner # conv[c].owner)
      <4>1. conv[d].owner = v
        BY <1>1, <2>2, <3>2
      <4> QED BY <4>1 DEF Booth!DeletedIsGone
    <3> QED BY <3>1, <3>2
  <2> QED BY <2>1, <2>2
<1> QED BY <1>3, <1>4, <1>5, <1>6

\* What the row, and those who are on it, hold of other sittings.
LEMMA MovesHeard ==
  ASSUME Typed, \A u \in Doer : HearTrue(task[u]), \A d \in Conv : FreshTrue(d),
         NEW t \in Doer, NEW c \in Conv, NEW q \in ConvRow,
         NEW r \in TaskRow, NEW C \in SUBSET Conv, Moves(t, c, q, r, C),
         c \notin kept' /\ Clean(c, conv[c]) => Clean(c, q),
         c \notin kept' /\ q.fresh => Clean(c, q),
         HearTrue(r)'
  PROVE  (\A u \in Doer : HearTrue(task[u]))' /\ (\A d \in Conv : FreshTrue(d))'
<1> USE DEF Moves
<1>1. /\ conv' \in [Conv -> ConvRow] /\ conv'[c] = q
      /\ \A d \in Conv \ {c} : conv'[d] = conv[d]
  BY RowAt
<1>2. /\ task'[t] = r
      /\ \A u \in Doer \ {t} : Same(task'[u], task[u])
  BY MovedTo
<1>3. \A d : \A w : Clean(d, w)' <=> Clean(d, w)
  BY DEF Clean, Past, Booth!Of
<1>4. (\A u \in Doer : HearTrue(task[u]))'
  <2> SUFFICES ASSUME NEW u \in Doer PROVE HearTrue(task[u])'
    OBVIOUS
  <2>1. CASE u = t
    BY <1>2, <2>1 DEF HearTrue
  <2>2. CASE u # t
    <3> SUFFICES ASSUME NEW d \in Conv \ kept', task'[u].conv = {d}
                 PROVE  /\ task'[u].heard \subseteq {sitting}
                        /\ task'[u].pc \in Later => Clean(d, conv'[d])
                        /\ task'[u].pc = "forget" => Past(d, task'[u].newest)
                        /\ task'[u].pc = "fold" => Clean(d, task'[u])
      BY DEF HearTrue, Clean, Past, Booth!Of
    <3>1. Same(task'[u], task[u]) /\ d \in Conv \ kept
      BY <1>2, <2>2
    <3>2. /\ task[u].heard \subseteq {sitting}
          /\ task[u].pc \in Later => Clean(d, conv[d])
          /\ task[u].pc = "forget" => Past(d, task[u].newest)
          /\ task[u].pc = "fold" => Clean(d, task[u])
      BY <3>1 DEF Same, HearTrue
    <3>3. Clean(d, conv[d]) => Clean(d, conv'[d])
      BY <1>1
    <3> QED BY <3>1, <3>2, <3>3 DEF Same, Clean
  <2> QED BY <2>1, <2>2
<1>5. (\A d \in Conv : FreshTrue(d))'
  <2> SUFFICES ASSUME NEW d \in Conv, d \notin kept', conv'[d].fresh PROVE Clean(d, conv'[d])
    BY DEF FreshTrue, Clean, Past, Booth!Of
  <2> QED BY <1>1 DEF FreshTrue
<1> QED BY <1>4, <1>5

\* A move keeps the invariant.
LEMMA Moved ==
  ASSUME Booth!ConversationAssumption, BoothIInv,
         NEW t \in Doer, NEW c \in Conv, NEW q \in ConvRow,
         NEW r \in TaskRow, NEW C \in SUBSET Conv, Moves(t, c, q, r, C), Registers,
         RowTrue(q), TaskTrue(t, r), q.count >= conv[c].count, lastId + Awaited' <= MaxId,
         conv[c].exists => q.exists,
         (q.owner = conv[c].owner /\ q.exists = conv[c].exists) \/ C = {c},
         q.owner # conv[c].owner => conv[c].owner = Booth!Anon,
         q.owner # conv[c].owner /\ q.owner \in Visitor /\ person[q.owner] = "deleted"
           => c \in late,
         r.sure => \A d \in r.conv :
                     IF conv'[d].exists THEN conv'[d].owner = r.who ELSE r.pc = "create",
         LateTrue(r),
         c \notin kept' /\ Clean(c, conv[c]) => Clean(c, q),
         c \notin kept' /\ q.fresh => Clean(c, q),
         HearTrue(r)'
  PROVE  BoothIInv'
<1>1. Typed /\ Booth!Defended /\ Booth!DeletedIsGone /\ (\A d \in Conv : FreshTrue(d))
      /\ (\A u \in Doer : SureTrue(task[u]) /\ LateTrue(task[u]))
           /\ (\A u \in Doer : HearTrue(task[u]))
  BY DEF BoothIInv
<1>2. Typed'
  BY <1>1, MovesTyped
<1>3. (\A u \in Doer : SureTrue(task[u]) /\ LateTrue(task[u]))' /\ Booth!Defended'
        /\ Booth!DeletedIsGone'
  BY <1>1, MovesOwned
<1>4. (\A u \in Doer : HearTrue(task[u]))' /\ (\A d \in Conv : FreshTrue(d))'
  BY <1>1, MovesHeard
<1> QED BY <1>2, <1>3, <1>4 DEF BoothIInv

\* A step that leaves the row alone.
LEMMA MovedOn ==
  ASSUME Booth!ConversationAssumption, BoothIInv,
         NEW t \in Doer, NEW c \in Conv, NEW r \in TaskRow, Booth!Move(t, r), Registers,
         UNCHANGED <<conv, log, lastId, sitting, late>>,
         faults' \in 0..MaxFault, kept \subseteq kept', kept' \in SUBSET Conv,
         TaskTrue(t, r), lastId + Awaited' <= MaxId,
         r.sure => \A d \in r.conv :
                     IF conv[d].exists THEN conv[d].owner = r.who ELSE r.pc = "create",
         LateTrue(r), HearTrue(r)'
  PROVE  BoothIInv'
<1>1. Typed /\ conv[c] \in ConvRow /\ RowTrue(conv[c]) /\ FreshTrue(c)
  BY DEF BoothIInv, Typed
<1>2. Moves(t, c, conv[c], r, {})
  <2>1. Booth!MoveOver(t, r, {})
    BY <1>1, MoveIs
  <2>2. conv' = [conv EXCEPT ![c] = conv[c]]
    BY DEF BoothIInv, Typed
  <2> QED BY <2>1, <2>2 DEF Moves
<1>3. PICK q \in ConvRow : q = conv[c]
  BY <1>1
<1>4. PICK C \in SUBSET Conv : C = {}
  OBVIOUS
<1>5. Moves(t, c, q, r, C) /\ RowTrue(q)
  BY <1>1, <1>2, <1>3, <1>4
<1>6. q.count >= conv[c].count
  BY <1>3, RowIs
<1>7. /\ c \notin kept' /\ Clean(c, conv[c]) => Clean(c, q)
      /\ c \notin kept' /\ q.fresh => Clean(c, q)
  BY <1>1, <1>3 DEF FreshTrue
<1>8. r.sure => \A d \in r.conv :
                  IF conv'[d].exists THEN conv'[d].owner = r.who ELSE r.pc = "create"
  OBVIOUS
<1> HIDE DEF Clean, HearTrue
<1> QED BY <1>3, <1>5, <1>6, <1>7, <1>8, Moved

-------------------------------------------------------------------------------
(* The steps of a request.                                                   *)

\* Each step of a request keeps the invariant: it arrives,
LEMMA ArriveKeeps ==
  ASSUME Booth!ConversationAssumption, BoothIInv, NEW t \in Request,
         NEW v \in Visitor \cup {Booth!Anon},
         NEW c \in Conv, Booth!Arrive(t, v, c)
  PROVE  BoothIInv'
<1>1. Typed /\ t \in Doer /\ task[t].pc = "idle"
  BY DEF BoothIInv, Booth!Arrive, Booth!Busy, Doer
<1>2. \E r \in TaskRow : \E d \in Conv, b \in BOOLEAN :
        /\ Booth!Move(t, r) /\ r.pc = "create" /\ r.conv = {d} /\ r.who = v /\ r.sure = b
        /\ r.heard = {} /\ r.newest = 0 /\ r.summary = {} /\ r.upto = 0
        /\ b => v # Booth!Anon /\ (conv[d].exists => conv[d].owner = v)
        /\ faults' \in 0..MaxFault
  <2> DEFINE N(d, b) == [Booth!Idle EXCEPT !.pc = "create", !.conv = {d}, !.who = v, !.sure = b]
             N3 == [Booth!Idle EXCEPT !.pc = "create", !.conv = {c}, !.who = v]
  <2>1. faults \in 0..MaxFault /\ MaxFault \in Nat
    BY <1>1 DEF Typed, Booth!ConversationAssumption
  <2>2. ASSUME NEW d \in Conv, NEW b \in BOOLEAN
        PROVE  /\ N(d, b) \in TaskRow /\ N(d, b).pc = "create" /\ N(d, b).conv = {d}
               /\ N(d, b).who = v /\ N(d, b).sure = b /\ N(d, b).heard = {} /\ N(d, b).newest = 0
               /\ N(d, b).summary = {} /\ N(d, b).upto = 0
    BY DEF Booth!Idle, TaskRow, Early, Later, Person
  <2>3. /\ N3 \in TaskRow /\ N3.pc = "create" /\ N3.conv = {c}
        /\ N3.who = v /\ N3.sure = FALSE /\ N3.heard = {} /\ N3.newest = 0
        /\ N3.summary = {} /\ N3.upto = 0
    BY DEF Booth!Idle, TaskRow, Early, Later, Person
  <2>4. CASE /\ Booth!Move(t, N(c, v # Booth!Anon /\ (conv[c].exists => conv[c].owner = v)))
             /\ UNCHANGED faults
    <3>1. PICK b \in BOOLEAN : b = (v # Booth!Anon /\ (conv[c].exists => conv[c].owner = v))
      OBVIOUS
    <3>2. Booth!Move(t, N(c, b))
      BY <2>4, <3>1
    <3> HIDE DEF N
    <3> QED BY <2>1, <2>2, <2>4, <3>1, <3>2
  <2>5. CASE /\ \E d \in Conv : /\ ~conv[d].exists /\ \A u \in DOMAIN task : ~Booth!On(u, d)
                                /\ Booth!Move(t, N(d, v # Booth!Anon))
             /\ UNCHANGED faults
    <3>1. PICK d \in Conv : ~conv[d].exists /\ Booth!Move(t, N(d, v # Booth!Anon))
      BY <2>5
    <3>2. PICK b \in BOOLEAN : b = (v # Booth!Anon)
      OBVIOUS
    <3>3. Booth!Move(t, N(d, b))
      BY <3>1, <3>2
    <3> HIDE DEF N
    <3> QED BY <2>1, <2>2, <2>5, <3>1, <3>2, <3>3
  <2>6. CASE Booth!Fault /\ Booth!Move(t, N3)
    <3>1. faults' \in 0..MaxFault
      BY <2>1, <2>6 DEF Booth!Fault
    <3> HIDE DEF N3
    <3> QED BY <2>3, <2>6, <3>1
  <2> QED BY <2>4, <2>5, <2>6 DEF Booth!Arrive
<1>3. PICK r \in TaskRow : \E d \in Conv, b \in BOOLEAN :
        /\ Booth!Move(t, r) /\ r.pc = "create" /\ r.conv = {d} /\ r.who = v /\ r.sure = b
        /\ r.heard = {} /\ r.newest = 0 /\ r.summary = {} /\ r.upto = 0
        /\ b => v # Booth!Anon /\ (conv[d].exists => conv[d].owner = v)
        /\ faults' \in 0..MaxFault
  BY <1>2
<1>4. PICK d \in Conv, b \in BOOLEAN :
        /\ Booth!Move(t, r) /\ r.pc = "create" /\ r.conv = {d} /\ r.who = v /\ r.sure = b
        /\ r.heard = {} /\ r.newest = 0 /\ r.summary = {} /\ r.upto = 0
        /\ b => v # Booth!Anon /\ (conv[d].exists => conv[d].owner = v)
        /\ faults' \in 0..MaxFault
  BY <1>3
<1>7. Registers /\ UNCHANGED <<conv, log, lastId, sitting, late, kept>>
  BY <1>1 DEF Booth!Arrive, Registers, Typed
<1>8. TaskTrue(t, r)
  <2>1. t \notin Signup /\ lastId \in Nat
    BY <1>1 DEF Booth!ConversationAssumption, Typed
  <2> QED BY <1>4, <2>1 DEF TaskTrue
<1>9. lastId + Awaited' <= MaxId
  <2>1. Cardinality({u \in Request : Booth!Busy(u)}) \in Nat
    <3>1. {u \in Request : Booth!Busy(u)} \subseteq Request /\ IsFiniteSet(Request)
      BY SameSize DEF Booth!ConversationAssumption
    <3> QED BY <3>1, FS_Subset, FS_CardinalityType
  <2>2. PICK n \in Nat : n = Cardinality({u \in Request : Booth!Busy(u)})
    BY <2>1
  <2>3. Booth!MoveOver(t, r, {})
    BY <1>1, <1>4, MoveIs
  <2>4. \A u \in Request \ {t} : task'[u].pc = task[u].pc
    BY <1>1, <1>4, <2>3, MovedTo DEF Doer, Same
  <2>5. \A u \in Request : task[u].pc \in Early \cup {"answer"} => Booth!Busy(u)
    BY DEF Early, Booth!Busy
  <2>6. ~Booth!Busy(t)
    BY DEF Booth!Arrive
  <2>7. Awaited' \in Nat /\ Awaited' <= 2 * n + 2
    BY <2>2, <2>4, <2>5, <2>6, AwaitedRises
  <2>8. lastId + 2 * n + 2 <= MaxId /\ lastId \in Nat /\ MaxId \in Nat
    <3>1. Booth!Cardinality({u \in Request : Booth!Busy(u)}) = n
      BY <2>2, SameSize
    <3> QED BY <1>1, <3>1 DEF Booth!Arrive, Typed, Booth!ConversationAssumption
  <2>9. PICK a \in Nat : a = Awaited'
    BY <2>7
  <2>10. lastId + a <= MaxId
    <3>1. a <= 2 * n + 2
      BY <2>7, <2>9
    <3>2. PICK k \in Nat : k = 2 * n + 2
      OBVIOUS
    <3>3. lastId + k <= MaxId
      BY <2>8, <3>2
    <3> QED BY <2>8, <3>1, <3>2, <3>3
  <2> QED BY <2>9, <2>10
<1>10. r.sure => \A e \in r.conv :
                   IF conv[e].exists THEN conv[e].owner = r.who ELSE r.pc = "create"
  BY <1>4
<1>11. LateTrue(r)
  <2>1. v \in Visitor => v # Booth!Anon
    BY SameSize DEF Booth!ConversationAssumption
  <2>2. v # Booth!Anon => person[v] = "known"
    BY DEF Booth!Arrive
  <2> QED BY <1>4, <2>1, <2>2 DEF LateTrue
<1>12. HearTrue(r)'
  BY <1>4 DEF HearTrue, Later
<1>13. faults' \in 0..MaxFault /\ kept \subseteq kept' /\ kept' \in SUBSET Conv
  BY <1>1, <1>4, <1>7 DEF Typed
<1> QED BY <1>1, <1>4, <1>7, <1>8, <1>9, <1>10, <1>11, <1>12, <1>13, MovedOn

\* A task that is under way has one conversation.
LEMMA Here ==
  ASSUME BoothIInv, NEW t \in Doer, task[t].pc # "idle"
  PROVE  /\ \E c \in Conv : task[t].conv = {c}
         /\ task[t] \in TaskRow /\ TaskTrue(t, task[t])
         /\ SureTrue(task[t]) /\ LateTrue(task[t]) /\ HearTrue(task[t]) /\ Typed
BY DEF BoothIInv, Typed, TaskTrue

\* A conversation without a row has no message.
LEMMA Vacant ==
  ASSUME Typed, NEW c \in Conv, ~conv[c].exists
  PROVE  conv[c] = Booth!NoConv /\ Booth!Of(c) = {} /\ \A n : Past(c, n)
<1>1. conv[c] = Booth!NoConv
  BY DEF Typed, RowTrue
<1>2. \A m \in log : m.conv # c
  BY DEF Typed, EntryTrue
<1>3. Booth!Of(c) = {}
  BY <1>2 DEF Booth!Of
<1> QED BY <1>1, <1>3 DEF Past

\* What may still be appended does not grow with a move that takes no request back.
LEMMA AwaitedMoves ==
  ASSUME Booth!ConversationAssumption, Typed, NEW t \in Doer, NEW r \in TaskRow,
         NEW C \in SUBSET Conv,
         Booth!MoveOver(t, r, C),
         t \in Request => /\ r.pc \in Early => task[t].pc \in Early
                          /\ r.pc = "answer" => task[t].pc \in Early \cup {"answer"}
  PROVE  lastId + Awaited' <= MaxId
<1>1. task'[t] = r /\ \A u \in Doer \ {t} : Same(task'[u], task[u])
  BY MovedTo
<1>2. \A u \in Request : task'[u].pc \in Early => task[u].pc \in Early
  BY <1>1 DEF Doer, Same
<1>3. \A u \in Request : task'[u].pc \in Early \cup {"answer"}
        => task[u].pc \in Early \cup {"answer"}
  BY <1>1 DEF Doer, Same
<1>4. Awaited \in Nat /\ Awaited' \in Nat /\ Awaited' <= Awaited
  BY <1>2, <1>3, AwaitedStays
<1>5. lastId + Awaited <= MaxId /\ lastId \in Nat /\ MaxId \in Nat
  BY DEF Typed, Booth!ConversationAssumption
<1> QED BY <1>4, <1>5

\* Faults have a bound, and one more comes only below it.
LEMMA Faults ==
  ASSUME Booth!ConversationAssumption, Typed, Booth!Fault \/ UNCHANGED faults
  PROVE  faults' \in 0..MaxFault
BY DEF Typed, Booth!Fault, Booth!ConversationAssumption

\* makes its conversation,
LEMMA CreateKeeps ==
  ASSUME Booth!ConversationAssumption, BoothIInv, NEW t \in Request, Booth!Create(t)
  PROVE  BoothIInv'
<1>1. t \in Doer /\ task[t].pc = "create" /\ t \notin Signup
  BY DEF Booth!Create, Doer, Booth!ConversationAssumption
<1>2. PICK c \in Conv : task[t].conv = {c}
  BY <1>1, Here
<1>3. /\ task[t] \in TaskRow /\ TaskTrue(t, task[t]) /\ SureTrue(task[t]) /\ LateTrue(task[t])
      /\ HearTrue(task[t]) /\ Typed
  BY <1>1, Here
<1>4. Registers /\ UNCHANGED <<log, lastId, sitting, late, kept>>
  BY <1>3 DEF Booth!Create, Registers, Typed
<1>5. faults' \in 0..MaxFault /\ kept \subseteq kept' /\ kept' \in SUBSET Conv
  BY <1>3, <1>4, Faults DEF Booth!Create, Typed
<1>6. CASE /\ conv' = [conv EXCEPT ![c] = Booth!Ensured(c, task[t].who)]
           /\ Booth!MoveOver(t, [task[t] EXCEPT !.pc = "look"], IF conv[c].exists THEN {} ELSE {c})
  <2>1. PICK r : r = [task[t] EXCEPT !.pc = "look"]
    OBVIOUS
  <2>2. /\ r \in TaskRow /\ r.pc = "look" /\ r.conv = {c} /\ r.who = task[t].who
        /\ r.sure = task[t].sure /\ r.heard = task[t].heard /\ r.newest = task[t].newest
        /\ r.summary = task[t].summary /\ r.upto = task[t].upto
    BY <1>2, <1>3, <2>1 DEF TaskRow, Early
  <2>3. PICK C \in SUBSET Conv : C = IF conv[c].exists THEN {} ELSE {c}
    OBVIOUS
  <2>4. PICK q : q = Booth!Ensured(c, task[t].who)
    OBVIOUS
  <2>5. /\ conv[c] \in ConvRow /\ RowTrue(conv[c]) /\ FreshTrue(c)
        /\ lastId \in Nat /\ sitting \in Nat /\ task[t].who \in Person
    BY <1>3, TaskIs DEF BoothIInv, Typed
  <2>6. IF conv[c].exists THEN q = conv[c]
        ELSE /\ q \in ConvRow /\ q.exists = TRUE /\ q.owner = task[t].who /\ q.fresh = TRUE
             /\ q.count = 0 /\ q.summary = {} /\ q.upto = 0
    BY <2>4, <2>5 DEF Booth!Ensured, Booth!NoConv, ConvRow
  <2>7. /\ ~conv[c].exists => conv[c] = Booth!NoConv /\ Clean(c, q)
    BY <1>3, <2>5, <2>6, Vacant DEF Clean, Typed
  <2>8. q \in ConvRow /\ RowTrue(q) /\ q.exists
    BY <2>5, <2>6 DEF RowTrue
  <2>9. Moves(t, c, q, r, C)
    BY <1>4, <1>5, <1>6, <2>1, <2>3, <2>4 DEF Moves
  <2>10. TaskTrue(t, r)
    BY <1>1, <1>3, <2>2 DEF TaskTrue
  <2>11. q.count >= conv[c].count /\ q.count \in Nat
    BY <2>5, <2>6, <2>7, <2>8, RowIs, Blank
  <2>12. lastId + Awaited' <= MaxId
    BY <1>1, <1>3, <2>2, <2>9, AwaitedMoves DEF Moves, Early
  <2>13. /\ (q.owner = conv[c].owner /\ q.exists = conv[c].exists) \/ C = {c}
         /\ q.owner # conv[c].owner => conv[c].owner = Booth!Anon
    BY <2>3, <2>6, <2>7, Blank
  <2>14. q.owner # conv[c].owner /\ q.owner \in Visitor /\ person[q.owner] = "deleted" => c \in late
    BY <1>2, <1>3, <2>6 DEF LateTrue
  <2>15. conv'[c] = q
    BY <1>3, <2>8, <2>9, RowAt DEF Moves
  <2>16. r.sure => \A d \in r.conv :
                     IF conv'[d].exists THEN conv'[d].owner = r.who ELSE r.pc = "create"
    BY <1>2, <1>3, <2>2, <2>6, <2>8, <2>15 DEF SureTrue
  <2>17. LateTrue(r)
    BY <1>2, <1>3, <2>2 DEF LateTrue
  <2>18. /\ c \notin kept' /\ Clean(c, conv[c]) => Clean(c, q)
         /\ c \notin kept' /\ q.fresh => Clean(c, q)
    BY <1>4, <2>5, <2>6, <2>7 DEF FreshTrue
  <2>19. HearTrue(r)'
    BY <1>2, <1>3, <1>4, <2>2 DEF HearTrue, Later
  <2> HIDE DEF Clean, HearTrue
  <2> QED BY <1>1, <1>4, <2>2, <2>8, <2>9, <2>10, <2>11, <2>12, <2>13, <2>14, <2>16, <2>17,
         <2>18, <2>19, Moved
<1>7. CASE Booth!Fault /\ Booth!Move(t, [task[t] EXCEPT !.pc = "look", !.sure = FALSE])
        /\ UNCHANGED conv
  <2>1. PICK r : r = [task[t] EXCEPT !.pc = "look", !.sure = FALSE]
    OBVIOUS
  <2>2. /\ r \in TaskRow /\ r.pc = "look" /\ r.conv = {c} /\ r.who = task[t].who
        /\ r.sure = FALSE /\ r.heard = task[t].heard /\ r.newest = task[t].newest
        /\ r.summary = task[t].summary /\ r.upto = task[t].upto
    BY <1>2, <1>3, <2>1 DEF TaskRow, Early
  <2>3. Booth!Move(t, r)
    BY <1>7, <2>1
  <2>4. TaskTrue(t, r)
    BY <1>1, <1>3, <2>2 DEF TaskTrue
  <2>5. lastId + Awaited' <= MaxId
    BY <1>1, <1>3, <2>2, <2>3, MoveIs, AwaitedMoves DEF Early
  <2>6. LateTrue(r) /\ HearTrue(r)'
    BY <1>2, <1>3, <1>4, <2>2 DEF LateTrue, HearTrue, Later
  <2> QED BY <1>1, <1>4, <1>5, <1>7, <2>2, <2>3, <2>4, <2>5, <2>6, MovedOn
<1> QED BY <1>2, <1>6, <1>7 DEF Booth!Create

\* A request that goes on with the same conversation.
LEMMA Goes ==
  ASSUME Booth!ConversationAssumption, BoothIInv, NEW t \in Request, NEW c \in Conv,
         NEW r \in TaskRow,
         task[t].pc \notin {"idle", "create"}, task[t].conv = {c}, Booth!Move(t, r),
         UNCHANGED <<conv, log, lastId, person, sitting, late>>,
         Booth!Fault \/ UNCHANGED faults, kept \subseteq kept', kept' \in SUBSET Conv,
         r.pc \notin {"idle", "attach", "create"}, r.conv = {c}, r.who = task[t].who,
         r.sure => task[t].sure,
         r.newest <= lastId, r.upto <= lastId, r.summary \subseteq 0..sitting,
         r.pc \in Early => task[t].pc \in Early,
         r.pc = "answer" => task[t].pc \in Early \cup {"answer"},
         HearTrue(r)'
  PROVE  BoothIInv'
<1>1. t \in Doer /\ t \notin Signup
  BY DEF Doer, Booth!ConversationAssumption
<1>2. TaskTrue(t, task[t]) /\ SureTrue(task[t]) /\ LateTrue(task[t]) /\ Typed
  BY <1>1, Here
<1>3. Registers /\ faults' \in 0..MaxFault
  BY <1>2, Faults DEF Registers, Typed
<1>4. TaskTrue(t, r)
  BY <1>1, <1>2 DEF TaskTrue
<1>5. lastId + Awaited' <= MaxId
  BY <1>1, <1>2, MoveIs, AwaitedMoves
<1>6. r.sure => \A d \in r.conv :
                  IF conv[d].exists THEN conv[d].owner = r.who ELSE r.pc = "create"
  BY <1>2 DEF SureTrue
<1>7. LateTrue(r)
  BY <1>2 DEF LateTrue
<1> HIDE DEF HearTrue
<1> QED BY <1>1, <1>3, <1>4, <1>5, <1>6, <1>7, MovedOn

\* A task that is done.
LEMMA Rests ==
  ASSUME Booth!ConversationAssumption, BoothIInv, NEW t \in Doer, task[t].pc # "idle",
         Booth!Move(t, Booth!Idle),
         UNCHANGED <<conv, log, lastId, person, sitting, late, kept>>, Booth!Fault
           \/ UNCHANGED faults
  PROVE  BoothIInv'
<1>1. PICK c \in Conv : task[t].conv = {c}
  BY Here
<1>2. Typed
  BY DEF BoothIInv
<1>3. Registers /\ faults' \in 0..MaxFault
  BY <1>2, Faults DEF Registers, Typed
<1>4. PICK r \in TaskRow : r = Booth!Idle
  BY Blank
<1>5. TaskTrue(t, r)
  BY <1>2, <1>4, Blank DEF TaskTrue, Typed
<1>6. lastId + Awaited' <= MaxId
  <2>1. Booth!MoveOver(t, r, {})
    BY <1>2, <1>4, MoveIs
  <2>2. r.pc \notin Early \cup {"answer"}
    BY <1>4, Blank DEF Early
  <2> QED BY <1>2, <2>1, <2>2, AwaitedMoves
<1>7. ~r.sure /\ LateTrue(r) /\ HearTrue(r)'
  BY <1>4, Blank DEF LateTrue, HearTrue
<1>8. kept \subseteq kept' /\ kept' \in SUBSET Conv /\ Booth!Move(t, r)
  BY <1>2, <1>4 DEF Typed
<1> HIDE DEF HearTrue
<1> QED BY <1>3, <1>5, <1>6, <1>7, <1>8, MovedOn

\* looks whose it is,
LEMMA LookKeeps ==
  ASSUME Booth!ConversationAssumption, BoothIInv, NEW t \in Request, Booth!Look(t)
  PROVE  BoothIInv'
<1>1. t \in Doer /\ task[t].pc = "look" /\ t \notin Signup
  BY DEF Booth!Look, Doer, Booth!ConversationAssumption
<1>2. PICK c \in Conv : task[t].conv = {c}
  BY <1>1, Here
<1>3. /\ task[t] \in TaskRow /\ TaskTrue(t, task[t])
      /\ HearTrue(task[t]) /\ Typed /\ conv[c] \in ConvRow /\ FreshTrue(c)
  BY <1>1, Here DEF Typed, BoothIInv
<1>4. UNCHANGED <<conv, log, lastId, person, sitting, late>>
  BY DEF Booth!Look
<1>5. /\ task[t].newest <= lastId /\ task[t].upto <= lastId /\ task[t].summary \subseteq 0..sitting
      /\ lastId \in Nat
  BY <1>3 DEF TaskTrue, Typed
<1>6. CASE /\ conv[c].exists /\ conv[c].fresh
           /\ Booth!Move(t, [task[t] EXCEPT !.pc = "ask", !.heard = conv[c].summary])
           /\ UNCHANGED <<faults, kept>>
  <2>1. PICK r : r = [task[t] EXCEPT !.pc = "ask", !.heard = conv[c].summary]
    OBVIOUS
  <2>2. /\ r \in TaskRow /\ r.pc = "ask" /\ r.conv = {c} /\ r.who = task[t].who
        /\ r.sure = task[t].sure /\ r.heard = conv[c].summary /\ r.newest = task[t].newest
        /\ r.summary = task[t].summary /\ r.upto = task[t].upto
    BY <1>2, <1>3, <2>1, RowIs DEF TaskRow, Early
  <2>3. Booth!Move(t, r) /\ kept \subseteq kept' /\ kept' \in SUBSET Conv
    BY <1>3, <1>6, <2>1 DEF Typed
  <2>4. HearTrue(r)'
    <3>1. c \notin kept => Clean(c, conv[c])
      BY <1>3, <1>6 DEF FreshTrue
    <3> QED BY <1>4, <1>6, <2>2, <3>1 DEF HearTrue, Clean, Past, Booth!Of
  <2> HIDE DEF HearTrue
  <2> QED BY <1>1, <1>2, <1>4, <1>5, <1>6, <2>2, <2>3, <2>4, Goes DEF Early
<1>7. CASE /\ ~(conv[c].exists /\ conv[c].fresh)
           /\ Booth!Move(t, [task[t] EXCEPT !.pc = "forget", !.newest = Booth!Newest(Booth!Of(c))])
           /\ UNCHANGED <<faults, kept>>
  <2>1. PICK r : r = [task[t] EXCEPT !.pc = "forget", !.newest = Booth!Newest(Booth!Of(c))]
    OBVIOUS
  <2>2. /\ Booth!Newest(Booth!Of(c)) \in Nat /\ Booth!Newest(Booth!Of(c)) <= lastId
        /\ \A m \in Booth!Of(c) : m.id <= Booth!Newest(Booth!Of(c)) /\ m.id \in Nat
    <3>1. Booth!Of(c) \in SUBSET Entry /\ \A m \in Booth!Of(c) : m.id <= lastId /\ m.id \in Nat
      BY <1>3, EntryIs DEF Booth!Of, Typed, EntryTrue
    <3> QED BY <1>5, <3>1, NewestIs
  <2>3. /\ r \in TaskRow /\ r.pc = "forget" /\ r.conv = {c} /\ r.who = task[t].who
        /\ r.sure = task[t].sure /\ r.heard = task[t].heard /\ r.newest = Booth!Newest(Booth!Of(c))
        /\ r.summary = task[t].summary /\ r.upto = task[t].upto
    BY <1>2, <1>3, <2>1, <2>2 DEF TaskRow, Early
  <2>4. Booth!Move(t, r) /\ kept \subseteq kept' /\ kept' \in SUBSET Conv
    BY <1>3, <1>7, <2>1 DEF Typed
  <2>5. Past(c, r.newest)
    BY <2>2, <2>3 DEF Past
  <2>6. HearTrue(r)'
    BY <1>2, <1>3, <1>4, <1>7, <2>3, <2>5 DEF HearTrue, Past, Booth!Of, Later
  <2> HIDE DEF HearTrue
  <2> QED BY <1>1, <1>2, <1>4, <1>5, <1>7, <2>2, <2>3, <2>4, <2>6, Goes DEF Early
<1>8. CASE Booth!Fault /\ Booth!Move(t, [task[t] EXCEPT !.pc = "ask"]) /\ kept' = kept \cup {c}
  <2>1. PICK r : r = [task[t] EXCEPT !.pc = "ask"]
    OBVIOUS
  <2>2. /\ r \in TaskRow /\ r.pc = "ask" /\ r.conv = {c} /\ r.who = task[t].who
        /\ r.sure = task[t].sure /\ r.newest = task[t].newest
        /\ r.summary = task[t].summary /\ r.upto = task[t].upto
    BY <1>2, <1>3, <2>1 DEF TaskRow, Early
  <2>3. Booth!Move(t, r) /\ kept \subseteq kept' /\ kept' \in SUBSET Conv
    BY <1>3, <1>8, <2>1 DEF Typed
  <2>4. HearTrue(r)'
    BY <1>8, <2>2 DEF HearTrue
  <2> HIDE DEF HearTrue
  <2> QED BY <1>1, <1>2, <1>4, <1>5, <1>8, <2>2, <2>3, <2>4, Goes DEF Early
<1> QED BY <1>2, <1>6, <1>7, <1>8 DEF Booth!Look

\* goes unanswered,
LEMMA UnansweredKeeps ==
  ASSUME Booth!ConversationAssumption, BoothIInv, NEW t \in Request, Booth!Unanswered(t)
  PROVE  BoothIInv'
<1>1. t \in Doer /\ task[t].pc \in {"ask", "answer"}
  BY DEF Booth!Unanswered, Doer
<1>2. PICK c \in Conv : task[t].conv = {c}
  BY <1>1, Here
<1>3. /\ task[t] \in TaskRow /\ TaskTrue(t, task[t]) /\ HearTrue(task[t]) /\ Typed
  BY <1>1, Here
<1>4. UNCHANGED <<conv, log, lastId, person, sitting, late, faults, kept>>
  BY DEF Booth!Unanswered
<1>5. CASE task[t].pc = "answer" /\ Booth!Move(t, [task[t] EXCEPT !.pc = "read"])
  <2>1. PICK r : r = [task[t] EXCEPT !.pc = "read"]
    OBVIOUS
  <2>2. /\ r \in TaskRow /\ r.pc = "read" /\ r.conv = {c} /\ r.who = task[t].who
        /\ r.sure = task[t].sure /\ r.newest = task[t].newest /\ r.heard = task[t].heard
        /\ r.summary = task[t].summary /\ r.upto = task[t].upto
    BY <1>2, <1>3, <2>1 DEF TaskRow, Later
  <2>3. Booth!Move(t, r) /\ kept \subseteq kept' /\ kept' \in SUBSET Conv
    BY <1>3, <1>4, <1>5, <2>1 DEF Typed
  <2>4. HearTrue(r)'
    <3>1. c \notin kept => task[t].heard \subseteq {sitting} /\ Clean(c, conv[c])
      BY <1>1, <1>2, <1>3 DEF HearTrue, Later
    <3> QED BY <1>4, <2>2, <3>1 DEF HearTrue, Clean, Past, Booth!Of
  <2>5. /\ task[t].newest <= lastId /\ task[t].upto <= lastId
             /\ task[t].summary \subseteq 0..sitting
    BY <1>3 DEF TaskTrue
  <2> HIDE DEF HearTrue
  <2> QED BY <1>1, <1>2, <1>4, <2>2, <2>3, <2>4, <2>5, Goes DEF Early
<1>6. CASE Booth!Move(t, Booth!Idle)
  BY <1>1, <1>4, <1>6, Rests
<1> QED BY <1>1, <1>5, <1>6 DEF Booth!Unanswered

\* or is given up;
LEMMA AbandonKeeps ==
  ASSUME Booth!ConversationAssumption, BoothIInv, NEW t \in Request, Booth!Abandon(t)
  PROVE  BoothIInv'
BY Rests DEF Booth!Abandon, Doer

\* A step that changes nothing of the row but its summary.
LEMMA Rewrites ==
  ASSUME Booth!ConversationAssumption, BoothIInv, NEW t \in Doer, NEW c \in Conv, NEW q \in ConvRow,
         NEW r \in TaskRow, conv' = [conv EXCEPT ![c] = q], Booth!Move(t, r),
         UNCHANGED <<log, lastId, person, sitting, late>>,
         Booth!Fault \/ UNCHANGED faults, kept \subseteq kept', kept' \in SUBSET Conv,
         q.exists = conv[c].exists, q.owner = conv[c].owner, q.count = conv[c].count,
         RowTrue(q), TaskTrue(t, r),
         t \in Request => /\ r.pc \in Early => task[t].pc \in Early
                          /\ r.pc = "answer" => task[t].pc \in Early \cup {"answer"},
         r.sure => task[t].sure /\ task[t].pc # "create", r.sure => r.conv = task[t].conv,
         r.conv \subseteq task[t].conv, r.sure => r.who = task[t].who,
         r.conv # {} => r.who = task[t].who,
         c \notin kept' /\ Clean(c, conv[c]) => Clean(c, q),
         c \notin kept' /\ q.fresh => Clean(c, q),
         HearTrue(r)'
  PROVE  BoothIInv'
<1>1. Typed /\ conv[c] \in ConvRow /\ SureTrue(task[t]) /\ LateTrue(task[t])
  BY DEF BoothIInv, Typed
<1>2. Registers /\ faults' \in 0..MaxFault
  BY <1>1, Faults DEF Registers, Typed
<1>3. PICK C \in SUBSET Conv : C = {}
  OBVIOUS
<1>4. Booth!MoveOver(t, r, C)
  BY <1>1, <1>3, MoveIs
<1>5. lastId + Awaited' <= MaxId
  BY <1>1, <1>4, AwaitedMoves
<1>6. Moves(t, c, q, r, C)
  BY <1>2, <1>4 DEF Moves
<1>7. q.count >= conv[c].count
  BY <1>1, RowIs
<1>8. conv'[c] = q /\ \A d \in Conv \ {c} : conv'[d] = conv[d]
  BY <1>1, RowAt
<1>9. r.sure => \A d \in r.conv :
                  IF conv'[d].exists THEN conv'[d].owner = r.who ELSE r.pc = "create"
  <2> SUFFICES ASSUME r.sure, NEW d \in r.conv PROVE conv'[d].exists /\ conv'[d].owner = r.who
    OBVIOUS
  <2>1. conv[d].exists /\ conv[d].owner = r.who /\ d \in Conv
    BY <1>1, TaskIs DEF SureTrue
  <2> QED BY <1>8, <2>1
<1>10. LateTrue(r)
  BY <1>1 DEF LateTrue
<1> HIDE DEF Clean, HearTrue
<1> QED BY <1>2, <1>5, <1>6, <1>7, <1>9, <1>10, Moved

\* forgets an old sitting, reads what it sums up, and stores the summary.
LEMMA ForgetKeeps ==
  ASSUME Booth!ConversationAssumption, BoothIInv, NEW t \in Request, Booth!Forget(t)
  PROVE  BoothIInv'
<1>1. t \in Doer /\ task[t].pc = "forget" /\ t \notin Signup
  BY DEF Booth!Forget, Doer, Booth!ConversationAssumption
<1>2. PICK c \in Conv : task[t].conv = {c}
  BY <1>1, Here
<1>3. /\ task[t] \in TaskRow /\ TaskTrue(t, task[t])
      /\ HearTrue(task[t]) /\ Typed /\ conv[c] \in ConvRow /\ FreshTrue(c) /\ RowTrue(conv[c])
  BY <1>1, Here DEF Typed, BoothIInv
<1>4. UNCHANGED <<log, lastId, person, sitting, late>>
      /\ Booth!Move(t, [task[t] EXCEPT !.pc = "ask", !.newest = 0])
  BY DEF Booth!Forget
<1>5. /\ task[t].newest <= lastId /\ task[t].upto <= lastId /\ task[t].summary \subseteq 0..sitting
      /\ lastId \in Nat /\ task[t].newest \in Nat
  BY <1>3, TaskIs DEF TaskTrue, Typed
<1>6. PICK r : r = [task[t] EXCEPT !.pc = "ask", !.newest = 0]
  OBVIOUS
<1>7. /\ r \in TaskRow /\ r.pc = "ask" /\ r.conv = {c} /\ r.who = task[t].who
      /\ r.sure = task[t].sure /\ r.newest = 0 /\ r.heard = task[t].heard
      /\ r.summary = task[t].summary /\ r.upto = task[t].upto
  BY <1>2, <1>3, <1>6 DEF TaskRow, Early
<1>8. Booth!Move(t, r)
  BY <1>4, <1>6
<1>9. CASE /\ conv' = IF conv[c].exists THEN [conv EXCEPT ![c] = Booth!Erased(c, task[t].newest)] ELSE conv
           /\ UNCHANGED <<faults, kept>>
  <2>1. PICK q : q = IF conv[c].exists THEN Booth!Erased(c, task[t].newest) ELSE conv[c]
    OBVIOUS
  <2>2. /\ q \in ConvRow /\ q.exists = conv[c].exists /\ q.owner = conv[c].owner
        /\ q.fresh = conv[c].fresh /\ q.count = conv[c].count
        /\ q.summary = IF conv[c].exists THEN {} ELSE conv[c].summary
        /\ q.upto = IF conv[c].exists THEN task[t].newest ELSE conv[c].upto
    BY <1>3, <1>5, <2>1 DEF Booth!Erased, ConvRow
  <2>3. RowTrue(q)
    BY <1>3, <1>5, <2>1, <2>2 DEF RowTrue
  <2>4. conv' = [conv EXCEPT ![c] = q]
    BY <1>3, <1>9, <2>1 DEF Typed
  <2>5. TaskTrue(t, r)
    BY <1>1, <1>3, <1>5, <1>7 DEF TaskTrue
  <2>6. c \notin kept => Clean(c, q)
    <3>1. CASE conv[c].exists
      BY <1>1, <1>2, <1>3, <2>2, <3>1 DEF HearTrue, Clean, Past
    <3>2. CASE ~conv[c].exists
      BY <1>3, <2>1, <3>2, Vacant, Blank DEF Clean
    <3> QED BY <3>1, <3>2
  <2>7. HearTrue(r)'
    <3>1. c \notin kept => task[t].heard \subseteq {sitting}
      BY <1>2, <1>3 DEF HearTrue
    <3>2. conv'[c] = q
      BY <1>3, <2>2, <2>4, RowAt
    <3> QED BY <1>4, <1>7, <1>9, <2>6, <3>1, <3>2 DEF HearTrue, Clean, Past, Booth!Of
  <2>8. kept \subseteq kept' /\ kept' \in SUBSET Conv /\ (c \notin kept' => Clean(c, q))
    BY <1>3, <1>9, <2>6 DEF Typed
  <2> HIDE DEF Clean, HearTrue
  <2> QED BY <1>1, <1>2, <1>4, <1>7, <1>8, <1>9, <2>2, <2>3, <2>4, <2>5, <2>7, <2>8,
         Rewrites DEF Early
<1>10. CASE Booth!Fault /\ UNCHANGED conv /\ kept' = kept \cup {c}
  <2>1. HearTrue(r)'
    BY <1>7, <1>10 DEF HearTrue
  <2>2. kept \subseteq kept' /\ kept' \in SUBSET Conv
    BY <1>3, <1>10 DEF Typed
  <2> HIDE DEF HearTrue
  <2> QED BY <1>1, <1>2, <1>4, <1>5, <1>7, <1>8, <1>10, <2>1, <2>2, Goes DEF Early
<1> QED BY <1>2, <1>9, <1>10 DEF Booth!Forget

LEMMA ReadKeeps ==
  ASSUME Booth!ConversationAssumption, BoothIInv, NEW t \in Request, Booth!Read(t)
  PROVE  BoothIInv'
<1>1. t \in Doer /\ task[t].pc = "read" /\ t \notin Signup
  BY DEF Booth!Read, Doer, Booth!ConversationAssumption
<1>2. PICK c \in Conv : task[t].conv = {c}
  BY <1>1, Here
<1>3. /\ task[t] \in TaskRow /\ TaskTrue(t, task[t])
      /\ HearTrue(task[t]) /\ Typed /\ conv[c] \in ConvRow /\ RowTrue(conv[c])
  BY <1>1, Here DEF Typed
<1>4. UNCHANGED <<conv, log, lastId, person, sitting, late, faults, kept>>
  BY DEF Booth!Read
<1>5. PICK fold : fold = Booth!Fold(c, conv[c].upto)
  OBVIOUS
<1>6. CASE fold # {} /\ Booth!Move(t, [task[t] EXCEPT !.pc = "fold", !.upto = Booth!Newest(fold),
                                         !.summary = conv[c].summary \cup {m.sit : m \in fold}])
  <2>1. PICK r : r = [task[t] EXCEPT !.pc = "fold", !.upto = Booth!Newest(fold),
                        !.summary = conv[c].summary \cup {m.sit : m \in fold}]
    OBVIOUS
  <2>2. /\ fold \subseteq Booth!Of(c) /\ fold \in SUBSET Entry /\ conv[c].upto \in Nat
        /\ lastId \in Nat /\ sitting \in Nat
        /\ \A m \in fold : /\ m.id > conv[c].upto /\ m.id <= lastId /\ m.id \in Nat
                           /\ m.sit \in 0..sitting
    BY <1>3, <1>5, EntryIs, RowIs DEF Booth!Fold, Booth!Of, Typed, EntryTrue
  <2>3. Booth!Newest(fold) \in Nat /\ Booth!Newest(fold) <= lastId
          /\ Booth!Newest(fold) > conv[c].upto
    BY <1>6, <2>2, NewestIs
  <2>4. PICK sits : sits = {m.sit : m \in fold}
    OBVIOUS
  <2>5. sits \subseteq 0..sitting /\ conv[c].summary \subseteq 0..sitting
    BY <1>3, <2>2, <2>4 DEF RowTrue
  <2>6. /\ r \in TaskRow /\ r.pc = "fold" /\ r.conv = {c} /\ r.who = task[t].who
        /\ r.sure = task[t].sure /\ r.newest = task[t].newest /\ r.heard = task[t].heard
        /\ r.summary = conv[c].summary \cup sits /\ r.upto = Booth!Newest(fold)
    <3>1. PICK w : w = conv[c].summary \cup sits
      OBVIOUS
    <3>2. w \in SUBSET Nat
      <4>1. \A x \in 0..sitting : x \in Nat
        BY <2>2
      <4>2. \A x \in w : x \in 0..sitting
        BY <2>5, <3>1
      <4> QED BY <4>1, <4>2
    <3>3. PICK n \in Nat : n = Booth!Newest(fold)
      BY <2>3
    <3>4. r = [task[t] EXCEPT !.pc = "fold", !.upto = n, !.summary = w]
      BY <2>1, <2>4, <3>1, <3>3
    <3>5. r \in TaskRow
      BY <1>3, <3>2, <3>4 DEF TaskRow, Later
    <3> QED BY <1>2, <1>3, <3>1, <3>3, <3>4, <3>5 DEF TaskRow
  <2>7. Booth!Move(t, r) /\ kept \subseteq kept' /\ kept' \in SUBSET Conv
    BY <1>3, <1>4, <1>6, <2>1 DEF Typed
  <2>8. c \notin kept => /\ task[t].heard \subseteq {sitting} /\ Clean(c, conv[c])
    BY <1>1, <1>2, <1>3 DEF HearTrue, Later
  <2>9. c \notin kept => Clean(c, r)
    <3> SUFFICES ASSUME c \notin kept PROVE Clean(c, r)
      OBVIOUS
    <3>1. \A m \in Booth!Of(c) : m.id > conv[c].upto => m.sit = sitting
      BY <2>8 DEF Clean, Past
    <3>2. sits \subseteq {sitting}
      BY <2>2, <2>4, <3>1
    <3>3. \A m \in Booth!Of(c) : m.id \in Nat
      BY <1>3, EntryIs DEF Booth!Of, Typed
    <3>4. Past(c, Booth!Newest(fold))
      BY <2>2, <2>3, <3>1, <3>3 DEF Past
    <3> QED BY <2>6, <2>8, <3>2, <3>4 DEF Clean
  <2>10. HearTrue(r)'
    BY <1>4, <2>6, <2>8, <2>9 DEF HearTrue, Clean, Past, Booth!Of
  <2>11. task[t].newest <= lastId
    BY <1>3 DEF TaskTrue
  <2> HIDE DEF HearTrue
  <2> QED BY <1>1, <1>2, <1>4, <2>3, <2>5, <2>6, <2>7, <2>10, <2>11, Goes DEF Early
<1>7. CASE Booth!Move(t, Booth!Idle)
  BY <1>1, <1>4, <1>7, Rests
<1> QED BY <1>2, <1>5, <1>6, <1>7 DEF Booth!Read

LEMMA StoreKeeps ==
  ASSUME Booth!ConversationAssumption, BoothIInv, NEW t \in Request, Booth!Store(t)
  PROVE  BoothIInv'
<1>1. t \in Doer /\ task[t].pc = "fold" /\ t \notin Signup
  BY DEF Booth!Store, Doer, Booth!ConversationAssumption
<1>2. PICK c \in Conv : task[t].conv = {c}
  BY <1>1, Here
<1>3. /\ task[t] \in TaskRow /\ TaskTrue(t, task[t])
      /\ HearTrue(task[t]) /\ Typed /\ conv[c] \in ConvRow /\ FreshTrue(c) /\ RowTrue(conv[c])
  BY <1>1, Here DEF Typed, BoothIInv
<1>4. UNCHANGED <<log, lastId, person, sitting, late, faults, kept>> /\ Booth!Move(t, Booth!Idle)
  BY DEF Booth!Store
<1>5. PICK q : q = IF conv[c].exists
                   THEN [conv[c] EXCEPT !.summary = task[t].summary, !.upto = task[t].upto]
                   ELSE conv[c]
  OBVIOUS
<1>6. /\ q \in ConvRow /\ q.exists = conv[c].exists /\ q.owner = conv[c].owner
      /\ q.fresh = conv[c].fresh /\ q.count = conv[c].count
      /\ conv[c].exists => q.summary = task[t].summary /\ q.upto = task[t].upto
  BY <1>3, <1>5, TaskIs DEF ConvRow
<1>7. RowTrue(q)
  BY <1>3, <1>5, <1>6 DEF RowTrue, TaskTrue
<1>8. conv' = [conv EXCEPT ![c] = q]
  <2>1. conv' = IF conv[c].exists
                THEN [conv EXCEPT ![c].summary = task[t].summary, ![c].upto = task[t].upto]
                ELSE conv
    BY <1>2 DEF Booth!Store
  <2>2. conv \in [Conv -> ConvRow]
    BY <1>3 DEF Typed
  <2> QED BY <1>5, <2>1, <2>2
<1>9. c \notin kept => Clean(c, q)
  <2>1. CASE conv[c].exists
    BY <1>1, <1>2, <1>3, <1>6, <2>1 DEF HearTrue, Clean, Past
  <2>2. CASE ~conv[c].exists
    BY <1>3, <1>5, <2>2, Vacant, Blank DEF Clean
  <2> QED BY <2>1, <2>2
<1>10. PICK r \in TaskRow : r = Booth!Idle
  BY Blank
<1>11. TaskTrue(t, r) /\ HearTrue(r)' /\ Booth!Move(t, r)
  BY <1>1, <1>3, <1>4, <1>10, Blank DEF TaskTrue, HearTrue, Typed
<1>12. /\ r.pc \notin Early /\ r.pc # "answer" /\ ~r.sure /\ r.conv = {}
  BY <1>10, Blank DEF Early
<1>13. kept \subseteq kept' /\ kept' \in SUBSET Conv /\ (c \notin kept' => Clean(c, q))
  BY <1>3, <1>4, <1>9 DEF Typed
<1> HIDE DEF Clean, HearTrue
<1> QED BY <1>1, <1>2, <1>4, <1>6, <1>7, <1>8, <1>11, <1>12, <1>13, Rewrites

-------------------------------------------------------------------------------
(* Registration.                                                             *)

\* A registration, and the rows it attaches.
LEMMA RegisterKeeps ==
  ASSUME Booth!ConversationAssumption, BoothIInv, NEW t \in Signup, NEW v \in Visitor, NEW c \in Conv,
         Booth!Register(t, v, c)
  PROVE  BoothIInv'
<1>1. t \in Doer /\ task[t].pc = "idle" /\ t \notin Request /\ v # Booth!Anon
  BY DEF Booth!Register, Booth!Busy, Doer, Booth!ConversationAssumption
<1>2. Typed
  BY DEF BoothIInv
<1>3. UNCHANGED <<conv, log, lastId, sitting, late, faults, kept>>
  BY DEF Booth!Register
<1>4. PICK r : r = [Booth!Idle EXCEPT !.pc = "attach", !.conv = {c}, !.who = v]
  OBVIOUS
<1>5. /\ r \in TaskRow /\ r.pc = "attach" /\ r.conv = {c} /\ r.who = v /\ r.sure = FALSE
      /\ r.heard = {} /\ r.newest = 0 /\ r.summary = {} /\ r.upto = 0
  BY <1>4 DEF Booth!Idle, TaskRow, Person
<1>6. Booth!Move(t, r)
  BY <1>4 DEF Booth!Register
<1>7. Registers
  BY <1>2 DEF Booth!Register, Registers, Typed
<1>8. TaskTrue(t, r)
  BY <1>1, <1>2, <1>5 DEF TaskTrue, Typed
<1>9. lastId + Awaited' <= MaxId
  BY <1>1, <1>2, <1>5, <1>6, MoveIs, AwaitedMoves
<1>10. LateTrue(r) /\ HearTrue(r)'
  BY <1>5 DEF LateTrue, HearTrue, Later, Booth!Register
<1>11. faults' \in 0..MaxFault /\ kept \subseteq kept' /\ kept' \in SUBSET Conv
  BY <1>2, <1>3 DEF Typed
<1> HIDE DEF HearTrue
<1> QED BY <1>1, <1>3, <1>5, <1>6, <1>7, <1>8, <1>9, <1>10, <1>11, MovedOn

LEMMA AttachKeeps ==
  ASSUME Booth!ConversationAssumption, BoothIInv, NEW t \in Signup, Booth!Attach(t)
  PROVE  BoothIInv'
<1>1. t \in Doer /\ task[t].pc = "attach" /\ t \notin Request
  BY DEF Booth!Attach, Doer, Booth!ConversationAssumption
<1>2. PICK c \in Conv : task[t].conv = {c}
  BY <1>1, Here
<1>3. /\ task[t] \in TaskRow /\ LateTrue(task[t])
      /\ Typed /\ conv[c] \in ConvRow /\ FreshTrue(c) /\ RowTrue(conv[c])
  BY <1>1, Here DEF Typed, BoothIInv
<1>4. UNCHANGED <<log, lastId, person, sitting, late, kept>>
  BY DEF Booth!Attach
<1>5. CASE /\ Booth!Claimable(c, task[t].who)
           /\ conv' = [conv EXCEPT ![c].owner = task[t].who]
           /\ Booth!MoveOver(t, Booth!Idle, IF conv[c].owner = Booth!Anon THEN {c} ELSE {})
           /\ UNCHANGED faults
  <2>1. PICK q : q = [conv[c] EXCEPT !.owner = task[t].who]
    OBVIOUS
  <2>2. /\ q \in ConvRow /\ q.exists = conv[c].exists /\ q.owner = task[t].who
        /\ q.fresh = conv[c].fresh /\ q.count = conv[c].count
        /\ q.summary = conv[c].summary /\ q.upto = conv[c].upto /\ q.exists
    BY <1>3, <1>5, <2>1, TaskIs DEF ConvRow, Booth!Claimable
  <2>3. PICK C \in SUBSET Conv : C = IF conv[c].owner = Booth!Anon THEN {c} ELSE {}
    OBVIOUS
  <2>4. PICK r \in TaskRow : r = Booth!Idle
    BY Blank
  <2>5. Booth!MoveOver(t, r, C)
    BY <1>5, <2>3, <2>4
  <2>6. conv' = [conv EXCEPT ![c] = q]
    BY <1>3, <1>5, <2>1 DEF Typed
  <2>7. Registers /\ faults' \in 0..MaxFault /\ kept \subseteq kept' /\ kept' \in SUBSET Conv
    BY <1>3, <1>4, <1>5 DEF Registers, Typed
  <2>8. Moves(t, c, q, r, C)
    BY <1>4, <2>5, <2>6, <2>7 DEF Moves
  <2>9. RowTrue(q) /\ TaskTrue(t, r)
    BY <1>1, <1>3, <2>2, <2>4, Blank DEF RowTrue, TaskTrue, Typed
  <2>10. lastId + Awaited' <= MaxId
    BY <1>1, <1>3, <2>5, AwaitedMoves
  <2>11. q.count >= conv[c].count
    BY <1>3, <2>2, RowIs
  <2>12. /\ (q.owner = conv[c].owner /\ q.exists = conv[c].exists) \/ C = {c}
         /\ q.owner # conv[c].owner => conv[c].owner = Booth!Anon
    BY <1>5, <2>2, <2>3 DEF Booth!Claimable
  <2>13. q.owner # conv[c].owner /\ q.owner \in Visitor /\ person[q.owner] = "deleted" => c \in late
    BY <1>2, <1>3, <2>2 DEF LateTrue
  <2>14. ~r.sure /\ LateTrue(r) /\ HearTrue(r)'
    BY <2>4, Blank DEF LateTrue, HearTrue
  <2>15. /\ c \notin kept' /\ Clean(c, conv[c]) => Clean(c, q)
         /\ c \notin kept' /\ q.fresh => Clean(c, q)
    BY <1>3, <1>4, <2>2 DEF FreshTrue, Clean
  <2> HIDE DEF Clean, HearTrue
  <2> QED BY <1>1, <2>2, <2>7, <2>8, <2>9, <2>10, <2>11, <2>12, <2>13, <2>14, <2>15, Moved
<1>6. CASE Booth!Move(t, Booth!Idle) /\ UNCHANGED conv /\ (Booth!Fault \/ UNCHANGED faults)
  BY <1>1, <1>4, <1>6, Rests
<1> QED BY <1>2, <1>5, <1>6 DEF Booth!Attach

-------------------------------------------------------------------------------
(* What is said.                                                             *)

\* A question or an answer that is appended.
LEMMA AppendKeeps ==
  ASSUME Booth!ConversationAssumption, BoothIInv, NEW t \in Request, Booth!Append(t)
  PROVE  BoothIInv'
<1>1. t \in Doer /\ task[t].pc \in {"ask", "answer"} /\ t \notin Signup
  BY DEF Booth!Append, Doer, Booth!ConversationAssumption
<1>2. PICK c \in Conv : task[t].conv = {c}
  BY <1>1, Here
<1>3. /\ task[t] \in TaskRow /\ TaskTrue(t, task[t]) /\ SureTrue(task[t]) /\ LateTrue(task[t])
      /\ HearTrue(task[t]) /\ Typed /\ conv[c] \in ConvRow /\ RowTrue(conv[c])
  BY <1>1, Here DEF Typed
<1>4. UNCHANGED <<person, sitting, late, kept>>
  BY DEF Booth!Append
<1>5. PICK r : r = [task[t] EXCEPT !.pc = IF @ = "ask" THEN "answer" ELSE "read", !.heard = {}]
  OBVIOUS
<1>6. /\ r \in TaskRow /\ r.pc = (IF task[t].pc = "ask" THEN "answer" ELSE "read")
      /\ r.conv = {c} /\ r.who = task[t].who
      /\ r.sure = task[t].sure /\ r.newest = task[t].newest /\ r.heard = {}
      /\ r.summary = task[t].summary /\ r.upto = task[t].upto
  BY <1>1, <1>2, <1>3, <1>5 DEF TaskRow, Later
<1>7. /\ task[t].newest <= lastId /\ task[t].upto <= lastId /\ task[t].summary \subseteq 0..sitting
      /\ lastId \in Nat /\ sitting \in Nat /\ task[t].newest \in Nat /\ task[t].upto \in Nat
      /\ task[t].sure => task[t].who # Booth!Anon
  BY <1>3, TaskIs DEF TaskTrue, Typed
<1>8. c \notin kept => Clean(c, conv[c])
  BY <1>1, <1>2, <1>3 DEF HearTrue, Later
<1>9. CASE Booth!Fault /\ Booth!Move(t, r) /\ UNCHANGED <<conv, log, lastId>>
  <2>1. HearTrue(r)'
    BY <1>4, <1>6, <1>8, <1>9 DEF HearTrue, Clean, Past, Booth!Of
  <2>2. kept \subseteq kept' /\ kept' \in SUBSET Conv
    BY <1>3, <1>4 DEF Typed
  <2> HIDE DEF HearTrue
  <2> QED BY <1>1, <1>2, <1>4, <1>6, <1>7, <1>9, <2>1, <2>2, Goes DEF Early
<1>10. CASE /\ conv' = [conv EXCEPT ![c] = [Booth!Ensured(c, Booth!Anon) EXCEPT !.fresh = TRUE, !.count = @ + 1]]
            /\ lastId' = lastId + 1
            /\ log' = log \cup {[id |-> lastId', conv |-> c, sit |-> sitting,
                                 by |-> task[t].who, sure |-> task[t].sure]}
            /\ Booth!MoveOver(t, r, IF conv[c].exists THEN {} ELSE {c})
            /\ UNCHANGED faults
  <2>1. PICK q : q = [Booth!Ensured(c, Booth!Anon) EXCEPT !.fresh = TRUE, !.count = @ + 1]
    OBVIOUS
  <2>2. ~conv[c].exists => conv[c] = Booth!NoConv
    BY <1>3 DEF RowTrue
  <2>3. /\ q \in ConvRow /\ q.exists = TRUE /\ q.owner = conv[c].owner /\ q.fresh = TRUE
        /\ q.count = conv[c].count + 1 /\ q.summary = conv[c].summary /\ q.upto = conv[c].upto
    <3>1. PICK e : e = Booth!Ensured(c, Booth!Anon)
      OBVIOUS
    <3>2. /\ e \in ConvRow /\ e.exists = TRUE /\ e.owner = conv[c].owner
          /\ e.count = conv[c].count /\ e.summary = conv[c].summary /\ e.upto = conv[c].upto
      <4>1. CASE conv[c].exists
        BY <1>3, <3>1, <4>1 DEF Booth!Ensured, ConvRow
      <4>2. CASE ~conv[c].exists
        <5>1. /\ e \in ConvRow /\ e.exists = TRUE /\ e.owner = Booth!Anon
              /\ e.count = 0 /\ e.summary = {} /\ e.upto = 0
          BY <3>1, <4>2 DEF Booth!Ensured, Booth!NoConv, ConvRow, Person
        <5> QED BY <2>2, <4>2, <5>1, Blank
      <4> QED BY <4>1, <4>2
    <3>3. e.count \in Nat /\ e.count + 1 \in Nat
      BY <3>2, RowIs
    <3>4. q = [e EXCEPT !.fresh = TRUE, !.count = e.count + 1]
      BY <2>1, <3>1, <3>2 DEF ConvRow
    <3>5. /\ q.exists = e.exists /\ q.owner = e.owner /\ q.fresh = TRUE
          /\ q.count = e.count + 1 /\ q.summary = e.summary /\ q.upto = e.upto
      BY <3>2, <3>4 DEF ConvRow
    <3>6. q \in ConvRow
      BY <3>2, <3>3, <3>4 DEF ConvRow
    <3> QED BY <3>2, <3>5, <3>6
  <2>4. PICK C \in SUBSET Conv : C = IF conv[c].exists THEN {} ELSE {c}
    OBVIOUS
  <2>5. Booth!MoveOver(t, r, C)
    BY <1>10, <2>4
  <2>6. /\ task' \in [Doer -> TaskRow] /\ task'[t] = r
        /\ \A u \in Doer \ {t} : Same(task'[u], task[u]) /\ (task'[u].sure
             => task[u].conv \cap C = {})
    BY <1>1, <1>3, <1>6, <2>5, MovedTo
  <2>7. /\ conv' \in [Conv -> ConvRow] /\ conv'[c] = q
        /\ \A d \in Conv \ {c} : conv'[d] = conv[d]
    BY <1>3, <1>10, <2>1, <2>3, RowAt
  <2>8. PICK m : m = [id |-> lastId + 1, conv |-> c, sit |-> sitting,
                      by |-> task[t].who, sure |-> task[t].sure]
    OBVIOUS
  <2>9. /\ m \in Entry /\ m.id = lastId + 1 /\ m.conv = c /\ m.sit = sitting
        /\ m.by = task[t].who /\ m.sure = task[t].sure
    BY <1>3, <1>7, <2>8, TaskIs DEF Entry
  <2>10. log' = log \cup {m} /\ lastId' = lastId + 1 /\ faults' = faults
    BY <1>10, <2>8
  <2>11. /\ \A x \in log : /\ x \in Entry /\ x.id \in 1..lastId /\ x.sit \in 0..sitting
                           /\ x.sure => x.by # Booth!Anon
                           /\ conv[x.conv].exists /\ x.conv \in Conv
         /\ IsFiniteSet(log)
    BY <1>3, EntryIs DEF Typed, EntryTrue
  <2>12. Booth!Of(c)' = Booth!Of(c) \cup {m} /\ m \notin Booth!Of(c)
           /\ \A d \in Conv \ {c} : Booth!Of(d)' = Booth!Of(d)
    <3>1. m \notin log
      BY <1>7, <2>9, <2>11
    <3> QED BY <2>9, <2>10, <3>1 DEF Booth!Of
  <2>13. lastId' + Awaited' <= MaxId
    <3>1. task'[t].pc = IF task[t].pc = "ask" THEN "answer" ELSE "read"
      BY <1>6, <2>6
    <3>2. \A u \in Request \ {t} : task'[u].pc = task[u].pc
      BY <2>6 DEF Doer, Same
    <3>3. Awaited \in Nat /\ Awaited' \in Nat /\ Awaited' + 1 <= Awaited
      BY <1>1, <3>1, <3>2, AwaitedFalls
    <3>4. lastId + Awaited <= MaxId /\ MaxId \in Nat
      BY <1>3 DEF Typed, Booth!ConversationAssumption
    <3>5. PICK a \in Nat : a = Awaited
      BY <3>3
    <3>6. PICK b \in Nat : b = Awaited'
      BY <3>3
    <3>7. (lastId + 1) + b <= MaxId
      <4>1. b + 1 <= a
        BY <3>3, <3>5, <3>6
      <4>2. lastId + a <= MaxId
        BY <3>4, <3>5
      <4> QED BY <1>7, <3>4, <4>1, <4>2
    <3> QED BY <2>10, <3>6, <3>7
  <2>14. \A d \in Conv : BoothCounted(d)'
    <3> SUFFICES ASSUME NEW d \in Conv PROVE conv'[d].count >= Cardinality(Booth!Of(d)')
      BY DEF BoothCounted
    <3>1. conv[d].count >= Cardinality(Booth!Of(d)) /\ conv[d].count \in Nat
            /\ IsFiniteSet(Booth!Of(d))
      <4>1. Booth!Of(d) \subseteq log /\ conv[d] \in ConvRow
        BY <1>3 DEF Booth!Of, Typed
      <4> QED BY <1>3, <2>11, <4>1, FS_Subset, RowIs DEF Typed, BoothCounted
    <3>2. Cardinality(Booth!Of(d)) \in Nat
      BY <3>1, FS_CardinalityType
    <3>3. CASE d = c
      <4>1. Cardinality(Booth!Of(c) \cup {m}) = Cardinality(Booth!Of(c)) + 1
        BY <2>12, <3>1, <3>3, FS_AddElement
      <4>2. conv'[c].count = conv[c].count + 1
        BY <2>3, <2>7
      <4>3. PICK k \in Nat : k = Cardinality(Booth!Of(c))
        BY <3>2, <3>3
      <4>4. PICK l \in Nat : l = conv[c].count
        BY <3>1, <3>3
      <4>5. l >= k /\ conv'[c].count = l + 1 /\ Cardinality(Booth!Of(c)') = k + 1
        BY <2>12, <3>1, <3>3, <4>1, <4>2, <4>3, <4>4
      <4>6. conv'[c].count >= Cardinality(Booth!Of(c)')
        BY <4>5
      <4> QED BY <4>6, <3>3
    <3>4. CASE d # c
      BY <2>7, <2>12, <3>1, <3>4
    <3> QED BY <3>3, <3>4
  <2>15. Typed'
    <3>1. (\A d \in Conv : RowTrue(conv[d]))'
      <4> SUFFICES ASSUME NEW d \in Conv PROVE RowTrue(conv[d])'
        OBVIOUS
      <4>1. RowTrue(conv[d]) /\ conv[d].upto \in Nat
        BY <1>3, RowIs DEF Typed
      <4> QED BY <1>3, <1>4, <1>7, <2>3, <2>7, <2>10, <4>1 DEF RowTrue
    <3>2. (\A x \in log : EntryTrue(x))'
      <4> SUFFICES ASSUME NEW x \in log' PROVE EntryTrue(x)'
        OBVIOUS
      <4>1. CASE x \in log
        BY <1>4, <1>7, <2>3, <2>7, <2>10, <2>11, <4>1 DEF EntryTrue
      <4>2. CASE x = m
        BY <1>4, <1>7, <2>3, <2>7, <2>9, <2>10, <4>2 DEF EntryTrue
      <4> QED BY <2>10, <4>1, <4>2
    <3>3. (\A u \in Doer : TaskTrue(u, task[u]))'
      <4> SUFFICES ASSUME NEW u \in Doer PROVE TaskTrue(u, task[u])'
        OBVIOUS
      <4>1. CASE u = t
        <5>1. TaskTrue(t, r)
          BY <1>1, <1>3, <1>6 DEF TaskTrue
        <5> QED BY <1>4, <1>6, <1>7, <2>6, <2>10, <4>1, <5>1 DEF TaskTrue
      <4>2. CASE u # t
        <5>1. Same(task'[u], task[u]) /\ TaskTrue(u, task[u]) /\ task[u] \in TaskRow
          BY <1>3, <2>6, <4>2 DEF Typed
        <5>2. task[u].newest \in Nat /\ task[u].upto \in Nat
          BY <5>1, TaskIs
        <5>3. task[u].pc = "idle" => task'[u] = task[u]
          BY <5>1, Blank DEF Same, TaskTrue
        <5> QED BY <1>4, <1>7, <2>10, <5>1, <5>2, <5>3 DEF Same, TaskTrue
      <4> QED BY <4>1, <4>2
    <3>4. IsFiniteSet(log)' /\ (log \in SUBSET Entry)'
      BY <2>9, <2>10, <2>11, FS_AddElement
    <3> QED BY <1>3, <1>4, <1>7, <2>6, <2>7, <2>10, <2>13, <2>14, <3>1, <3>2, <3>3, <3>4 DEF Typed
  <2>16. (\A u \in Doer : SureTrue(task[u]))'
    <3> SUFFICES ASSUME NEW u \in Doer, task'[u].sure, NEW d \in task'[u].conv
                 PROVE  IF conv'[d].exists THEN conv'[d].owner = task'[u].who
                                           ELSE task'[u].pc = "create"
      BY DEF SureTrue
    <3>1. CASE u = t
      BY <1>1, <1>2, <1>3, <1>6, <2>3, <2>6, <2>7, <3>1 DEF SureTrue
    <3>2. CASE u # t
      <4>1. Same(task'[u], task[u]) /\ task[u].conv \cap C = {} /\ task[u] \in TaskRow
        BY <1>3, <2>6, <3>2 DEF Typed
      <4>2. /\ task[u].sure /\ d \in task[u].conv /\ d \in Conv /\ task[u].who = task'[u].who
            /\ task[u].pc = task'[u].pc /\ d \notin C
        BY <4>1, TaskIs DEF Same
      <4>3. IF conv[d].exists THEN conv[d].owner = task[u].who ELSE task[u].pc = "create"
        BY <1>3, <4>2 DEF SureTrue, BoothIInv
      <4>4. conv'[d].exists = conv[d].exists /\ conv'[d].owner = conv[d].owner
        BY <2>3, <2>4, <2>7, <4>2
      <4> QED BY <4>2, <4>3, <4>4
    <3> QED BY <3>1, <3>2
  <2>17. (\A u \in Doer : LateTrue(task[u]))'
    <3> SUFFICES ASSUME NEW u \in Doer PROVE LateTrue(task[u])'
      OBVIOUS
    <3>1. CASE u = t
      BY <1>2, <1>3, <1>4, <1>6, <2>6, <3>1 DEF LateTrue
    <3>2. CASE u # t
      <4>1. LateTrue(task[u]) /\ Same(task'[u], task[u])
        BY <2>6, <3>2 DEF BoothIInv
      <4> QED BY <1>4, <4>1 DEF LateTrue, Same
    <3> QED BY <3>1, <3>2
  <2>18. \A d \in Conv : \A n : Past(d, n) => Past(d, n)'
    BY <1>4, <2>9, <2>10 DEF Past, Booth!Of
  <2>19. (\A u \in Doer : HearTrue(task[u]))'
    <3> SUFFICES ASSUME NEW u \in Doer, NEW d \in Conv \ kept, task'[u].conv = {d}
                 PROVE  (/\ task[u].heard \subseteq {sitting}
                         /\ task[u].pc \in Later => Clean(d, conv[d])
                         /\ task[u].pc = "forget" => Past(d, task[u].newest)
                         /\ task[u].pc = "fold" => Clean(d, task[u]))'
      BY <1>4 DEF HearTrue
    <3>1. Clean(d, conv[d]) => Clean(d, conv[d])'
      BY <1>4, <2>3, <2>7, <2>18 DEF Clean
    <3>2. CASE u = t
      <4>1. d = c
        BY <1>6, <2>6, <3>2
      <4> QED BY <1>4, <1>6, <1>8, <2>6, <3>1, <3>2, <4>1
    <3>3. CASE u # t
      <4>1. HearTrue(task[u]) /\ Same(task'[u], task[u])
        BY <2>6, <3>3 DEF BoothIInv
      <4>2. /\ task[u].heard \subseteq {sitting}
            /\ task[u].pc \in Later => Clean(d, conv[d])
            /\ task[u].pc = "forget" => Past(d, task[u].newest)
            /\ task[u].pc = "fold" => Clean(d, task[u])
        BY <4>1 DEF HearTrue, Same
      <4> QED BY <1>4, <2>18, <3>1, <4>1, <4>2 DEF Same, Clean
    <3> QED BY <3>2, <3>3
  <2>20. (\A d \in Conv : FreshTrue(d))'
    <3> SUFFICES ASSUME NEW d \in Conv, d \notin kept, conv'[d].fresh PROVE Clean(d, conv[d])'
      BY <1>4 DEF FreshTrue
    <3>1. Clean(d, conv[d])
      BY <1>8, <2>7 DEF FreshTrue, BoothIInv
    <3> QED BY <1>4, <2>3, <2>7, <2>18, <3>1 DEF Clean
  <2>21. Booth!Defended'
    <3> SUFFICES ASSUME NEW x \in log', x.sure PROVE conv'[x.conv].exists
          /\ conv'[x.conv].owner = x.by
      BY DEF Booth!Defended
    <3>1. CASE x \in log
      BY <2>3, <2>7, <2>11, <3>1 DEF Booth!Defended, BoothIInv
    <3>2. CASE x = m
      <4>1. conv[c].exists /\ conv[c].owner = task[t].who
        BY <1>1, <1>2, <1>3, <2>9, <3>2 DEF SureTrue
      <4> QED BY <2>3, <2>7, <2>9, <3>2, <4>1
    <3> QED BY <2>10, <3>1, <3>2
  <2>22. Booth!DeletedIsGone'
    <3> SUFFICES ASSUME NEW v \in Visitor, person[v] = "deleted"
                 PROVE  /\ \A d \in Conv : conv'[d].owner = v => d \in late
                        /\ \A x \in log' : x.by = v /\ x.sure => x.conv \in late
      BY <1>4 DEF Booth!DeletedIsGone
    <3>1. /\ \A d \in Conv : conv[d].owner = v => d \in late
          /\ \A x \in log : x.by = v /\ x.sure => x.conv \in late
      BY DEF Booth!DeletedIsGone, BoothIInv
    <3>2. m.by = v => c \in late
      BY <1>2, <1>3, <2>9 DEF LateTrue
    <3> QED BY <2>3, <2>7, <2>9, <2>10, <3>1, <3>2
  <2> QED BY <2>15, <2>16, <2>17, <2>19, <2>20, <2>21, <2>22 DEF BoothIInv
<1> QED BY <1>2, <1>5, <1>9, <1>10 DEF Booth!Append

-------------------------------------------------------------------------------
(* Deletion, retention, and a sitting's end.                                 *)

\* What holds of the rest when some rows, and some messages, are gone.
LEMMA Shrinks ==
  ASSUME Booth!ConversationAssumption, BoothIInv, NEW C \in SUBSET Conv,
         conv' \in [Conv -> ConvRow],
         \A d \in Conv : conv'[d] = IF d \in C THEN Booth!NoConv ELSE conv[d],
         log' \in SUBSET log, \A m \in log' : m.conv \notin C,
         task' \in [Doer -> TaskRow],
         \A u \in Doer : Same(task'[u], task[u]) /\ (task'[u].sure => task[u].conv \cap C = {}),
         UNCHANGED <<lastId, sitting, faults, kept>>,
         late \subseteq late', late' \in SUBSET Conv,
         person' \in [Visitor -> {"new", "known", "deleted"}],
         \A v \in Visitor : person'[v] = "deleted" =>
            \/ person[v] = "deleted"
            \/ Booth!Belongings(v) \subseteq C /\ \A u \in Doer : task[u].who = v
                 => task[u].conv \subseteq late'
  PROVE  BoothIInv'
<1>1. /\ Typed /\ lastId \in Nat /\ MaxId \in Nat /\ IsFiniteSet(log)
      /\ \A m \in log : m \in Entry /\ m.conv \in Conv /\ EntryTrue(m)
  BY EntryIs DEF BoothIInv, Typed, Booth!ConversationAssumption
<1>2. \A d \in Conv : Booth!Of(d)' \subseteq Booth!Of(d) /\ (d \in C => Booth!Of(d)' = {})
  BY DEF Booth!Of
<1>3. \A d \in Conv : \A n : (Past(d, n) => Past(d, n)') /\ (d \in C => Past(d, n)')
  BY <1>2 DEF Past
<1>4. Typed'
  <2>1. (\A d \in Conv : RowTrue(conv[d]))'
    <3> SUFFICES ASSUME NEW d \in Conv PROVE RowTrue(conv[d])'
      OBVIOUS
    <3>1. RowTrue(conv[d])
      BY <1>1 DEF Typed
    <3> QED BY <1>1, <3>1, Blank DEF RowTrue
  <2>2. (\A m \in log : EntryTrue(m))'
    BY <1>1 DEF EntryTrue
  <2>3. (\A d \in Conv : BoothCounted(d))'
    <3> SUFFICES ASSUME NEW d \in Conv PROVE conv'[d].count >= Cardinality(Booth!Of(d)')
      BY DEF BoothCounted
    <3>1. conv[d].count >= Cardinality(Booth!Of(d)) /\ conv[d].count \in Nat
            /\ IsFiniteSet(Booth!Of(d))
      <4>1. Booth!Of(d) \subseteq log /\ conv[d] \in ConvRow
        BY <1>1 DEF Booth!Of, Typed
      <4> QED BY <1>1, <4>1, FS_Subset, RowIs DEF Typed, BoothCounted
    <3>2. /\ IsFiniteSet(Booth!Of(d)') /\ Cardinality(Booth!Of(d)') <= Cardinality(Booth!Of(d))
          /\ Cardinality(Booth!Of(d)) \in Nat /\ Cardinality(Booth!Of(d)') \in Nat
      BY <1>2, <3>1, FS_Subset, FS_CardinalityType
    <3>3. CASE d \in C
      <4>1. Booth!Of(d)' = {} /\ conv'[d].count = 0
        BY <1>2, <3>3, Blank
      <4>2. Cardinality({}) = 0
        BY FS_EmptySet
      <4>3. Cardinality(Booth!Of(d)') = 0
        BY <4>1, <4>2
      <4> QED BY <4>1, <4>3
    <3>4. CASE d \notin C
      BY <3>1, <3>2, <3>4
    <3> QED BY <3>3, <3>4
  <2>4. (\A u \in Doer : TaskTrue(u, task[u]))'
    <3> SUFFICES ASSUME NEW u \in Doer PROVE TaskTrue(u, task[u])'
      OBVIOUS
    <3>1. TaskTrue(u, task[u]) /\ Same(task'[u], task[u])
      BY <1>1 DEF Typed
    <3>2. task[u].pc = "idle" => task'[u] = task[u]
      BY <3>1, Blank DEF Same, TaskTrue
    <3> QED BY <3>1, <3>2 DEF Same, TaskTrue
  <2>5. (lastId + Awaited <= MaxId)'
    <3>1. \A u \in Request : task'[u].pc = task[u].pc
      BY DEF Doer, Same
    <3>2. Awaited' = Awaited
      <4>1. {r \in Request : task'[r].pc \in Early} = {r \in Request : task[r].pc \in Early}
        BY <3>1
      <4>2. {r \in Request : task'[r].pc \in Early \cup {"answer"}}
            = {r \in Request : task[r].pc \in Early \cup {"answer"}}
        BY <3>1
      <4> QED BY <4>1, <4>2 DEF Awaited
    <3> QED BY <1>1, <3>2 DEF Typed
  <2>6. (IsFiniteSet(log) /\ log \in SUBSET Entry)'
    BY <1>1, FS_Subset
  <2> QED BY <1>1, <2>1, <2>2, <2>3, <2>4, <2>5, <2>6 DEF Typed
<1>5. (\A u \in Doer : SureTrue(task[u]))'
  <2> SUFFICES ASSUME NEW u \in Doer, task'[u].sure, NEW d \in task'[u].conv
               PROVE  IF conv'[d].exists THEN conv'[d].owner = task'[u].who
                                         ELSE task'[u].pc = "create"
    BY DEF SureTrue
  <2>1. /\ Same(task'[u], task[u]) /\ task[u].conv \cap C = {} /\ task[u] \in TaskRow
        /\ SureTrue(task[u])
    BY <1>1 DEF Typed, BoothIInv
  <2>2. /\ task[u].sure /\ d \in task[u].conv /\ d \in Conv /\ d \notin C
    BY <2>1, TaskIs DEF Same
  <2> QED BY <2>1, <2>2 DEF SureTrue, Same
<1>6. (\A u \in Doer : LateTrue(task[u]))'
  <2> SUFFICES ASSUME NEW u \in Doer PROVE LateTrue(task[u])'
    OBVIOUS
  <2>1. Same(task'[u], task[u]) /\ LateTrue(task[u])
    BY DEF BoothIInv
  <2> QED BY <2>1 DEF LateTrue, Same
<1>7. \A d \in Conv : Clean(d, conv[d]) => Clean(d, conv[d])'
  BY <1>3, Blank DEF Clean
<1>8. (\A u \in Doer : HearTrue(task[u]))'
  <2> SUFFICES ASSUME NEW u \in Doer, NEW d \in Conv \ kept, task'[u].conv = {d}
               PROVE  (/\ task[u].heard \subseteq {sitting}
                       /\ task[u].pc \in Later => Clean(d, conv[d])
                       /\ task[u].pc = "forget" => Past(d, task[u].newest)
                       /\ task[u].pc = "fold" => Clean(d, task[u]))'
    BY DEF HearTrue
  <2>1. HearTrue(task[u]) /\ Same(task'[u], task[u])
    BY DEF BoothIInv
  <2>2. /\ task[u].heard \subseteq {sitting}
        /\ task[u].pc \in Later => Clean(d, conv[d])
        /\ task[u].pc = "forget" => Past(d, task[u].newest)
        /\ task[u].pc = "fold" => Clean(d, task[u])
    BY <2>1 DEF HearTrue, Same
  <2> QED BY <1>3, <1>7, <2>1, <2>2 DEF Same, Clean
<1>9. (\A d \in Conv : FreshTrue(d))'
  <2> SUFFICES ASSUME NEW d \in Conv, d \notin kept, conv'[d].fresh PROVE Clean(d, conv[d])'
    BY DEF FreshTrue
  <2>1. d \notin C
    BY Blank
  <2>2. Clean(d, conv[d])
    BY <2>1 DEF FreshTrue, BoothIInv
  <2> QED BY <1>7, <2>2
<1>10. Booth!Defended'
  BY <1>1 DEF Booth!Defended, BoothIInv
<1>11. Booth!DeletedIsGone'
  <2> SUFFICES ASSUME NEW v \in Visitor, person'[v] = "deleted"
               PROVE  /\ \A d \in Conv : conv'[d].owner = v => d \in late'
                      /\ \A m \in log' : m.by = v /\ m.sure => m.conv \in late'
    BY DEF Booth!DeletedIsGone
  <2>1. v # Booth!Anon
    BY SameSize DEF Booth!ConversationAssumption
  <2>2. CASE person[v] = "deleted"
    BY <2>1, <2>2, Blank DEF Booth!DeletedIsGone, BoothIInv
  <2>3. CASE Booth!Belongings(v) \subseteq C
    <3>1. ASSUME NEW d \in Conv, conv'[d].owner = v PROVE FALSE
      <4>1. d \notin C /\ conv[d].owner = v
        BY <2>1, <3>1, Blank
      <4>2. conv[d].exists
        BY <1>1, <2>1, <4>1, Blank DEF Typed, RowTrue
      <4> QED BY <2>3, <4>1, <4>2 DEF Booth!Belongings
    <3>2. ASSUME NEW m \in log', m.by = v, m.sure PROVE FALSE
      <4>1. conv[m.conv].exists /\ conv[m.conv].owner = v /\ m.conv \in Conv
        BY <1>1, <3>2 DEF Booth!Defended, BoothIInv
      <4> QED BY <2>3, <4>1 DEF Booth!Belongings
    <3> QED BY <3>1, <3>2
  <2> QED BY <2>2, <2>3
<1> QED BY <1>4, <1>5, <1>6, <1>8, <1>9, <1>10, <1>11 DEF BoothIInv

\* The rows and messages of some conversations are gone, and nobody is sure of them.
LEMMA RemovedIs ==
  ASSUME Typed, NEW C \in SUBSET Conv, Booth!Removed(C)
  PROVE  /\ conv' \in [Conv -> ConvRow]
         /\ \A d \in Conv : conv'[d] = IF d \in C THEN Booth!NoConv ELSE conv[d]
         /\ log' \in SUBSET log /\ \A m \in log' : m.conv \notin C
         /\ task' \in [Doer -> TaskRow]
         /\ \A u \in Doer : Same(task'[u], task[u]) /\ (task'[u].sure => task[u].conv \cap C = {})
<1>1. DOMAIN task = Doer /\ (\A u \in Doer : task[u] \in TaskRow) /\ conv \in [Conv -> ConvRow]
  BY DEF Typed
<1>2. /\ conv' \in [Conv -> ConvRow]
      /\ \A d \in Conv : conv'[d] = IF d \in C THEN Booth!NoConv ELSE conv[d]
  BY <1>1, Blank DEF Booth!Removed
<1>3. log' \in SUBSET log /\ \A m \in log' : m.conv \notin C
  BY DEF Booth!Removed
<1>4. task' = [u \in Doer |->
                 IF task[u].conv \cap C # {} THEN [task[u] EXCEPT !.sure = FALSE] ELSE task[u]]
  BY <1>1 DEF Booth!Removed
<1>5. ASSUME NEW u \in Doer
      PROVE  /\ task'[u] \in TaskRow /\ Same(task'[u], task[u])
             /\ task'[u].sure => task[u].conv \cap C = {}
  <2>1. task[u] \in TaskRow
    BY <1>1
  <2>2. CASE task[u].conv \cap C # {}
    <3>1. task'[u] = [task[u] EXCEPT !.sure = FALSE]
      BY <1>4, <2>2
    <3>2. task[u].conv # {}
      BY <2>2
    <3> QED BY <2>1, <3>1, <3>2, Doubted
  <2>3. CASE task[u].conv \cap C = {}
    <3>1. task'[u] = task[u]
      BY <1>4, <2>3
    <3> QED BY <2>1, <2>3, <3>1 DEF Same
  <2> QED BY <2>2, <2>3
<1>6. task' \in [Doer -> TaskRow]
  <2>1. \A u \in Doer : task'[u] \in TaskRow
    BY <1>5
  <2> QED BY <1>4, <2>1
<1> QED BY <1>2, <1>3, <1>5, <1>6

\* One conversation, a visitor with his conversations, the old ones; and a new sitting.
LEMMA DeleteKeeps ==
  ASSUME Booth!ConversationAssumption, BoothIInv, NEW c \in Conv, Booth!Delete(c)
  PROVE  BoothIInv'
<1>1. Typed
  BY DEF BoothIInv
<1>2. PICK C \in SUBSET Conv : C = {c}
  OBVIOUS
<1>3. Booth!Removed(C) /\ UNCHANGED <<lastId, person, sitting, faults, kept, late>>
  BY <1>2 DEF Booth!Delete
<1>4. /\ late \subseteq late' /\ late' \in SUBSET Conv
      /\ person' \in [Visitor -> {"new", "known", "deleted"}]
      /\ \A v \in Visitor : person'[v] = "deleted" => person[v] = "deleted"
  BY <1>1, <1>3 DEF Typed
<1> QED BY <1>1, <1>3, <1>4, RemovedIs, Shrinks

LEMMA DeleteVisitorKeeps ==
  ASSUME Booth!ConversationAssumption, BoothIInv, NEW v \in Visitor, Booth!DeleteVisitor(v)
  PROVE  BoothIInv'
<1>1. Typed
  BY DEF BoothIInv
<1>2. PICK C \in SUBSET Conv : C = Booth!Belongings(v)
  BY DEF Booth!Belongings
<1>3. Booth!Removed(C) /\ UNCHANGED <<lastId, sitting, faults, kept>>
  BY <1>2 DEF Booth!DeleteVisitor
<1>4. DOMAIN task = Doer /\ \A u \in Doer : task[u].conv \in SUBSET Conv
  BY <1>1, TaskIs DEF Typed
<1>5. late' = late \cup UNION {task[u].conv : u \in {w \in Doer : task[w].who = v}}
  BY <1>4 DEF Booth!DeleteVisitor
<1>6. late \subseteq late' /\ late' \in SUBSET Conv
  BY <1>1, <1>4, <1>5 DEF Typed
<1>7. \A u \in Doer : task[u].who = v => task[u].conv \subseteq late'
  BY <1>5
<1>8. /\ person' \in [Visitor -> {"new", "known", "deleted"}]
      /\ \A w \in Visitor \ {v} : person'[w] = person[w]
  BY <1>1 DEF Typed, Booth!DeleteVisitor
<1>9. \A w \in Visitor : person'[w] = "deleted" =>
         \/ person[w] = "deleted"
         \/ Booth!Belongings(w) \subseteq C /\ \A u \in Doer : task[u].who = w
              => task[u].conv \subseteq late'
  BY <1>2, <1>7, <1>8
<1> QED BY <1>1, <1>3, <1>6, <1>8, <1>9, RemovedIs, Shrinks

LEMMA PurgeKeeps ==
  ASSUME Booth!ConversationAssumption, BoothIInv, NEW c \in Conv, Booth!Purge(c)
  PROVE  BoothIInv'
<1>1. Typed /\ UNCHANGED <<lastId, person, sitting, faults, kept, late>>
  BY DEF BoothIInv, Booth!Purge
<1>2. /\ late \subseteq late' /\ late' \in SUBSET Conv
      /\ person' \in [Visitor -> {"new", "known", "deleted"}]
      /\ \A v \in Visitor : person'[v] = "deleted" => person[v] = "deleted"
  BY <1>1 DEF Typed
<1>3. CASE Booth!Removed({c})
  <2>1. PICK C \in SUBSET Conv : C = {c}
    OBVIOUS
  <2>2. Booth!Removed(C)
    BY <1>3, <2>1
  <2> QED BY <1>1, <1>2, <2>2, RemovedIs, Shrinks
<1>4. CASE log' = {m \in log : m.conv = c => m.sit = sitting} /\ UNCHANGED <<conv, task>>
  <2>1. PICK C \in SUBSET Conv : C = {}
    OBVIOUS
  <2>2. /\ conv' \in [Conv -> ConvRow]
        /\ \A d \in Conv : conv'[d] = IF d \in C THEN Booth!NoConv ELSE conv[d]
        /\ log' \in SUBSET log /\ \A m \in log' : m.conv \notin C
        /\ task' \in [Doer -> TaskRow]
        /\ \A u \in Doer : Same(task'[u], task[u]) /\ (task'[u].sure => task[u].conv \cap C = {})
    BY <1>1, <1>4, <2>1 DEF Typed, Same
  <2> QED BY <1>1, <1>2, <2>2, Shrinks
<1> QED BY <1>3, <1>4 DEF Booth!Purge

LEMMA LeaveKeeps ==
  ASSUME Booth!ConversationAssumption, BoothIInv, Booth!Leave
  PROVE  BoothIInv'
<1>1. Typed /\ UNCHANGED <<log, lastId, person, task, faults, kept, late>>
  BY DEF BoothIInv, Booth!Leave
<1>2. sitting' = sitting + 1 /\ sitting \in Nat /\ sitting' \in 0..LastSitting
  BY <1>1 DEF Booth!Leave, Typed, Booth!ConversationAssumption
<1>3. conv' \in [Conv -> ConvRow]
      /\ \A d \in Conv : /\ conv'[d].exists = conv[d].exists /\ conv'[d].owner = conv[d].owner
                         /\ conv'[d].count = conv[d].count /\ conv'[d].summary = conv[d].summary
                         /\ conv'[d].upto = conv[d].upto /\ conv'[d].fresh = FALSE
  BY <1>1 DEF Booth!Leave, Typed, ConvRow
<1>4. \A u \in Doer : task[u] = Booth!Idle
  <2> SUFFICES ASSUME NEW u \in Doer PROVE task[u] = Booth!Idle
    OBVIOUS
  <2>1. task[u].pc = "idle" /\ TaskTrue(u, task[u])
    BY <1>1 DEF Booth!Leave, Booth!Busy, Typed
  <2> QED BY <2>1 DEF TaskTrue
<1>5. Typed'
  <2>1. (\A d \in Conv : RowTrue(conv[d]))'
    <3> SUFFICES ASSUME NEW d \in Conv PROVE RowTrue(conv[d])'
      OBVIOUS
    <3>1. RowTrue(conv[d])
      BY <1>1 DEF Typed
    <3>2. ~conv[d].exists => conv'[d] = Booth!NoConv
      <4> SUFFICES ASSUME ~conv[d].exists PROVE conv'[d] = Booth!NoConv
        OBVIOUS
      <4>1. conv[d] = Booth!NoConv
        BY <3>1 DEF RowTrue
      <4>2. conv'[d] = [Booth!NoConv EXCEPT !.fresh = FALSE]
        BY <4>1 DEF Booth!Leave
      <4>3. [Booth!NoConv EXCEPT !.fresh = FALSE] = Booth!NoConv
        <5>1. \A w \in ConvRow : w.fresh = FALSE => [w EXCEPT !.fresh = FALSE] = w
          BY DEF ConvRow
        <5> QED BY <5>1, Blank
      <4> QED BY <4>2, <4>3
    <3> QED BY <1>1, <1>2, <1>3, <3>1, <3>2 DEF RowTrue
  <2>2. (\A m \in log : EntryTrue(m))'
    <3> SUFFICES ASSUME NEW m \in log PROVE EntryTrue(m)'
      BY <1>1
    <3>1. EntryTrue(m) /\ m.conv \in Conv
      BY <1>1, EntryIs DEF Typed
    <3> QED BY <1>1, <1>2, <1>3, <3>1 DEF EntryTrue
  <2>3. (\A d \in Conv : BoothCounted(d))'
    BY <1>1, <1>3 DEF BoothCounted, Booth!Of, Typed
  <2>4. (\A u \in Doer : TaskTrue(u, task[u]))'
    <3> SUFFICES ASSUME NEW u \in Doer PROVE TaskTrue(u, task[u])'
      OBVIOUS
    <3>1. TaskTrue(u, task[u])
      BY <1>1 DEF Typed
    <3> QED BY <1>1, <1>2, <3>1 DEF TaskTrue
  <2>5. (lastId + Awaited <= MaxId)'
    BY <1>1 DEF Typed, Awaited
  <2> QED BY <1>1, <1>2, <1>3, <2>1, <2>2, <2>3, <2>4, <2>5 DEF Typed
<1>6. (\A u \in Doer : SureTrue(task[u]) /\ LateTrue(task[u]) /\ HearTrue(task[u]))'
  BY <1>1, <1>4, Blank DEF SureTrue, LateTrue, HearTrue
<1>7. (\A d \in Conv : FreshTrue(d))'
  BY <1>3 DEF FreshTrue
<1>8. Booth!Defended'
  BY <1>1, <1>3, EntryIs DEF Booth!Defended, BoothIInv, Typed
<1>9. Booth!DeletedIsGone'
  BY <1>1, <1>3 DEF Booth!DeletedIsGone, BoothIInv
<1> QED BY <1>5, <1>6, <1>7, <1>8, <1>9 DEF BoothIInv

-------------------------------------------------------------------------------
(* The theorems.                                                             *)

\* The invariant holds at first, and every step keeps it.
LEMMA InitHolds ==
  ASSUME Booth!ConversationAssumption, Booth!Init
  PROVE  BoothIInv
<1>1. /\ conv = [c \in Conv |-> Booth!NoConv] /\ log = {} /\ lastId = 0
      /\ person = [v \in Visitor |-> "new"] /\ task = [t \in Doer |-> Booth!Idle]
      /\ sitting = 0 /\ faults = 0 /\ kept = {} /\ late = {}
  BY DEF Booth!Init, Doer
<1>2. LastSitting \in Nat /\ MaxFault \in Nat /\ MaxId \in Nat
  BY SameSize DEF Booth!ConversationAssumption
<1>3. Cardinality({}) = 0 /\ IsFiniteSet({})
  BY FS_EmptySet
<1>4. Awaited = 0
  <2>1. \A r \in Request : task[r].pc = "idle"
    BY <1>1, Blank DEF Doer
  <2>2. /\ {r \in Request : task[r].pc \in Early} = {}
        /\ {r \in Request : task[r].pc \in Early \cup {"answer"}} = {}
    BY <2>1 DEF Early
  <2> QED BY <1>3, <2>2 DEF Awaited
<1>5. Typed
  <2>1. \A c \in Conv : RowTrue(conv[c])
    BY <1>1, Blank DEF RowTrue
  <2>2. \A c \in Conv : BoothCounted(c)
    <3> SUFFICES ASSUME NEW c \in Conv PROVE conv[c].count >= Cardinality(Booth!Of(c))
      BY DEF BoothCounted
    <3>1. Booth!Of(c) = {} /\ conv[c].count = 0
      BY <1>1, Blank DEF Booth!Of
    <3> QED BY <1>3, <3>1
  <2>3. \A t \in Doer : TaskTrue(t, task[t])
    BY <1>1, Blank DEF TaskTrue
  <2>4. conv \in [Conv -> ConvRow] /\ task \in [Doer -> TaskRow]
    BY <1>1, Blank
  <2> QED BY <1>1, <1>2, <1>3, <1>4, <2>1, <2>2, <2>3, <2>4 DEF Typed
<1>6. \A t \in Doer : SureTrue(task[t]) /\ LateTrue(task[t]) /\ HearTrue(task[t])
  BY <1>1, Blank DEF SureTrue, LateTrue, HearTrue
<1>7. \A c \in Conv : FreshTrue(c)
  BY <1>1, Blank DEF FreshTrue
<1>8. Booth!Defended /\ Booth!DeletedIsGone
  BY <1>1 DEF Booth!Defended, Booth!DeletedIsGone
<1> QED BY <1>5, <1>6, <1>7, <1>8 DEF BoothIInv

LEMMA StutterKeeps ==
  ASSUME BoothIInv, UNCHANGED Booth!vars
  PROVE  BoothIInv'
<1> USE DEF Booth!vars
<1>1. Typed'
  BY DEF BoothIInv, Typed, RowTrue, EntryTrue, BoothCounted, Booth!Of, Awaited, TaskTrue
<1>2. (\A t \in Doer : SureTrue(task[t]) /\ LateTrue(task[t]) /\ HearTrue(task[t]))'
      /\ (\A c \in Conv : FreshTrue(c))'
  BY DEF BoothIInv, SureTrue, LateTrue, HearTrue, FreshTrue, Clean, Past, Booth!Of
<1>3. Booth!Defended' /\ Booth!DeletedIsGone'
  BY DEF BoothIInv, Booth!Defended, Booth!DeletedIsGone
<1> QED BY <1>1, <1>2, <1>3 DEF BoothIInv

LEMMA NextKeeps ==
  ASSUME Booth!ConversationAssumption, BoothIInv, [Booth!Next]_(Booth!vars)
  PROVE  BoothIInv'
<1>1. CASE Booth!Leave
  BY <1>1, LeaveKeeps
<1>2. ASSUME NEW r \in Request, Booth!Serve(r) PROVE BoothIInv'
  BY <1>2, CreateKeeps, LookKeeps, ForgetKeeps, AppendKeeps, UnansweredKeeps, ReadKeeps,
     StoreKeeps, AbandonKeeps DEF Booth!Serve
<1>3. ASSUME NEW r \in Request, NEW v \in Visitor \cup {Booth!Anon}, NEW c \in Conv, Booth!Arrive(r, v, c)
      PROVE  BoothIInv'
  BY <1>3, ArriveKeeps
<1>4. ASSUME NEW s \in Signup, Booth!Attach(s) PROVE BoothIInv'
  BY <1>4, AttachKeeps
<1>5. ASSUME NEW s \in Signup, NEW v \in Visitor, NEW c \in Conv, Booth!Register(s, v, c)
               PROVE BoothIInv'
  BY <1>5, RegisterKeeps
<1>6. ASSUME NEW c \in Conv, Booth!Delete(c) \/ Booth!Purge(c) PROVE BoothIInv'
  BY <1>6, DeleteKeeps, PurgeKeeps
<1>7. ASSUME NEW v \in Visitor, Booth!DeleteVisitor(v) PROVE BoothIInv'
  BY <1>7, DeleteVisitorKeeps
<1>8. CASE UNCHANGED Booth!vars
  BY <1>8, StutterKeeps
<1> QED BY <1>1, <1>2, <1>3, <1>4, <1>5, <1>6, <1>7, <1>8 DEF Booth!Next

\* What the inductive invariant says of the properties.
LEMMA Told ==
  ASSUME Booth!ConversationAssumption, BoothIInv
  PROVE  Booth!TypeOK /\ Booth!NotOverheard /\ Booth!Defended /\ Booth!DeletedIsGone
<1>1. Typed
  BY DEF BoothIInv
<1>2. Booth!NotOverheard
  <2> SUFFICES ASSUME NEW r \in Request
               PROVE  task[r].heard \subseteq {sitting} \/ task[r].conv \subseteq kept
    BY DEF Booth!NotOverheard
  <2>1. r \in Doer /\ TaskTrue(r, task[r]) /\ HearTrue(task[r])
    BY DEF BoothIInv, Typed, Doer
  <2>2. CASE task[r].pc = "idle"
    BY <2>1, <2>2, Blank DEF TaskTrue
  <2>3. CASE task[r].pc # "idle"
    <3>1. PICK c \in Conv : task[r].conv = {c}
      BY <2>1, <2>3 DEF TaskTrue
    <3> QED BY <2>1, <3>1 DEF HearTrue
  <2> QED BY <2>2, <2>3
<1>3. Booth!TypeOK
  <2>1. \A c \in Conv : /\ conv[c].owner \in Visitor \cup {Booth!Anon}
                        /\ conv[c].upto \in 0..lastId
                        /\ conv[c].summary \subseteq 0..sitting
                        /\ conv[c].count >= Cardinality(Booth!Of(c))
                        /\ ~conv[c].exists => conv[c] = Booth!NoConv
    <3> SUFFICES ASSUME NEW c \in Conv
                 PROVE  /\ conv[c].owner \in Visitor \cup {Booth!Anon}
                        /\ conv[c].upto \in 0..lastId
                        /\ conv[c].summary \subseteq 0..sitting
                        /\ conv[c].count >= Cardinality(Booth!Of(c))
                        /\ ~conv[c].exists => conv[c] = Booth!NoConv
      OBVIOUS
    <3>1. conv[c] \in ConvRow /\ RowTrue(conv[c]) /\ BoothCounted(c) /\ lastId \in Nat
      BY <1>1 DEF Typed
    <3>2. conv[c].owner \in Person /\ conv[c].upto \in Nat
      BY <3>1, RowIs
    <3> QED BY <3>1, <3>2 DEF RowTrue, BoothCounted, Person
  <2>2. \A m \in log : m.id \in 1..lastId /\ m.by \in Visitor \cup {Booth!Anon}
    BY <1>1, EntryIs DEF Typed, EntryTrue, Person
  <2>3. lastId \in 0..MaxId /\ sitting \in 0..LastSitting /\ faults \in 0..MaxFault
    <3>1. Awaited \in Nat
      <4>1. IsFiniteSet({r \in Request : task[r].pc \in Early})
            /\ IsFiniteSet({r \in Request : task[r].pc \in Early \cup {"answer"}})
        <5>1. IsFiniteSet(Request)
          BY SameSize DEF Booth!ConversationAssumption
        <5>2. /\ {r \in Request : task[r].pc \in Early} \subseteq Request
              /\ {r \in Request : task[r].pc \in Early \cup {"answer"}} \subseteq Request
          OBVIOUS
        <5> QED BY <5>1, <5>2, FS_Subset
      <4> QED BY <4>1, FS_CardinalityType DEF Awaited
    <3>2. lastId \in Nat /\ MaxId \in Nat /\ lastId + Awaited <= MaxId
      BY <1>1 DEF Typed, Booth!ConversationAssumption
    <3>3. lastId <= MaxId
      BY <3>1, <3>2
    <3> QED BY <1>1, <3>2, <3>3 DEF Typed
  <2>4. \A t \in DOMAIN task : Cardinality(task[t].conv) = IF Booth!Busy(t) THEN 1 ELSE 0
    <3> SUFFICES ASSUME NEW t \in Doer
                 PROVE  Cardinality(task[t].conv) = IF Booth!Busy(t) THEN 1 ELSE 0
      BY <1>1 DEF Typed
    <3>1. TaskTrue(t, task[t])
      BY <1>1 DEF Typed
    <3>2. CASE Booth!Busy(t)
      <4>1. PICK c \in Conv : task[t].conv = {c}
        BY <3>1, <3>2 DEF TaskTrue, Booth!Busy
      <4>2. Cardinality({c}) = 1
        BY FS_Singleton
      <4> QED BY <3>2, <4>1, <4>2
    <3>3. CASE ~Booth!Busy(t)
      <4>1. task[t].conv = {}
        BY <3>1, <3>3, Blank DEF TaskTrue, Booth!Busy
      <4> QED BY <3>3, <4>1, FS_EmptySet
    <3> QED BY <3>2, <3>3
  <2> QED BY <2>1, <2>2, <2>3, <2>4, SameSize DEF Booth!TypeOK
<1> QED BY <1>2, <1>3 DEF BoothIInv

\* The requests, registrations and deletions of conversations (conversations.py), in any number
\* and order: the types, and the three promises of what is heard, who is defended, and what is
\* gone.
THEOREM Heard ==
  ASSUME Booth!ConversationAssumption
  PROVE  Booth!Spec => [](Booth!TypeOK /\ Booth!NotOverheard /\ Booth!Defended
           /\ Booth!DeletedIsGone)
<1>1. Booth!Init => BoothIInv
  BY InitHolds
<1>2. BoothIInv /\ [Booth!Next]_(Booth!vars) => BoothIInv'
  BY NextKeeps
<1>3. BoothIInv => Booth!TypeOK /\ Booth!NotOverheard /\ Booth!Defended /\ Booth!DeletedIsGone
  BY Told
<1> QED BY <1>1, <1>2, <1>3, PTL DEF Booth!Spec

-------------------------------------------------------------------------------
(* THE TURNS.  The inductive invariant.                                      *)

Offer == [ids : Seq(Talk!Record), shown : Nat, total : Nat, q : BOOLEAN]

\* An offer that a page was printed for: at least one name, no more ids than there are records,
\* than are announced, and than are stored of a longer list.
Stands(o) ==
  \/ o = Talk!NoOffer
  \/ /\ o \in Offer /\ o.shown \in 1..Len(o.ids) /\ Len(o.ids) <= Records
     /\ Len(o.ids) <= o.total /\ Len(o.ids) <= Talk!Greater(OfferMax, o.shown)

\* What the visitor reads at the numbers of the offer is what it holds at them.
Agrees(o) == \A n \in 1..o.shown : n \in DOMAIN screen /\ screen[n] = o.ids[n]
Printed(o) == \A n \in 1..o.shown : o.ids[n] \in named
Honest(o) == o # Talk!NoOffer => o.total = Len(Talk!Pages(o).entries)

Sound(o) ==
  /\ doubt = {} => Agrees(o)
  /\ doubt \subseteq {"renumbered"} => Printed(o) /\ (counted = "page" => Honest(o))

\* A request that is under way holds an offer that is as good as the row was, and the name that
\* stood at its number.
TurnTrue(u) ==
  u # Talk!Idle =>
    /\ Stands(u.offer) /\ Sound(u.offer)
    /\ doubt = {} => u.meant = IF u.msg.n \in DOMAIN screen THEN screen[u.msg.n] ELSE Talk!None

\* A question is replayed by nobody yet as long as the row, or a request that has read the row
\* and not deleted it, holds it; and it is one request that does.
Peeked(t, p) == turn[t].step = "peeked" /\ turn[t].question = p
Unreplayed ==
  \A p \in Talk!Proposal :
    /\ replays[p] <= 1
    /\ proposal.id = p \/ p > asked \/ (\E t \in Request : Peeked(t, p)) => replays[p] = 0
    /\ \A t, u \in Request : Peeked(t, p) /\ Peeked(u, p) => t = u

Asking ==
  /\ proposal.id <= asked
  /\ \A t \in Request : turn[t] # Talk!Idle =>
       turn[t].question <= asked /\ (turn[t].step = "asked" => turn[t].question = Talk!None)

TalkTyped ==
  /\ topic \subseteq exists /\ exists \subseteq Talk!Record
  /\ row.age \in 0..(PickWindow + 1) /\ row = [offer |-> row.offer, age |-> row.age]
  /\ proposal \in [id : Talk!Proposal \cup {Talk!None}, age : 0..(PickWindow + 1)]
  /\ turn \in [Request -> Talk!Busy \cup {Talk!Idle}]
  /\ screen \in [DOMAIN screen -> Talk!Record] /\ DOMAIN screen \subseteq Talk!Record
       /\ named \subseteq Talk!Record
  /\ answer.meant \in Talk!Record \cup {Talk!None} /\ answer.gave \in Talk!Record \cup {Talk!None}
  /\ replays \in [Talk!Proposal -> Nat] /\ asked \in 0..MaxProposal
  /\ doubt \subseteq {"unlogged", "crossed", "renumbered"}
       /\ answer.doubt \subseteq {"unlogged", "crossed", "renumbered"}
  /\ reread \in BOOLEAN /\ counted \in {"page", "again", "edited"}
  /\ edits \in 0..MaxEdit /\ slips \in 0..MaxSlip

Remembered ==
  /\ Stands(row.offer) /\ Sound(row.offer)
  /\ \A t \in Request : TurnTrue(turn[t])

TalkIInv ==
  /\ TalkTyped
  /\ Remembered
  /\ Asking /\ (reread \/ Unreplayed)
  /\ Talk!PickIsWhatWasPrinted

-------------------------------------------------------------------------------
(* What is kept of a sequence.                                               *)

\* A set of numbers has a least member.
LEMMA Least ==
  ASSUME NEW S \in SUBSET Nat, S # {}
  PROVE  \E i \in S : \A j \in S : i <= j
<1>1. PICK R : IsWellFoundedOn(R, Nat) /\ \A x, y \in Nat : x < y => <<x, y>> \in R
  BY LessIsWellFounded, Zenon
<1>2. PICK x \in S : \A y \in S : ~ (<<y, x>> \in R)
  <2>1. IsWellFoundedOn(R, Nat)
    BY <1>1
  <2> QED BY <2>1, WFMin, Zenon
<1>3. ASSUME NEW y \in S PROVE x <= y
  <2>1. x \in Nat /\ y \in Nat /\ ~ (<<y, x>> \in R)
    BY <1>2
  <2>2. ~ (y < x)
    BY <1>1, <2>1
  <2> QED BY <2>1, <2>2
<1> QED BY <1>3

\* The recurrence that Kept is computed by, over the first m of the sequence.
Keeps(F, s, S, m) ==
  F = [n \in 0..m |-> IF n = 0 THEN <<>>
                      ELSE IF s[n] \in S THEN Append(F[n - 1], s[n]) ELSE F[n - 1]]

\* What is kept of the first m.
KeptOf(r, s, S, m) ==
  /\ r \in Seq(Talk!Record) /\ Len(r) <= m
  /\ \A i \in 1..Len(r) : r[i] \in S /\ \E j \in 1..m : r[i] = s[j]
  /\ Len(r) = m \/ (\A j \in 1..m : s[j] \in S) => Len(r) = m /\ \A i \in 1..m : r[i] = s[i]
  /\ (\E j \in 1..m : s[j] \in S) => Len(r) > 0

\* Some function satisfies the recurrence.
LEMMA KeepsIsMet ==
  ASSUME NEW s, NEW S, NEW m \in Nat
  PROVE  \E F : Keeps(F, s, S, m)
<1> DEFINE Bad == {n \in Nat : ~ \E F : Keeps(F, s, S, n)}
<1> SUFFICES ASSUME Bad # {} PROVE FALSE
  OBVIOUS
<1>1. PICK n \in Bad : \A j \in Bad : n <= j
  <2>1. Bad \in SUBSET Nat
    OBVIOUS
  <2> HIDE DEF Bad
  <2> QED BY <2>1, Least, Zenon
<1>2. n \in Nat /\ ~ \E F : Keeps(F, s, S, n)
  BY <1>1
<1>3. CASE n = 0
  <2>1. Keeps([i \in 0..0 |-> <<>>], s, S, 0)
    BY DEF Keeps
  <2> QED BY <2>1, <1>2, <1>3
<1>4. CASE n # 0
  <2>1. n - 1 \in Nat /\ n - 1 \notin Bad
    BY <1>1, <1>2, <1>4
  <2>2. PICK G : Keeps(G, s, S, n - 1)
    BY <2>1
  <2>3. PICK H : H = [i \in 0..n |-> IF i = n THEN IF s[n] \in S THEN Append(G[n - 1], s[n])
                                                                ELSE G[n - 1]
                                     ELSE G[i]]
    OBVIOUS
  <2>4. \A i \in 0..n : H[i] = IF i = 0 THEN <<>>
                               ELSE IF s[i] \in S THEN Append(H[i - 1], s[i]) ELSE H[i - 1]
    <3> SUFFICES ASSUME NEW i \in 0..n
                 PROVE  H[i] = IF i = 0 THEN <<>>
                               ELSE IF s[i] \in S THEN Append(H[i - 1], s[i]) ELSE H[i - 1]
      OBVIOUS
    <3>1. CASE i = n
      <4>1. H[i - 1] = G[n - 1] /\ i # 0
        BY <3>1, <2>3, <1>2, <1>4
      <4>2. H[i] = IF s[n] \in S THEN Append(G[n - 1], s[n]) ELSE G[n - 1]
        BY <3>1, <2>3, <1>2
      <4> QED BY <4>1, <4>2, <3>1
    <3>2. CASE i # n
      <4>1. H[i] = G[i] /\ i \in 0..(n - 1)
        BY <3>2, <2>3, <1>2
      <4>2. i # 0 => H[i - 1] = G[i - 1]
        BY <3>2, <2>3, <1>2
      <4>3. G[i] = IF i = 0 THEN <<>>
                   ELSE IF s[i] \in S THEN Append(G[i - 1], s[i]) ELSE G[i - 1]
        BY <2>2, <4>1 DEF Keeps
      <4> QED BY <4>1, <4>2, <4>3
    <3> QED BY <3>1, <3>2
  <2>5. H = [i \in 0..n |-> H[i]]
    BY <2>3
  <2>6. Keeps(H, s, S, n)
    BY <2>4, <2>5 DEF Keeps
  <2> QED BY <2>6, <1>2
<1> QED BY <1>3, <1>4

\* Each step of it keeps what it should.
LEMMA KeepsStep ==
  ASSUME NEW s, NEW S, NEW m \in Nat \ {0}, NEW r, KeptOf(r, s, S, m - 1), s[m] \in Talk!Record,
         NEW k, k = IF s[m] \in S THEN Append(r, s[m]) ELSE r
  PROVE  KeptOf(k, s, S, m)
<1>0. r \in Seq(Talk!Record) /\ Len(r) \in Nat /\ Len(r) <= m - 1
  BY DEF KeptOf
<1>1. CASE s[m] \notin S
  <2>1. k = r
    BY <1>1
  <2>2. \A i \in 1..Len(k) : k[i] \in S /\ \E j \in 1..m : k[i] = s[j]
    BY <2>1, <1>0 DEF KeptOf
  <2>3. Len(k) # m /\ ~ \A j \in 1..m : s[j] \in S
    BY <2>1, <1>0, <1>1
  <2>4. (\E j \in 1..m : s[j] \in S) => Len(k) > 0
    <3> SUFFICES ASSUME NEW j \in 1..m, s[j] \in S PROVE Len(k) > 0
      OBVIOUS
    <3>1. j \in 1..(m - 1)
      BY <1>1
    <3> QED BY <3>1, <2>1 DEF KeptOf
  <2> QED BY <2>1, <2>2, <2>3, <2>4, <1>0 DEF KeptOf
<1>2. CASE s[m] \in S
  <2>1. k \in Seq(Talk!Record) /\ Len(k) = Len(r) + 1 /\ k[Len(k)] = s[m]
        /\ \A i \in 1..Len(r) : k[i] = r[i]
    BY <1>2, <1>0
  <2>2. \A i \in 1..Len(k) : k[i] \in S /\ \E j \in 1..m : k[i] = s[j]
    <3> SUFFICES ASSUME NEW i \in 1..Len(k) PROVE k[i] \in S /\ \E j \in 1..m : k[i] = s[j]
      OBVIOUS
    <3>1. CASE i = Len(k)
      BY <3>1, <2>1, <1>2
    <3>2. CASE i # Len(k)
      <4>1. i \in 1..Len(r) /\ k[i] = r[i]
        BY <3>2, <2>1, <1>0
      <4>2. PICK j \in 1..(m - 1) : r[i] = s[j]
        BY <4>1 DEF KeptOf
      <4> QED BY <4>1, <4>2 DEF KeptOf
    <3> QED BY <3>1, <3>2
  <2>3. Len(k) = m \/ (\A j \in 1..m : s[j] \in S)
          => Len(k) = m /\ \A i \in 1..m : k[i] = s[i]
    <3> SUFFICES ASSUME Len(k) = m \/ (\A j \in 1..m : s[j] \in S)
                 PROVE  Len(k) = m /\ \A i \in 1..m : k[i] = s[i]
      OBVIOUS
    <3>1. Len(r) = m - 1 \/ (\A j \in 1..(m - 1) : s[j] \in S)
      BY <2>1, <1>0
    <3>2. Len(r) = m - 1 /\ \A i \in 1..(m - 1) : r[i] = s[i]
      BY <3>1 DEF KeptOf
    <3> QED BY <3>2, <2>1, <1>0
  <2> QED BY <2>1, <2>2, <2>3, <1>0 DEF KeptOf
<1> QED BY <1>1, <1>2

\* What is kept are members of the set, in the order they stand in, and no others; all of them
\* if all are in the set.
LEMMA KeptIs ==
  ASSUME NEW s \in Seq(Talk!Record), NEW S
  PROVE  KeptOf(Talk!Kept(s, S), s, S, Len(s))
<1>0. Len(s) \in Nat /\ \A i \in 1..Len(s) : s[i] \in Talk!Record
  OBVIOUS
<1>1. \E F : Keeps(F, s, S, Len(s))
  BY <1>0, KeepsIsMet
<1>2. \E F : Keeps(F, s, S, Len(s)) /\ Talk!Kept(s, S) = F[Len(s)]
  BY <1>1, Zenon DEF Talk!Kept, Keeps
<1>3. PICK F : Keeps(F, s, S, Len(s)) /\ Talk!Kept(s, S) = F[Len(s)]
  BY <1>2
<1>4. \A n \in 0..Len(s) : F[n] = IF n = 0 THEN <<>>
                                  ELSE IF s[n] \in S THEN Append(F[n - 1], s[n]) ELSE F[n - 1]
  BY <1>3 DEF Keeps
<1> DEFINE Bad == {n \in 0..Len(s) : ~ KeptOf(F[n], s, S, n)}
<1> SUFFICES ASSUME Bad # {} PROVE FALSE
  BY <1>3, <1>0
<1>5. PICK n \in Bad : \A j \in Bad : n <= j
  <2>1. Bad \in SUBSET Nat
    BY <1>0
  <2> HIDE DEF Bad
  <2> QED BY <2>1, Least, Zenon
<1>6. n \in 0..Len(s) /\ ~ KeptOf(F[n], s, S, n)
  BY <1>5
<1>7. CASE n = 0
  <2>1. F[0] = <<>>
    BY <1>4, <1>0
  <2>2. KeptOf(<<>>, s, S, 0)
    BY DEF KeptOf
  <2> QED BY <2>1, <2>2, <1>6, <1>7
<1>8. CASE n # 0
  <2>1. n \in Nat \ {0} /\ n - 1 \in 0..Len(s) /\ n - 1 \notin Bad
    BY <1>5, <1>6, <1>8, <1>0
  <2>2. KeptOf(F[n - 1], s, S, n - 1)
    BY <2>1
  <2>3. F[n] = IF s[n] \in S THEN Append(F[n - 1], s[n]) ELSE F[n - 1]
    BY <1>4, <1>6, <1>8
  <2>4. s[n] \in Talk!Record
    BY <1>0, <1>6, <1>8
  <2> QED BY <2>1, <2>2, <2>3, <2>4, KeepsStep, <1>6
<1> QED BY <1>7, <1>8

-------------------------------------------------------------------------------
(* What a page and its offer are made of.                                    *)

\* The first of a sequence.
LEMMA FirstIs ==
  ASSUME NEW s \in Seq(Talk!Record), NEW k \in Nat
  PROVE  /\ Talk!First(s, k) \in Seq(Talk!Record) /\ Len(Talk!First(s, k)) = Talk!Lesser(k, Len(s))
         /\ \A i \in 1..Talk!Lesser(k, Len(s)) : Talk!First(s, k)[i] = s[i]
<1>1. PICK m \in Nat : m = Talk!Lesser(k, Len(s)) /\ m <= Len(s)
  BY DEF Talk!Lesser
<1>2. \A i \in 1..m : s[i] \in Talk!Record
  BY <1>1
<1>3. /\ SubSeq(s, 1, m) \in Seq(Talk!Record)
      /\ Len(SubSeq(s, 1, m)) = IF 1 <= m THEN m - 1 + 1 ELSE 0
      /\ \A i \in 1..(m - 1 + 1) : SubSeq(s, 1, m)[i] = s[1 + i - 1]
  BY <1>1, <1>2, SubSeqProperties
<1> QED BY <1>1, <1>3 DEF Talk!First

\* The rest of it.
LEMMA RestIs ==
  ASSUME NEW s \in Seq(Talk!Record), NEW k \in 0..Len(s)
  PROVE  /\ SubSeq(s, k + 1, Len(s)) \in Seq(Talk!Record)
         /\ Len(SubSeq(s, k + 1, Len(s))) = Len(s) - k
         /\ \A i \in 1..(Len(s) - k) : SubSeq(s, k + 1, Len(s))[i] = s[k + i]
<1>1. PICK m \in Nat : m = Len(s)
  OBVIOUS
<1>2. \A i \in (k + 1)..m : s[i] \in Talk!Record
  BY <1>1
<1>3. /\ SubSeq(s, k + 1, m) \in Seq(Talk!Record)
      /\ Len(SubSeq(s, k + 1, m)) = IF k + 1 <= m THEN m - (k + 1) + 1 ELSE 0
      /\ \A i \in 1..(m - (k + 1) + 1) : SubSeq(s, k + 1, m)[i] = s[k + 1 + i - 1]
  BY <1>1, <1>2, SubSeqProperties
<1> QED BY <1>1, <1>3

\* What is left of a stored offer, before and after the place that was reached.
LEMMA StoredIs ==
  ASSUME NEW o \in Offer, o.shown \in 1..Len(o.ids)
  PROVE  LET all == Talk!Stored(o) IN
         /\ all.entries \in Seq(Talk!Record) /\ Len(all.entries) <= Len(o.ids)
         /\ all.total = o.total
         /\ all.next \in 1..(o.shown + 1) /\ all.next - 1 <= Len(all.entries)
         /\ \A i \in 1..Len(all.entries) : all.entries[i] \in exists
         /\ \A i \in 1..(all.next - 1) : \E j \in 1..o.shown : all.entries[i] = o.ids[j]
         /\ all.next > o.shown => \A i \in 1..(all.next - 1) : all.entries[i] = o.ids[i]
         /\ (\A j \in 1..Len(o.ids) : o.ids[j] \in exists)
               => Len(all.entries) = Len(o.ids)
         /\ Len(o.ids) = o.shown => Len(all.entries) = all.next - 1
<1>0. o.ids \in Seq(Talk!Record) /\ o.shown \in Nat /\ o.shown <= Len(o.ids) /\ o.shown >= 1
      /\ Len(o.ids) \in Nat
  BY DEF Offer
<1>1. PICK a \in Seq(Talk!Record) : a = Talk!First(o.ids, o.shown)
  BY <1>0, FirstIs
<1>2. Len(a) = o.shown /\ \A i \in 1..o.shown : a[i] = o.ids[i]
  BY <1>0, <1>1, FirstIs DEF Talk!Lesser
<1>3. PICK b \in Seq(Talk!Record) : b = SubSeq(o.ids, o.shown + 1, Len(o.ids))
  <2>1. o.shown \in 0..Len(o.ids)
    BY <1>0
  <2>2. SubSeq(o.ids, o.shown + 1, Len(o.ids)) \in Seq(Talk!Record)
    BY ONLY <1>0, <2>1, RestIs
  <2> QED BY <2>2
<1>4. Len(b) = Len(o.ids) - o.shown /\ \A i \in 1..Len(b) : b[i] = o.ids[o.shown + i]
  <2>1. o.shown \in 0..Len(o.ids)
    BY <1>0
  <2>2. /\ Len(SubSeq(o.ids, o.shown + 1, Len(o.ids))) = Len(o.ids) - o.shown
        /\ \A i \in 1..(Len(o.ids) - o.shown) :
             SubSeq(o.ids, o.shown + 1, Len(o.ids))[i] = o.ids[o.shown + i]
    BY ONLY <1>0, <2>1, RestIs
  <2> QED BY <2>2, <1>3
<1>5. PICK x : x = Talk!Kept(a, exists)
  OBVIOUS
<1>6. KeptOf(x, a, exists, Len(a))
  BY <1>5, KeptIs
<1>7. PICK y : y = Talk!Kept(b, exists)
  OBVIOUS
<1>8. KeptOf(y, b, exists, Len(b))
  BY <1>7, KeptIs
<1>9. PICK all : all = Talk!Stored(o)
  OBVIOUS
<1>10. all.entries = x \o y /\ all.next = Len(x) + 1 /\ all.total = o.total
  BY <1>1, <1>3, <1>5, <1>7, <1>9 DEF Talk!Stored, Talk!Alive
<1>11. x \in Seq(Talk!Record) /\ y \in Seq(Talk!Record) /\ Len(x) \in Nat /\ Len(y) \in Nat
       /\ Len(x) <= o.shown /\ Len(y) <= Len(o.ids) - o.shown
  BY <1>2, <1>4, <1>6, <1>8 DEF KeptOf
<1>12. /\ x \o y \in Seq(Talk!Record) /\ Len(x \o y) = Len(x) + Len(y)
       /\ \A i \in 1..(Len(x) + Len(y)) : (x \o y)[i] = IF i <= Len(x) THEN x[i] ELSE y[i - Len(x)]
  BY <1>11, ConcatProperties
<1>13. \A i \in 1..Len(x \o y) : (x \o y)[i] \in exists
  <2>1. ASSUME NEW i \in 1..Len(x \o y) PROVE (x \o y)[i] \in exists
    <3>1. CASE i <= Len(x)
      BY <3>1, <1>12, <1>11, <1>6 DEF KeptOf
    <3>2. CASE i > Len(x)
      <4>1. i - Len(x) \in 1..Len(y) /\ (x \o y)[i] = y[i - Len(x)]
        BY <3>2, <1>12, <1>11
      <4> QED BY <4>1, <1>8 DEF KeptOf
    <3> QED BY <3>1, <3>2, <1>11
  <2> QED BY <2>1
<1>14. \A i \in 1..Len(x) : (x \o y)[i] = x[i]
  BY <1>12, <1>11
<1>15. \A i \in 1..Len(x) : \E j \in 1..o.shown : (x \o y)[i] = o.ids[j]
  BY <1>14, <1>2, <1>6 DEF KeptOf
<1>16. Len(x) = o.shown => \A i \in 1..Len(x) : (x \o y)[i] = o.ids[i]
  BY <1>14, <1>2, <1>6 DEF KeptOf
<1>17. ASSUME \A j \in 1..Len(o.ids) : o.ids[j] \in exists
       PROVE  Len(x \o y) = Len(o.ids)
  <2>1. \A j \in 1..Len(a) : a[j] \in exists
    BY <1>17, <1>2, <1>0
  <2>2. Len(x) = o.shown
    BY <2>1, <1>6, <1>2 DEF KeptOf
  <2>3. \A j \in 1..Len(b) : b[j] \in exists
    <3>1. ASSUME NEW j \in 1..Len(b) PROVE b[j] \in exists
      <4>1. o.shown + j \in 1..Len(o.ids)
        BY <1>4, <1>0
      <4> QED BY <4>1, <1>17, <1>4
    <3> QED BY <3>1
  <2>4. Len(y) = Len(b)
    BY <2>3, <1>8, <1>4 DEF KeptOf
  <2> QED BY <2>2, <2>4, <1>12, <1>4, <1>0
<1>18. Len(o.ids) = o.shown => Len(x \o y) = Len(x)
  BY <1>11, <1>12
<1>19. /\ x \o y \in Seq(Talk!Record) /\ Len(x \o y) <= Len(o.ids)
       /\ Len(x) + 1 \in 1..(o.shown + 1) /\ (Len(x) + 1) - 1 <= Len(x \o y)
       /\ Len(x) + 1 - 1 = Len(x) /\ (Len(x) + 1 > o.shown => Len(x) = o.shown)
  BY <1>11, <1>12, <1>0
<1>20. all.entries \in Seq(Talk!Record) /\ Len(all.entries) <= Len(o.ids) /\ all.total = o.total
       /\ all.next \in 1..(o.shown + 1) /\ all.next - 1 <= Len(all.entries)
  BY <1>10, <1>19
<1>21. \A i \in 1..Len(all.entries) : all.entries[i] \in exists
  BY <1>10, <1>13
<1>22. \A i \in 1..(all.next - 1) : \E j \in 1..o.shown : all.entries[i] = o.ids[j]
  BY <1>10, <1>15, <1>19
<1>23. all.next > o.shown => \A i \in 1..(all.next - 1) : all.entries[i] = o.ids[i]
  BY <1>10, <1>16, <1>19
<1>24. (\A j \in 1..Len(o.ids) : o.ids[j] \in exists) => Len(all.entries) = Len(o.ids)
  BY <1>10, <1>17
<1>25. Len(o.ids) = o.shown => Len(all.entries) = all.next - 1
  BY <1>10, <1>18, <1>19
<1> QED BY ONLY <1>9, <1>20, <1>21, <1>22, <1>23, <1>24, <1>25

\* What the list's query matches.
LEMMA MatchedIs ==
  ASSUME TalkTyped, Records \in Nat
  PROVE  /\ Talk!Matched \in Seq(Talk!Record) /\ Len(Talk!Matched) <= Records
         /\ \A i \in 1..Len(Talk!Matched) : Talk!Matched[i] \in exists
         /\ topic # {} => Len(Talk!Matched) > 0
<1>1. PICK s : s = [r \in Talk!Record |-> r]
  OBVIOUS
<1>2. s \in Seq(Talk!Record) /\ Len(s) = Records /\ \A i \in Talk!Record : s[i] = i
  BY <1>1 DEF Talk!Record
<1>3. KeptOf(Talk!Kept(s, topic), s, topic, Len(s))
  BY <1>2, KeptIs
<1>4. KeptOf(Talk!Matched, s, topic, Records)
  BY <1>1, <1>2, <1>3 DEF Talk!Matched
<1>5. topic # {} => \E j \in 1..Records : s[j] \in topic
  BY <1>2 DEF TalkTyped, Talk!Record
<1> QED BY <1>4, <1>5 DEF KeptOf, TalkTyped

\* What a pager may print of an offer that stands: records that are there; before the place that
\* was reached, those the offer holds there; and the whole match, or no more than is stored.
LEMMA PagesIs ==
  ASSUME TalkTyped, Talk!DialogueAssumption, NEW o, Stands(o), o # Talk!NoOffer
  PROVE  LET all == Talk!Pages(o) IN
         /\ all.entries \in Seq(Talk!Record) /\ Len(all.entries) <= Records
         /\ all.total \in Nat /\ Len(all.entries) <= all.total
         /\ all.next \in 1..(o.shown + 1) /\ all.next - 1 <= Len(all.entries)
         /\ \A i \in 1..Len(all.entries) : all.entries[i] \in exists
         /\ \A i \in 1..(all.next - 1) : \E j \in 1..o.shown : all.entries[i] = o.ids[j]
         /\ all.next > o.shown => \A i \in 1..(all.next - 1) : all.entries[i] = o.ids[i]
         /\ Len(all.entries) >= all.next =>
              (o.q /\ all.entries = Talk!Matched) \/ Len(all.entries) <= OfferMax
<1>0. o \in Offer /\ o.shown \in 1..Len(o.ids) /\ Len(o.ids) <= Records
      /\ Len(o.ids) <= o.total /\ Len(o.ids) <= Talk!Greater(OfferMax, o.shown)
      /\ o.ids \in Seq(Talk!Record) /\ o.total \in Nat /\ o.shown \in Nat /\ OfferMax \in Nat
      /\ Records \in Nat
  BY DEF Stands, Offer, Talk!DialogueAssumption
<1>1. CASE o.q /\ Len(o.ids) < o.total /\ Talk!SameStart(o)
  <2>1. PICK m : m = Talk!Matched
    OBVIOUS
  <2>2. m \in Seq(Talk!Record) /\ Len(m) <= Records /\ \A i \in 1..Len(m) : m[i] \in exists
    BY <2>1, <1>0, MatchedIs
  <2>3. PICK all : all = Talk!Pages(o)
    OBVIOUS
  <2>4. all.entries = m /\ all.next = o.shown + 1 /\ all.total = Len(m)
    BY <1>1, <2>1, <2>3 DEF Talk!Pages
  <2>5. Talk!First(m, o.shown) = Talk!First(o.ids, o.shown)
    BY <1>1, <2>1 DEF Talk!SameStart
  <2>6. Talk!Lesser(o.shown, Len(m)) = o.shown
    <3>1. Len(Talk!First(m, o.shown)) = Talk!Lesser(o.shown, Len(m))
      BY <2>2, <1>0, FirstIs
    <3>2. Len(Talk!First(o.ids, o.shown)) = Talk!Lesser(o.shown, Len(o.ids))
      BY <1>0, FirstIs
    <3>3. Talk!Lesser(o.shown, Len(o.ids)) = o.shown
      BY <1>0 DEF Talk!Lesser
    <3> QED BY <3>1, <3>2, <3>3, <2>5
  <2>7. o.shown <= Len(m)
    BY <2>6, <2>2, <1>0 DEF Talk!Lesser
  <2>8. \A i \in 1..o.shown : m[i] = o.ids[i]
    <3>1. \A i \in 1..o.shown : Talk!First(m, o.shown)[i] = m[i]
      BY <2>6, <2>2, <1>0, FirstIs
    <3>2. Talk!Lesser(o.shown, Len(o.ids)) = o.shown
      BY <1>0 DEF Talk!Lesser
    <3>3. \A i \in 1..o.shown : Talk!First(o.ids, o.shown)[i] = o.ids[i]
      BY <3>2, <1>0, FirstIs
    <3> QED BY <3>1, <3>3, <2>5
  <2>9. Len(m) \in Nat /\ all.next - 1 = o.shown /\ all.next \in 1..(o.shown + 1)
    BY <2>2, <2>4, <1>0
  <2> QED BY ONLY <1>1, <2>1, <2>2, <2>3, <2>4, <2>7, <2>8, <2>9
<1>2. CASE ~ (o.q /\ Len(o.ids) < o.total /\ Talk!SameStart(o))
  <2>1. Talk!Pages(o) = Talk!Stored(o)
    BY <1>2 DEF Talk!Pages
  <2>2. PICK all : all = Talk!Stored(o)
    OBVIOUS
  <2>3. /\ all.entries \in Seq(Talk!Record) /\ Len(all.entries) <= Len(o.ids)
        /\ all.total = o.total
        /\ all.next \in 1..(o.shown + 1) /\ all.next - 1 <= Len(all.entries)
        /\ \A i \in 1..Len(all.entries) : all.entries[i] \in exists
        /\ \A i \in 1..(all.next - 1) : \E j \in 1..o.shown : all.entries[i] = o.ids[j]
        /\ all.next > o.shown => \A i \in 1..(all.next - 1) : all.entries[i] = o.ids[i]
        /\ Len(o.ids) = o.shown => Len(all.entries) = all.next - 1
    BY <2>2, <1>0, StoredIs
  <2>4. Len(all.entries) <= Records /\ Len(all.entries) <= all.total /\ all.total \in Nat
    BY <2>3, <1>0
  <2>5. Len(all.entries) >= all.next => Len(all.entries) <= OfferMax
    <3>1. Len(all.entries) >= all.next => Len(o.ids) # o.shown
      BY <2>3, <1>0
    <3>2. Len(o.ids) # o.shown => Len(o.ids) <= OfferMax
      BY <1>0 DEF Talk!Greater
    <3> QED BY <3>1, <3>2, <2>3, <1>0
  <2> QED BY ONLY <2>1, <2>2, <2>3, <2>4, <2>5
<1> QED BY <1>1, <1>2

\* A page that is printed, and the offer that goes with it.
LEMMA RenderIs ==
  ASSUME Talk!DialogueAssumption, NEW E \in Seq(Talk!Record), NEW start \in 1..Len(E),
         Len(E) <= Records, NEW total \in Nat, Len(E) <= total, NEW q \in BOOLEAN
  PROVE  LET r == Talk!Render(E, start, total, q) IN
         /\ r.start = start /\ r.page \in Seq(Talk!Record)
         /\ Len(r.page) = r.offer.shown - start + 1
         /\ \A i \in 1..Len(r.page) : r.page[i] = E[start - 1 + i]
         /\ r.offer \in Offer /\ Stands(r.offer) /\ r.offer # Talk!NoOffer
         /\ r.offer.shown \in start..Len(E)
         /\ r.offer.shown = Talk!Lesser(start + PageSize - 1, Len(E))
         /\ \A i \in 1..Len(r.offer.ids) : r.offer.ids[i] = E[i]
         /\ r.offer.ids = Talk!First(E, Talk!Greater(OfferMax, r.offer.shown))
         /\ r.offer.total = total /\ r.offer.q = q
<1>0. PageSize \in Nat /\ PageSize >= 2 /\ OfferMax \in Nat /\ Len(E) \in Nat /\ Records \in Nat
  BY DEF Talk!DialogueAssumption
<1>1. PICK n : n = Talk!Lesser(start + PageSize - 1, Len(E))
  OBVIOUS
<1>2. n \in start..Len(E)
  BY <1>0, <1>1 DEF Talk!Lesser
<1>3. PICK page : page = SubSeq(E, start, n)
  OBVIOUS
<1>4. page \in Seq(Talk!Record) /\ Len(page) = n - start + 1
      /\ \A i \in 1..Len(page) : page[i] = E[start - 1 + i]
  <2>1. \A i \in start..n : E[i] \in Talk!Record
    BY <1>2
  <2>2. start \in Int /\ n \in Int /\ start <= n
    BY <1>2
  <2>3. /\ SubSeq(E, start, n) \in Seq(Talk!Record)
        /\ Len(SubSeq(E, start, n)) = IF start <= n THEN n - start + 1 ELSE 0
        /\ \A i \in 1..(n - start + 1) : SubSeq(E, start, n)[i] = E[start + i - 1]
    BY ONLY <2>1, <2>2, SubSeqProperties
  <2> QED BY <2>2, <2>3, <1>3
<1>5. PICK k \in Nat : k = Talk!Greater(OfferMax, n) /\ k >= n
  BY <1>0, <1>2 DEF Talk!Greater
<1>6. PICK ids : ids = Talk!First(E, k)
  OBVIOUS
<1>7. ids \in Seq(Talk!Record) /\ Len(ids) = Talk!Lesser(k, Len(E))
        /\ \A i \in 1..Len(ids) : ids[i] = E[i]
  <2>1. /\ Talk!First(E, k) \in Seq(Talk!Record) /\ Len(Talk!First(E, k)) = Talk!Lesser(k, Len(E))
        /\ \A i \in 1..Talk!Lesser(k, Len(E)) : Talk!First(E, k)[i] = E[i]
    BY ONLY E \in Seq(Talk!Record), <1>5, FirstIs
  <2> QED BY ONLY <2>1, <1>6
<1>8. n <= Len(ids) /\ Len(ids) <= Len(E) /\ Len(ids) <= k /\ Len(ids) \in Nat
  BY <1>7, <1>5, <1>2, <1>0 DEF Talk!Lesser
<1>9. PICK r : r = Talk!Render(E, start, total, q)
  OBVIOUS
<1>10. PICK o : o = [ids |-> ids, shown |-> n, total |-> total, q |-> q]
  OBVIOUS
<1>11. start - 1 + Len(page) = n
  BY <1>4, <1>2
<1>12. r = [start |-> start, page |-> page, offer |-> o]
  BY <1>1, <1>3, <1>5, <1>6, <1>9, <1>10, <1>11 DEF Talk!Render
<1>13. o \in Offer /\ o.ids = ids /\ o.shown = n /\ o.total = total /\ o.q = q /\ n \in Nat
  BY <1>10, <1>7, <1>2 DEF Offer
<1>14. Stands(o)
  <2>1. o.shown \in 1..Len(o.ids)
    BY <1>13, <1>8, <1>2
  <2>2. Len(o.ids) <= Records /\ Len(o.ids) <= o.total
          /\ Len(o.ids) <= Talk!Greater(OfferMax, o.shown)
    BY <1>13, <1>8, <1>5, <1>0
  <2> QED BY <2>1, <2>2, <1>13 DEF Stands
<1>15. o # Talk!NoOffer
  BY <1>13, <1>2 DEF Talk!NoOffer
<1>16. r.start = start /\ r.page = page /\ r.offer = o
  BY <1>12
<1> QED BY ONLY <1>1, <1>2, <1>4, <1>5, <1>6, <1>7, <1>9, <1>13, <1>14, <1>15, <1>16

\* The count is what «بیشتر» reaches, when it counted records that are there, and all of them
\* are stored or the list is matched again.
LEMMA HonestIs ==
  ASSUME Talk!DialogueAssumption, TalkTyped, NEW E \in Seq(Talk!Record), NEW k \in Nat,
         NEW o \in Offer,
         o.ids = Talk!First(E, k), o.shown \in 1..Len(o.ids), o.total = Len(E),
         \A i \in 1..Len(E) : E[i] \in exists,
         (o.q /\ E = Talk!Matched) \/ Len(E) <= k
  PROVE  Honest(o)
<1>0. Len(E) \in Nat /\ Len(o.ids) = Talk!Lesser(k, Len(E)) /\ o.ids \in Seq(Talk!Record)
      /\ \A i \in 1..Len(o.ids) : o.ids[i] = E[i]
  <2>1. /\ Talk!First(E, k) \in Seq(Talk!Record) /\ Len(Talk!First(E, k)) = Talk!Lesser(k, Len(E))
        /\ \A i \in 1..Talk!Lesser(k, Len(E)) : Talk!First(E, k)[i] = E[i]
    BY ONLY E \in Seq(Talk!Record), k \in Nat, FirstIs
  <2>2. o.ids = Talk!First(E, k)
    OBVIOUS
  <2> QED BY ONLY <2>1, <2>2, E \in Seq(Talk!Record)
<1>1. CASE o.q /\ Len(o.ids) < o.total /\ Talk!SameStart(o)
  <2>1. ~ (Len(E) <= k)
    BY <1>1, <1>0 DEF Talk!Lesser
  <2>2. Talk!Pages(o).entries = Talk!Matched
    BY <1>1 DEF Talk!Pages
  <2> QED BY <2>1, <2>2 DEF Honest
<1>2. CASE ~ (o.q /\ Len(o.ids) < o.total /\ Talk!SameStart(o))
  <2>1. Talk!Pages(o) = Talk!Stored(o)
    BY <1>2 DEF Talk!Pages
  <2>2. Len(o.ids) = Len(E)
    <3>1. CASE Len(E) <= k
      BY <3>1, <1>0 DEF Talk!Lesser
    <3>2. CASE o.q /\ E = Talk!Matched /\ Len(o.ids) < o.total
      <4>1. o.shown \in Nat /\ o.shown <= Len(o.ids) /\ Len(o.ids) <= Len(E)
        BY <3>2, <1>0 DEF Offer
      <4>2. PICK a : a = Talk!First(E, o.shown)
        OBVIOUS
      <4>3. PICK b : b = Talk!First(o.ids, o.shown)
        OBVIOUS
      <4>4. a \in Seq(Talk!Record) /\ Len(a) = o.shown /\ \A i \in 1..o.shown : a[i] = E[i]
        <5>1. Talk!Lesser(o.shown, Len(E)) = o.shown
          BY <4>1, <1>0 DEF Talk!Lesser
        <5> QED BY <5>1, <4>1, <4>2, FirstIs
      <4>5. b \in Seq(Talk!Record) /\ Len(b) = o.shown /\ \A i \in 1..o.shown : b[i] = o.ids[i]
        <5>1. Talk!Lesser(o.shown, Len(o.ids)) = o.shown
          BY <4>1, <1>0 DEF Talk!Lesser
        <5>2. /\ Talk!First(o.ids, o.shown) \in Seq(Talk!Record)
              /\ Len(Talk!First(o.ids, o.shown)) = Talk!Lesser(o.shown, Len(o.ids))
              /\ \A i \in 1..Talk!Lesser(o.shown, Len(o.ids)) : Talk!First(o.ids, o.shown)[i]
                   = o.ids[i]
          BY ONLY <1>0, <4>1, FirstIs
        <5> QED BY ONLY <5>1, <5>2, <4>3
      <4>6. \A i \in 1..Len(a) : a[i] = b[i]
        BY <4>1, <4>4, <4>5, <1>0
      <4>7. a = b
        BY ONLY <4>4, <4>5, <4>6, SeqEqual
      <4>8. Talk!SameStart(o)
        BY <4>7, <4>2, <4>3, <3>2 DEF Talk!SameStart
      <4> QED BY <4>8, <3>2, <1>2
    <3>3. CASE ~ (Len(o.ids) < o.total)
      BY <3>3, <1>0 DEF Talk!Lesser
    <3> QED BY <3>1, <3>2, <3>3
  <2>3. \A i \in 1..Len(o.ids) : o.ids[i] \in exists
    BY <2>2, <1>0
  <2>4. Len(Talk!Stored(o).entries) = Len(o.ids)
    BY <2>3, StoredIs
  <2> QED BY <2>1, <2>2, <2>4 DEF Honest
<1> QED BY <1>1, <1>2

-------------------------------------------------------------------------------
(* Printing a page.                                                          *)

\* What is known before a page is printed: it begins at start, after names that stand on the
\* screen at the numbers they have in the list.
Follows(E, start, why) ==
  start > 1 =>
    /\ doubt \subseteq {"renumbered"} => \A i \in 1..(start - 1) : E[i] \in named
    /\ doubt = {} /\ why = {} =>
         \A i \in 1..(start - 1) : i \in DOMAIN screen /\ screen[i] = E[i]

\* A request that prints a page of some list.
Prints(t) ==
  \E E \in Seq(Talk!Record), total \in Nat, q \in BOOLEAN, why \in SUBSET {"renumbered"},
     as \in {"page", "again"} : \E start \in 1..Len(E) :
       /\ Len(E) <= Records /\ Len(E) <= total
       /\ Talk!Show(t, Talk!Render(E, start, total, q), why) /\ Talk!Counts(as)

\* A page that is printed leaves the types as they were.
LEMMA ShowTypes ==
  ASSUME Talk!DialogueAssumption, TalkTyped, NEW t \in Request, NEW why, why \subseteq {"renumbered"},
         NEW E \in Seq(Talk!Record), NEW start \in 1..Len(E), Len(E) <= Records,
         NEW total \in Nat, Len(E) <= total, NEW q \in BOOLEAN,
         NEW as \in {"page", "again"},
         Talk!Show(t, Talk!Render(E, start, total, q), why), Talk!Counts(as)
  PROVE  /\ row'.age \in 0..(PickWindow + 1) /\ row' = [offer |-> row'.offer, age |-> row'.age]
         /\ turn' \in [Request -> Talk!Busy \cup {Talk!Idle}]
         /\ screen' \in [DOMAIN screen' -> Talk!Record] /\ DOMAIN screen' \subseteq Talk!Record
         /\ named' \subseteq Talk!Record
         /\ doubt' \subseteq {"unlogged", "crossed", "renumbered"}
         /\ counted' \in {"page", "again", "edited"} /\ slips' \in 0..MaxSlip
<1>0. PickWindow \in Nat /\ MaxSlip \in Nat /\ Records \in Nat
  BY DEF Talk!DialogueAssumption
<1>1. PICK r : r = Talk!Render(E, start, total, q)
  OBVIOUS
<1>2. /\ r.start = start /\ r.page \in Seq(Talk!Record)
      /\ Len(r.page) = r.offer.shown - start + 1
      /\ \A i \in 1..Len(r.page) : r.page[i] = E[start - 1 + i]
      /\ r.offer \in Offer /\ r.offer.shown \in start..Len(E)
  <2>1. /\ Talk!DialogueAssumption /\ E \in Seq(Talk!Record) /\ start \in 1..Len(E)
        /\ Len(E) <= Records /\ total \in Nat /\ Len(E) <= total /\ q \in BOOLEAN
    OBVIOUS
  <2> QED BY ONLY <2>1, <1>1, RenderIs
<1>3. PICK lines : lines = [n \in r.start..r.offer.shown |-> r.page[n - r.start + 1]]
  OBVIOUS
<1>4. DOMAIN lines = start..r.offer.shown /\ \A n \in DOMAIN lines : lines[n] \in Talk!Record
  <2>1. DOMAIN lines = start..r.offer.shown
    BY <1>2, <1>3
  <2>2. ASSUME NEW n \in DOMAIN lines PROVE lines[n] \in Talk!Record
    <3>1. n - start + 1 \in 1..Len(r.page) /\ lines[n] = r.page[n - start + 1]
      BY <1>2, <1>3, <2>1
    <3> QED BY <3>1, <1>2
  <2> QED BY <2>1, <2>2
<1>5. DOMAIN lines \subseteq Talk!Record
  BY <1>4, <1>2, <1>0 DEF Talk!Record
<1>6. screen' = IF start = 1 THEN lines
                ELSE [n \in DOMAIN screen \cup DOMAIN lines |->
                        IF n \in DOMAIN lines THEN lines[n] ELSE screen[n]]
  BY <1>1, <1>2, <1>3 DEF Talk!Show
<1>7. screen' \in [DOMAIN screen' -> Talk!Record] /\ DOMAIN screen' \subseteq Talk!Record
  <2>0. screen \in [DOMAIN screen -> Talk!Record] /\ DOMAIN screen \subseteq Talk!Record
    BY DEF TalkTyped
  <2>1. CASE start = 1
    <3>1. screen' = lines
      BY <1>6, <2>1
    <3>2. lines = [n \in DOMAIN lines |-> lines[n]]
      BY <1>3
    <3> QED BY <3>1, <3>2, <1>4, <1>5
  <2>2. CASE start # 1
    <3>1. screen' = [n \in DOMAIN screen \cup DOMAIN lines |->
                        IF n \in DOMAIN lines THEN lines[n] ELSE screen[n]]
      BY <1>6, <2>2
    <3>2. \A n \in DOMAIN screen \cup DOMAIN lines :
            (IF n \in DOMAIN lines THEN lines[n] ELSE screen[n]) \in Talk!Record
      BY <1>4, <2>0
    <3> QED BY <3>1, <3>2, <2>0, <1>5
  <2> QED BY <2>1, <2>2
<1>8. named' \subseteq Talk!Record
  <2>1. Talk!ToSet(r.page) \subseteq Talk!Record
    BY <1>2 DEF Talk!ToSet
  <2>2. named \subseteq Talk!Record
    BY DEF TalkTyped
  <2>3. named' = Talk!ToSet(r.page) \cup (IF start = 1 THEN {} ELSE named)
    BY <1>1, <1>2 DEF Talk!Show
  <2> QED BY <2>1, <2>2, <2>3
<1>9. turn' \in [Request -> Talk!Busy \cup {Talk!Idle}]
  <2>1. turn' = [turn EXCEPT ![t] = Talk!Idle]
    BY DEF Talk!Show, Talk!Done
  <2>2. turn \in [Request -> Talk!Busy \cup {Talk!Idle}]
    BY DEF TalkTyped
  <2> QED BY <2>1, <2>2
<1>10. row'.age \in 0..(PickWindow + 1) /\ row' = [offer |-> row'.offer, age |-> row'.age]
  <2>1. row' = row \/ row' = [offer |-> r.offer, age |-> 0]
    BY <1>1 DEF Talk!Show
  <2>2. row.age \in 0..(PickWindow + 1) /\ row = [offer |-> row.offer, age |-> row.age]
    BY DEF TalkTyped
  <2>3. CASE row' = row
    BY <2>2, <2>3
  <2>4. CASE row' = [offer |-> r.offer, age |-> 0]
    <3>1. row'.offer = r.offer /\ row'.age = 0
      BY <2>4
    <3> QED BY <3>1, <2>4, <1>0
  <2> QED BY <2>1, <2>3, <2>4
<1>11. doubt' \subseteq {"unlogged", "crossed", "renumbered"}
  <2>1. doubt \subseteq {"unlogged", "crossed", "renumbered"}
    BY DEF TalkTyped
  <2>2. PICK causes : /\ causes = why \cup (IF Talk!Others(t) = {} THEN {} ELSE {"crossed"})
                                      \cup (IF start = 1 THEN {} ELSE doubt)
                      /\ doubt' = causes \/ doubt' = causes \cup {"unlogged"}
    BY <1>1, <1>2 DEF Talk!Show
  <2> QED BY <2>1, <2>2
<1>12. slips' \in 0..MaxSlip
  <2>1. slips' = slips \/ (slips < MaxSlip /\ slips' = slips + 1)
    BY DEF Talk!Show, Talk!Fault
  <2>2. slips \in 0..MaxSlip
    BY DEF TalkTyped
  <2> QED BY <2>1, <2>2, <1>0
<1>13. counted' \in {"page", "again", "edited"}
  BY DEF Talk!Counts, TalkTyped
<1> QED BY <1>7, <1>8, <1>9, <1>10, <1>11, <1>12, <1>13

\* It keeps what the screen, the row and the requests under way say of each other.
LEMMA ShowKeeps ==
  ASSUME Talk!DialogueAssumption, TalkTyped, NEW t \in Request, NEW why, why \subseteq {"renumbered"},
         NEW E \in Seq(Talk!Record), NEW start \in 1..Len(E), Len(E) <= Records,
         NEW total \in Nat, Len(E) <= total, NEW q \in BOOLEAN,
         NEW as \in {"page", "again"},
         Talk!Show(t, Talk!Render(E, start, total, q), why), Talk!Counts(as), UNCHANGED <<exists, topic>>,
         \A i \in 1..Len(E) : E[i] \in exists,
         as = "page" => /\ total = Len(E)
                        /\ (q /\ E = Talk!Matched) \/ Len(E) <= OfferMax
                             \/ Len(E) <= start + PageSize - 1,
         Follows(E, start, why),
         \A u \in Request : TurnTrue(turn[u]), Stands(row.offer)
  PROVE  /\ Stands(row.offer)' /\ Sound(row.offer)'
         /\ (\A u \in Request : TurnTrue(turn[u]))'
<1>0. /\ turn \in [Request -> Talk!Busy \cup {Talk!Idle}]
      /\ turn' = [turn EXCEPT ![t] = Talk!Idle]
  BY DEF TalkTyped, Talk!Show, Talk!Done
<1>1. PICK r : r = Talk!Render(E, start, total, q)
  OBVIOUS
<1>2. PICK o : o = r.offer
  OBVIOUS
<1>3. /\ r.start = start /\ r.page \in Seq(Talk!Record)
      /\ Len(r.page) = o.shown - start + 1
      /\ \A i \in 1..Len(r.page) : r.page[i] = E[start - 1 + i]
      /\ o \in Offer /\ Stands(o) /\ o # Talk!NoOffer
      /\ o.shown \in start..Len(E) /\ o.shown = Talk!Lesser(start + PageSize - 1, Len(E))
      /\ \A i \in 1..Len(o.ids) : o.ids[i] = E[i]
      /\ o.ids = Talk!First(E, Talk!Greater(OfferMax, o.shown))
      /\ o.total = total /\ o.q = q
  <2>1. /\ Talk!DialogueAssumption /\ E \in Seq(Talk!Record) /\ start \in 1..Len(E)
        /\ Len(E) <= Records /\ total \in Nat /\ Len(E) <= total /\ q \in BOOLEAN
    OBVIOUS
  <2> QED BY ONLY <2>1, <1>1, <1>2, RenderIs
<1>4. PICK causes :
        /\ causes = why \cup (IF Talk!Others(t) = {} THEN {} ELSE {"crossed"})
                        \cup (IF start = 1 THEN {} ELSE doubt)
        /\ \/ row' = [offer |-> o, age |-> 0] /\ doubt' = causes /\ UNCHANGED slips
           \/ Talk!Fault /\ doubt' = causes \cup {"unlogged"} /\ UNCHANGED row
  BY <1>1, <1>2, <1>3 DEF Talk!Show
<1>5. row'.offer = o \/ row'.offer = row.offer
  BY <1>4
<1>6. Stands(row.offer)'
  BY <1>5, <1>3 DEF Stands
<1>7. CASE ~ (doubt' \subseteq {"renumbered"})
  <2>1. doubt' # {}
    BY <1>7
  <2>2. Sound(row.offer)'
    BY <1>7, <2>1 DEF Sound
  <2>3. ASSUME NEW u \in Request PROVE TurnTrue(turn[u])'
    <3>1. CASE u = t
      <4>1. turn'[u] = Talk!Idle
        BY <3>1, <1>0
      <4> QED BY <4>1 DEF TurnTrue
    <3>2. CASE u # t
      <4>1. turn'[u] = turn[u]
        BY <3>2, <1>0
      <4>2. PICK x : x = turn[u]
        OBVIOUS
      <4>3. x # Talk!Idle => Stands(x.offer)
        BY <4>2 DEF TurnTrue
      <4>4. Sound(x.offer)'
        BY <1>7, <2>1 DEF Sound
      <4>5. TurnTrue(x)'
        BY <4>3, <4>4, <2>1 DEF TurnTrue, Stands
      <4>6. turn'[u] = x
        BY <4>1, <4>2
      <4> QED BY <4>5, <4>6 DEF TurnTrue, Stands, Sound, Agrees, Printed, Honest
    <3> QED BY <3>1, <3>2
  <2>4. (\A u \in Request : TurnTrue(turn[u]))'
    BY <2>3
  <2> QED BY <1>6, <2>2, <2>4
<1>8. CASE doubt' \subseteq {"renumbered"}
  <2>1. /\ row' = [offer |-> o, age |-> 0] /\ doubt' = causes /\ slips' = slips
        /\ Talk!Others(t) = {}
    <3>1. "unlogged" \notin doubt' /\ "crossed" \notin doubt'
      BY <1>8
    <3>2. "unlogged" \notin causes \/ TRUE
      OBVIOUS
    <3>3. row' = [offer |-> o, age |-> 0] /\ doubt' = causes /\ slips' = slips
      BY <3>1, <1>4
    <3>4. Talk!Others(t) = {}
      BY <3>1, <3>3, <1>4
    <3> QED BY <3>3, <3>4
  <2>2. \A u \in Request : turn'[u] = Talk!Idle
    BY <2>1, <1>0 DEF Talk!Others
  <2>3. (\A u \in Request : TurnTrue(turn[u]))'
    BY <2>2 DEF TurnTrue
  <2>4. row'.offer = o
    BY <2>1
  <2>5. counted' = as
    BY <2>1 DEF Talk!Counts
  <2>6. PICK lines : lines = [n \in start..o.shown |-> r.page[n - start + 1]]
    OBVIOUS
  <2>7. screen' = IF start = 1 THEN lines
                  ELSE [n \in DOMAIN screen \cup DOMAIN lines |->
                          IF n \in DOMAIN lines THEN lines[n] ELSE screen[n]]
    BY <1>1, <1>2, <1>3, <2>6 DEF Talk!Show
  <2>8. named' = Talk!ToSet(r.page) \cup (IF start = 1 THEN {} ELSE named)
    BY <1>1, <1>3 DEF Talk!Show
  <2>9. DOMAIN lines = start..o.shown /\ \A n \in start..o.shown : lines[n] = E[n]
    <3>1. ASSUME NEW n \in start..o.shown PROVE lines[n] = E[n]
      <4>1. n - start + 1 \in 1..Len(r.page) /\ lines[n] = r.page[n - start + 1]
            /\ start - 1 + (n - start + 1) = n
        BY <1>3, <2>6
      <4> QED BY <4>1, <1>3
    <3> QED BY <3>1, <2>6
  <2>10. o.ids \in Seq(Talk!Record) /\ o.shown \in 1..Len(o.ids)
    BY <1>3 DEF Stands, Offer
  <2>11. \A n \in 1..o.shown : o.ids[n] = E[n] /\ (n \in start..o.shown \/ n \in 1..(start - 1))
    BY <1>3, <2>10
  <2>12. doubt' = {} => \A n \in 1..o.shown : n \in DOMAIN screen' /\ screen'[n] = o.ids[n]
    <3> SUFFICES ASSUME doubt' = {}, NEW n \in 1..o.shown
                 PROVE  n \in DOMAIN screen' /\ screen'[n] = E[n]
      BY <2>11
    <3>1. CASE start = 1
      <4>1. n \in start..o.shown /\ screen' = lines
        BY <3>1, <2>7
      <4> QED BY <4>1, <2>9
    <3>2. CASE start # 1
      <4>1. screen' = [k \in DOMAIN screen \cup DOMAIN lines |->
                          IF k \in DOMAIN lines THEN lines[k] ELSE screen[k]]
        BY <3>2, <2>7
      <4>2. CASE n \in start..o.shown
        BY <4>1, <4>2, <2>9
      <4>3. CASE n \notin start..o.shown
        <5>1. n \in 1..(start - 1) /\ n \notin DOMAIN lines
          BY <4>3, <2>11, <2>9
        <5>2. doubt = {} /\ why = {}
          BY <3>2, <2>1, <1>4
        <5>3. n \in DOMAIN screen /\ screen[n] = E[n]
          BY <5>1, <5>2, <3>2 DEF Follows
        <5> QED BY <4>1, <5>1, <5>3
      <4> QED BY <4>2, <4>3
    <3> QED BY <3>1, <3>2
  <2>13. \A n \in 1..o.shown : o.ids[n] \in named'
    <3> SUFFICES ASSUME NEW n \in 1..o.shown PROVE E[n] \in named'
      BY <2>11
    <3>1. CASE n \in start..o.shown
      <4>1. n - start + 1 \in 1..Len(r.page) /\ start - 1 + (n - start + 1) = n
        BY <3>1, <1>3
      <4>2. r.page[n - start + 1] = E[n]
        BY <4>1, <1>3
      <4>3. r.page[n - start + 1] \in Talk!ToSet(r.page)
        BY <4>1, <1>3 DEF Talk!ToSet
      <4> QED BY <4>2, <4>3, <2>8
    <3>2. CASE n \notin start..o.shown
      <4>1. n \in 1..(start - 1) /\ start # 1 /\ start > 1
        BY <3>2, <2>11
      <4>2. doubt \subseteq {"renumbered"}
        BY <4>1, <1>8, <2>1, <1>4
      <4>3. E[n] \in named
        BY <4>1, <4>2 DEF Follows
      <4> QED BY <4>1, <4>3, <2>8
    <3> QED BY <3>1, <3>2
  <2>14. as = "page" => Honest(o)
    <3> SUFFICES ASSUME as = "page" PROVE Honest(o)
      OBVIOUS
    <3>1. PICK k \in Nat : k = Talk!Greater(OfferMax, o.shown) /\ k >= OfferMax
      <4>1. OfferMax \in Nat /\ o.shown \in Nat
        BY <1>3 DEF Talk!DialogueAssumption, Offer
      <4> QED BY <4>1 DEF Talk!Greater
    <3>2. (o.q /\ E = Talk!Matched) \/ Len(E) <= k
      <4>1. Len(E) \in Nat /\ OfferMax \in Nat
        BY DEF Talk!DialogueAssumption
      <4>2. (q /\ E = Talk!Matched) \/ Len(E) <= OfferMax \/ Len(E) <= start + PageSize - 1
        OBVIOUS
      <4>3. Len(E) <= start + PageSize - 1 => Len(E) <= k
        <5>1. PICK last \in Nat : last = start + PageSize - 1
          BY DEF Talk!DialogueAssumption
        <5>2. o.shown = Talk!Lesser(last, Len(E))
          BY <5>1, <1>1, <1>2, <1>3
        <5>3. Len(E) <= last => o.shown = Len(E)
          BY <5>1, <5>2, <4>1 DEF Talk!Lesser
        <5>4. o.shown <= k /\ o.shown \in Nat
          BY <3>1, <1>3 DEF Talk!Greater, Offer
        <5> QED BY <5>1, <5>3, <5>4
      <4> QED BY <3>1, <4>1, <4>2, <4>3, <1>3
    <3>3. o.total = Len(E) /\ o.ids = Talk!First(E, k)
      BY <1>3, <3>1
    <3>4. o \in Offer /\ o.shown \in 1..Len(o.ids)
      BY <1>3, <2>10
    <3> QED BY <3>1, <3>2, <3>3, <3>4, HonestIs
  <2>15. Honest(o) => Honest(o)'
    BY DEF Honest, Talk!Pages, Talk!SameStart, Talk!Stored, Talk!Matched, Talk!Alive
  <2>16. Sound(row.offer)'
    <3>1. Sound(o)'
      BY <2>5, <2>12, <2>13, <2>14, <2>15 DEF Sound, Agrees, Printed
    <3> QED BY <3>1, <2>4 DEF Sound, Agrees, Printed, Honest
  <2> QED BY <1>6, <2>3, <2>16
<1> QED BY <1>7, <1>8

-------------------------------------------------------------------------------
(* What the requests under way remember.                                     *)

\* A request that goes on with what it holds.
Advance(next, t, step, question) ==
  \/ next = [turn EXCEPT ![t].step = step, ![t].question = question]
  \/ next = [turn EXCEPT ![t].step = step] /\ question = turn[t].question

LEMMA Advanced ==
  ASSUME TalkTyped, NEW t \in Request, turn[t] # Talk!Idle,
         NEW step \in {"asked", "peeked", "untaken", "pipeline"},
         NEW question \in Talk!Proposal \cup {Talk!None},
         NEW next, Advance(next, t, step, question)
  PROVE  /\ next \in [Request -> Talk!Busy \cup {Talk!Idle}]
         /\ \A u \in Request \ {t} : next[u] = turn[u]
         /\ next[t] # Talk!Idle /\ next[t].step = step /\ next[t].question = question
         /\ next[t].offer = turn[t].offer /\ next[t].meant = turn[t].meant
         /\ next[t].msg = turn[t].msg
<1>1. PICK x : x = turn[t]
  OBVIOUS
<1>2. x \in Talk!Busy /\ turn \in [Request -> Talk!Busy \cup {Talk!Idle}]
  BY <1>1 DEF TalkTyped
<1>3. PICK y : y = next[t]
  OBVIOUS
<1>4. y = [x EXCEPT !.step = step, !.question = question]
      /\ \A u \in Request \ {t} : next[u] = turn[u]
  <2>1. CASE next = [turn EXCEPT ![t].step = step, ![t].question = question]
    BY <2>1, <1>1, <1>2, <1>3
  <2>2. CASE next = [turn EXCEPT ![t].step = step] /\ question = turn[t].question
    <3>1. y = [x EXCEPT !.step = step] /\ question = x.question
      BY <2>2, <1>1, <1>2, <1>3
    <3>2. [x EXCEPT !.step = step] = [x EXCEPT !.step = step, !.question = question]
      BY <3>1, <1>2 DEF Talk!Busy
    <3> QED BY <3>1, <3>2, <2>2
  <2> QED BY <2>1, <2>2 DEF Advance
<1>5. y \in Talk!Busy /\ y.step = step /\ y.question = question
      /\ y.offer = x.offer /\ y.meant = x.meant /\ y.msg = x.msg
  BY <1>2, <1>4 DEF Talk!Busy
<1>6. y # Talk!Idle
  BY <1>5 DEF Talk!Idle, Talk!Busy
<1>7. DOMAIN next = Request /\ next = [u \in Request |-> next[u]]
  BY <1>2 DEF Advance
<1>8. next \in [Request -> Talk!Busy \cup {Talk!Idle}]
  <2>1. \A u \in Request : next[u] \in Talk!Busy \cup {Talk!Idle}
    <3>1. \A u \in Request : turn[u] \in Talk!Busy \cup {Talk!Idle}
      BY <1>2, Zenon
    <3>2. next[t] \in Talk!Busy
      BY <1>3, <1>5
    <3> QED BY <3>1, <3>2, <1>4, Zenon
  <2> QED BY <2>1, <1>7, Zenon
<1> QED BY <1>1, <1>3, <1>4, <1>5, <1>6, <1>8

\* Requests that go on with what they hold, or are answered, leave it as true as it was, when
\* the newest row is one that was true.
LEMMA QuietKeeps ==
  ASSUME Remembered, UNCHANGED <<exists, topic, screen, named, doubt, counted>>,
         \A u \in Request : \/ turn'[u] = Talk!Idle
                            \/ /\ turn[u] # Talk!Idle /\ turn'[u].offer = turn[u].offer
                               /\ turn'[u].meant = turn[u].meant /\ turn'[u].msg = turn[u].msg,
         NEW o, row'.offer = o, Stands(o), Sound(o)
  PROVE  Remembered'
<1>1. ASSUME NEW x, Sound(x) PROVE Sound(x)'
  BY <1>1 DEF Sound, Agrees, Printed, Honest, Talk!Pages, Talk!SameStart, Talk!Stored,
     Talk!Matched, Talk!Alive
<1>2. Stands(row.offer)' /\ Sound(row.offer)'
  <2>1. Sound(o)'
    BY <1>1
  <2> QED BY <2>1 DEF Stands, Sound, Agrees, Printed, Honest
<1>3. ASSUME NEW u \in Request PROVE TurnTrue(turn[u])'
  <2>1. CASE turn'[u] = Talk!Idle
    BY <2>1 DEF TurnTrue
  <2>2. CASE turn'[u] # Talk!Idle
    <3>1. PICK x : x = turn[u]
      OBVIOUS
    <3>2. PICK y : y = turn'[u]
      OBVIOUS
    <3>3. x # Talk!Idle /\ y.offer = x.offer /\ y.meant = x.meant /\ y.msg = x.msg
      BY <2>2, <3>1, <3>2
    <3>4. TurnTrue(x)
      BY <3>1 DEF Remembered
    <3>5. PICK z : z = x.offer
      OBVIOUS
    <3>6. Stands(z) /\ Sound(z)'
      BY <3>3, <3>4, <3>5, <1>1 DEF TurnTrue
    <3>7. Stands(y.offer) /\ Sound(y.offer)'
      BY <3>3, <3>5, <3>6 DEF Stands, Sound, Agrees, Printed, Honest
    <3>8. doubt' = {} => y.meant = IF y.msg.n \in DOMAIN screen' THEN screen'[y.msg.n] ELSE Talk!None
      BY <3>3, <3>4 DEF TurnTrue
    <3>9. TurnTrue(y)'
      BY <3>7, <3>8 DEF TurnTrue, Stands
    <3> QED BY <3>2, <3>9 DEF TurnTrue, Stands, Sound, Agrees, Printed, Honest
  <2> QED BY <2>1, <2>2
<1> QED BY <1>2, <1>3 DEF Remembered

\* An offer that stands is read back as it was stored.
LEMMA ParsedIs ==
  ASSUME NEW o, Stands(o)
  PROVE  Talk!Parsed(o) = o
<1>1. CASE o = Talk!NoOffer
  BY <1>1 DEF Talk!NoOffer, Talk!Parsed
<1>2. CASE o # Talk!NoOffer
  <2>1. o \in Offer /\ o.shown \in 1..Len(o.ids) /\ Len(o.ids) <= o.total
    BY <1>2 DEF Stands
  <2>2. o.ids \in Seq(Talk!Record) /\ o.total \in Nat /\ o.shown \in Nat /\ o.shown > 0
          /\ o.ids # <<>>
    BY <2>1 DEF Offer
  <2>3. Talk!Lesser(o.shown, Len(o.ids)) = o.shown /\ Talk!Greater(o.total, Len(o.ids)) = o.total
    BY <2>1, <2>2 DEF Talk!Lesser, Talk!Greater
  <2>4. [o EXCEPT !.shown = Talk!Lesser(o.shown, Len(o.ids)), !.total = Talk!Greater(o.total, Len(o.ids))] = o
    BY <2>1, <2>3 DEF Offer
  <2> QED BY <2>2, <2>4 DEF Talk!Parsed
<1> QED BY <1>1, <1>2

\* Nothing is offered, and nothing can be wrong with it.
LEMMA NoOfferIs ==
  Stands(Talk!NoOffer) /\ Sound(Talk!NoOffer)
BY DEF Stands, Sound, Agrees, Printed, Honest, Talk!NoOffer

\* The offer a request reads is the row's, or none.
LEMMA ReadIs ==
  ASSUME Remembered, NEW o \in {Talk!FreshOffer, Talk!NoOffer}
  PROVE  /\ Stands(o) /\ Sound(o)
         /\ o \in Offer
<1>1. Talk!FreshOffer = row.offer \/ Talk!FreshOffer = Talk!NoOffer
  BY ParsedIs DEF Talk!FreshOffer, Remembered
<1>2. Stands(o) /\ Sound(o)
  BY <1>1, NoOfferIs DEF Remembered
<1>3. Talk!NoOffer \in Offer
  BY DEF Talk!NoOffer, Offer
<1> QED BY <1>2, <1>3 DEF Stands

\* A request that has begun holds an offer, and all that goes with it.
LEMMA BusyIs ==
  ASSUME TalkTyped, Remembered, NEW t \in Request, turn[t] # Talk!Idle
  PROVE  /\ turn[t] \in Talk!Busy /\ turn[t].offer \in Offer
         /\ Stands(turn[t].offer) /\ Sound(turn[t].offer)
         /\ doubt = {} => turn[t].meant = IF turn[t].msg.n \in DOMAIN screen
                                          THEN screen[turn[t].msg.n] ELSE Talk!None
<1>1. turn[t] \in Talk!Busy
  BY DEF TalkTyped
<1>2. turn[t].offer \in Offer
  BY <1>1 DEF Talk!Busy, Offer
<1> QED BY <1>1, <1>2 DEF Remembered, TurnTrue

\* A message that arrives holds the offer that it read.
LEMMA SendRemembered ==
  ASSUME TalkTyped, Remembered, NEW t \in Request, NEW m \in Talk!Message, Talk!Send(t, m)
  PROVE  Remembered'
<1>1. PICK o \in {Talk!FreshOffer, Talk!NoOffer} :
        turn' = [turn EXCEPT ![t] =
            [step |-> "asked", msg |-> m, offer |-> o, question |-> Talk!None,
             meant |-> IF m.n \in DOMAIN screen THEN screen[m.n] ELSE Talk!None]]
  BY DEF Talk!Send
<1>2. Stands(o) /\ Sound(o)
  BY <1>1, ReadIs
<1>3. UNCHANGED <<exists, topic, screen, named, doubt, counted, row>>
  BY DEF Talk!Send, Talk!recordVars, Talk!listVars
<1>4. ASSUME NEW x, Sound(x) PROVE Sound(x)'
  BY <1>3, <1>4 DEF Sound, Agrees, Printed, Honest, Talk!Pages, Talk!SameStart, Talk!Stored,
     Talk!Matched, Talk!Alive
<1>5. Stands(row.offer)' /\ Sound(row.offer)'
  <2>1. PICK x : x = row.offer
    OBVIOUS
  <2>2. row'.offer = x /\ Stands(x) /\ Sound(x)'
    BY <2>1, <1>3, <1>4 DEF Remembered
  <2> QED BY <2>2 DEF Stands, Sound, Agrees, Printed, Honest
<1>6. ASSUME NEW u \in Request PROVE TurnTrue(turn[u])'
  <2>1. CASE u = t
    <3>1. PICK y : y = turn'[u]
      OBVIOUS
    <3>2. y = [step |-> "asked", msg |-> m, offer |-> o, question |-> Talk!None,
               meant |-> IF m.n \in DOMAIN screen THEN screen[m.n] ELSE Talk!None]
      BY <3>1, <2>1, <1>1 DEF TalkTyped
    <3>3. y.offer = o /\ y.msg = m
          /\ y.meant = IF m.n \in DOMAIN screen THEN screen[m.n] ELSE Talk!None
      BY <3>2
    <3>4. Sound(y.offer)'
      BY <3>3, <1>2, <1>4 DEF Sound, Agrees, Printed, Honest
    <3>5. TurnTrue(y)'
      BY <3>3, <3>4, <1>2, <1>3 DEF TurnTrue, Stands
    <3> QED BY <3>1, <3>5 DEF TurnTrue, Stands, Sound, Agrees, Printed, Honest
  <2>2. CASE u # t
    <3>1. PICK y : y = turn[u]
      OBVIOUS
    <3>2. turn'[u] = y /\ TurnTrue(y)
      BY <3>1, <2>2, <1>1 DEF TalkTyped, Remembered
    <3>3. y # Talk!Idle => Stands(y.offer) /\ Sound(y.offer)'
      BY <3>2, <1>4 DEF TurnTrue
    <3>4. y # Talk!Idle /\ doubt' = {} =>
            y.meant = IF y.msg.n \in DOMAIN screen' THEN screen'[y.msg.n] ELSE Talk!None
      BY <3>2, <1>3 DEF TurnTrue
    <3>5. TurnTrue(y)'
      BY <3>3, <3>4 DEF TurnTrue, Stands
    <3> QED BY <3>2, <3>5 DEF TurnTrue, Stands, Sound, Agrees, Printed, Honest
  <2> QED BY <2>1, <2>2
<1> QED BY <1>5, <1>6 DEF Remembered

\* So do the steps that print nothing.
LEMMA StepRemembered ==
  ASSUME TalkTyped, Remembered, NEW t \in Request,
         Talk!Pick(t) \/ Talk!Decline(t) \/ Talk!Peek(t) \/ Talk!Take(t) \/ Talk!FallThrough(t)
           \/ Talk!Plain(t) \/ Talk!Propose(t)
  PROVE  Remembered'
<1>1. UNCHANGED <<exists, topic, screen, named, doubt, counted>>
  BY DEF Talk!Pick, Talk!Decline, Talk!Peek, Talk!Take, Talk!FallThrough, Talk!Plain,
     Talk!Propose, Talk!recordVars, Talk!listVars
<1>2. turn[t] # Talk!Idle
  BY DEF Talk!Pick, Talk!Decline, Talk!Peek, Talk!Take, Talk!FallThrough, Talk!Plain,
     Talk!Propose, Talk!Asked, Talk!Idle
<1>3. turn \in [Request -> Talk!Busy \cup {Talk!Idle}] /\ turn[t] \in Talk!Busy
  BY <1>2 DEF TalkTyped
<1>4. \/ turn' = [turn EXCEPT ![t] = Talk!Idle]
      \/ \E step \in {"asked", "peeked", "untaken", "pipeline"} :
           \/ turn' = [turn EXCEPT ![t].step = step]
           \/ \E question \in Talk!Proposal \cup {Talk!None} :
                turn' = [turn EXCEPT ![t].step = step, ![t].question = question]
  <2>1. CASE Talk!Peek(t)
    <3>1. (IF proposal.age <= PickWindow THEN proposal.id ELSE Talk!None) \in Talk!Proposal \cup {Talk!None}
      BY DEF TalkTyped
    <3> QED BY <3>1, <2>1 DEF Talk!Peek
  <2>2. CASE Talk!Take(t)
    BY <2>2 DEF Talk!Take, Talk!Pipeline
  <2>3. CASE Talk!FallThrough(t)
    BY <2>3 DEF Talk!FallThrough, Talk!Pipeline
  <2>4. CASE Talk!Pick(t) \/ Talk!Decline(t) \/ Talk!Plain(t) \/ Talk!Propose(t)
    BY <2>4 DEF Talk!Pick, Talk!Decline, Talk!Plain, Talk!Propose, Talk!Done
  <2> QED BY <2>1, <2>2, <2>3, <2>4
<1>5. \A u \in Request : \/ turn'[u] = Talk!Idle
                         \/ /\ turn[u] # Talk!Idle /\ turn'[u].offer = turn[u].offer
                            /\ turn'[u].meant = turn[u].meant /\ turn'[u].msg = turn[u].msg
  <2>1. CASE turn' = [turn EXCEPT ![t] = Talk!Idle]
    <3>1. ASSUME NEW u \in Request PROVE turn'[u] = Talk!Idle \/ (turn[u] # Talk!Idle
                   /\ turn'[u] = turn[u])
      BY <2>1, <1>3
    <3> QED BY <3>1
  <2>2. CASE turn' # [turn EXCEPT ![t] = Talk!Idle]
    <3>1. PICK step \in {"asked", "peeked", "untaken", "pipeline"} :
           \/ turn' = [turn EXCEPT ![t].step = step]
           \/ \E question \in Talk!Proposal \cup {Talk!None} :
                turn' = [turn EXCEPT ![t].step = step, ![t].question = question]
      BY <2>2, <1>4
    <3>2. PICK question \in Talk!Proposal \cup {Talk!None} :
            \/ turn' = [turn EXCEPT ![t].step = step, ![t].question = question]
            \/ turn' = [turn EXCEPT ![t].step = step] /\ question = turn[t].question
      BY <3>1, <1>3 DEF Talk!Busy
    <3>3. PICK next : next = turn'
      OBVIOUS
    <3>4. Advance(next, t, step, question)
      BY <3>2, <3>3 DEF Advance
    <3>5. /\ \A u \in Request \ {t} : next[u] = turn[u]
          /\ next[t].offer = turn[t].offer /\ next[t].meant = turn[t].meant
          /\ next[t].msg = turn[t].msg
      <4>1. TalkTyped /\ t \in Request /\ step \in {"asked", "peeked", "untaken", "pipeline"}
            /\ question \in Talk!Proposal \cup {Talk!None}
        OBVIOUS
      <4> QED BY ONLY <4>1, <3>4, <1>2, Advanced
    <3>6. ASSUME NEW u \in Request
          PROVE  \/ turn'[u] = Talk!Idle
                 \/ /\ turn[u] # Talk!Idle /\ turn'[u].offer = turn[u].offer
                    /\ turn'[u].meant = turn[u].meant /\ turn'[u].msg = turn[u].msg
      BY <3>3, <3>5, <1>2
    <3> QED BY <3>6
  <2> QED BY <2>1, <2>2
<1>6. \E o : row'.offer = o /\ Stands(o) /\ Sound(o)
  <2>1. row'.offer = row.offer \/ row'.offer = turn[t].offer
    <3>1. Talk!Pick(t) => row'.offer = row.offer \/ row'.offer = turn[t].offer
      BY DEF Talk!Pick
    <3>2. ~ Talk!Pick(t) => row' = row
      BY DEF Talk!Decline, Talk!Peek, Talk!Take, Talk!FallThrough, Talk!Plain, Talk!Propose,
         Talk!listVars
    <3> QED BY <3>1, <3>2
  <2>2. Stands(row.offer) /\ Sound(row.offer)
    BY DEF Remembered
  <2>3. Stands(turn[t].offer) /\ Sound(turn[t].offer)
    BY <1>2, BusyIs
  <2> QED BY <2>1, <2>2, <2>3
<1>7. PICK o : row'.offer = o /\ Stands(o) /\ Sound(o)
  BY <1>6
<1> QED BY <1>1, <1>5, <1>7, QuietKeeps

\* Time keeps it too, and an edit: the count of a list is not trusted after one.
LEMMA TimeRemembered ==
  ASSUME TalkTyped, Remembered, Talk!Tick
  PROVE  Remembered'
<1>1. row'.offer = row.offer
  BY DEF Talk!Tick, Talk!Older, TalkTyped
<1>2. UNCHANGED <<exists, topic, screen, named, doubt, counted, turn>>
  BY DEF Talk!Tick, Talk!recordVars
<1>3. \A u \in Request : turn'[u] = Talk!Idle \/ (turn[u] # Talk!Idle /\ turn'[u] = turn[u])
  BY <1>2
<1>4. PICK o : o = row.offer
  OBVIOUS
<1>5. row'.offer = o /\ Stands(o) /\ Sound(o)
  BY <1>1, <1>4 DEF Remembered
<1> QED BY <1>2, <1>3, <1>5, QuietKeeps

LEMMA EditRemembered ==
  ASSUME Remembered, NEW e, NEW p, Talk!Edit(e, p)
  PROVE  Remembered'
<1>1. UNCHANGED <<row, turn, screen, named, doubt>> /\ counted' = "edited"
  BY DEF Talk!Edit
<1>2. ASSUME NEW x, Sound(x) PROVE Sound(x)'
  BY <1>1, <1>2 DEF Sound, Agrees, Printed
<1>3. Stands(row.offer)' /\ Sound(row.offer)'
  <2>1. PICK x : x = row.offer
    OBVIOUS
  <2>2. row'.offer = x /\ Stands(x) /\ Sound(x)'
    BY <2>1, <1>1, <1>2 DEF Remembered
  <2> QED BY <2>2 DEF Stands, Sound, Agrees, Printed, Honest
<1>4. ASSUME NEW u \in Request PROVE TurnTrue(turn[u])'
  <2>1. PICK y : y = turn[u]
    OBVIOUS
  <2>2. turn'[u] = y /\ TurnTrue(y)
    BY <2>1, <1>1 DEF Remembered
  <2>3. y # Talk!Idle => Stands(y.offer) /\ Sound(y.offer)'
    BY <2>2, <1>2 DEF TurnTrue
  <2>4. y # Talk!Idle /\ doubt' = {} =>
          y.meant = IF y.msg.n \in DOMAIN screen' THEN screen'[y.msg.n] ELSE Talk!None
    BY <2>2, <1>1 DEF TurnTrue
  <2>5. TurnTrue(y)'
    BY <2>3, <2>4 DEF TurnTrue, Stands
  <2> QED BY <2>2, <2>5 DEF TurnTrue, Stands, Sound, Agrees, Printed, Honest
<1> QED BY <1>3, <1>4 DEF Remembered

\* A request that prints leaves what is remembered as true as it was: the next page, the list
\* shown again, the list of the topic, the model's choice.
LEMMA MoreRemembered ==
  ASSUME Talk!DialogueAssumption, TalkTyped, Remembered, NEW t \in Request, Talk!More(t)
  PROVE  /\ Remembered'
         /\ Prints(t)
<1>0. turn[t] # Talk!Idle
  BY DEF Talk!More, Talk!Asked, Talk!Idle
<1>1. PICK o : o = turn[t].offer
  OBVIOUS
<1>2. o \in Offer /\ Stands(o) /\ Sound(o) /\ o.q \in BOOLEAN
  <2>1. turn[t].offer \in Offer /\ Stands(turn[t].offer) /\ Sound(turn[t].offer)
    BY <1>0, BusyIs
  <2> QED BY <2>1, <1>1 DEF Offer
<1>3. PICK all : all = Talk!Pages(o)
  OBVIOUS
<1>4. o.shown < o.total /\ Len(all.entries) >= all.next
  BY <1>1, <1>3 DEF Talk!More, Talk!HasMore
<1>5. o # Talk!NoOffer
  BY <1>4 DEF Talk!NoOffer
<1>6. /\ all.entries \in Seq(Talk!Record) /\ Len(all.entries) <= Records
      /\ all.total \in Nat /\ Len(all.entries) <= all.total
      /\ all.next \in 1..(o.shown + 1) /\ all.next - 1 <= Len(all.entries)
      /\ \A i \in 1..Len(all.entries) : all.entries[i] \in exists
      /\ \A i \in 1..(all.next - 1) : \E j \in 1..o.shown : all.entries[i] = o.ids[j]
      /\ all.next > o.shown => \A i \in 1..(all.next - 1) : all.entries[i] = o.ids[i]
      /\ Len(all.entries) >= all.next =>
           (o.q /\ all.entries = Talk!Matched) \/ Len(all.entries) <= OfferMax
  <2>1. Talk!DialogueAssumption /\ TalkTyped
    OBVIOUS
  <2> QED BY ONLY <2>1, <1>2, <1>3, <1>5, PagesIs
<1>7. PICK E \in Seq(Talk!Record) : E = all.entries
  BY <1>6
<1>8. PICK start : start = all.next
  OBVIOUS
<1>9. start \in 1..Len(E) /\ o.shown \in Nat
  BY <1>2, <1>4, <1>6, <1>7, <1>8 DEF Offer
<1>10. PICK total : total = Len(E)
  OBVIOUS
<1>11. Talk!Lesser(all.total, Len(all.entries)) = total /\ total \in Nat
  BY <1>6, <1>7, <1>10 DEF Talk!Lesser
<1>12. PICK why : why = IF start <= o.shown THEN {"renumbered"} ELSE {}
  OBVIOUS
<1>13. Talk!Show(t, Talk!Render(E, start, total, o.q), why) /\ Talk!Counts("page")
       /\ UNCHANGED <<exists, topic>>
  BY <1>1, <1>3, <1>7, <1>8, <1>11, <1>12 DEF Talk!More, Talk!recordVars
<1>14. Follows(E, start, why)
  <2>1. ASSUME doubt \subseteq {"renumbered"}, NEW i \in 1..(start - 1) PROVE E[i] \in named
    <3>1. PICK j \in 1..o.shown : E[i] = o.ids[j]
      BY <1>6, <1>7, <1>8
    <3> QED BY <3>1, <2>1, <1>2 DEF Sound, Printed
  <2>2. ASSUME doubt = {}, why = {}, NEW i \in 1..(start - 1)
        PROVE  i \in DOMAIN screen /\ screen[i] = E[i]
    <3>1. start > o.shown
      BY <2>2, <1>12, <1>9
    <3>2. E[i] = o.ids[i] /\ i \in 1..o.shown
      BY <3>1, <1>6, <1>7, <1>8, <1>9
    <3> QED BY <3>2, <2>2, <1>2 DEF Sound, Agrees
  <2> QED BY <2>1, <2>2 DEF Follows
<1>15. /\ \A i \in 1..Len(E) : E[i] \in exists
       /\ Len(E) <= Records /\ Len(E) <= total
       /\ (o.q /\ E = Talk!Matched) \/ Len(E) <= OfferMax
  BY <1>4, <1>6, <1>7, <1>10
<1>16. (\A u \in Request : TurnTrue(turn[u])) /\ Stands(row.offer)
  BY DEF Remembered
<1>17. why \in SUBSET {"renumbered"}
  BY <1>12
<1>18. Remembered'
  <2>1. /\ Stands(row.offer)' /\ Sound(row.offer)'
        /\ (\A u \in Request : TurnTrue(turn[u]))'
    <3>1. Talk!DialogueAssumption /\ TalkTyped /\ t \in Request /\ E \in Seq(Talk!Record)
      OBVIOUS
    <3>2. PICK as : as = "page"
      OBVIOUS
    <3>3. as \in {"page", "again"} /\ Talk!Counts(as)
          /\ (as = "page" => /\ total = Len(E)
                             /\ \/ o.q /\ E = Talk!Matched
                                \/ Len(E) <= OfferMax
                                \/ Len(E) <= start + PageSize - 1)
      BY <3>2, <1>10, <1>13, <1>15
    <3> QED BY ONLY <3>1, <3>3, <1>2, <1>9, <1>11, <1>13, <1>14, <1>15, <1>16, <1>17, ShowKeeps
  <2> QED BY <2>1 DEF Remembered
<1>19. Prints(t)
  BY <1>2, <1>9, <1>11, <1>13, <1>15, <1>17 DEF Prints
<1> QED BY <1>18, <1>19

LEMMA AgainRemembered ==
  ASSUME Talk!DialogueAssumption, TalkTyped, Remembered, NEW t \in Request, Talk!Again(t)
  PROVE  /\ Remembered'
         /\ Prints(t)
<1>0. turn[t] # Talk!Idle
  BY DEF Talk!Again, Talk!Idle
<1>1. PICK o : o = turn[t].offer
  OBVIOUS
<1>2. o \in Offer /\ Stands(o) /\ o.q \in BOOLEAN /\ o.total \in Nat /\ o.ids \in Seq(Talk!Record)
      /\ o.shown \in Nat
  <2>1. turn[t].offer \in Offer /\ Stands(turn[t].offer)
    BY <1>0, BusyIs
  <2> QED BY <2>1, <1>1 DEF Offer
<1>3. PICK s \in Seq(Talk!Record) : s = Talk!First(o.ids, o.shown) /\ Len(s) <= Len(o.ids)
  <2>1. Talk!First(o.ids, o.shown) \in Seq(Talk!Record)
        /\ Len(Talk!First(o.ids, o.shown)) = Talk!Lesser(o.shown, Len(o.ids))
    BY ONLY <1>2, FirstIs
  <2>2. Talk!Lesser(o.shown, Len(o.ids)) <= Len(o.ids)
    BY <1>2 DEF Talk!Lesser
  <2> QED BY <2>1, <2>2
<1>4. PICK E : E = Talk!Kept(s, exists)
  OBVIOUS
<1>5. E = Talk!Left(t)
  BY <1>1, <1>3, <1>4 DEF Talk!Left, Talk!Alive
<1>6. KeptOf(E, s, exists, Len(s))
  BY <1>4, KeptIs
<1>7. E \in Seq(Talk!Record) /\ Len(E) <= Len(o.ids) /\ \A i \in 1..Len(E) : E[i] \in exists
  BY <1>2, <1>3, <1>6 DEF KeptOf
<1>8. E # <<>>
  BY <1>5 DEF Talk!Again
<1>9. 1 \in 1..Len(E)
  BY <1>7, <1>8
<1>10. o # Talk!NoOffer
  <2>1. o = Talk!NoOffer => Len(o.ids) = 0
    BY DEF Talk!NoOffer
  <2> QED BY <2>1, <1>7, <1>9
<1>11. Len(E) <= Records /\ Len(E) <= o.total
  <2>1. Len(o.ids) <= Records /\ Len(o.ids) <= o.total
    BY <1>2, <1>10 DEF Stands
  <2> QED BY <2>1, <1>2, <1>7 DEF Talk!DialogueAssumption
<1>12. Talk!Show(t, Talk!Render(E, 1, o.total, o.q), {}) /\ Talk!Counts("again")
         /\ UNCHANGED <<exists, topic>>
  BY <1>1, <1>5 DEF Talk!Again, Talk!recordVars
<1>13. Follows(E, 1, {})
  BY DEF Follows
<1>14. (\A u \in Request : TurnTrue(turn[u])) /\ Stands(row.offer)
  BY DEF Remembered
<1>15. Remembered'
  <2>1. /\ Stands(row.offer)' /\ Sound(row.offer)'
        /\ (\A u \in Request : TurnTrue(turn[u]))'
    <3>1. Talk!DialogueAssumption /\ TalkTyped /\ t \in Request /\ {} \subseteq {"renumbered"}
      OBVIOUS
    <3>2. PICK as : as = "again"
      OBVIOUS
    <3>3. as \in {"page", "again"} /\ Talk!Counts(as)
          /\ (as = "page" => /\ o.total = Len(E)
                             /\ \/ o.q /\ E = Talk!Matched
                                \/ Len(E) <= OfferMax
                                \/ Len(E) <= 1 + PageSize - 1)
      BY <3>2, <1>12
    <3> QED BY ONLY <3>1, <3>3, <1>2, <1>7, <1>9, <1>11, <1>12, <1>13, <1>14, ShowKeeps
  <2> QED BY <2>1 DEF Remembered
<1>16. {} \in SUBSET {"renumbered"}
  OBVIOUS
<1>17. Prints(t)
  BY <1>2, <1>7, <1>9, <1>11, <1>12, <1>16 DEF Prints
<1> QED BY <1>15, <1>17

LEMMA ListRemembered ==
  ASSUME Talk!DialogueAssumption, TalkTyped, Remembered, NEW t \in Request, Talk!List(t)
  PROVE  /\ Remembered'
         /\ Prints(t)
<1>1. PICK E : E = Talk!Matched
  OBVIOUS
<1>2. E \in Seq(Talk!Record) /\ Len(E) <= Records /\ Len(E) > 0
      /\ \A i \in 1..Len(E) : E[i] \in exists
  <2>1. topic # {} /\ Records \in Nat
    BY DEF Talk!List, Talk!DialogueAssumption
  <2> QED BY <2>1, <1>1, MatchedIs
<1>3. 1 \in 1..Len(E) /\ Len(E) \in Nat /\ Len(E) <= Len(E)
  BY <1>2
<1>4. Talk!Show(t, Talk!Render(E, 1, Len(E), TRUE), {}) /\ Talk!Counts("page")
        /\ UNCHANGED <<exists, topic>>
  BY <1>1 DEF Talk!List, Talk!recordVars
<1>5. Follows(E, 1, {})
  BY DEF Follows
<1>6. (\A u \in Request : TurnTrue(turn[u])) /\ Stands(row.offer)
  BY DEF Remembered
<1>7. Remembered'
  <2>1. /\ Stands(row.offer)' /\ Sound(row.offer)'
        /\ (\A u \in Request : TurnTrue(turn[u]))'
    <3>1. Talk!DialogueAssumption /\ TalkTyped /\ t \in Request /\ {} \subseteq {"renumbered"}
          /\ TRUE \in BOOLEAN
      OBVIOUS
    <3>2. PICK as : as = "page"
      OBVIOUS
    <3>3. PICK q : q = TRUE
      OBVIOUS
    <3>4. as \in {"page", "again"} /\ Talk!Counts(as) /\ q \in BOOLEAN
          /\ (as = "page" => /\ Len(E) = Len(E)
                             /\ \/ q /\ E = Talk!Matched
                                \/ Len(E) <= OfferMax
                                \/ Len(E) <= 1 + PageSize - 1)
          /\ Talk!Show(t, Talk!Render(E, 1, Len(E), q), {})
      BY <3>2, <3>3, <1>1, <1>4
    <3> QED BY ONLY <3>1, <3>4, <1>2, <1>3, <1>4, <1>5, <1>6, ShowKeeps
  <2> QED BY <2>1 DEF Remembered
<1>8. PICK q \in BOOLEAN : q = TRUE
  OBVIOUS
<1>9. Talk!Show(t, Talk!Render(E, 1, Len(E), q), {}) /\ Talk!Counts("page")
        /\ {} \in SUBSET {"renumbered"}
  BY <1>4, <1>8
<1>10. Prints(t)
  BY <1>2, <1>3, <1>9 DEF Prints
<1> QED BY <1>7, <1>10

LEMMA ChooseRemembered ==
  ASSUME Talk!DialogueAssumption, TalkTyped, Remembered, NEW t \in Request, Talk!Choose(t)
  PROVE  /\ Remembered'
         /\ Prints(t)
<1>1. PICK a \in exists, b \in exists :
        a # b /\ Talk!Show(t, Talk!Render(<<a, b>>, 1, 2, FALSE), {})
  BY DEF Talk!Choose
<1>2. PICK E : E = <<a, b>>
  OBVIOUS
<1>3. a \in 1..Records /\ b \in 1..Records /\ Records \in Nat
  BY DEF TalkTyped, Talk!Record, Talk!DialogueAssumption
<1>4. Records >= 2
  BY <1>1, <1>3
<1>5. E \in Seq(Talk!Record) /\ Len(E) = 2 /\ \A i \in 1..2 : E[i] \in exists
  BY <1>2, <1>3 DEF Talk!Record
<1>6. 1 \in 1..Len(E) /\ Len(E) <= Records /\ 2 \in Nat /\ Len(E) <= 2
      /\ \A i \in 1..Len(E) : E[i] \in exists
  BY <1>4, <1>5
<1>7. Talk!Show(t, Talk!Render(E, 1, 2, FALSE), {}) /\ Talk!Counts("page")
        /\ UNCHANGED <<exists, topic>>
  BY <1>1, <1>2 DEF Talk!Choose, Talk!recordVars
<1>8. Follows(E, 1, {})
  BY DEF Follows
<1>9. (\A u \in Request : TurnTrue(turn[u])) /\ Stands(row.offer)
  BY DEF Remembered
<1>10. Len(E) <= 1 + PageSize - 1
  BY <1>5 DEF Talk!DialogueAssumption
<1>11. Remembered'
  <2>1. /\ Stands(row.offer)' /\ Sound(row.offer)'
        /\ (\A u \in Request : TurnTrue(turn[u]))'
    <3>1. Talk!DialogueAssumption /\ TalkTyped /\ t \in Request /\ {} \subseteq {"renumbered"}
          /\ FALSE \in BOOLEAN
      OBVIOUS
    <3>2. PICK as : as = "page"
      OBVIOUS
    <3>3. PICK q : q = FALSE
      OBVIOUS
    <3>4. as \in {"page", "again"} /\ Talk!Counts(as) /\ q \in BOOLEAN
          /\ (as = "page" => /\ 2 = Len(E)
                             /\ \/ q /\ E = Talk!Matched
                                \/ Len(E) <= OfferMax
                                \/ Len(E) <= 1 + PageSize - 1)
          /\ Talk!Show(t, Talk!Render(E, 1, 2, q), {})
      BY <3>2, <3>3, <1>5, <1>7, <1>10
    <3> QED BY ONLY <3>1, <3>4, <1>5, <1>6, <1>7, <1>8, <1>9, ShowKeeps
  <2> QED BY <2>1 DEF Remembered
<1>12. PICK q \in BOOLEAN : q = FALSE
  OBVIOUS
<1>13. Talk!Show(t, Talk!Render(E, 1, 2, q), {}) /\ Talk!Counts("page")
         /\ {} \in SUBSET {"renumbered"}
  BY <1>7, <1>12
<1>14. Prints(t)
  BY <1>5, <1>6, <1>13 DEF Prints
<1> QED BY <1>11, <1>14

-------------------------------------------------------------------------------
(* The types, the questions, and the pick.                                   *)

\* The types of what a request that prints changes, and of what it leaves alone.
LEMMA PrintsTyped ==
  ASSUME Talk!DialogueAssumption, TalkTyped, NEW t \in Request, Prints(t),
         answer' = Talk!NoPick, UNCHANGED <<Talk!recordVars, Talk!proposalVars>>
  PROVE  TalkTyped'
<1>1. /\ row'.age \in 0..(PickWindow + 1) /\ row' = [offer |-> row'.offer, age |-> row'.age]
      /\ turn' \in [Request -> Talk!Busy \cup {Talk!Idle}]
      /\ screen' \in [DOMAIN screen' -> Talk!Record] /\ DOMAIN screen' \subseteq Talk!Record
      /\ named' \subseteq Talk!Record
      /\ doubt' \subseteq {"unlogged", "crossed", "renumbered"}
      /\ counted' \in {"page", "again", "edited"} /\ slips' \in 0..MaxSlip
  <2>1. PICK E \in Seq(Talk!Record), total \in Nat, q \in BOOLEAN, why \in SUBSET {"renumbered"},
             as \in {"page", "again"} : \E start \in 1..Len(E) :
               /\ Len(E) <= Records /\ Len(E) <= total
               /\ Talk!Show(t, Talk!Render(E, start, total, q), why) /\ Talk!Counts(as)
    BY DEF Prints
  <2>2. PICK start \in 1..Len(E) :
               /\ Len(E) <= Records /\ Len(E) <= total
               /\ Talk!Show(t, Talk!Render(E, start, total, q), why) /\ Talk!Counts(as)
    BY <2>1
  <2>3. Talk!DialogueAssumption /\ TalkTyped /\ t \in Request /\ why \subseteq {"renumbered"}
    OBVIOUS
  <2> QED BY ONLY <2>2, <2>3, ShowTypes, E \in Seq(Talk!Record), total \in Nat, q \in BOOLEAN,
                  as \in {"page", "again"}, start \in 1..Len(E)
<1>2. answer'.meant = Talk!None /\ answer'.gave = Talk!None /\ answer'.doubt = {}
  BY DEF Talk!NoPick
<1>3. UNCHANGED <<exists, topic, edits, proposal, replays, asked, reread>>
  BY DEF Talk!recordVars, Talk!proposalVars
<1> QED BY <1>1, <1>2, <1>3 DEF TalkTyped

LEMMA StepTyped ==
  ASSUME Talk!DialogueAssumption, TalkTyped, Remembered, NEW t \in Request,
         \/ \E m \in Talk!Message : Talk!Send(t, m)
         \/ Talk!Pick(t) \/ Talk!Decline(t) \/ Talk!Peek(t) \/ Talk!Take(t)
              \/ Talk!FallThrough(t) \/ Talk!Plain(t) \/ Talk!Propose(t)
  PROVE  TalkTyped'
<1>0. PickWindow \in Nat /\ MaxSlip \in Nat /\ MaxProposal \in Nat
  BY DEF Talk!DialogueAssumption
<1>1. slips' \in 0..MaxSlip
  <2>1. slips' = slips \/ (slips < MaxSlip /\ slips' = slips + 1)
    BY DEF Talk!Send, Talk!Pick, Talk!Decline, Talk!Peek, Talk!Take, Talk!FallThrough,
       Talk!Plain, Talk!Propose, Talk!Fault
  <2> QED BY <2>1, <1>0 DEF TalkTyped
<1>2. /\ UNCHANGED <<exists, topic, edits, screen, named, doubt, counted>>
  BY DEF Talk!Send, Talk!Pick, Talk!Decline, Talk!Peek, Talk!Take, Talk!FallThrough, Talk!Plain,
     Talk!Propose, Talk!recordVars, Talk!listVars
<1>3. turn' \in [Request -> Talk!Busy \cup {Talk!Idle}]
  <2>0. turn \in [Request -> Talk!Busy \cup {Talk!Idle}]
          /\ proposal.id \in Talk!Proposal \cup {Talk!None}
    BY DEF TalkTyped
  <2>1. CASE \E m \in Talk!Message : Talk!Send(t, m)
    <3>1. PICK m \in Talk!Message : Talk!Send(t, m)
      BY <2>1
    <3>2. PICK o \in {Talk!FreshOffer, Talk!NoOffer} :
        turn' = [turn EXCEPT ![t] =
            [step |-> "asked", msg |-> m, offer |-> o, question |-> Talk!None,
             meant |-> IF m.n \in DOMAIN screen THEN screen[m.n] ELSE Talk!None]]
      BY <3>1 DEF Talk!Send
    <3>3. o \in Offer
      BY ReadIs
    <3>4. (IF m.n \in DOMAIN screen THEN screen[m.n] ELSE Talk!None) \in Talk!Record \cup {Talk!None}
      BY DEF TalkTyped
    <3>5. PICK y : y = [step |-> "asked", msg |-> m, offer |-> o, question |-> Talk!None,
             meant |-> IF m.n \in DOMAIN screen THEN screen[m.n] ELSE Talk!None]
      OBVIOUS
    <3>6. y \in Talk!Busy
      BY <3>3, <3>4, <3>5 DEF Talk!Busy, Offer
    <3> QED BY <3>2, <3>5, <3>6, <2>0
  <2>2. CASE turn' = [turn EXCEPT ![t] = Talk!Idle]
    BY <2>2, <2>0
  <2>3. CASE /\ turn[t] # Talk!Idle
             /\ \E step \in {"asked", "peeked", "untaken", "pipeline"},
                   question \in Talk!Proposal \cup {Talk!None} : Advance(turn', t, step, question)
    <3>1. PICK step \in {"asked", "peeked", "untaken", "pipeline"},
               question \in Talk!Proposal \cup {Talk!None} : Advance(turn', t, step, question)
      BY <2>3
    <3>2. PICK next : next = turn'
      OBVIOUS
    <3>3. Advance(next, t, step, question) /\ TalkTyped /\ t \in Request /\ turn[t] # Talk!Idle
      BY <3>1, <3>2, <2>3
    <3>4. next \in [Request -> Talk!Busy \cup {Talk!Idle}]
      BY ONLY <3>3, Advanced, step \in {"asked", "peeked", "untaken", "pipeline"},
              question \in Talk!Proposal \cup {Talk!None}
    <3> QED BY <3>2, <3>4
  <2>4. CASE Talk!Peek(t) \/ Talk!Take(t) \/ Talk!FallThrough(t)
    <3>1. turn[t] # Talk!Idle
      BY <2>4 DEF Talk!Peek, Talk!Take, Talk!FallThrough, Talk!Asked, Talk!Idle
    <3>2. turn[t].question \in Talk!Proposal \cup {Talk!None}
      BY <2>0, <3>1 DEF Talk!Busy
    <3>3. \/ \E step \in {"asked", "peeked", "untaken", "pipeline"} :
               turn' = [turn EXCEPT ![t].step = step]
          \/ \E question \in Talk!Proposal \cup {Talk!None} :
               turn' = [turn EXCEPT ![t].step = "peeked", ![t].question = question]
      <4>1. (IF proposal.age <= PickWindow THEN proposal.id ELSE Talk!None) \in Talk!Proposal \cup {Talk!None}
        BY <2>0
      <4>2. CASE Talk!Peek(t)
        BY <4>1, <4>2 DEF Talk!Peek
      <4>3. CASE Talk!Take(t)
        BY <4>3 DEF Talk!Take, Talk!Pipeline
      <4>4. CASE Talk!FallThrough(t)
        BY <4>4 DEF Talk!FallThrough, Talk!Pipeline
      <4> QED BY <2>4, <4>2, <4>3, <4>4
    <3>4. \E step \in {"asked", "peeked", "untaken", "pipeline"},
             question \in Talk!Proposal \cup {Talk!None} : Advance(turn', t, step, question)
      BY <3>2, <3>3 DEF Advance
    <3> QED BY <3>1, <3>4, <2>3
  <2>5. CASE Talk!Pick(t) \/ Talk!Decline(t) \/ Talk!Plain(t) \/ Talk!Propose(t)
    BY <2>2, <2>5 DEF Talk!Pick, Talk!Decline, Talk!Plain, Talk!Propose, Talk!Done
  <2> QED BY <2>1, <2>4, <2>5
<1>4. row'.age \in 0..(PickWindow + 1) /\ row' = [offer |-> row'.offer, age |-> row'.age]
  <2>1. row' = row \/ row' = [offer |-> turn[t].offer, age |-> 0]
    BY DEF Talk!Send, Talk!Pick, Talk!Decline, Talk!Peek, Talk!Take, Talk!FallThrough,
       Talk!Plain, Talk!Propose, Talk!listVars
  <2>2. row.age \in 0..(PickWindow + 1) /\ row = [offer |-> row.offer, age |-> row.age]
    BY DEF TalkTyped
  <2>3. CASE row' = row
    BY <2>2, <2>3
  <2>4. CASE row' = [offer |-> turn[t].offer, age |-> 0]
    <3>1. row'.offer = turn[t].offer /\ row'.age = 0
      BY <2>4
    <3> QED BY <3>1, <2>4, <1>0
  <2> QED BY <2>1, <2>3, <2>4
<1>5. proposal' \in [id : Talk!Proposal \cup {Talk!None}, age : 0..(PickWindow + 1)]
      /\ replays' \in [Talk!Proposal -> Nat] /\ asked' \in 0..MaxProposal /\ reread' \in BOOLEAN
  <2>0. proposal \in [id : Talk!Proposal \cup {Talk!None}, age : 0..(PickWindow + 1)]
        /\ replays \in [Talk!Proposal -> Nat] /\ asked \in 0..MaxProposal /\ reread \in BOOLEAN
    BY DEF TalkTyped
  <2>1. CASE Talk!Peek(t)
    <3>1. UNCHANGED <<proposal, replays, asked>>
      BY <2>1 DEF Talk!Peek
    <3>2. reread' \in BOOLEAN
      BY <2>1, <2>0, Zenon DEF Talk!Peek
    <3> QED BY <2>0, <3>1, <3>2
  <2>2. CASE Talk!Take(t)
    <3>1. asked' = asked /\ reread' \in BOOLEAN
      BY <2>2, <2>0 DEF Talk!Take
    <3>2. [id |-> Talk!None, age |-> 0] \in [id : Talk!Proposal \cup {Talk!None}, age : 0..(PickWindow + 1)]
      BY <1>0
    <3>3. proposal' = proposal \/ proposal' = [id |-> Talk!None, age |-> 0]
      BY <2>2 DEF Talk!Take
    <3>4. turn[t] # Talk!Idle
      BY <2>2 DEF Talk!Take, Talk!Idle
    <3>5. turn[t].question \in Talk!Proposal \cup {Talk!None}
      BY <3>4 DEF TalkTyped, Talk!Busy
    <3>6. replays' \in [Talk!Proposal -> Nat]
      BY <2>2, <3>5, <2>0 DEF Talk!Take
    <3> QED BY <2>0, <3>1, <3>2, <3>3, <3>6
  <2>3. CASE Talk!Propose(t)
    <3>1. asked' = asked + 1 /\ asked < MaxProposal /\ UNCHANGED <<replays, reread>>
      BY <2>3 DEF Talk!Propose
    <3>2. proposal' = proposal \/ proposal' = [id |-> asked + 1, age |-> 0]
      BY <2>3 DEF Talk!Propose
    <3>3. asked + 1 \in Talk!Proposal
      BY <3>1, <2>0, <1>0 DEF Talk!Proposal
    <3>4. [id |-> asked + 1, age |-> 0] \in [id : Talk!Proposal \cup {Talk!None}, age : 0..(PickWindow + 1)]
      BY <3>3, <1>0
    <3> QED BY <2>0, <3>1, <3>2, <3>4, <1>0
  <2>4. CASE ~ (Talk!Peek(t) \/ Talk!Take(t) \/ Talk!Propose(t))
    <3>1. UNCHANGED <<proposal, replays, asked, reread>>
      BY <2>4 DEF Talk!Send, Talk!Pick, Talk!Decline, Talk!FallThrough, Talk!Plain, Talk!proposalVars
    <3> QED BY <2>0, <3>1
  <2> QED BY <2>1, <2>2, <2>3, <2>4
<1>6. answer'.meant \in Talk!Record \cup {Talk!None}
        /\ answer'.gave \in Talk!Record \cup {Talk!None}
      /\ answer'.doubt \subseteq {"unlogged", "crossed", "renumbered"}
  <2>1. CASE Talk!Pick(t)
    <3>1. answer' = [meant |-> turn[t].meant, gave |-> Talk!Picked(t), doubt |-> doubt]
      BY <2>1 DEF Talk!Pick
    <3>2. turn[t] # Talk!Idle
      BY <2>1 DEF Talk!Pick, Talk!Asked, Talk!Idle
    <3>3. turn[t].meant \in Talk!Record \cup {Talk!None}
      BY <3>2 DEF TalkTyped, Talk!Busy
    <3>4. Talk!Picked(t) \in Talk!Record \cup {Talk!None}
      BY DEF Talk!Picked, TalkTyped
    <3>5. doubt \subseteq {"unlogged", "crossed", "renumbered"}
      BY DEF TalkTyped
    <3>6. answer'.meant = turn[t].meant /\ answer'.gave = Talk!Picked(t) /\ answer'.doubt = doubt
      BY <3>1
    <3> QED BY <3>3, <3>4, <3>5, <3>6
  <2>2. CASE ~ Talk!Pick(t)
    <3>1. answer' = Talk!NoPick
      BY <2>2 DEF Talk!Send, Talk!Decline, Talk!Peek, Talk!Take, Talk!FallThrough, Talk!Plain,
         Talk!Propose
    <3>2. answer'.meant = Talk!None /\ answer'.gave = Talk!None /\ answer'.doubt = {}
      BY <3>1 DEF Talk!NoPick
    <3> QED BY <3>2
  <2> QED BY <2>1, <2>2
<1>7. /\ topic' \subseteq exists' /\ exists' \subseteq Talk!Record
      /\ screen' \in [DOMAIN screen' -> Talk!Record] /\ DOMAIN screen' \subseteq Talk!Record
      /\ named' \subseteq Talk!Record /\ doubt' \subseteq {"unlogged", "crossed", "renumbered"}
      /\ counted' \in {"page", "again", "edited"} /\ edits' \in 0..MaxEdit
  BY <1>2 DEF TalkTyped
<1> QED BY <1>1, <1>3, <1>4, <1>5, <1>6, <1>7 DEF TalkTyped

LEMMA EditTyped ==
  ASSUME Talk!DialogueAssumption, TalkTyped, NEW r \in Talk!Record,
         Talk!Delete(r) \/ Talk!TakeIn(r) \/ Talk!TakeOut(r)
  PROVE  TalkTyped'
<1>1. PICK e, p : Talk!Edit(e, p) /\ p \subseteq e /\ e \subseteq Talk!Record
  BY DEF Talk!Delete, Talk!TakeIn, Talk!TakeOut, TalkTyped
<1>2. exists' = e /\ topic' = p /\ edits' = edits + 1 /\ edits < MaxEdit
      /\ counted' = "edited" /\ answer' = Talk!NoPick
      /\ UNCHANGED <<row, proposal, turn, screen, named, replays, asked, doubt, reread, slips>>
  BY <1>1 DEF Talk!Edit
<1>3. answer'.meant = Talk!None /\ answer'.gave = Talk!None /\ answer'.doubt = {}
  BY <1>2 DEF Talk!NoPick
<1>4. edits' \in 0..MaxEdit
  BY <1>2 DEF TalkTyped, Talk!DialogueAssumption
<1> QED BY <1>1, <1>2, <1>3, <1>4 DEF TalkTyped

LEMMA TickTyped ==
  ASSUME Talk!DialogueAssumption, TalkTyped, Talk!Tick
  PROVE  TalkTyped'
<1>0. PickWindow \in Nat
  BY DEF Talk!DialogueAssumption
<1>1. answer' = Talk!NoPick
      /\ UNCHANGED <<exists, topic, edits, turn, screen, named, replays, asked, doubt, reread,
                     counted, slips>>
  BY DEF Talk!Tick, Talk!recordVars
<1>2. answer'.meant = Talk!None /\ answer'.gave = Talk!None /\ answer'.doubt = {}
  BY <1>1 DEF Talk!NoPick
<1>3. row'.age \in 0..(PickWindow + 1) /\ row' = [offer |-> row'.offer, age |-> row'.age]
  <2>1. row.age \in 0..(PickWindow + 1) /\ row = [offer |-> row.offer, age |-> row.age]
    BY DEF TalkTyped
  <2>2. row' = row \/ (row.age <= PickWindow /\ row' = [row EXCEPT !.age = row.age + 1])
    BY DEF Talk!Tick, Talk!Older
  <2>3. PICK o, a : row = [offer |-> o, age |-> a] /\ a \in 0..(PickWindow + 1)
    BY <2>1
  <2>4. row' = [offer |-> o, age |-> a] \/ (a <= PickWindow /\ row' = [offer |-> o, age |-> a + 1])
    BY <2>2, <2>3
  <2> QED BY <2>3, <2>4, <1>0
<1>4. proposal' \in [id : Talk!Proposal \cup {Talk!None}, age : 0..(PickWindow + 1)]
  <2>1. proposal \in [id : Talk!Proposal \cup {Talk!None}, age : 0..(PickWindow + 1)]
    BY DEF TalkTyped
  <2>2. proposal' = proposal
        \/ (proposal.age <= PickWindow /\ proposal' = [proposal EXCEPT !.age = proposal.age + 1])
    BY DEF Talk!Tick, Talk!Older
  <2> QED BY <2>1, <2>2, <1>0
<1> QED BY <1>1, <1>2, <1>3, <1>4 DEF TalkTyped

\* The questions: what a step of a request does with the one in the row, and the one it has read.
Questions == Asking /\ (reread \/ Unreplayed)

LEMMA PeekQuestions ==
  ASSUME TalkTyped, Questions, NEW t \in Request, Talk!Peek(t)
  PROVE  Questions'
<1>0. PICK fresh : fresh = IF proposal.age <= PickWindow THEN proposal.id ELSE Talk!None
  OBVIOUS
<1>1. turn[t] # Talk!Idle /\ turn[t] \in Talk!Busy /\ turn[t].step = "asked"
  BY DEF Talk!Peek, Talk!Asked, Talk!Idle, TalkTyped
<1>2. turn[t].question = Talk!None
  BY <1>1 DEF Questions, Asking
<1>3. fresh \in Talk!Proposal \cup {Talk!None} /\ (fresh # Talk!None
        => fresh = proposal.id) /\ fresh <= asked
      /\ asked \in Nat
  BY <1>0 DEF TalkTyped, Questions, Asking, Talk!None
<1>4. PICK question \in Talk!Proposal \cup {Talk!None} :
        /\ Advance(turn', t, "peeked", question)
        /\ question = Talk!None \/ (question = fresh /\ (~reread'
             => ~reread /\ ~ \E u \in Talk!Others(t) :
              turn[u].step = "peeked" /\ turn[u].question = fresh /\ fresh # Talk!None))
        /\ question = Talk!None => (~reread' => ~reread)
  <2>1. CASE /\ turn' = [turn EXCEPT ![t].step = "peeked", ![t].question = fresh]
             /\ reread' = (reread \/ \E u \in Talk!Others(t) : turn[u].step = "peeked"
                                             /\ turn[u].question = fresh /\ fresh # Talk!None)
    BY <2>1, <1>3 DEF Advance
  <2>2. CASE turn' = [turn EXCEPT ![t].step = "peeked"] /\ UNCHANGED reread
    BY <2>2, <1>2 DEF Advance
  <2> QED BY <2>1, <2>2, <1>0 DEF Talk!Peek
<1>5. PICK next : next = turn'
  OBVIOUS
<1>6. /\ \A u \in Request \ {t} : next[u] = turn[u]
      /\ next[t] # Talk!Idle /\ next[t].step = "peeked" /\ next[t].question = question
  <2>1. TalkTyped /\ t \in Request /\ "peeked" \in {"asked", "peeked", "untaken", "pipeline"}
        /\ question \in Talk!Proposal \cup {Talk!None}
    OBVIOUS
  <2>2. Advance(next, t, "peeked", question) /\ turn[t] # Talk!Idle
    BY <1>1, <1>4, <1>5
  <2> QED BY ONLY <2>1, <2>2, Advanced
<1>7. UNCHANGED <<proposal, replays, asked>>
  BY DEF Talk!Peek
<1>8. Asking'
  <2>1. question <= asked
    BY <1>3, <1>4 DEF Talk!None
  <2>2. ASSUME NEW u \in Request, turn'[u] # Talk!Idle
        PROVE  turn'[u].question <= asked /\ (turn'[u].step = "asked"
                 => turn'[u].question = Talk!None)
    <3>1. CASE u = t
      BY <3>1, <2>1, <1>5, <1>6
    <3>2. CASE u # t
      BY <3>2, <2>2, <1>5, <1>6 DEF Questions, Asking
    <3> QED BY <3>1, <3>2
  <2> QED BY <2>2, <1>7 DEF Asking, Questions
<1>9. ASSUME ~reread' PROVE Unreplayed'
  <2>1. ~reread
    BY <1>9, <1>4
  <2>2. Unreplayed
    BY <2>1 DEF Questions
  <2>3. ASSUME NEW p \in Talk!Proposal
        PROVE  /\ replays[p] <= 1
               /\ proposal.id = p \/ p > asked \/ (\E u \in Request : Peeked(u, p)')
                    => replays[p] = 0
               /\ \A u, w \in Request : Peeked(u, p)' /\ Peeked(w, p)' => u = w
    <3>1. /\ replays[p] <= 1
          /\ proposal.id = p \/ p > asked \/ (\E u \in Request : Peeked(u, p)) => replays[p] = 0
          /\ \A u, w \in Request : Peeked(u, p) /\ Peeked(w, p) => u = w
      BY <2>2 DEF Unreplayed
    <3>2. \A u \in Request \ {t} : Peeked(u, p)' <=> Peeked(u, p)
      BY <1>5, <1>6 DEF Peeked
    <3>3. Peeked(t, p)' => p = question /\ p = fresh /\ p = proposal.id
      BY <1>3, <1>4, <1>5, <1>6 DEF Peeked, Talk!Proposal, Talk!None
    <3>4. Peeked(t, p)' => ~ \E u \in Request \ {t} : Peeked(u, p)
      <4> SUFFICES ASSUME Peeked(t, p)', NEW u \in Request \ {t}, Peeked(u, p) PROVE FALSE
        OBVIOUS
      <4>1. p = fresh /\ p # Talk!None /\ question = fresh
        BY <3>3 DEF Talk!Proposal, Talk!None
      <4>2. u \in Talk!Others(t)
        BY DEF Talk!Others, Peeked, Talk!Idle
      <4>3. turn[u].step = "peeked" /\ turn[u].question = fresh
        BY <4>1 DEF Peeked
      <4> QED BY <4>1, <4>2, <4>3, <1>4, <1>9
    <3>5. proposal.id = p \/ p > asked \/ (\E u \in Request : Peeked(u, p)') => replays[p] = 0
      BY <3>1, <3>2, <3>3
    <3>6. \A u, w \in Request : Peeked(u, p)' /\ Peeked(w, p)' => u = w
      BY <3>1, <3>2, <3>4
    <3> QED BY <3>1, <3>5, <3>6
  <2> QED BY <2>3, <1>7 DEF Unreplayed
<1> QED BY <1>8, <1>9 DEF Questions

LEMMA TakeQuestions ==
  ASSUME TalkTyped, Questions, NEW t \in Request, Talk!Take(t)
  PROVE  Questions'
<1>1. turn[t] # Talk!Idle /\ turn[t] \in Talk!Busy /\ turn[t].step = "peeked"
  BY DEF Talk!Take, Talk!Idle, TalkTyped
<1>2. PICK read : read = turn[t].question /\ read \in Talk!Proposal \cup {Talk!None}
        /\ read <= asked
  BY <1>1 DEF Questions, Asking, Talk!Busy
<1>3. PICK step \in {"untaken", "pipeline"} : turn' = [turn EXCEPT ![t].step = step]
  BY DEF Talk!Take, Talk!Pipeline
<1>4. PICK next : next = turn'
  OBVIOUS
<1>5. /\ \A u \in Request \ {t} : next[u] = turn[u]
      /\ next[t] # Talk!Idle /\ next[t].step = step /\ next[t].question = read
  <2>1. TalkTyped /\ t \in Request /\ step \in {"asked", "peeked", "untaken", "pipeline"}
        /\ read \in Talk!Proposal \cup {Talk!None}
    BY <1>2
  <2>2. Advance(next, t, step, read) /\ turn[t] # Talk!Idle
    BY <1>1, <1>2, <1>3, <1>4 DEF Advance
  <2> QED BY ONLY <2>1, <2>2, Advanced
<1>6. asked' = asked /\ (proposal' = proposal \/ proposal' = [id |-> Talk!None, age |-> 0])
      /\ asked \in Nat
  BY DEF Talk!Take, TalkTyped
<1>7. Asking'
  <2>1. proposal'.id <= asked
    BY <1>6 DEF Questions, Asking, Talk!None
  <2>2. ASSUME NEW u \in Request, turn'[u] # Talk!Idle
        PROVE  turn'[u].question <= asked /\ (turn'[u].step = "asked"
                 => turn'[u].question = Talk!None)
    <3>1. CASE u = t
      BY <3>1, <1>2, <1>4, <1>5
    <3>2. CASE u # t
      BY <3>2, <2>2, <1>4, <1>5 DEF Questions, Asking
    <3> QED BY <3>1, <3>2
  <2> QED BY <2>1, <2>2, <1>6 DEF Asking
<1>8. ASSUME ~reread' PROVE Unreplayed'
  <2>1. ~reread /\ proposal'.id = Talk!None
    BY <1>8 DEF Talk!Take
  <2>2. Unreplayed
    BY <2>1 DEF Questions
  <2>3. replays \in [Talk!Proposal -> Nat]
        /\ replays' = IF read = Talk!None THEN replays ELSE [replays EXCEPT ![read] = replays[read] + 1]
    BY <1>2 DEF Talk!Take, TalkTyped
  <2>4. ASSUME NEW p \in Talk!Proposal
        PROVE  /\ replays'[p] <= 1
               /\ proposal'.id = p \/ p > asked \/ (\E u \in Request : Peeked(u, p)')
                    => replays'[p] = 0
               /\ \A u, w \in Request : Peeked(u, p)' /\ Peeked(w, p)' => u = w
    <3>1. /\ replays[p] <= 1
          /\ proposal.id = p \/ p > asked \/ (\E u \in Request : Peeked(u, p)) => replays[p] = 0
          /\ \A u, w \in Request : Peeked(u, p) /\ Peeked(w, p) => u = w
      BY <2>2 DEF Unreplayed
    <3>2. \A u \in Request \ {t} : Peeked(u, p)' <=> Peeked(u, p)
      BY <1>4, <1>5 DEF Peeked
    <3>3. ~ Peeked(t, p)'
      BY <1>4, <1>5 DEF Peeked
    <3>4. proposal'.id # p /\ p # Talk!None
      BY <2>1 DEF Talk!Proposal, Talk!None
    <3>5. \A u, w \in Request : Peeked(u, p)' /\ Peeked(w, p)' => u = w
      BY <3>1, <3>2, <3>3
    <3>6. CASE p = read
      <4>1. Peeked(t, p)
        BY <3>6, <1>1, <1>2 DEF Peeked
      <4>2. replays[p] = 0 /\ replays'[p] = 1
        BY <3>1, <3>4, <3>6, <4>1, <2>3
      <4>3. ~ (p > asked)
        BY <3>6, <1>2, <1>6 DEF Talk!Proposal
      <4>4. ~ \E u \in Request : Peeked(u, p)'
        BY <3>1, <3>2, <3>3, <4>1
      <4> QED BY <3>4, <3>5, <4>2, <4>3, <4>4
    <3>7. CASE p # read
      <4>1. replays'[p] = replays[p]
        BY <3>7, <2>3
      <4>2. (\E u \in Request : Peeked(u, p)') => \E u \in Request : Peeked(u, p)
        BY <3>2, <3>3
      <4> QED BY <3>1, <3>4, <3>5, <4>1, <4>2
    <3> QED BY <3>6, <3>7
  <2> QED BY <2>4, <1>6 DEF Unreplayed
<1> QED BY <1>7, <1>8 DEF Questions

LEMMA ProposeQuestions ==
  ASSUME TalkTyped, Questions, NEW t \in Request, Talk!Propose(t)
  PROVE  Questions'
<1>1. turn \in [Request -> Talk!Busy \cup {Talk!Idle}] /\ asked \in Nat
      /\ turn' = [turn EXCEPT ![t] = Talk!Idle] /\ asked' = asked + 1
      /\ UNCHANGED <<replays, reread>>
  BY DEF Talk!Propose, Talk!Done, TalkTyped
<1>2. proposal' = [id |-> asked + 1, age |-> 0] \/ proposal' = proposal
  BY DEF Talk!Propose
<1>3. proposal.id <= asked /\ proposal.id \in Nat
  BY DEF Questions, Asking, TalkTyped, Talk!Proposal, Talk!None
<1>4. proposal'.id <= asked + 1 /\ (proposal'.id = proposal.id \/ proposal'.id = asked + 1)
  BY <1>1, <1>2, <1>3
<1>5. Asking'
  <2>1. ASSUME NEW u \in Request, turn'[u] # Talk!Idle
        PROVE  turn'[u].question <= asked + 1 /\ (turn'[u].step = "asked"
                 => turn'[u].question = Talk!None)
    <3>1. u # t /\ turn'[u] = turn[u] /\ turn[u] # Talk!Idle
      BY <2>1, <1>1
    <3>2. turn[u].question <= asked /\ (turn[u].step = "asked" => turn[u].question = Talk!None)
      BY <3>1 DEF Questions, Asking
    <3>3. turn[u].question \in Nat
      BY <3>1, <1>1 DEF Talk!Busy, Talk!Proposal, Talk!None
    <3> QED BY <3>1, <3>2, <3>3, <1>1
  <2> QED BY <2>1, <1>1, <1>4 DEF Asking
<1>6. ASSUME ~reread' PROVE Unreplayed'
  <2>1. Unreplayed
    BY <1>6, <1>1 DEF Questions
  <2>2. ASSUME NEW p \in Talk!Proposal
        PROVE  /\ replays[p] <= 1
               /\ proposal'.id = p \/ p > asked + 1 \/ (\E u \in Request : Peeked(u, p)')
                    => replays[p] = 0
               /\ \A u, w \in Request : Peeked(u, p)' /\ Peeked(w, p)' => u = w
    <3>1. /\ replays[p] <= 1
          /\ proposal.id = p \/ p > asked \/ (\E u \in Request : Peeked(u, p)) => replays[p] = 0
          /\ \A u, w \in Request : Peeked(u, p) /\ Peeked(w, p) => u = w
      BY <2>1 DEF Unreplayed
    <3>2. \A u \in Request : Peeked(u, p)' => Peeked(u, p)
      BY <1>1 DEF Peeked, Talk!Idle
    <3>3. p > asked + 1 \/ p = asked + 1 => p > asked
      BY <1>1 DEF Talk!Proposal
    <3> QED BY <3>1, <3>2, <3>3, <1>4
  <2> QED BY <2>2, <1>1 DEF Unreplayed
<1> QED BY <1>5, <1>6 DEF Questions

\* A step that asks nothing and takes nothing keeps them, whoever it leaves with what he holds.
LEMMA OtherQuestions ==
  ASSUME TalkTyped, Questions, UNCHANGED <<replays, asked, reread>>, proposal'.id = proposal.id,
         \A u \in Request : \/ turn'[u] = Talk!Idle
                            \/ turn'[u] # Talk!Idle /\ turn'[u].step = "asked"
                                 /\ turn'[u].question = Talk!None
                            \/ /\ turn[u] # Talk!Idle /\ turn'[u].question = turn[u].question
                               /\ \/ turn'[u].step = turn[u].step
                                  \/ turn'[u].step = "pipeline"
  PROVE  Questions'
<1>0. asked \in Nat
  BY DEF TalkTyped
<1>1. Asking'
  <2>1. ASSUME NEW u \in Request, turn'[u] # Talk!Idle
        PROVE  turn'[u].question <= asked /\ (turn'[u].step = "asked"
                 => turn'[u].question = Talk!None)
    BY <2>1, <1>0 DEF Questions, Asking, Talk!None
  <2> QED BY <2>1 DEF Asking, Questions
<1>2. ASSUME NEW u \in Request, NEW p \in Talk!Proposal, Peeked(u, p)' PROVE Peeked(u, p)
  <2>1. turn'[u].step = "peeked" /\ turn'[u] # Talk!Idle
    BY <1>2 DEF Peeked, Talk!Idle
  <2> QED BY <2>1, <1>2 DEF Peeked
<1>3. ASSUME ~reread' PROVE Unreplayed'
  <2>1. Unreplayed
    BY <1>3 DEF Questions
  <2> QED BY <2>1, <1>2 DEF Unreplayed
<1> QED BY <1>1, <1>3 DEF Questions

\* What the steps of a request leave of the others.
LEMMA StepQuestions ==
  ASSUME TalkTyped, Questions, NEW t \in Request,
         \/ \E m \in Talk!Message : Talk!Send(t, m)
         \/ Talk!Pick(t) \/ Talk!Decline(t) \/ Talk!FallThrough(t) \/ Talk!Plain(t)
  PROVE  Questions'
<1>1. UNCHANGED <<proposal, replays, asked, reread>>
  BY DEF Talk!Send, Talk!Pick, Talk!Decline, Talk!FallThrough, Talk!Plain, Talk!proposalVars
<1>2. turn \in [Request -> Talk!Busy \cup {Talk!Idle}]
  BY DEF TalkTyped
<1>3. \/ turn' = [turn EXCEPT ![t] = Talk!Idle]
      \/ turn[t] # Talk!Idle /\ turn' = [turn EXCEPT ![t].step = "pipeline"]
      \/ \E y : y # Talk!Idle /\ y.step = "asked" /\ y.question = Talk!None
           /\ turn' = [turn EXCEPT ![t] = y]
  <2>1. CASE \E m \in Talk!Message : Talk!Send(t, m)
    <3>1. PICK m \in Talk!Message, o \in {Talk!FreshOffer, Talk!NoOffer} : turn'
            = [turn EXCEPT ![t] =
            [step |-> "asked", msg |-> m, offer |-> o, question |-> Talk!None,
             meant |-> IF m.n \in DOMAIN screen THEN screen[m.n] ELSE Talk!None]]
      BY <2>1 DEF Talk!Send
    <3>2. PICK y : y = [step |-> "asked", msg |-> m, offer |-> o, question |-> Talk!None,
             meant |-> IF m.n \in DOMAIN screen THEN screen[m.n] ELSE Talk!None]
      OBVIOUS
    <3>3. y # Talk!Idle /\ y.step = "asked" /\ y.question = Talk!None
      BY <3>2 DEF Talk!Idle
    <3>4. turn' = [turn EXCEPT ![t] = y]
      BY <3>1, <3>2
    <3> QED BY <3>3, <3>4
  <2>2. CASE Talk!FallThrough(t)
    BY <2>2 DEF Talk!FallThrough, Talk!Pipeline, Talk!Asked, Talk!Idle
  <2>3. CASE Talk!Pick(t) \/ Talk!Decline(t) \/ Talk!Plain(t)
    BY <2>3 DEF Talk!Pick, Talk!Decline, Talk!Plain, Talk!Done
  <2> QED BY <2>1, <2>2, <2>3
<1>4. ASSUME NEW u \in Request
      PROVE  \/ turn'[u] = Talk!Idle
             \/ turn'[u] # Talk!Idle /\ turn'[u].step = "asked" /\ turn'[u].question = Talk!None
             \/ /\ turn[u] # Talk!Idle /\ turn'[u].question = turn[u].question
                /\ \/ turn'[u].step = turn[u].step
                   \/ turn'[u].step = "pipeline"
  <2>1. CASE u # t
    BY <2>1, <1>2, <1>3
  <2>2. CASE u = t /\ turn[t] # Talk!Idle /\ turn' = [turn EXCEPT ![t].step = "pipeline"]
    <3>1. PICK next : next = turn'
      OBVIOUS
    <3>2. PICK question \in Talk!Proposal \cup {Talk!None} : question = turn[t].question
      BY <2>2, <1>2 DEF Talk!Busy
    <3>3. Advance(next, t, "pipeline", question) /\ TalkTyped /\ t \in Request
            /\ turn[t] # Talk!Idle
          /\ "pipeline" \in {"asked", "peeked", "untaken", "pipeline"}
          /\ question \in Talk!Proposal \cup {Talk!None}
      BY <2>2, <3>1, <3>2 DEF Advance
    <3>4. next[t].step = "pipeline" /\ next[t].question = question
      BY ONLY <3>3, Advanced
    <3> QED BY <2>2, <3>1, <3>2, <3>4
  <2>3. CASE u = t /\ turn' = [turn EXCEPT ![t] = Talk!Idle]
    BY <2>3, <1>2
  <2>4. CASE u = t /\ \E y : y # Talk!Idle /\ y.step = "asked" /\ y.question = Talk!None
                             /\ turn' = [turn EXCEPT ![t] = y]
    BY <2>4, <1>2
  <2> QED BY <1>3, <2>1, <2>2, <2>3, <2>4
<1> QED BY <1>1, <1>4, OtherQuestions

LEMMA PrintsQuestions ==
  ASSUME TalkTyped, Questions, NEW t \in Request, Prints(t), UNCHANGED Talk!proposalVars
  PROVE  Questions'
<1>1. turn' = [turn EXCEPT ![t] = Talk!Idle]
  BY DEF Prints, Talk!Show, Talk!Done
<1>2. turn \in [Request -> Talk!Busy \cup {Talk!Idle}]
  BY DEF TalkTyped
<1>3. ASSUME NEW u \in Request PROVE turn'[u] = Talk!Idle \/ turn'[u] = turn[u]
  BY <1>1, <1>2
<1> QED BY <1>3, OtherQuestions DEF Talk!proposalVars

LEMMA RestQuestions ==
  ASSUME TalkTyped, Questions, Talk!Tick \/ \E e, p : Talk!Edit(e, p)
  PROVE  Questions'
<1>1. UNCHANGED <<turn, replays, asked, reread>>
  BY DEF Talk!Tick, Talk!Edit
<1>2. proposal'.id = proposal.id
  <2>1. CASE Talk!Tick
    BY <2>1 DEF Talk!Tick, Talk!Older, TalkTyped
  <2>2. CASE \E e, p : Talk!Edit(e, p)
    BY <2>2 DEF Talk!Edit
  <2> QED BY <2>1, <2>2
<1>3. \A u \in Request : turn'[u] = turn[u] /\ (turn[u] # Talk!Idle \/ turn'[u] = Talk!Idle)
  BY <1>1
<1> QED BY <1>1, <1>2, <1>3, OtherQuestions

\* A number picks the record whose name stands at it.
LEMMA PickTrue ==
  ASSUME TalkTyped, Remembered, NEW t \in Request, Talk!Pick(t)
  PROVE  Talk!PickIsWhatWasPrinted'
<1>1. turn[t] # Talk!Idle /\ turn[t].msg.kind = "number"
  BY DEF Talk!Pick, Talk!Asked, Talk!Idle
<1>2. PICK o : o = turn[t].offer
  OBVIOUS
<1>3. PICK n : n = turn[t].msg.n
  OBVIOUS
<1>4. turn[t] \in Talk!Busy /\ Sound(o) /\ Stands(o)
      /\ (doubt = {} => turn[t].meant = IF n \in DOMAIN screen THEN screen[n] ELSE Talk!None)
  BY <1>1, <1>2, <1>3, BusyIs
<1>5. n \in Talk!Record
  BY <1>1, <1>3, <1>4 DEF Talk!Busy, Talk!Message
<1>6. n <= o.shown /\ Talk!Picked(t) = o.ids[n]
  BY <1>2, <1>3 DEF Talk!Pick, Talk!Picked
<1>7. o.shown \in Nat
  BY <1>4 DEF Stands, Offer, Talk!NoOffer
<1>8. n \in 1..o.shown
  BY <1>5, <1>6, <1>7 DEF Talk!Record
<1>9. doubt = {} => n \in DOMAIN screen /\ screen[n] = o.ids[n]
  BY <1>4, <1>8 DEF Sound, Agrees
<1>10. answer' = [meant |-> turn[t].meant, gave |-> Talk!Picked(t), doubt |-> doubt]
  BY DEF Talk!Pick
<1>11. answer'.meant = turn[t].meant /\ answer'.gave = Talk!Picked(t) /\ answer'.doubt = doubt
  BY <1>10
<1> QED BY <1>4, <1>6, <1>9, <1>11 DEF Talk!PickIsWhatWasPrinted

\* The invariant holds at first.
LEMMA TalkInitHolds ==
  ASSUME Talk!DialogueAssumption, Talk!Init
  PROVE  TalkIInv
<1>0. {PickWindow, MaxEdit, MaxSlip, MaxProposal} \subseteq Nat /\ Records \in Nat
  BY DEF Talk!DialogueAssumption
<1>1. /\ row.offer = Talk!NoOffer /\ row.age = 0 /\ row = [offer |-> row.offer, age |-> row.age]
      /\ proposal = [id |-> Talk!None, age |-> 0] /\ proposal.id = Talk!None
      /\ turn = [t \in Request |-> Talk!Idle] /\ screen = <<>> /\ named = {}
      /\ answer.meant = Talk!None /\ answer.gave = Talk!None /\ answer.doubt = {}
      /\ replays = [p \in Talk!Proposal |-> 0] /\ asked = 0
      /\ doubt = {} /\ reread = FALSE /\ counted = "page" /\ edits = 0 /\ slips = 0
  BY DEF Talk!Init, Talk!NoPick
<1>2. TalkTyped
  <2>1. topic \subseteq exists /\ exists \subseteq Talk!Record
    <3>1. PICK n \in Talk!Record : exists = 1..n
      BY DEF Talk!Init
    <3>2. exists \subseteq Talk!Record
      BY <3>1, <1>0 DEF Talk!Record
    <3> QED BY <3>2 DEF Talk!Init
  <2>2. screen \in [DOMAIN screen -> Talk!Record] /\ DOMAIN screen \subseteq Talk!Record
    BY <1>1
  <2>3. proposal \in [id : Talk!Proposal \cup {Talk!None}, age : 0..(PickWindow + 1)]
    BY <1>0, <1>1
  <2>4. turn \in [Request -> Talk!Busy \cup {Talk!Idle}] /\ replays \in [Talk!Proposal -> Nat]
    BY <1>1
  <2>5. row.age \in 0..(PickWindow + 1) /\ asked \in 0..MaxProposal /\ edits \in 0..MaxEdit
        /\ slips \in 0..MaxSlip
    BY <1>0, <1>1
  <2>6. reread \in BOOLEAN /\ counted \in {"page", "again", "edited"} /\ named \subseteq Talk!Record
        /\ doubt \subseteq {"unlogged", "crossed", "renumbered"}
        /\ answer.doubt \subseteq {"unlogged", "crossed", "renumbered"}
        /\ answer.meant \in Talk!Record \cup {Talk!None}
             /\ answer.gave \in Talk!Record \cup {Talk!None}
    BY <1>1
  <2> QED BY <2>1, <2>2, <2>3, <2>4, <2>5, <2>6, <1>1 DEF TalkTyped
<1>3. Remembered
  <2>1. \A t \in Request : turn[t] = Talk!Idle
    BY <1>1
  <2> QED BY <2>1, <1>1, NoOfferIs DEF Remembered, TurnTrue
<1>4. Asking
  BY <1>1 DEF Asking, Talk!None
<1>5. Unreplayed
  <2>1. \A t \in Request, p \in Talk!Proposal : ~ Peeked(t, p)
    BY <1>1 DEF Peeked, Talk!Idle
  <2>2. \A p \in Talk!Proposal : replays[p] = 0
    BY <1>1
  <2> QED BY <2>1, <2>2 DEF Unreplayed
<1>6. Talk!PickIsWhatWasPrinted
  BY <1>1 DEF Talk!PickIsWhatWasPrinted
<1> QED BY <1>2, <1>3, <1>4, <1>5, <1>6 DEF TalkIInv

\* Every step keeps it.
LEMMA TalkNextKeeps ==
  ASSUME Talk!DialogueAssumption, TalkIInv, [Talk!Next]_(Talk!vars)
  PROVE  TalkIInv'
<1>0. TalkTyped /\ Remembered /\ Questions /\ Talk!PickIsWhatWasPrinted
  BY DEF TalkIInv, Questions
<1>1. SUFFICES TalkTyped' /\ Remembered' /\ Questions' /\ Talk!PickIsWhatWasPrinted'
  BY DEF TalkIInv, Questions
<1>2. CASE UNCHANGED Talk!vars
  <2>1. UNCHANGED <<exists, topic, row, proposal, turn, screen, named, answer, replays, asked,
                    doubt, reread, counted, edits, slips>>
    BY <1>2 DEF Talk!vars
  <2>2. TalkTyped'
    BY <2>1, <1>0 DEF TalkTyped
  <2>3. Talk!PickIsWhatWasPrinted'
    BY <2>1, <1>0 DEF Talk!PickIsWhatWasPrinted
  <2>4. Remembered'
    <3>1. \A u \in Request : turn'[u] = Talk!Idle \/ (turn[u] # Talk!Idle /\ turn'[u] = turn[u])
      BY <2>1
    <3>2. PICK o : o = row.offer
      OBVIOUS
    <3>3. row'.offer = o /\ Stands(o) /\ Sound(o)
      BY <2>1, <3>2, <1>0 DEF Remembered
    <3> QED BY <1>0, <2>1, <3>1, <3>3, QuietKeeps
  <2>5. Questions'
    <3>1. \A u \in Request : turn'[u] = turn[u] /\ (turn[u] # Talk!Idle \/ turn'[u] = Talk!Idle)
      BY <2>1
    <3>2. proposal'.id = proposal.id
      BY <2>1
    <3> QED BY <1>0, <2>1, <3>1, <3>2, OtherQuestions
  <2> QED BY <2>2, <2>3, <2>4, <2>5
<1>3. ASSUME answer' = Talk!NoPick PROVE Talk!PickIsWhatWasPrinted'
  <2>1. answer'.gave = Talk!None
    BY <1>3 DEF Talk!NoPick
  <2> QED BY <2>1 DEF Talk!PickIsWhatWasPrinted
<1>4. CASE \E t \in Request : Talk!More(t) \/ Talk!Again(t) \/ Talk!List(t) \/ Talk!Choose(t)
  <2>1. PICK t \in Request : Talk!More(t) \/ Talk!Again(t) \/ Talk!List(t) \/ Talk!Choose(t)
    BY <1>4
  <2>2. Remembered' /\ Prints(t)
    BY <2>1, <1>0, MoreRemembered, AgainRemembered, ListRemembered, ChooseRemembered
  <2>3. answer' = Talk!NoPick /\ UNCHANGED <<Talk!recordVars, Talk!proposalVars>>
    BY <2>1 DEF Talk!More, Talk!Again, Talk!List, Talk!Choose
  <2>4. TalkTyped'
    BY <2>2, <2>3, <1>0, PrintsTyped
  <2>5. Questions'
    BY <2>2, <2>3, <1>0, PrintsQuestions
  <2> QED BY <2>2, <2>3, <2>4, <2>5, <1>3
<1>5. CASE \E t \in Request : \/ \E m \in Talk!Message : Talk!Send(t, m)
                              \/ Talk!Pick(t) \/ Talk!Decline(t) \/ Talk!FallThrough(t)
                                   \/ Talk!Plain(t)
  <2>1. PICK t \in Request : \/ \E m \in Talk!Message : Talk!Send(t, m)
                             \/ Talk!Pick(t) \/ Talk!Decline(t) \/ Talk!FallThrough(t)
                                  \/ Talk!Plain(t)
    BY <1>5
  <2>2. TalkTyped' /\ Questions'
    BY <2>1, <1>0, StepTyped, StepQuestions
  <2>3. Remembered'
    BY <2>1, <1>0, SendRemembered, StepRemembered
  <2>4. Talk!PickIsWhatWasPrinted'
    <3>1. CASE Talk!Pick(t)
      BY <3>1, <1>0, PickTrue
    <3>2. CASE ~ Talk!Pick(t)
      <4>1. answer' = Talk!NoPick
        BY <2>1, <3>2 DEF Talk!Send, Talk!Decline, Talk!FallThrough, Talk!Plain
      <4> QED BY <4>1, <1>3
    <3> QED BY <3>1, <3>2
  <2> QED BY <2>2, <2>3, <2>4
<1>6. CASE \E t \in Request : Talk!Peek(t) \/ Talk!Take(t) \/ Talk!Propose(t)
  <2>1. PICK t \in Request : Talk!Peek(t) \/ Talk!Take(t) \/ Talk!Propose(t)
    BY <1>6
  <2>2. TalkTyped' /\ Remembered'
    BY <2>1, <1>0, StepTyped, StepRemembered
  <2>3. Questions'
    BY <2>1, <1>0, PeekQuestions, TakeQuestions, ProposeQuestions
  <2>4. answer' = Talk!NoPick
    BY <2>1 DEF Talk!Peek, Talk!Take, Talk!Propose
  <2> QED BY <2>2, <2>3, <2>4, <1>3
<1>7. CASE \E r \in Talk!Record : Talk!Delete(r) \/ Talk!TakeIn(r) \/ Talk!TakeOut(r)
  <2>1. PICK r \in Talk!Record : Talk!Delete(r) \/ Talk!TakeIn(r) \/ Talk!TakeOut(r)
    BY <1>7
  <2>2. PICK e, p : Talk!Edit(e, p)
    BY <2>1 DEF Talk!Delete, Talk!TakeIn, Talk!TakeOut
  <2>3. TalkTyped'
    BY <2>1, <1>0, EditTyped
  <2>4. Remembered' /\ Questions'
    BY <2>2, <1>0, EditRemembered, RestQuestions
  <2>5. answer' = Talk!NoPick
    BY <2>2 DEF Talk!Edit
  <2> QED BY <2>3, <2>4, <2>5, <1>3
<1>8. CASE Talk!Tick
  <2>1. answer' = Talk!NoPick
    BY <1>8 DEF Talk!Tick
  <2> QED BY <2>1, <1>8, <1>0, <1>3, TickTyped, TimeRemembered, RestQuestions
<1> QED BY <1>2, <1>4, <1>5, <1>6, <1>7, <1>8 DEF Talk!Next

\* What the invariant says of the types, of a page, and of a question.
LEMMA TalkTold ==
  ASSUME Talk!DialogueAssumption, TalkIInv
  PROVE  Talk!TypeOK /\ Talk!PickIsWhatWasPrinted /\ Talk!PagesWhole /\ Talk!ReplayedOnce
<1>0. TalkTyped /\ Remembered /\ Asking /\ (reread \/ Unreplayed) /\ Talk!PickIsWhatWasPrinted
  BY DEF TalkIInv
<1>1. PICK o : o = row.offer
  OBVIOUS
<1>2. Stands(o) /\ Sound(o)
  BY <1>0, <1>1 DEF Remembered
<1>3. o.ids \in Seq(Talk!Record) /\ o.shown \in 0..Len(o.ids) /\ o.shown \in Nat
  <2>1. CASE o = Talk!NoOffer
    <3>1. o.ids = <<>> /\ o.shown = 0
      BY <2>1 DEF Talk!NoOffer
    <3> QED BY <3>1
  <2>2. CASE o # Talk!NoOffer
    BY <2>2, <1>2 DEF Stands, Offer
  <2> QED BY <2>1, <2>2
<1>4. Talk!TypeOK
  BY <1>0, <1>1, <1>3 DEF Talk!TypeOK, TalkTyped
<1>5. Talk!NobodySteppedOver
  <2> SUFFICES ASSUME doubt \subseteq {"renumbered"}
               PROVE  Talk!ToSet(Talk!First(o.ids, o.shown)) \subseteq named
    BY <1>1 DEF Talk!NobodySteppedOver
  <2>1. Printed(o)
    BY <1>2 DEF Sound
  <2>2. Talk!Lesser(o.shown, Len(o.ids)) = o.shown
    BY <1>3 DEF Talk!Lesser
  <2>3. PICK s : s = Talk!First(o.ids, o.shown)
    OBVIOUS
  <2>4. Len(s) = o.shown /\ s \in Seq(Talk!Record) /\ \A i \in 1..o.shown : s[i] = o.ids[i]
    BY ONLY <2>2, <2>3, <1>3, FirstIs
  <2>5. \A i \in 1..Len(s) : s[i] \in named
    BY <2>1, <2>4 DEF Printed
  <2> QED BY <2>3, <2>4, <2>5 DEF Talk!ToSet
<1>6. Talk!CountHonest
  BY <1>1, <1>2 DEF Talk!CountHonest, Talk!Announced, Sound, Honest
<1>7. Talk!ReplayedOnce
  BY <1>0 DEF Talk!ReplayedOnce, Unreplayed
<1> QED BY <1>0, <1>4, <1>5, <1>6, <1>7 DEF Talk!PagesWhole

\* A number, a page and a yes mean what they meant on the screen (chat_endpoint, chat.py), for any
\* number of records, any size of a page and of an offer, and any number of overlapping turns.
THEOREM Meant ==
  ASSUME Talk!DialogueAssumption
  PROVE  Talk!Spec => [](Talk!TypeOK /\ Talk!PickIsWhatWasPrinted /\ Talk!PagesWhole
           /\ Talk!ReplayedOnce)
<1>1. Talk!Init => TalkIInv
  BY TalkInitHolds
<1>2. TalkIInv /\ [Talk!Next]_(Talk!vars) => TalkIInv'
  BY TalkNextKeeps
<1>3. TalkIInv => Talk!TypeOK /\ Talk!PickIsWhatWasPrinted /\ Talk!PagesWhole /\ Talk!ReplayedOnce
  BY TalkTold
<1> QED BY <1>1, <1>2, <1>3, PTL DEF Talk!Spec

-------------------------------------------------------------------------------
(* THE THREE TOGETHER: a behaviour that TLC explores moves one of them, in   *)
(* its slice, and leaves the others at rest, so it is a behaviour of each.   *)
(* The theorems are about every behaviour of each, in a slice or not.        *)

LEMMA EachIsAPart == MCSpec => Spec /\ Booth!Spec /\ Talk!Spec
<1>1. MCInit => Init /\ Booth!Init /\ Talk!Init
  BY DEF MCInit
<1>2. [MCNext]_<<vars, convVars, talkVars, focus>> =>
        [Next]_vars /\ [Booth!Next]_(Booth!vars) /\ [Talk!Next]_(Talk!vars)
  <2>1. /\ UNCHANGED convVars => UNCHANGED Booth!vars
        /\ UNCHANGED talkVars => UNCHANGED Talk!vars
    BY DEF convVars, talkVars, Booth!vars, Talk!vars
  <2> QED BY <2>1 DEF MCNext
<1> QED BY <1>1, <1>2, PTL DEF MCSpec, Spec, Booth!Spec, Talk!Spec

\* The rows, tasks and turns of the three are well-typed, for any number of
\* requests, targets, conversations, visitors, records and faults.
THEOREM TypesCorrect == Spec /\ Booth!Spec /\ Talk!Spec => []TypesOK
<1>1. TypeOK /\ Booth!TypeOK /\ Talk!TypeOK => TypesOK
  BY DEF TypesOK
<1> QED BY <1>1, ChatAssumption, TypeCorrect, Heard, Meant, PTL

\* _history_for(), chat.py, and get_summary(), conversations.py: of the older part of a
\* conversation the model is told words of this sitting only, unless the fault that was swallowed
\* also hid that the row had to be forgotten.
THEOREM NobodyOverhears == Booth!Spec => []NotOverheard
<1>1. Booth!NotOverheard => NotOverheard
  BY DEF NotOverheard
<1> QED BY <1>1, ChatAssumption, Heard, PTL

\* What a signed-in visitor says in a conversation of theirs, or in a new one, stays theirs: no
\* registration moves it and no row holds it without an owner, except where the row went, came
\* or changed hands under the request, or a swallowed fault hid it.
THEOREM TheirsIsDefended == Booth!Spec => []Defended
<1>1. Booth!Defended => Defended
  BY DEF Defended
<1> QED BY <1>1, ChatAssumption, Heard, PTL

\* Whoever was deleted owns no conversation, and nothing said under their name is left in the
\* database but what requests that were under way at the deletion wrote after it.
THEOREM DeletedStaysGone == Booth!Spec => []DeletedIsGone
<1>1. Booth!DeletedIsGone => DeletedIsGone
  BY DEF DeletedIsGone
<1> QED BY <1>1, ChatAssumption, Heard, PTL

\* A number picks the record whose name was last printed at it, or nothing, under overlapping
\* turns, edits and faults, with the exceptions the property names.
THEOREM PickIsMeant == Talk!Spec => []PickIsWhatWasPrinted
<1>1. Talk!PickIsWhatWasPrinted => PickIsWhatWasPrinted
  BY DEF PickIsWhatWasPrinted
<1> QED BY <1>1, ChatAssumption, Meant, PTL

\* A pager steps over no record that it counted as shown, and the count under a page is what
\* «بیشتر» reaches.
THEOREM PagesAreWhole == Talk!Spec => []PagesWhole
<1>1. Talk!PagesWhole => PagesWhole
  BY DEF PagesWhole
<1> QED BY <1>1, ChatAssumption, Meant, PTL

\* A question that was offered is replayed once, however many say yes to how many questions.
THEOREM YesOnce == Talk!Spec => []ReplayedOnce
<1>1. Talk!ReplayedOnce => ReplayedOnce
  BY DEF ReplayedOnce
<1> QED BY <1>1, ChatAssumption, Meant, PTL
===============================================================================
