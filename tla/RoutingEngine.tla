---------------------------- MODULE RoutingEngine ----------------------------
(***************************************************************************)
(* The routing engine (app/services/ai/engine.py): how one request walks   *)
(* its route, retries a target, fails over to the next, and what it leaves *)
(* behind in the circuits (module CircuitRow) and in ai_usage.              *)
(*                                                                         *)
(* Requests of all workers interleave at their awaits: the provider call   *)
(* and the back-off.  A circuit operation is one step here; that its       *)
(* statements behave so is what module Circuit shows.                       *)
(***************************************************************************)
EXTENDS CircuitRow, Sequences, FiniteSets

CONSTANTS Request,
          Target, Provider,
          Route,         \* the task's targets in priority order
          ProviderOf,    \* the provider instance behind each target
          MaxAttempts    \* of each target: its own max_attempts, or TASK_MAX_ATTEMPTS

ASSUME EngineAssumption ==
  /\ Route \in Seq(Target)
  /\ \A m, n \in DOMAIN Route : Route[m] = Route[n] => m = n
  /\ ProviderOf \in [Target -> Provider]
  /\ MaxAttempts \in [Target -> Nat \ {0}]

VARIABLES circuit,   \* circuit[p]: the ai_circuit_state row
          req,       \* req[r]: the local variables of execute_request
          usage,     \* usage[r]: the ai_usage rows written for r
          calls      \* history: the provider calls of r, in order, and how each ended

vars == <<circuit, req, usage, calls>>

\* The classes of errors.py, by what the engine and the circuit tell apart:
\* server, timeout, rate limit, empty answer ...; credentials; quota, permission,
\* model not found ...; invalid request, rejected content, context limit ...
Error == {"transient", "auth", "refused", "ours"}

Retryable(e) == e = "transient"

FailoverEligible(e) == e # "ours"

Code == {"none", "disabled", "all_routes_failed"} \cup Error

Call == [target: Target, end: Error \cup {"open", "ok", "cancelled"}]

\* "unrecorded": it ran to its end, and its usage row was dropped.
Step == {"new", "route", "call", "wait", "done", "unrecorded", "cancelled"}

Req == [step: Step, at: 1..(Len(Route) + 1), attempt: Nat,
        attempts: Nat, failovers: 0..Len(Route),
        code: Code]

UsageRow == [status: {"success", "failed"}, attempts: Nat, failovers: Nat, code: Code]

TypeOK ==
  /\ circuit \in [Provider -> Row]
  /\ req \in [Request -> Req]
  /\ usage \in [Request -> Seq(UsageRow)]
  /\ calls \in [Request -> Seq(Call)]

Init ==
  /\ circuit = [p \in Provider |-> FreshRow]
  /\ req \in [Request -> {[step |-> "new", at |-> 1, attempt |-> 0, attempts |-> 0,
                           failovers |-> 0, code |-> "none"]}]
  /\ usage = [r \in Request |-> <<>>]
  /\ calls = [r \in Request |-> <<>>]

At(r) == Route[req[r].at]
Circuit(r) == circuit[ProviderOf[At(r)]]
SetCircuit(r, row) == circuit' = [circuit EXCEPT ![ProviderOf[At(r)]] = row]

\* circuit.allows()
Grants(row) == row.state = "closed" \/ CooldownPassed(row) \/ LeaseExpired(row)
Granted(row) == IF row.state = "closed" THEN row ELSE Leased(row)

-------------------------------------------------------------------------------
(* The head of execute_request: the kill switch (the setting openai_enabled), *)
(* then the route as it is configured now.                                    *)

Start(r) ==
  /\ req[r].step = "new"
  /\ \/ req' = [req EXCEPT ![r].step = "done", ![r].code = "disabled"]
     \/ req' = [req EXCEPT ![r].step = "route"]
  /\ UNCHANGED <<circuit, usage, calls>>

-------------------------------------------------------------------------------
(* The loop over the targets.  Whether a target, its provider and its secret *)
(* are in use is an input, chosen where the target is visited: it is visited *)
(* only once.                                                                *)

OnRoute(r) == req[r].step = "route" /\ req[r].at <= Len(Route)

NextTarget(r) == [req[r] EXCEPT !.step = "route", !.at = @ + 1, !.attempt = 0]

Skip(r) ==
  /\ OnRoute(r)
  /\ \E eligible \in BOOLEAN : ~eligible \/ ~Grants(Circuit(r))
  /\ req' = [req EXCEPT ![r] = NextTarget(r)]
  /\ UNCHANGED <<circuit, usage, calls>>

\* The attempt number within the target recorded as the attempts of the request.
CallNowUncounted(r) ==
  /\ req' = [req EXCEPT ![r].step = "call", ![r].attempt = @ + 1, ![r].attempts = req[r].attempt + 1]
  /\ calls' = [calls EXCEPT ![r] = Append(@, [target |-> At(r), end |-> "open"])]

CallNow(r) ==
  /\ req' = [req EXCEPT ![r].step = "call", ![r].attempt = @ + 1, ![r].attempts = @ + 1]
  /\ calls' = [calls EXCEPT ![r] = Append(@, [target |-> At(r), end |-> "open"])]

Enter(r) ==
  /\ OnRoute(r)
  /\ Grants(Circuit(r))
  /\ SetCircuit(r, Granted(Circuit(r)))
  /\ CallNow(r)
  /\ UNCHANGED usage

\* The secret was removed since the route was read: the target is passed over with
\* whatever lease its circuit has just granted.
EnterWithoutSecret(r) ==
  /\ OnRoute(r)
  /\ Grants(Circuit(r))
  /\ SetCircuit(r, Granted(Circuit(r)))
  /\ req' = [req EXCEPT ![r] = NextTarget(r)]
  /\ UNCHANGED <<usage, calls>>

Ended(r, how) ==
  calls' = [calls EXCEPT ![r][Len(calls[r])].end = how]

\* The end of a request: its usage row, and the answer or the error.  What the INSERT or
\* the commit raises is swallowed ("accounting must not break a reply"): the request ends
\* in the same way, without its row.
RecordUsage(r, status, code) ==
  \/ /\ req' = [req EXCEPT ![r].step = "done", ![r].code = code]
     /\ usage' = [usage EXCEPT ![r] = Append(@, [status |-> status, attempts |-> req[r].attempts,
                                                 failovers |-> req[r].failovers, code |-> code])]
  \/ /\ req' = [req EXCEPT ![r].step = "unrecorded", ![r].code = code]
     /\ UNCHANGED usage

\* record_success()
AfterSuccess(row) == IF row.state = "closed" THEN WindowCleared(row) ELSE Closed(row)

Answer(r) ==
  /\ req[r].step = "call"
  /\ SetCircuit(r, AfterSuccess(Circuit(r)))
  /\ Ended(r, "ok")
  /\ RecordUsage(r, "success", "none")

\* record_failure()
AfterFailure(row, e) ==
  CASE e = "auth" -> OpenedByAuth(row)
    [] e \in {"transient", "refused"} -> Failed(row)
    [] e = "ours" -> row

\* One attempt too many.
MayRetryOnceMore(r, e) == Retryable(e) /\ req[r].attempt <= MaxAttempts[At(r)]

MayRetry(r, e) == Retryable(e) /\ req[r].attempt < MaxAttempts[At(r)]

\* A retryable failure asks the circuit again, now and not after the back-off.
FailAndRetry(r, e) ==
  LET row == AfterFailure(Circuit(r), e) IN
  /\ MayRetry(r, e) /\ Grants(row)
  /\ SetCircuit(r, Granted(row))
  /\ req' = [req EXCEPT ![r].step = "wait"]
  /\ UNCHANGED usage

\* The target is exhausted: the next one if another provider could help.
FailAndLeave(r, e) ==
  LET row == AfterFailure(Circuit(r), e) IN
  /\ ~(MayRetry(r, e) /\ Grants(row))
  /\ SetCircuit(r, row)
  /\ IF FailoverEligible(e)
     THEN /\ req' = [req EXCEPT ![r] = [NextTarget(r) EXCEPT !.failovers = @ + 1]]
          /\ UNCHANGED usage
     ELSE RecordUsage(r, "failed", e)

Fail(r) ==
  /\ req[r].step = "call"
  /\ \E e \in Error : /\ FailAndRetry(r, e) \/ FailAndLeave(r, e)
                      /\ Ended(r, e)

\* The end of the back-off.
Retry(r) ==
  /\ req[r].step = "wait"
  /\ CallNow(r)
  /\ UNCHANGED <<circuit, usage>>

Exhausted(r) ==
  /\ req[r].step = "route" /\ req[r].at > Len(Route)
  /\ RecordUsage(r, "failed", "all_routes_failed")
  /\ UNCHANGED <<circuit, calls>>

-------------------------------------------------------------------------------

\* The visitor hangs up, the worker dies, or an adapter raises something that is not
\* an AIError: nothing after the await happens.
Cancel(r) ==
  /\ req[r].step \in {"call", "wait"}
  /\ req' = [req EXCEPT ![r].step = "cancelled"]
  /\ IF req[r].step = "call" THEN Ended(r, "cancelled") ELSE UNCHANGED calls
  /\ UNCHANGED <<circuit, usage>>

\* The database does not answer: what the request asks of it next raises (its route, the
\* circuit, the secret after a lease was granted, the verdict on the circuit, the price, or
\* the connection that record_usage opens outside its try), and nothing after it happens.
Break(r) ==
  /\ req' = [req EXCEPT ![r].step = "cancelled"]
  /\ \/ /\ req[r].step \in {"new", "route"}
        /\ UNCHANGED <<circuit, calls>>
     \/ /\ OnRoute(r) /\ Grants(Circuit(r))
        /\ SetCircuit(r, Granted(Circuit(r)))
        /\ UNCHANGED calls
     \/ /\ req[r].step = "call"
        /\ \/ Ended(r, "ok") /\ SetCircuit(r, AfterSuccess(Circuit(r)))
           \/ \E e \in Error : Ended(r, e) /\ SetCircuit(r, AfterFailure(Circuit(r), e))
           \/ \E how \in {"ok"} \cup Error : Ended(r, how) /\ UNCHANGED circuit
  /\ UNCHANGED usage

Tick ==
  /\ circuit' = [p \in Provider |-> Elapse(circuit[p])]
  /\ UNCHANGED <<req, usage, calls>>

Proceed(r) ==
  \/ Start(r) \/ Skip(r) \/ Enter(r) \/ EnterWithoutSecret(r)
  \/ Answer(r) \/ Fail(r) \/ Retry(r) \/ Exhausted(r)

Next ==
  \/ \E r \in Request : Proceed(r) \/ Cancel(r) \/ Break(r)
  \/ Tick

Spec == Init /\ [][Next]_vars

-------------------------------------------------------------------------------
(* Properties.                                                               *)

Positions(r, t) == {n \in DOMAIN calls[r] : calls[r][n].target = t}

Eligible(e) == e \in {"transient", "auth", "refused"}

\* The walk of a request is the one the module docstring promises, however requests,
\* breakers and time interleave: the same target again only after an error that a
\* second attempt can cure and never more often than the target allows; another target only
\* after an error another provider can cure, further down the route, so that none is
\* visited twice; and nothing at all after an answer or an error of our own.
EveryCallJustified ==
  \A r \in Request :
    /\ \A t \in Target : Cardinality(Positions(r, t)) <= MaxAttempts[t]
    /\ \A n \in DOMAIN calls[r] \ {1} :
         LET before == calls[r][n - 1]  now == calls[r][n] IN
         \/ now.target = before.target /\ before.end = "transient"
         \/ /\ Eligible(before.end)
            /\ \E a, b \in DOMAIN Route :
                 a < b /\ Route[a] = before.target /\ Route[b] = now.target

\* ai_usage holds one row for every request that ran to its end, unless record_usage
\* swallowed its loss, and none for a cancelled, refused, broken or running one.  The row
\* counts every provider call made and repeats the verdict the caller got; and with or
\* without a row that verdict is what the last call deserves: an answer is a success, an
\* error of our own surfaces under its own code, and anything else is all_routes_failed.
LedgerAgrees ==
  \A r \in Request :
    LET final == IF calls[r] = <<>> THEN "none" ELSE calls[r][Len(calls[r])].end IN
    /\ req[r].step \in {"done", "unrecorded"} /\ req[r].code # "disabled" =>
         req[r].code = CASE final = "ok" -> "none"
                         [] final = "ours" -> "ours"
                         [] OTHER -> "all_routes_failed"
    /\ IF req[r].step = "done" /\ req[r].code # "disabled"
       THEN /\ Len(usage[r]) = 1
            /\ usage[r][1].attempts = Len(calls[r])
            /\ usage[r][1].status = "success" <=> final = "ok"
            /\ usage[r][1].code = req[r].code
       ELSE usage[r] = <<>>

Failures(p, ends) ==
  UNION {{<<r, n>> : n \in {m \in DOMAIN calls[r] : /\ ProviderOf[calls[r][m].target] = p
                                                  /\ calls[r][m].end \in ends}} : r \in Request}

\* A circuit leaves the closed state only for what its provider did, over all requests
\* together: one rejected credential, or Threshold failures that another provider could
\* have spared the visitor.  Requests of our own making, however many, never close a
\* provider to everybody else.
TripsHaveCause ==
  \A p \in Provider : circuit[p].state # "closed" =>
    \/ Failures(p, {"auth"}) # {}
    \/ Cardinality(Failures(p, {"transient", "refused"})) >= Threshold

\* What a request leaves behind is true: its calls, its usage row, and the circuits that
\* opened on its way.
RouteTrue == EveryCallJustified /\ LedgerAgrees /\ TripsHaveCause
===============================================================================
