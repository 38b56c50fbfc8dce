--------------------------------- MODULE Otp ---------------------------------
(***************************************************************************)
(* One-time-code challenges of one phone number (app/services/otp.py).     *)
(*                                                                         *)
(* Every entry point is a SELECT followed, after its checks in Python, by  *)
(* one INSERT or UPDATE that does not repeat those checks.  The handlers   *)
(* of different uvicorn workers interleave between the two, so each entry  *)
(* point is two steps: a "load" that keeps a snapshot and a "write".       *)
(*                                                                         *)
(* A code is the number of the delivery that carried it (0 for the first,  *)
(* then one more per resend); its HMAC matches the row's exactly when the  *)
(* numbers agree.  Timestamps are countdowns: ttl to expires_at, cool to   *)
(* last_sent_at + cooldown, hour to the moment the row leaves the hourly   *)
(* count.                                                                  *)
(***************************************************************************)
EXTENDS Naturals, FiniteSets

CONSTANTS Challenge,     \* ids the requests may mint
          Handler,       \* concurrent request handlers
          TTL,           \* OTP_TTL_SECONDS, in ticks
          ResendCooldown,\* OTP_RESEND_COOLDOWN, in ticks
          Hour,          \* one hour, in ticks
          MaxAttempts,   \* OTP_MAX_ATTEMPTS
          MaxResends,    \* OTP_MAX_RESENDS
          HourlyLimit    \* OTP_DEST_HOURLY_LIMIT

ASSUME OtpAssumption ==
  /\ {TTL, ResendCooldown, Hour, MaxAttempts, MaxResends, HourlyLimit} \subseteq Nat \ {0}
  /\ IsFiniteSet(Handler) /\ IsFiniteSet(Challenge)

VARIABLES chal,      \* chal[c]: the otp_challenges row
          op,        \* op[h]: what handler h is in the middle of
          known      \* known[c]: the codes the visitor has received

vars == <<chal, op, known>>

\* Handlers that passed a check together may exceed its limit by one each.
Overlap == Cardinality(Handler) - 1

Code == 0..(MaxResends + Overlap)

Row == [exists: BOOLEAN, code: Code, ttl: 0..TTL, cool: 0..ResendCooldown,
        hour: 0..Hour, attempts: Nat, used: BOOLEAN]

NoRow == [exists |-> FALSE, code |-> 0, ttl |-> 0, cool |-> 0, hour |-> 0,
          attempts |-> 0, used |-> FALSE]

Idle == [name |-> "idle"]

Op == {Idle} \cup [name: {"insert"}]
             \cup [name: {"accept", "reject", "deliver"}, c: Challenge, code: Code]
             \cup [name: {"replace"}, c: Challenge]

TypeOK ==
  /\ chal \in [Challenge -> Row]
  /\ op \in [Handler -> Op]
  /\ known \in [Challenge -> SUBSET Code]

Init ==
  /\ chal = [c \in Challenge |-> NoRow]
  /\ op = [h \in Handler |-> Idle]
  /\ known = [c \in Challenge |-> {}]

Become(h, next) == op' = [op EXCEPT ![h] = next]

-------------------------------------------------------------------------------
(* request_challenge(): the COUNT of the last hour, then INSERT and commit,  *)
(* then delivery outside the transaction, which may fail and undo nothing.   *)

Recent == {c \in Challenge : chal[c].exists /\ chal[c].hour > 0}

RequestCount(h) ==
  /\ op[h] = Idle
  /\ Cardinality(Recent) < HourlyLimit
  /\ Become(h, [name |-> "insert"])
  /\ UNCHANGED <<chal, known>>

RequestInsert(h) ==
  /\ op[h].name = "insert"
  /\ \E c \in Challenge :
       /\ ~chal[c].exists
       /\ chal' = [chal EXCEPT ![c] = [NoRow EXCEPT !.exists = TRUE, !.ttl = TTL,
                                                    !.cool = ResendCooldown, !.hour = Hour]]
       /\ Become(h, [name |-> "deliver", c |-> c, code |-> 0])
  /\ UNCHANGED known

Deliver(h) ==
  /\ op[h].name = "deliver"
  /\ \/ known' = [known EXCEPT ![op[h].c] = @ \cup {op[h].code}]
     \/ UNCHANGED known
  /\ Become(h, Idle)
  /\ UNCHANGED chal

-------------------------------------------------------------------------------
(* verify(): the row is loaded and checked, the typed code is compared with  *)
(* the LOADED one, and the UPDATE names only the id.                         *)

\* No attempt limit.
VerifiableForever(row) == row.exists /\ ~row.used /\ row.ttl > 0

Verifiable(row) == row.exists /\ ~row.used /\ row.ttl > 0 /\ row.attempts < MaxAttempts

\* The visitor types a code they received, or some other one.
VerifyLoad(h) ==
  /\ op[h] = Idle
  /\ \E c \in Challenge :
       /\ Verifiable(chal[c])
       /\ \/ /\ chal[c].code \in known[c]
             /\ Become(h, [name |-> "accept", c |-> c, code |-> chal[c].code])
          \/ Become(h, [name |-> "reject", c |-> c, code |-> chal[c].code])
  /\ UNCHANGED <<chal, known>>

VerifyAccept(h) ==
  /\ op[h].name = "accept"
  /\ chal' = [chal EXCEPT ![op[h].c].used = TRUE]
  /\ Become(h, Idle)
  /\ UNCHANGED known

VerifyReject(h) ==
  /\ op[h].name = "reject"
  /\ chal' = [chal EXCEPT ![op[h].c].attempts = @ + 1]
  /\ Become(h, Idle)
  /\ UNCHANGED known

-------------------------------------------------------------------------------
(* resend(): load and check, then one UPDATE that replaces the code.         *)

\* No resend limit.
ResendLoadUnlimited(h) ==
  /\ op[h] = Idle
  /\ \E c \in Challenge :
       /\ chal[c].exists /\ ~chal[c].used
       /\ chal[c].cool = 0
       /\ Become(h, [name |-> "replace", c |-> c])
  /\ UNCHANGED <<chal, known>>

ResendLoad(h) ==
  /\ op[h] = Idle
  /\ \E c \in Challenge :
       /\ chal[c].exists /\ ~chal[c].used
       /\ chal[c].code < MaxResends
       /\ chal[c].cool = 0
       /\ Become(h, [name |-> "replace", c |-> c])
  /\ UNCHANGED <<chal, known>>

\* A resend that starts the challenge over.
ResentAfresh(row) ==
  [row EXCEPT !.code = @ + 1, !.ttl = TTL, !.cool = ResendCooldown,
              !.attempts = 0, !.used = FALSE]

Resent(row) ==
  [row EXCEPT !.code = @ + 1, !.ttl = TTL, !.cool = ResendCooldown, !.attempts = 0]

ResendReplace(h) ==
  /\ op[h].name = "replace"
  /\ LET c == op[h].c IN
       /\ chal' = [chal EXCEPT ![c] = Resent(@)]
       /\ Become(h, [name |-> "deliver", c |-> c, code |-> chal[c].code + 1])
  /\ UNCHANGED known

-------------------------------------------------------------------------------

\* A worker dies with what it had not committed, and with its delivery.
Crash(h) ==
  /\ op[h] # Idle
  /\ Become(h, Idle)
  /\ UNCHANGED <<chal, known>>

Less(n) == IF n = 0 THEN 0 ELSE n - 1

Tick ==
  /\ chal' = [c \in Challenge |->
                [chal[c] EXCEPT !.ttl = Less(@), !.cool = Less(@), !.hour = Less(@)]]
  /\ UNCHANGED <<op, known>>

Next == \/ \E h \in Handler :
             \/ RequestCount(h) \/ RequestInsert(h) \/ Deliver(h)
             \/ VerifyLoad(h) \/ VerifyAccept(h) \/ VerifyReject(h)
             \/ ResendLoad(h) \/ ResendReplace(h)
             \/ Crash(h)
        \/ Tick

Spec == Init /\ [][Next]_vars

-------------------------------------------------------------------------------
(* What the service promises.                                                *)

\* However verifies and resends of one challenge overlap, no more wrong codes are
\* answered for one code than the attempt limit plus the handlers in flight.
AttemptsBounded == \A c \in Challenge : chal[c].attempts <= MaxAttempts + Overlap

\* A consumed challenge stays consumed, also when a resend that was already past
\* its checks replaces the code afterwards.
ConsumedStaysConsumed ==
  [][\A c \in Challenge : chal[c].used => chal'[c].used]_vars
===============================================================================
