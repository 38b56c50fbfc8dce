------------------------------- MODULE OtpProofs -------------------------------
(***************************************************************************)
(* Theorems about Otp, for every number of handlers and every choice of    *)
(* the limits: type correctness (so that no challenge is resent more often *)
(* than its limit plus the handlers in flight), the bound on the wrong     *)
(* codes answered for one code, and that a consumed challenge stays so.    *)
(* And about MCOtp, where the codes are one part: what SmsSendProofs has   *)
(* for every sender holds of the four slices.                              *)
(***************************************************************************)
EXTENDS MCOtp, FiniteSetTheorems, TLAPS

-------------------------------------------------------------------------------
(* The inductive invariant.                                                  *)

\* The handlers that are past a check of challenge c, with the write n still to come.
Pending(n, c) == {h \in Handler : op[h].name = n /\ op[h].c = c}

\* What has been counted, together with what will be, stays below limit plus overlap.
AttemptsRoom ==
  \A c \in Challenge :
    chal[c].attempts + Cardinality(Pending("reject", c)) <= MaxAttempts + Overlap
ResendsRoom ==
  \A c \in Challenge :
    chal[c].code + Cardinality(Pending("replace", c)) <= MaxResends + Overlap

\* A code is only accepted for a row that is there, and only such a row is consumed.
AcceptedExists == \A h \in Handler : op[h].name = "accept" => chal[op[h].c].exists
UsedExists == \A c \in Challenge : chal[c].used => chal[c].exists

IInv ==
  /\ TypeOK
  /\ AttemptsRoom
  /\ ResendsRoom
  /\ AcceptedExists
  /\ UsedExists

-------------------------------------------------------------------------------
(* Lemmas on the handlers.                                                   *)

\* A handler past a check has the fields its name promises.
LEMMA OpTyping ==
  ASSUME TypeOK, NEW h \in Handler
  PROVE  /\ op[h] = Idle \/ op[h].name \in {"insert", "accept", "reject", "deliver", "replace"}
         /\ op[h].name \in {"accept", "reject", "deliver", "replace"} => op[h].c \in Challenge
         /\ op[h].name \in {"accept", "reject", "deliver"} => op[h].code \in Code
         /\ Idle.name = "idle" /\ Idle \in Op
BY DEF TypeOK, Op, Idle

\* The handlers behind one check are finitely many, and leave one out if it is not behind it.
LEMMA PendingBounded ==
  ASSUME NEW n, NEW c
  PROVE  /\ IsFiniteSet(Pending(n, c)) /\ Cardinality(Pending(n, c)) \in Nat
         /\ Overlap \in Int
         /\ Cardinality(Pending(n, c)) <= Overlap + 1
         /\ \A h \in Handler \ Pending(n, c) : Cardinality(Pending(n, c)) <= Overlap
<1>1. IsFiniteSet(Handler) /\ Cardinality(Handler) \in Nat
  BY OtpAssumption, FS_CardinalityType
<1>2. /\ IsFiniteSet(Pending(n, c)) /\ Cardinality(Pending(n, c)) <= Cardinality(Handler)
  <2>1. Pending(n, c) \in SUBSET Handler
    BY DEF Pending
  <2>2. QED
    BY <1>1, <2>1, FS_Subset
<1>3. Cardinality(Pending(n, c)) \in Nat
  BY <1>2, FS_CardinalityType
<1>4. ASSUME NEW h \in Handler \ Pending(n, c)
      PROVE  Cardinality(Pending(n, c)) <= Overlap
  <2>1. Pending(n, c) \in SUBSET (Handler \ {h})
    BY DEF Pending
  <2>2. IsFiniteSet(Handler \ {h}) /\ Cardinality(Handler \ {h}) = Cardinality(Handler) - 1
    BY <1>1, FS_RemoveElement
  <2>3. Cardinality(Pending(n, c)) <= Cardinality(Handler \ {h})
    BY <2>1, <2>2, FS_Subset
  <2>4. QED
    BY <2>2, <2>3 DEF Overlap
<1>5. QED
  BY <1>1, <1>2, <1>3, <1>4 DEF Overlap

\* A handler that goes on leaves the check it was behind, or comes to stand behind one.
LEMMA PendingMoves ==
  ASSUME TypeOK, NEW h \in Handler, NEW next, Become(h, next), NEW n, NEW c
  PROVE  Pending(n, c)' = IF next.name = n /\ next.c = c THEN Pending(n, c) \cup {h}
                                                         ELSE Pending(n, c) \ {h}
BY DEF TypeOK, Become, Pending

\* What that does to their number.
LEMMA PendingCounted ==
  ASSUME TypeOK, NEW h \in Handler, NEW next, Become(h, next), NEW n, NEW c
  PROVE  /\ Cardinality(Pending(n, c)') \in Nat
         /\ Cardinality(Pending(n, c)') <= Overlap + 1
         /\ ~(next.name = n /\ next.c = c) =>
              /\ Cardinality(Pending(n, c)') <= Cardinality(Pending(n, c))
              /\ Cardinality(Pending(n, c)') <= Overlap
              /\ h \in Pending(n, c) =>
                   Cardinality(Pending(n, c)') = Cardinality(Pending(n, c)) - 1
<1>1. /\ IsFiniteSet(Pending(n, c)) /\ Cardinality(Pending(n, c)) \in Nat /\ Overlap \in Int
      /\ Cardinality(Pending(n, c)) <= Overlap + 1
      /\ h \notin Pending(n, c) => Cardinality(Pending(n, c)) <= Overlap
  BY PendingBounded
<1>2. CASE next.name = n /\ next.c = c
  <2>1. Pending(n, c)' = Pending(n, c) \cup {h}
    BY <1>2, PendingMoves
  <2>2. Cardinality(Pending(n, c) \cup {h}) =
          IF h \in Pending(n, c) THEN Cardinality(Pending(n, c)) ELSE Cardinality(Pending(n, c)) + 1
    BY <1>1, FS_AddElement
  <2>3. QED
    BY <1>1, <1>2, <2>1, <2>2
<1>3. CASE ~(next.name = n /\ next.c = c)
  <2>1. Pending(n, c)' = Pending(n, c) \ {h}
    BY <1>3, PendingMoves
  <2>2. /\ IsFiniteSet(Pending(n, c) \ {h})
        /\ Cardinality(Pending(n, c) \ {h}) =
             IF h \in Pending(n, c) THEN Cardinality(Pending(n, c)) - 1
                                    ELSE Cardinality(Pending(n, c))
    BY <1>1, FS_RemoveElement
  <2>3. Cardinality(Pending(n, c) \ {h}) \in Nat
    BY <2>2, FS_CardinalityType
  <2>4. QED
    BY <1>1, <1>3, <2>1, <2>2, <2>3
<1>4. QED
  BY <1>2, <1>3

-------------------------------------------------------------------------------
(* The invariant is inductive.                                               *)

\* Every row a request or a resend writes is typed as long as its code is.
LEMMA RowTyping ==
  ASSUME NEW r \in Row
  PROVE  /\ [NoRow EXCEPT !.exists = TRUE, !.ttl = TTL, !.cool = ResendCooldown,
                          !.hour = Hour] \in Row
         /\ [r EXCEPT !.used = TRUE] \in Row
         /\ [r EXCEPT !.attempts = @ + 1] \in Row
         /\ r.code + 1 \in Code => Resent(r) \in Row
         /\ [r EXCEPT !.ttl = Less(@), !.cool = Less(@), !.hour = Less(@)] \in Row
<1>1. /\ TTL \in Nat /\ ResendCooldown \in Nat /\ Hour \in Nat
      /\ 0 \in Code
  <2>1. MaxResends \in Nat \ {0} /\ Overlap + 1 \in Nat
    BY OtpAssumption, FS_CardinalityType DEF Overlap
  <2>2. QED
    BY <2>1, OtpAssumption, FS_CardinalityType DEF Code, Overlap
<1>b. /\ TTL \in 0..TTL /\ ResendCooldown \in 0..ResendCooldown /\ Hour \in 0..Hour
      /\ 0 \in 0..TTL /\ 0 \in 0..ResendCooldown /\ 0 \in 0..Hour
  BY <1>1
<1>2. [NoRow EXCEPT !.exists = TRUE, !.ttl = TTL, !.cool = ResendCooldown,
                    !.hour = Hour] \in Row
  <2>1. \A q \in Row : [q EXCEPT !.exists = TRUE, !.ttl = TTL, !.cool = ResendCooldown,
                                !.hour = Hour] \in Row
    BY <1>b DEF Row
  <2>2. NoRow \in Row
    BY <1>1, <1>b DEF Row, NoRow
  <2>3. QED
    BY <2>1, <2>2
<1>u. [r EXCEPT !.used = TRUE] \in Row
  BY DEF Row
<1>w. [r EXCEPT !.attempts = @ + 1] \in Row
  BY DEF Row
<1>3. r.code + 1 \in Code => Resent(r) \in Row
  BY <1>b DEF Row, Resent
<1>4. /\ \A n \in 0..TTL : Less(n) \in 0..TTL
      /\ \A n \in 0..ResendCooldown : Less(n) \in 0..ResendCooldown
      /\ \A n \in 0..Hour : Less(n) \in 0..Hour
  BY <1>1 DEF Less
<1>5. [r EXCEPT !.ttl = Less(@), !.cool = Less(@), !.hour = Less(@)] \in Row
  BY <1>4 DEF Row
<1>6. QED
  BY <1>2, <1>u, <1>w, <1>3, <1>5

\* The numbers the proofs add and compare.
LEMMA Numbers ==
  ASSUME TypeOK
  PROVE  /\ MaxAttempts \in Nat \ {0} /\ MaxResends \in Nat \ {0} /\ Overlap \in Int
         /\ Overlap + 1 \in Nat /\ 0 \in Code
         /\ \A c \in Challenge : chal[c].attempts \in Nat /\ chal[c].code \in Nat
         /\ \A n, c : Cardinality(Pending(n, c)) \in Nat
<1>1. /\ MaxAttempts \in Nat \ {0} /\ MaxResends \in Nat \ {0} /\ Overlap \in Int
      /\ Overlap + 1 \in Nat
  BY OtpAssumption, FS_CardinalityType DEF Overlap
<1>2. \A c \in Challenge : chal[c].attempts \in Nat /\ chal[c].code \in Nat
  BY <1>1 DEF TypeOK, Row, Code
<1>3. \A n, c : Cardinality(Pending(n, c)) \in Nat
  BY PendingBounded
<1>4. QED
  BY <1>1, <1>2, <1>3 DEF Code

\* The first state satisfies the invariant.
LEMMA InitInvariant == Init => IInv
<1> SUFFICES ASSUME Init PROVE IInv
  OBVIOUS
<1>1. /\ MaxAttempts \in Nat \ {0} /\ MaxResends \in Nat \ {0} /\ Overlap \in Int
      /\ Overlap + 1 \in Nat
  BY OtpAssumption, FS_CardinalityType DEF Overlap
<1>2. TypeOK
  <2>1. 0 \in 0..TTL /\ 0 \in 0..ResendCooldown /\ 0 \in 0..Hour /\ 0 \in Code
    BY <1>1, OtpAssumption DEF Code
  <2>2. NoRow \in Row
    BY <2>1 DEF NoRow, Row
  <2>3. QED
    BY <2>2 DEF Init, TypeOK, Op
<1>3. \A n \in {"reject", "replace"}, c \in Challenge : Cardinality(Pending(n, c)) = 0
  <2>1. \A n \in {"reject", "replace"}, c \in Challenge : Pending(n, c) = {}
    BY DEF Init, Idle, Pending
  <2>2. QED
    BY <2>1, FS_EmptySet
<1>4. AttemptsRoom /\ ResendsRoom
  BY <1>1, <1>3 DEF Init, NoRow, AttemptsRoom, ResendsRoom
<1>5. AcceptedExists /\ UsedExists
  BY DEF Init, NoRow, Idle, AcceptedExists, UsedExists
<1>6. QED
  BY <1>2, <1>4, <1>5 DEF IInv

\* A handler's step that does not touch the rows, and stands behind no reject or replace,
\* keeps the room.
LEMMA RoomKept ==
  ASSUME IInv, NEW h \in Handler, NEW next, Become(h, next), UNCHANGED chal,
         next.name \notin {"reject", "replace"}
  PROVE  AttemptsRoom' /\ ResendsRoom'
<1>1. \A n \in {"reject", "replace"}, c \in Challenge :
        /\ Cardinality(Pending(n, c)') \in Nat
        /\ Cardinality(Pending(n, c)') <= Cardinality(Pending(n, c))
  BY PendingCounted DEF IInv
<1>2. QED
  BY <1>1, Numbers DEF IInv, AttemptsRoom, ResendsRoom

\* What it takes of a handler's next step to keep the accepted codes.
LEMMA AcceptedKept ==
  ASSUME IInv, NEW h \in Handler, NEW next, Become(h, next),
         \A c \in Challenge : chal[c].exists => chal'[c].exists,
         next.name = "accept" => chal'[next.c].exists
  PROVE  AcceptedExists'
<1>1. \A g \in Handler : op'[g] = IF g = h THEN next ELSE op[g]
  BY DEF IInv, TypeOK, Become
<1>2. \A g \in Handler : op[g].name = "accept" => op[g].c \in Challenge
  BY OpTyping DEF IInv
<1>3. QED
  BY <1>1, <1>2 DEF IInv, AcceptedExists

\* Every step keeps the invariant.
LEMMA StepInvariant == IInv /\ [Next]_vars => IInv'
<1> SUFFICES ASSUME IInv, [Next]_vars PROVE IInv'
  OBVIOUS
<1>a. TypeOK /\ AttemptsRoom /\ ResendsRoom /\ AcceptedExists /\ UsedExists
  BY DEF IInv
<1>n. /\ MaxAttempts \in Nat \ {0} /\ MaxResends \in Nat \ {0} /\ Overlap \in Int
      /\ Overlap + 1 \in Nat /\ 0 \in Code
      /\ \A c \in Challenge : chal[c].attempts \in Nat /\ chal[c].code \in Code
      /\ \A n, c : Cardinality(Pending(n, c)) \in Nat
  BY <1>a, Numbers DEF TypeOK, Row
\* A handler that goes on without touching the rows, and does not come to stand behind a check.
<1>g. ASSUME NEW h \in Handler, NEW next \in Op, Become(h, next), UNCHANGED chal,
             known' \in [Challenge -> SUBSET Code],
             next.name \notin {"reject", "replace"},
             next.name = "accept" => chal[next.c].exists
      PROVE  IInv'
  <2>1. TypeOK'
    BY <1>a, <1>g DEF TypeOK, Become
  <2>2. AcceptedExists'
    BY <1>g, AcceptedKept
  <2>3. QED
    BY <1>a, <1>g, <2>1, <2>2, RoomKept DEF IInv, UsedExists
<1>1. ASSUME NEW h \in Handler, RequestCount(h)
      PROVE  IInv'
  <2>1. [name |-> "insert"] \in Op
    BY DEF Op
  <2>2. QED
    BY <1>a, <1>1, <1>g, <2>1 DEF RequestCount, TypeOK
<1>2. ASSUME NEW h \in Handler, RequestInsert(h)
      PROVE  IInv'
  <2>1. PICK c \in Challenge :
          /\ ~chal[c].exists
          /\ chal' = [chal EXCEPT ![c] = [NoRow EXCEPT !.exists = TRUE, !.ttl = TTL,
                                             !.cool = ResendCooldown, !.hour = Hour]]
          /\ Become(h, [name |-> "deliver", c |-> c, code |-> 0])
    BY <1>2 DEF RequestInsert
  <2>2. [name |-> "deliver", c |-> c, code |-> 0] \in Op
    BY <1>n DEF Op
  <2>3. TypeOK'
    <3>1. c \in Challenge /\ chal[c] \in Row
      BY <1>a DEF TypeOK
    <3>2. chal' \in [Challenge -> Row]
      BY <1>a, <2>1, <3>1, RowTyping DEF TypeOK
    <3>3. QED
      BY <1>a, <1>2, <2>1, <2>2, <3>2 DEF TypeOK, Become, RequestInsert
  <2>4. \A d \in Challenge : chal'[d] = IF d = c
          THEN [NoRow EXCEPT !.exists = TRUE, !.ttl = TTL, !.cool = ResendCooldown, !.hour = Hour]
          ELSE chal[d]
    BY <1>a, <2>1 DEF TypeOK
  <2>5. \A n \in {"reject", "replace"}, d \in Challenge :
          /\ Cardinality(Pending(n, d)') \in Nat
          /\ Cardinality(Pending(n, d)') <= Cardinality(Pending(n, d))
          /\ Cardinality(Pending(n, d)') <= Overlap
    BY <1>a, <2>1, PendingCounted
  <2>6. /\ chal'[c].attempts = 0 /\ chal'[c].code = 0 /\ chal'[c].exists /\ ~chal'[c].used
    BY <2>4 DEF NoRow
  <2>7. AttemptsRoom' /\ ResendsRoom'
    BY <1>a, <1>n, <2>4, <2>5, <2>6 DEF AttemptsRoom, ResendsRoom, Code
  <2>8. AcceptedExists'
    BY <2>1, <2>4, <2>6, AcceptedKept
  <2>9. QED
    BY <1>a, <2>3, <2>4, <2>6, <2>7, <2>8 DEF IInv, UsedExists
<1>3. ASSUME NEW h \in Handler, Deliver(h)
      PROVE  IInv'
  <2>1. op[h].c \in Challenge /\ op[h].code \in Code
    BY <1>a, <1>3, OpTyping DEF Deliver
  <2>2. known' \in [Challenge -> SUBSET Code]
    BY <1>a, <1>3, <2>1 DEF Deliver, TypeOK
  <2>3. QED
    BY <1>a, <1>3, <1>g, <2>2, OpTyping DEF Deliver
<1>4. ASSUME NEW h \in Handler, VerifyLoad(h)
      PROVE  IInv'
  <2>1. PICK c \in Challenge :
          /\ Verifiable(chal[c])
          /\ \/ Become(h, [name |-> "accept", c |-> c, code |-> chal[c].code])
             \/ Become(h, [name |-> "reject", c |-> c, code |-> chal[c].code])
    BY <1>4 DEF VerifyLoad
  <2>2. chal[c].code \in Code /\ chal[c].attempts \in Nat
    BY <1>n
  <2>3. CASE Become(h, [name |-> "accept", c |-> c, code |-> chal[c].code])
    <3>1. [name |-> "accept", c |-> c, code |-> chal[c].code] \in Op
      BY <2>2 DEF Op
    <3>2. QED
      BY <1>a, <1>4, <1>g, <2>1, <2>3, <3>1 DEF VerifyLoad, Verifiable, TypeOK
  <2>4. CASE Become(h, [name |-> "reject", c |-> c, code |-> chal[c].code])
    <3> DEFINE next == [name |-> "reject", c |-> c, code |-> chal[c].code]
    <3>1. next \in Op /\ next.name = "reject" /\ next.c = c
      BY <2>2 DEF Op
    <3>2. TypeOK'
      BY <1>a, <1>4, <2>4, <3>1 DEF TypeOK, Become, VerifyLoad
    <3> HIDE DEF next
    <3>3. \A d \in Challenge :
            /\ Cardinality(Pending("reject", d)') \in Nat
            /\ Cardinality(Pending("reject", d)') <= Overlap + 1
            /\ d # c => Cardinality(Pending("reject", d)') <= Cardinality(Pending("reject", d))
            /\ Cardinality(Pending("replace", d)') \in Nat
            /\ Cardinality(Pending("replace", d)') <= Cardinality(Pending("replace", d))
      BY <1>a, <2>4, <3>1, PendingCounted DEF next
    <3>4. UNCHANGED chal /\ chal[c].attempts < MaxAttempts
      BY <1>4, <2>1 DEF VerifyLoad, Verifiable
    <3>5. AttemptsRoom'
      BY <1>a, <1>n, <2>2, <3>3, <3>4 DEF AttemptsRoom
    <3>6. ResendsRoom'
      BY <1>a, <1>n, <3>3, <3>4, Numbers DEF ResendsRoom
    <3>7. AcceptedExists'
      BY <2>4, <3>1, <3>4, AcceptedKept DEF next
    <3>8. QED
      BY <1>a, <3>2, <3>4, <3>5, <3>6, <3>7 DEF IInv, UsedExists
  <2>5. QED
    BY <2>1, <2>3, <2>4
<1>5. ASSUME NEW h \in Handler, VerifyAccept(h)
      PROVE  IInv'
  <2>c. PICK c \in Challenge : c = op[h].c
    BY <1>a, <1>5, OpTyping DEF VerifyAccept
  <2>1. c \in Challenge /\ chal[c] \in Row /\ chal[c].exists
    BY <1>a, <1>5, <2>c, OpTyping DEF VerifyAccept, TypeOK, AcceptedExists
  <2>2. \A d \in Challenge : chal'[d] = IF d = c THEN [chal[c] EXCEPT !.used = TRUE]
                                                  ELSE chal[d]
    BY <1>a, <1>5, <2>c, <2>1 DEF VerifyAccept, TypeOK
  <2>3. TypeOK'
    BY <1>a, <1>5, <2>c, <2>1, RowTyping, OpTyping DEF VerifyAccept, TypeOK, Become
  <2>4. /\ chal'[c].used /\ chal'[c].exists
        /\ chal'[c].attempts = chal[c].attempts /\ chal'[c].code = chal[c].code
    BY <2>1, <2>2 DEF Row
  <2>5. Become(h, Idle) /\ Idle.name = "idle"
    BY <1>5 DEF VerifyAccept, Idle
  <2>6. \A n \in {"reject", "replace"}, d \in Challenge :
          /\ Cardinality(Pending(n, d)') \in Nat
          /\ Cardinality(Pending(n, d)') <= Cardinality(Pending(n, d))
    BY <1>a, <2>5, PendingCounted
  <2>7. AttemptsRoom' /\ ResendsRoom'
    BY <1>a, <1>n, <2>1, <2>2, <2>4, <2>6, Numbers DEF AttemptsRoom, ResendsRoom
  <2>8. AcceptedExists'
    BY <2>2, <2>4, <2>5, AcceptedKept
  <2>9. QED
    BY <1>a, <2>2, <2>3, <2>4, <2>7, <2>8 DEF IInv, UsedExists
<1>6. ASSUME NEW h \in Handler, VerifyReject(h)
      PROVE  IInv'
  <2>c. PICK c \in Challenge : c = op[h].c
    BY <1>a, <1>6, OpTyping DEF VerifyReject
  <2>1. c \in Challenge /\ chal[c] \in Row /\ h \in Pending("reject", c)
    BY <1>a, <1>6, <2>c, OpTyping DEF VerifyReject, TypeOK, Pending
  <2>2. \A d \in Challenge : chal'[d] = IF d = c THEN [chal[c] EXCEPT !.attempts = @ + 1]
                                                  ELSE chal[d]
    BY <1>a, <1>6, <2>c, <2>1 DEF VerifyReject, TypeOK
  <2>3. TypeOK'
    BY <1>a, <1>6, <2>c, <2>1, RowTyping, OpTyping DEF VerifyReject, TypeOK, Become
  <2>4. /\ chal'[c].used = chal[c].used /\ chal'[c].exists = chal[c].exists
        /\ chal'[c].attempts = chal[c].attempts + 1 /\ chal'[c].code = chal[c].code
    BY <2>1, <2>2 DEF Row
  <2>5. Become(h, Idle) /\ Idle.name = "idle"
    BY <1>6 DEF VerifyReject, Idle
  <2>6. /\ \A n \in {"reject", "replace"}, d \in Challenge :
             /\ Cardinality(Pending(n, d)') \in Nat
             /\ Cardinality(Pending(n, d)') <= Cardinality(Pending(n, d))
        /\ Cardinality(Pending("reject", c)') = Cardinality(Pending("reject", c)) - 1
    BY <1>a, <2>1, <2>5, PendingCounted
  <2>7. AttemptsRoom' /\ ResendsRoom'
    BY <1>a, <1>n, <2>1, <2>2, <2>4, <2>6, Numbers DEF AttemptsRoom, ResendsRoom
  <2>8. AcceptedExists'
    BY <2>2, <2>4, <2>5, AcceptedKept
  <2>9. QED
    BY <1>a, <2>2, <2>3, <2>4, <2>7, <2>8 DEF IInv, UsedExists
<1>7. ASSUME NEW h \in Handler, ResendLoad(h)
      PROVE  IInv'
  <2>1. PICK c \in Challenge : /\ chal[c].code < MaxResends
                               /\ Become(h, [name |-> "replace", c |-> c])
    BY <1>7 DEF ResendLoad
  <2> DEFINE next == [name |-> "replace", c |-> c]
  <2>2. next \in Op /\ next.name = "replace" /\ next.c = c
    BY DEF Op
  <2>3. TypeOK'
    BY <1>a, <1>7, <2>1, <2>2 DEF TypeOK, Become, ResendLoad
  <2> HIDE DEF next
  <2>4. \A d \in Challenge :
          /\ Cardinality(Pending("replace", d)') \in Nat
          /\ Cardinality(Pending("replace", d)') <= Overlap + 1
          /\ d # c => Cardinality(Pending("replace", d)') <= Cardinality(Pending("replace", d))
          /\ Cardinality(Pending("reject", d)') \in Nat
          /\ Cardinality(Pending("reject", d)') <= Cardinality(Pending("reject", d))
    BY <1>a, <2>1, <2>2, PendingCounted DEF next
  <2>5. UNCHANGED chal
    BY <1>7 DEF ResendLoad
  <2>6. ResendsRoom'
    BY <1>a, <1>n, <2>1, <2>4, <2>5, Numbers DEF ResendsRoom
  <2>7. AttemptsRoom'
    BY <1>a, <1>n, <2>4, <2>5 DEF AttemptsRoom
  <2>8. AcceptedExists'
    BY <2>1, <2>2, <2>5, AcceptedKept DEF next
  <2>9. QED
    BY <1>a, <2>3, <2>5, <2>6, <2>7, <2>8 DEF IInv, UsedExists
<1>8. ASSUME NEW h \in Handler, ResendReplace(h)
      PROVE  IInv'
  <2>c. PICK c \in Challenge : c = op[h].c
    BY <1>a, <1>8, OpTyping DEF ResendReplace
  <2>x. PICK next : next = [name |-> "deliver", c |-> c, code |-> chal[c].code + 1]
    OBVIOUS
  <2>1. /\ c \in Challenge /\ chal[c] \in Row /\ h \in Pending("replace", c)
        /\ Become(h, next) /\ next.name = "deliver"
    BY <1>a, <1>8, <2>c, <2>x, OpTyping DEF ResendReplace, TypeOK, Pending
  <2>2. /\ \A n \in {"reject", "replace"}, d \in Challenge :
             /\ Cardinality(Pending(n, d)') \in Nat
             /\ Cardinality(Pending(n, d)') <= Cardinality(Pending(n, d))
             /\ Cardinality(Pending(n, d)') <= Overlap
        /\ Cardinality(Pending("replace", c)') = Cardinality(Pending("replace", c)) - 1
    BY <1>a, <2>1, PendingCounted
  <2>3. chal[c].code + 1 \in Code
    <3>1. /\ chal[c].code \in Nat /\ Cardinality(Pending("replace", c)) \in Nat
          /\ Cardinality(Pending("replace", c)') \in Nat
      BY <1>a, <2>1, <2>2, Numbers
    <3>2. chal[c].code + Cardinality(Pending("replace", c)) <= MaxResends + Overlap
      BY <1>a, <2>1 DEF ResendsRoom
    <3>3. Cardinality(Pending("replace", c)) >= 1
      BY <2>2, <3>1
    <3>4. QED
      BY <1>n, <3>1, <3>2, <3>3 DEF Code
  <2>4. next \in Op
    BY <2>1, <2>3, <2>x DEF Op
  <2>5. \A d \in Challenge : chal'[d] = IF d = c THEN Resent(chal[c]) ELSE chal[d]
    BY <1>a, <1>8, <2>1, <2>c DEF ResendReplace, TypeOK
  <2>6. TypeOK'
    <3>1. Resent(chal[c]) \in Row
      BY <2>1, <2>3, RowTyping
    <3>2. chal' \in [Challenge -> Row]
      BY <1>a, <1>8, <3>1, <2>1, <2>c DEF ResendReplace, TypeOK
    <3>3. op' \in [Handler -> Op]
      BY <1>a, <2>1, <2>4 DEF TypeOK, Become
    <3>4. QED
      BY <1>a, <1>8, <3>2, <3>3 DEF TypeOK, ResendReplace
  <2>7. /\ chal'[c].used = chal[c].used /\ chal'[c].exists = chal[c].exists
        /\ chal'[c].attempts = 0 /\ chal'[c].code = chal[c].code + 1
    BY <2>1, <2>5 DEF Row, Resent
  <2>8. AttemptsRoom' /\ ResendsRoom'
    BY <1>a, <1>n, <2>1, <2>2, <2>5, <2>7, Numbers DEF AttemptsRoom, ResendsRoom
  <2>9. AcceptedExists'
    BY <2>1, <2>5, <2>7, AcceptedKept
  <2>10. QED
    BY <1>a, <2>5, <2>6, <2>7, <2>8, <2>9 DEF IInv, UsedExists
<1>9. ASSUME NEW h \in Handler, Crash(h)
      PROVE  IInv'
  BY <1>a, <1>9, <1>g, OpTyping DEF Crash, TypeOK, Idle
<1>10. ASSUME Tick
       PROVE  IInv'
  <2>1. \A c \in Challenge :
          /\ chal'[c] = [chal[c] EXCEPT !.ttl = Less(@), !.cool = Less(@), !.hour = Less(@)]
          /\ chal[c] \in Row
    BY <1>a, <1>10 DEF Tick, TypeOK
  <2>2. chal' \in [Challenge -> Row]
    BY <1>10, <2>1, RowTyping DEF Tick
  <2>3. \A c \in Challenge :
          /\ chal'[c].used = chal[c].used /\ chal'[c].exists = chal[c].exists
          /\ chal'[c].attempts = chal[c].attempts /\ chal'[c].code = chal[c].code
    BY <2>1 DEF Row
  <2>4. \A n, c : Pending(n, c)' = Pending(n, c)
    BY <1>10 DEF Tick, Pending
  <2>5. AttemptsRoom' /\ ResendsRoom'
    BY <1>a, <2>3, <2>4 DEF AttemptsRoom, ResendsRoom
  <2>6. AcceptedExists' /\ UsedExists'
    <3>1. \A h \in Handler : op[h].name = "accept" => op[h].c \in Challenge
      BY <1>a, OpTyping
    <3>2. \A h \in Handler : op'[h] = op[h]
      BY <1>10 DEF Tick
    <3>3. AcceptedExists'
      BY <1>a, <2>3, <3>1, <3>2 DEF AcceptedExists
    <3>4. UsedExists'
      BY <1>a, <2>3 DEF UsedExists
    <3>5. QED
      BY <3>3, <3>4
  <2>7. QED
    BY <1>a, <1>10, <2>2, <2>5, <2>6 DEF Tick, IInv, TypeOK
<1>11. CASE UNCHANGED vars
  BY <1>a, <1>11 DEF vars, IInv, TypeOK, AttemptsRoom, ResendsRoom, AcceptedExists, UsedExists,
                     Pending
<1>12. QED
  BY <1>1, <1>2, <1>3, <1>4, <1>5, <1>6, <1>7, <1>8, <1>9, <1>10, <1>11 DEF Next

\* The invariant holds in every reachable state.
LEMMA Invariant == Spec => []IInv
BY InitInvariant, StepInvariant, PTL DEF Spec

-------------------------------------------------------------------------------
(* The theorems.                                                             *)

\* Type correctness of every reachable state.  The type of the code says that resend()
\* replaces it at most MAX_RESENDS times, plus once for every further handler that was past
\* the check when the limit was reached.
THEOREM TypeCorrect == Spec => []TypeOK
<1>1. IInv => TypeOK
  BY DEF IInv
<1>2. QED
  BY <1>1, Invariant, PTL

\* No code is answered wrongly more often than MAX_ATTEMPTS, plus once for every further
\* handler: verify()'s check of the attempts and its UPDATE are apart, but a handler is
\* between the two for one code at a time.
THEOREM AttemptsLimited == Spec => []AttemptsBounded
<1>1. IInv => AttemptsBounded
  <2> SUFFICES ASSUME IInv, NEW c \in Challenge
               PROVE  chal[c].attempts <= MaxAttempts + Overlap
    BY DEF AttemptsBounded
  <2>1. chal[c].attempts + Cardinality(Pending("reject", c)) <= MaxAttempts + Overlap
    BY DEF IInv, AttemptsRoom
  <2>2. /\ chal[c].attempts \in Nat /\ Cardinality(Pending("reject", c)) \in Nat
        /\ MaxAttempts \in Nat /\ Overlap \in Int
    BY Numbers DEF IInv
  <2>3. QED
    BY <2>1, <2>2
<1>2. QED
  BY <1>1, Invariant, PTL

\* A consumed challenge stays consumed whatever the other handlers had loaded before: no
\* UPDATE of the service clears used_at, and an INSERT never takes the id of a row.
THEOREM ConsumedForGood == Spec => ConsumedStaysConsumed
<1> DEFINE Kept == \A c \in Challenge : chal[c].used => chal'[c].used
<1>1. IInv /\ [Next]_vars => [Kept]_vars
  <2> SUFFICES ASSUME IInv, [Next]_vars PROVE Kept
    OBVIOUS
  <2>a. /\ TypeOK
        /\ \A c \in Challenge : chal[c] \in Row
    BY DEF IInv, TypeOK
  <2>1. ASSUME NEW h \in Handler, RequestInsert(h)
        PROVE  Kept
    <3>1. PICK c \in Challenge : /\ ~chal[c].exists
                                 /\ \A d \in Challenge \ {c} : chal'[d] = chal[d]
      BY <2>a, <2>1 DEF RequestInsert, TypeOK
    <3>2. QED
      BY <3>1 DEF IInv, UsedExists
  <2>2. ASSUME NEW h \in Handler, VerifyAccept(h)
        PROVE  Kept
    BY <2>a, <2>2 DEF VerifyAccept, TypeOK, Row
  <2>3. ASSUME NEW h \in Handler, VerifyReject(h)
        PROVE  Kept
    BY <2>a, <2>3 DEF VerifyReject, TypeOK, Row
  <2>4. ASSUME NEW h \in Handler, ResendReplace(h)
        PROVE  Kept
    BY <2>a, <2>4 DEF ResendReplace, Resent, TypeOK, Row
  <2>5. CASE Tick
    BY <2>a, <2>5 DEF Tick, Row
  <2>6. CASE UNCHANGED chal
    BY <2>6
  <2>7. QED
    BY <2>1, <2>2, <2>3, <2>4, <2>5, <2>6
       DEF Next, vars, RequestCount, Deliver, VerifyLoad, ResendLoad, Crash
<1>2. QED
  BY <1>1, Invariant, PTL DEF Spec, ConsumedStaysConsumed

-------------------------------------------------------------------------------
(* The sending of messages: what SmsSendProofs shows of every choice of its  *)
(* constants, for each of the four slices.                                   *)

CapSent == INSTANCE SmsSendProofs WITH
          Campaign <- {}, Looked <- {"count"}, Budget <- 1, EnvBudget <- 0,
          Audience <- 0, LastDay <- 0, MaxTrouble <- 1, MaxBilled <- 2
NightSent == INSTANCE SmsSendProofs WITH
          Campaign <- {}, Looked <- {"count"}, Budget <- 1, EnvBudget <- 0,
          Audience <- 0, LastDay <- 1, MaxTrouble <- 0, MaxBilled <- 1
TextsSent == INSTANCE SmsSendProofs WITH
          Worker <- {Lone}, Request <- {Aside}, Looked <- {"text"}, Budget <- 0, EnvBudget <- 0,
          Audience <- 1, LastDay <- 0, MaxTrouble <- 1, MaxBilled <- 0
ShareSent == INSTANCE SmsSendProofs WITH
          Worker <- {Lone}, Request <- {Aside}, Campaign <- {Solo}, Looked <- {"count"},
          Budget <- 1, EnvBudget <- 0, Audience <- 2, LastDay <- 0, MaxTrouble <- 1, MaxBilled <- 1

\* An instance of the proofs is about the same states and steps as the slice.
LEMMA CapSame ==
  /\ Cap!SendAssumption => CapSent!SendAssumption
  /\ Cap!Init => CapSent!Init
  /\ CapSent!TypeOK => Cap!TypeOK
  /\ CapSent!CapUnlessBlurred => Cap!CapUnlessBlurred
  /\ CapSent!OwnText => Cap!OwnText
  /\ CapSent!ReportTrue => Cap!ReportTrue
BY DEF Cap!SendAssumption, CapSent!SendAssumption, Cap!IsFiniteSet, CapSent!IsFiniteSet,
   Cap!Init, CapSent!Init, Cap!Task, CapSent!Task, Cap!Day, CapSent!Day, Cap!Keys,
   CapSent!Keys, Cap!None, CapSent!None, Cap!Tally, CapSent!Tally, Cap!Idle, CapSent!Idle,
   Cap!TypeOK, CapSent!TypeOK, Cap!Cardinality, CapSent!Cardinality, Cap!Live,
   CapSent!Live, Cap!CapUnlessBlurred, CapSent!CapUnlessBlurred, Cap!OwnText,
   CapSent!OwnText, Cap!ReportTrue, CapSent!ReportTrue, Cap!Sum, CapSent!Sum

LEMMA CapSteps == Cap!Next => CapSent!Next
BY DEF Cap!Next, CapSent!Next, Cap!Midnight, CapSent!Midnight, Cap!Crash, CapSent!Crash,
   Cap!Expire, CapSent!Expire, Cap!Begin, CapSent!Begin, Cap!Launch, CapSent!Launch,
   Cap!Message, CapSent!Message, Cap!Drive, CapSent!Drive, Cap!Select, CapSent!Select,
   Cap!Take, CapSent!Take, Cap!Pop, CapSent!Pop, Cap!Refuse, CapSent!Refuse, Cap!Book,
   CapSent!Book, Cap!Fail, CapSent!Fail, Cap!Deliver, CapSent!Deliver, Cap!Reject,
   CapSent!Reject, Cap!SaveText, CapSent!SaveText, Cap!Skip, CapSent!Skip, Cap!Invite,
   CapSent!Invite, Cap!Bump, CapSent!Bump, Cap!Finish, CapSent!Finish, Cap!Counted,
   CapSent!Counted, Cap!Spent, CapSent!Spent, Cap!Used, CapSent!Used, Cap!AfterRead,
   CapSent!AfterRead, Cap!Run, CapSent!Run, Cap!sends, CapSent!sends, Cap!ghosts,
   CapSent!ghosts, Cap!Task, CapSent!Task, Cap!Day, CapSent!Day, Cap!Keys, CapSent!Keys,
   Cap!None, CapSent!None, Cap!Idle, CapSent!Idle, Cap!Tally, CapSent!Tally, Cap!Live,
   CapSent!Live

LEMMA CapRests == UNCHANGED smsVars => UNCHANGED CapSent!vars
BY DEF smsVars, CapSent!vars, CapSent!sends, CapSent!ghosts

LEMMA NightSame ==
  /\ Night!SendAssumption => NightSent!SendAssumption
  /\ Night!Init => NightSent!Init
  /\ NightSent!TypeOK => Night!TypeOK
  /\ NightSent!CapUnlessBlurred => Night!CapUnlessBlurred
  /\ NightSent!OwnText => Night!OwnText
  /\ NightSent!ReportTrue => Night!ReportTrue
BY DEF Night!SendAssumption, NightSent!SendAssumption, Night!IsFiniteSet,
   NightSent!IsFiniteSet, Night!Init, NightSent!Init, Night!Task, NightSent!Task,
   Night!Day, NightSent!Day, Night!Keys, NightSent!Keys, Night!None, NightSent!None,
   Night!Tally, NightSent!Tally, Night!Idle, NightSent!Idle, Night!TypeOK,
   NightSent!TypeOK, Night!Cardinality, NightSent!Cardinality, Night!Live, NightSent!Live,
   Night!CapUnlessBlurred, NightSent!CapUnlessBlurred, Night!OwnText, NightSent!OwnText,
   Night!ReportTrue, NightSent!ReportTrue, Night!Sum, NightSent!Sum

LEMMA NightSteps == Night!Next => NightSent!Next
BY DEF Night!Next, NightSent!Next, Night!Midnight, NightSent!Midnight, Night!Crash,
   NightSent!Crash, Night!Expire, NightSent!Expire, Night!Begin, NightSent!Begin,
   Night!Launch, NightSent!Launch, Night!Message, NightSent!Message, Night!Drive,
   NightSent!Drive, Night!Select, NightSent!Select, Night!Take, NightSent!Take, Night!Pop,
   NightSent!Pop, Night!Refuse, NightSent!Refuse, Night!Book, NightSent!Book, Night!Fail,
   NightSent!Fail, Night!Deliver, NightSent!Deliver, Night!Reject, NightSent!Reject,
   Night!SaveText, NightSent!SaveText, Night!Skip, NightSent!Skip, Night!Invite,
   NightSent!Invite, Night!Bump, NightSent!Bump, Night!Finish, NightSent!Finish,
   Night!Counted, NightSent!Counted, Night!Spent, NightSent!Spent, Night!Used,
   NightSent!Used, Night!AfterRead, NightSent!AfterRead, Night!Run, NightSent!Run,
   Night!sends, NightSent!sends, Night!ghosts, NightSent!ghosts, Night!Task,
   NightSent!Task, Night!Day, NightSent!Day, Night!Keys, NightSent!Keys, Night!None,
   NightSent!None, Night!Idle, NightSent!Idle, Night!Tally, NightSent!Tally, Night!Live,
   NightSent!Live

LEMMA NightRests == UNCHANGED smsVars => UNCHANGED NightSent!vars
BY DEF smsVars, NightSent!vars, NightSent!sends, NightSent!ghosts

LEMMA TextsSame ==
  /\ Texts!SendAssumption => TextsSent!SendAssumption
  /\ Texts!Init => TextsSent!Init
  /\ TextsSent!TypeOK => Texts!TypeOK
  /\ TextsSent!CapUnlessBlurred => Texts!CapUnlessBlurred
  /\ TextsSent!OwnText => Texts!OwnText
  /\ TextsSent!ReportTrue => Texts!ReportTrue
BY DEF Texts!SendAssumption, TextsSent!SendAssumption, Texts!IsFiniteSet,
   TextsSent!IsFiniteSet, Texts!Init, TextsSent!Init, Texts!Task, TextsSent!Task,
   Texts!Day, TextsSent!Day, Texts!Keys, TextsSent!Keys, Texts!None, TextsSent!None,
   Texts!Tally, TextsSent!Tally, Texts!Idle, TextsSent!Idle, Texts!TypeOK,
   TextsSent!TypeOK, Texts!Cardinality, TextsSent!Cardinality, Texts!Live, TextsSent!Live,
   Texts!CapUnlessBlurred, TextsSent!CapUnlessBlurred, Texts!OwnText, TextsSent!OwnText,
   Texts!ReportTrue, TextsSent!ReportTrue, Texts!Sum, TextsSent!Sum

LEMMA TextsSteps == Texts!Next => TextsSent!Next
BY DEF Texts!Next, TextsSent!Next, Texts!Midnight, TextsSent!Midnight, Texts!Crash,
   TextsSent!Crash, Texts!Expire, TextsSent!Expire, Texts!Begin, TextsSent!Begin,
   Texts!Launch, TextsSent!Launch, Texts!Message, TextsSent!Message, Texts!Drive,
   TextsSent!Drive, Texts!Select, TextsSent!Select, Texts!Take, TextsSent!Take, Texts!Pop,
   TextsSent!Pop, Texts!Refuse, TextsSent!Refuse, Texts!Book, TextsSent!Book, Texts!Fail,
   TextsSent!Fail, Texts!Deliver, TextsSent!Deliver, Texts!Reject, TextsSent!Reject,
   Texts!SaveText, TextsSent!SaveText, Texts!Skip, TextsSent!Skip, Texts!Invite,
   TextsSent!Invite, Texts!Bump, TextsSent!Bump, Texts!Finish, TextsSent!Finish,
   Texts!Counted, TextsSent!Counted, Texts!Spent, TextsSent!Spent, Texts!Used,
   TextsSent!Used, Texts!AfterRead, TextsSent!AfterRead, Texts!Run, TextsSent!Run,
   Texts!sends, TextsSent!sends, Texts!ghosts, TextsSent!ghosts, Texts!Task,
   TextsSent!Task, Texts!Day, TextsSent!Day, Texts!Keys, TextsSent!Keys, Texts!None,
   TextsSent!None, Texts!Idle, TextsSent!Idle, Texts!Tally, TextsSent!Tally, Texts!Live,
   TextsSent!Live

LEMMA TextsRests == UNCHANGED smsVars => UNCHANGED TextsSent!vars
BY DEF smsVars, TextsSent!vars, TextsSent!sends, TextsSent!ghosts

LEMMA ShareSame ==
  /\ Share!SendAssumption => ShareSent!SendAssumption
  /\ Share!Init => ShareSent!Init
  /\ ShareSent!TypeOK => Share!TypeOK
  /\ ShareSent!CapUnlessBlurred => Share!CapUnlessBlurred
  /\ ShareSent!OwnText => Share!OwnText
  /\ ShareSent!ReportTrue => Share!ReportTrue
BY DEF Share!SendAssumption, ShareSent!SendAssumption, Share!IsFiniteSet,
   ShareSent!IsFiniteSet, Share!Init, ShareSent!Init, Share!Task, ShareSent!Task,
   Share!Day, ShareSent!Day, Share!Keys, ShareSent!Keys, Share!None, ShareSent!None,
   Share!Tally, ShareSent!Tally, Share!Idle, ShareSent!Idle, Share!TypeOK,
   ShareSent!TypeOK, Share!Cardinality, ShareSent!Cardinality, Share!Live, ShareSent!Live,
   Share!CapUnlessBlurred, ShareSent!CapUnlessBlurred, Share!OwnText, ShareSent!OwnText,
   Share!ReportTrue, ShareSent!ReportTrue, Share!Sum, ShareSent!Sum

LEMMA ShareSteps == Share!Next => ShareSent!Next
BY DEF Share!Next, ShareSent!Next, Share!Midnight, ShareSent!Midnight, Share!Crash,
   ShareSent!Crash, Share!Expire, ShareSent!Expire, Share!Begin, ShareSent!Begin,
   Share!Launch, ShareSent!Launch, Share!Message, ShareSent!Message, Share!Drive,
   ShareSent!Drive, Share!Select, ShareSent!Select, Share!Take, ShareSent!Take, Share!Pop,
   ShareSent!Pop, Share!Refuse, ShareSent!Refuse, Share!Book, ShareSent!Book, Share!Fail,
   ShareSent!Fail, Share!Deliver, ShareSent!Deliver, Share!Reject, ShareSent!Reject,
   Share!SaveText, ShareSent!SaveText, Share!Skip, ShareSent!Skip, Share!Invite,
   ShareSent!Invite, Share!Bump, ShareSent!Bump, Share!Finish, ShareSent!Finish,
   Share!Counted, ShareSent!Counted, Share!Spent, ShareSent!Spent, Share!Used,
   ShareSent!Used, Share!AfterRead, ShareSent!AfterRead, Share!Run, ShareSent!Run,
   Share!sends, ShareSent!sends, Share!ghosts, ShareSent!ghosts, Share!Task,
   ShareSent!Task, Share!Day, ShareSent!Day, Share!Keys, ShareSent!Keys, Share!None,
   ShareSent!None, Share!Idle, ShareSent!Idle, Share!Tally, ShareSent!Tally, Share!Live,
   ShareSent!Live

LEMMA ShareRests == UNCHANGED smsVars => UNCHANGED ShareSent!vars
BY DEF smsVars, ShareSent!vars, ShareSent!sends, ShareSent!ghosts

\* What the slice under way keeps.
Slices ==
  /\ focus \in {"codes", "cap", "night", "texts", "share"}
  /\ focus \in {"codes", "cap"} => CapSent!IInv
  /\ focus = "night" => NightSent!IInv
  /\ focus = "texts" => TextsSent!IInv
  /\ focus = "share" => ShareSent!IInv

LEMMA Assumed == /\ CapSent!SendAssumption /\ NightSent!SendAssumption
                 /\ TextsSent!SendAssumption /\ ShareSent!SendAssumption
  BY SmsAssumption, CapSame, NightSame, TextsSame, ShareSame

LEMMA SlicesKept == Slices /\ [MCNext]_<<vars, smsVars, focus>> => Slices'
<1> SUFFICES ASSUME Slices, [MCNext]_<<vars, smsVars, focus>>
             PROVE  Slices'
  OBVIOUS
<1>1. focus' = focus
  BY DEF MCNext
<1>2. CASE focus \in {"codes", "cap"}
  <2>1. Cap!Next \/ UNCHANGED smsVars
    BY <1>2 DEF MCNext
  <2>2. CapSent!IInv
    BY <1>2 DEF Slices
  <2>3. CapSent!IInv'
    BY <2>1, <2>2, Assumed, CapSteps, CapRests, CapSent!NextKeeps, CapSent!StutterKeeps
  <2> QED BY <1>1, <1>2, <2>3 DEF Slices
<1>3. CASE focus = "texts"
  <2>1. Texts!Next \/ UNCHANGED smsVars
    BY <1>3 DEF MCNext
  <2>2. TextsSent!IInv
    BY <1>3 DEF Slices
  <2>3. TextsSent!IInv'
    BY <2>1, <2>2, Assumed, TextsSteps, TextsRests, TextsSent!NextKeeps, TextsSent!StutterKeeps
  <2> QED BY <1>1, <1>3, <2>3 DEF Slices
<1>4. CASE focus = "share"
  <2>1. Share!Next \/ UNCHANGED smsVars
    BY <1>4 DEF MCNext
  <2>2. ShareSent!IInv
    BY <1>4 DEF Slices
  <2>3. ShareSent!IInv'
    BY <2>1, <2>2, Assumed, ShareSteps, ShareRests, ShareSent!NextKeeps, ShareSent!StutterKeeps
  <2> QED BY <1>1, <1>4, <2>3 DEF Slices
<1>5. CASE focus = "night"
  <2>1. Night!Next \/ UNCHANGED smsVars
    BY <1>5 DEF MCNext
  <2>2. NightSent!IInv
    BY <1>5 DEF Slices
  <2>3. NightSent!IInv'
    BY <2>1, <2>2, Assumed, NightSteps, NightRests, NightSent!NextKeeps, NightSent!StutterKeeps
  <2> QED BY <1>1, <1>5, <2>3 DEF Slices
<1> QED BY <1>2, <1>3, <1>4, <1>5 DEF Slices

LEMMA SlicesHold == MCSpec => []Slices
<1>1. MCInit => Slices
  BY Assumed, CapSame, NightSame, TextsSame, ShareSame, CapSent!InitHolds,
     NightSent!InitHolds, TextsSent!InitHolds, ShareSent!InitHolds DEF MCInit, Slices
<1>2. QED
  BY <1>1, SlicesKept, PTL DEF MCSpec

\* The codes are one part of a behaviour of the whole.
LEMMA CodesToo == MCSpec => Spec
<1>1. MCInit => Init
  BY DEF MCInit
<1>2. [MCNext]_<<vars, smsVars, focus>> => [Next]_vars
  BY DEF MCNext
<1>3. QED
  BY <1>1, <1>2, PTL DEF MCSpec, Spec

\* The rows, caches, threads and counters of every slice are typed, and so are the codes, with
\* the bound on how often one is replaced.
THEOREM TypesCorrect == MCSpec => []TypesOK
<1>1. Slices /\ TypeOK => TypesOK
  <2> SUFFICES ASSUME Slices, TypeOK PROVE TypesOK
    OBVIOUS
  <2>1. /\ focus \in {"codes", "cap"} => Cap!TypeOK
        /\ focus = "night" => Night!TypeOK
        /\ focus = "texts" => Texts!TypeOK
        /\ focus = "share" => Share!TypeOK
    BY Assumed, CapSame, NightSame, TextsSame, ShareSame, CapSent!Promises,
       NightSent!Promises, TextsSent!Promises, ShareSent!Promises DEF Slices
  <2>2. focus \in {"codes", "cap"} \/ focus = "night" \/ focus = "texts" \/ focus = "share"
    BY DEF Slices
  <2> QED BY <2>1, <2>2 DEF TypesOK
<1>2. QED
  BY <1>1, SlicesHold, CodesToo, TypeCorrect, PTL

\* For any workers and requests, no more messages are counted on a day than its budget, and none
\* that the counter does not have, unless a booking wrote over a counter it had not read
\* (_spend_budget: "counted BEFORE the request"); and none goes out uncounted unless a read of
\* the budget failed and no cap stood in for it (daily_budget, _read_setting_uncached).
THEOREM CapHeld == MCSpec => []CapUnlessBlurred
<1>1. Slices => CapUnlessBlurred
  BY Assumed, CapSame, NightSame, ShareSame, CapSent!Promises, NightSent!Promises,
     ShareSent!Promises DEF Slices, CapUnlessBlurred
<1>2. QED
  BY <1>1, SlicesHold, PTL

\* For any workers and campaigns, a campaign that nobody ran beside sends its own words
\* (launch), and its row tells what happened to its audience (_bump, _finish).
THEOREM CampaignsHeld == MCSpec => []CampaignsTrue
<1>1. Slices => CampaignsTrue
  BY Assumed, TextsSame, ShareSame, TextsSent!Promises, ShareSent!Promises
     DEF Slices, CampaignsTrue
<1>2. QED
  BY <1>1, SlicesHold, PTL

===============================================================================
