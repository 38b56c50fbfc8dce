------------------------------ MODULE SmsOutbox ------------------------------
(***************************************************************************)
(* The SMS outbox (src/app/services/sms_outbox.py): one row per message    *)
(* handed to the gateway, and the poll that asks the gateway what became   *)
(* of it.  The poll runs every five minutes in every worker                *)
(* (src/app/main.py, _sms_delivery_loop) and whenever an administrator     *)
(* presses the button (src/app/routers/admin.py, sms_refresh_statuses), so *)
(* two of them may be out at the same time.                                *)
(***************************************************************************)
EXTENDS Naturals, FiniteSets

CONSTANTS
  Message,   \* the messages whose row record() tries to write
  Poller,    \* polls that can be out at the same time
  Limit,     \* rows one round takes (50 in the code)
  Window,    \* POLL_WINDOW_HOURS
  LastSend   \* bound: no message is recorded after this hour

\* What an instance of this module has to assume of its constants.
OutboxAssumption ==
  Limit \in Nat \ {0} /\ Window \in Nat /\ LastSend \in Nat /\ IsFiniteSet(Message)

MaxNow == LastSend + Window + 1   \* bound: time stops once every row is past the window

VARIABLES
  status,    \* [Message -> "none", or the row's status]
  created,   \* [Message -> the hour of the row]
  arrived,   \* the messages the gateway calls delivered, which it never takes back
  poll,      \* [Poller -> where its round is]
  now,
  crossed    \* ghost: <<p, m>> when p held a row that someone else then settled

vars == <<status, created, arrived, poll, now, crossed>>

Home == [pc |-> "home", cutoff |-> 0, rows |-> {}, told |-> {}]
Status == {"none", "queued", "unknown", "delivered"}

Init ==
  /\ status = [m \in Message |-> "none"]
  /\ created = [m \in Message |-> 0]
  /\ arrived = {}
  /\ poll = [p \in Poller |-> Home]
  /\ now = 0
  /\ crossed = {}

\* Hours pass; a round compares with the hour it began in.
Tick ==
  /\ now < MaxNow
  /\ now' = now + 1
  /\ UNCHANGED <<status, created, arrived, poll, crossed>>

\* record(): a message without an id can never be asked about; a failed INSERT is swallowed.
Record(m) ==
  /\ status[m] = "none" /\ now =< LastSend
  /\ \E s \in {"queued", "unknown"} : status' = [status EXCEPT ![m] = s]
  /\ created' = [created EXCEPT ![m] = now]
  /\ UNCHANGED <<arrived, poll, now, crossed>>

\* The phone receives the message: from then on the gateway answers with a delivered code.
Arrive(m) ==
  /\ status[m] # "none" /\ m \notin arrived
  /\ arrived' = arrived \cup {m}
  /\ UNCHANGED <<status, created, poll, now, crossed>>

\* For comparison: the rows past the window, whatever has become of them.
ExpiredAnyStatus(cutoff) == {m \in Message : status[m] # "none" /\ created[m] + Window < cutoff}
Expired(cutoff) == {m \in Message : status[m] = "queued" /\ created[m] + Window < cutoff}
Open(cutoff) == {m \in Message : status[m] = "queued" /\ created[m] + Window >= cutoff}

\* The first Limit of them by created_at; rows of the same hour come in any order.
Oldest(rows) ==
  {s \in SUBSET rows :
     /\ Cardinality(s) = IF Cardinality(rows) < Limit THEN Cardinality(rows) ELSE Limit
     /\ \A m \in s, n \in rows \ s : created[m] =< created[n]}

\* Without an ORDER BY any Limit of them may come.
AnyOf(rows) ==
  {s \in SUBSET rows :
     Cardinality(s) = IF Cardinality(rows) < Limit THEN Cardinality(rows) ELSE Limit}

\* SELECT the rows past the window.
Begin(p) ==
  /\ poll[p].pc = "home"
  /\ \E s \in AnyOf(Expired(now)) :
       poll' = [poll EXCEPT ![p] = [Home EXCEPT !.pc = "close", !.cutoff = now, !.rows = s]]
  /\ UNCHANGED <<status, created, arrived, now, crossed>>

\* The rows of others that m's new word crosses: a round that holds m writes after it.
Holders(p, m) == {q \in Poller \ {p} : m \in poll[q].rows}

\* For comparison: the close is never committed.
CloseRolledBack(p) ==
  /\ poll[p].pc = "close"
  /\ poll' = [poll EXCEPT ![p].pc = "list", ![p].rows = {}]
  /\ UNCHANGED <<status, created, arrived, now, crossed>>

\* UPDATE them to unknown by id, whatever they say by now; COMMIT.
Close(p) ==
  /\ poll[p].pc = "close"
  /\ status' = [m \in Message |-> IF m \in poll[p].rows THEN "unknown" ELSE status[m]]
  /\ poll' = [poll EXCEPT ![p].pc = "list", ![p].rows = {}]
  /\ crossed' = {c \in crossed : c[1] # p}
                \cup UNION {Holders(p, m) \X {m} : m \in poll[p].rows}
  /\ UNCHANGED <<created, arrived, now>>

\* SELECT the rows to ask about, on the same connection.
List(p) ==
  /\ poll[p].pc = "list"
  /\ \E s \in Oldest(Open(poll[p].cutoff)) :
       poll' = [poll EXCEPT ![p].pc = "ask", ![p].rows = s]
  /\ UNCHANGED <<status, created, arrived, now, crossed>>

\* _ask_gateway for the next row: the gateway's word at this moment.
Ask(p, m) ==
  /\ poll[p].pc = "ask" /\ m \in poll[p].rows
  /\ poll' = [poll EXCEPT ![p].pc = "write",
                          ![p].told = {[row |-> m, word |-> IF m \in arrived THEN "delivered"
                                                                            ELSE "queued"]}]
  /\ UNCHANGED <<status, created, arrived, now, crossed>>

\* The gateway refuses the question (another provider's row, a refusal, an answer without a code).
Unanswered(p, m) ==
  /\ poll[p].pc = "ask" /\ m \in poll[p].rows
  /\ poll' = [poll EXCEPT ![p].rows = @ \ {m}]
  /\ crossed' = crossed \ {<<p, m>>}
  /\ UNCHANGED <<status, created, arrived, now>>

\* UPDATE by id with the answer, whatever the row says by now.
Write(p) ==
  /\ poll[p].pc = "write"
  /\ \E t \in poll[p].told :
       /\ status' = [status EXCEPT ![t.row] = t.word]
       /\ poll' = [poll EXCEPT ![p].pc = "ask", ![p].rows = @ \ {t.row}, ![p].told = {}]
       /\ crossed' = (crossed \ {<<p, t.row>>})
                     \cup IF t.word = "delivered" THEN Holders(p, t.row) \X {t.row} ELSE {}
  /\ UNCHANGED <<created, arrived, now>>

\* Nothing left to ask, the gateway is unreachable, or the process dies: the round is over.
End(p) ==
  /\ poll[p].pc # "home"
  /\ poll' = [poll EXCEPT ![p] = Home]
  /\ crossed' = {c \in crossed : c[1] # p}
  /\ UNCHANGED <<status, created, arrived, now>>

Round(p) == Begin(p) \/ Close(p) \/ List(p) \/ Write(p) \/ End(p)
            \/ \E m \in Message : Ask(p, m) \/ Unanswered(p, m)

Next == \/ Tick
        \/ \E m \in Message : Record(m) \/ Arrive(m)
        \/ \E p \in Poller : Round(p)

Spec == Init /\ [][Next]_vars

(***************************************************************************)
(* Some loop begins a round again and again, and a round that gets to its  *)
(* first statement closes what is past the window: strong fairness,        *)
(* because a process may die in between, but not at every single attempt.  *)
(* Which poll gets that far is left open: the others may hang for ever.    *)
(***************************************************************************)
Fairness == /\ WF_vars(Tick)
            /\ WF_vars(\E p \in Poller : Begin(p))
            /\ SF_vars(\E p \in Poller : Close(p))
            /\ WF_vars(\E p \in Poller : Round(p))

FairSpec == Spec /\ Fairness

TypeOK ==
  /\ status \in [Message -> Status]
  /\ created \in [Message -> 0..LastSend]
  /\ arrived \subseteq {m \in Message : status[m] # "none"}
  /\ now \in 0..MaxNow
  /\ crossed \subseteq Poller \X Message
  /\ \A p \in Poller :
       /\ poll[p].cutoff \in 0..now
       /\ poll[p].rows \subseteq Message /\ Cardinality(poll[p].rows) =< Limit
       /\ poll[p].pc \in {"home", "close", "list", "ask", "write"}
       /\ poll[p].told \subseteq [row : poll[p].rows, word : {"queued", "delivered"}]
       /\ Cardinality(poll[p].told) = IF poll[p].pc = "write" THEN 1 ELSE 0

\* A word that is final stays: a delivered message becomes queued or unknown again, and a
\* closed one is queued again, only by a step of a round that was holding the row when another
\* round wrote the final word (poll_deliveries writes by id, without asking for 'queued').
FinalUnlessCrossed ==
  [][\A m \in Message :
       (status[m] \in {"delivered", "unknown"} /\ status'[m] # status[m])
         => \E p \in Poller : <<p, m>> \in crossed /\ poll'[p] # poll[p]]_vars

\* No message waits for ever: whatever the gateway says or fails to say, and whatever the
\* rounds do to each other, in the end no row is queued.
Settles == <>[](\A m \in Message : status[m] # "queued")
===============================================================================
