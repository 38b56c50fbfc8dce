------------------------------- MODULE MCChat -------------------------------
(***************************************************************************)
(* What a chat request does, for TLC: its walk over the providers (module  *)
(* RoutingEngine), the conversation it belongs to (Conversation), and what *)
(* the next turn of it remembers of the last (Dialogue).  None of them     *)
(* reads what another keeps, so a behaviour explores one while the others  *)
(* rest.                                                                   *)
(*                                                                         *)
(* The route has three targets, the first and the last on one provider     *)
(* instance, so that a failure of the one can close the circuit in front   *)
(* of the other; the second may be tried twice.  The requests call         *)
(* providers four times between them, or three times when one of them is   *)
(* cut off or loses its usage row.  The conversations come in three        *)
(* slices: two overlapping requests, which write two messages between them *)
(* and do not fail before the first, beside a registration and deletions;  *)
(* one request at a time, with a fault and a second sitting; and the       *)
(* summary of one conversation over three sittings, where nobody needs a   *)
(* name.  One person at most is deleted.  The turns come in four: long     *)
(* lists under edits, picked from at the head of each page; short ones     *)
(* beside two proposals, with a fault and with time; and two turns that    *)
(* overlap, over a list that has a second page and is edited (without the  *)
(* answers that come after the list's), and over a proposal.  What the     *)
(* model may choose is a few lists: in order, out of order, across a page. *)
(***************************************************************************)
EXTENDS RoutingEngine, TLC

CONSTANTS t1, t2, t3, p1, p2,
          Visitor, Conv, Signup, Keep, SummarizeAfter, MaxId, LastSitting, MaxFault,
          Records, PageSize, OfferMax, PickWindow, MaxEdit, MaxSlip, MaxProposal,
          Solo   \* the conversation that is summarised

MCRoute == <<t1, t2, t3>>
MCProviderOf == [t \in {t1, t2, t3} |-> IF t = t2 THEN p2 ELSE p1]
MCMaxAttempts == [t \in {t1, t2, t3} |-> IF t = t2 THEN 2 ELSE 1]

VARIABLES conv, log, lastId, person, task, sitting, faults, kept, late,
          exists, topic, row, proposal, turn, screen, named, answer, replays, asked, doubt,
          reread, counted, edits, slips,
          focus     \* which of the eight runs

convVars == <<conv, log, lastId, person, task, sitting, faults, kept, late>>
talkVars == <<exists, topic, row, proposal, turn, screen, named, answer, replays, asked, doubt,
              reread, counted, edits, slips>>

Booth == INSTANCE Conversation WITH Threshold <- SummarizeAfter

Talk == INSTANCE Dialogue WITH
          Turn <- Request, Window <- PickWindow, MaxFault <- MaxSlip, faults <- slips

ASSUME ChatAssumption ==
  Booth!ConversationAssumption /\ Talk!DialogueAssumption

Symmetry == Permutations(Request) \cup Permutations(Visitor) \cup Permutations(Conv \ {Solo})

\* What rests is in one initial state.
MCInit ==
  /\ Init /\ Booth!Init /\ Talk!Init
  /\ \/ focus = "pages" /\ exists = 1..5
     \/ focus \in {"talk", "cross"} /\ exists = 1..3
     \/ focus \in {"route", "overlap", "faulty", "summary", "yeses"} /\ exists = 1..2
  /\ topic = exists

\* As many provider calls between the requests as one walk of the route can take; or one
\* fewer, and a request that is cut off or loses its row.
Calls ==
  LET lost == {r \in Request : req'[r].step \in {"cancelled", "unrecorded"}} IN
  /\ Cardinality(UNION {{r} \X DOMAIN calls'[r] : r \in Request}) + Cardinality(lost) <= 4
  /\ Cardinality(lost) <= 1

\* The slices of the conversations: who talks where, for how long, how often in vain.
Within(convs, ids, sittings, troubles) ==
  /\ \A t \in DOMAIN task : task'[t].conv \subseteq convs
  /\ \A r \in Request : Booth!Busy(r)' /\ ~Booth!Busy(r) =>
       lastId + 2 * Cardinality({u \in Request : Booth!Busy(u)'}) <= ids
  /\ sitting' <= sittings /\ faults' <= troubles
  /\ Cardinality({v \in Visitor : person'[v] = "deleted"}) <= 1

\* Two requests write two messages between them, and neither fails before its first.
Asks ==
  /\ lastId' <= 2
  /\ \A r \in Request : task[r].pc = "ask" => task'[r].pc # "idle"

\* The slices of the turns: how many at once, what changes, fails and is proposed, and
\* which choices the model may make.
Turns(n, numbers, changed, troubles, questions, choices) ==
  /\ Cardinality({r \in Request : turn'[r] # Talk!Idle}) =< n
  /\ \A r \in Request : turn'[r] # Talk!Idle => turn'[r].msg.n \in numbers \cup {0}
  /\ edits' <= changed /\ slips' <= troubles /\ asked' <= questions
  /\ row'.offer.q \/ row'.offer.ids \in choices \cup {<<>>}

\* A turn about the list, and not about what is answered after it.
OfTheList(u) == u = Talk!Idle \/ (u.msg.kind # "question" /\ u.step # "pipeline")

MCNext ==
  /\ UNCHANGED focus
  /\ \/ focus = "route" /\ Next /\ Calls /\ UNCHANGED <<convVars, talkVars>>
     \/ /\ focus \in {"overlap", "faulty", "summary"}
        /\ Booth!Next /\ UNCHANGED <<vars, talkVars>>
        /\ focus = "overlap" => Within(Conv \ {Solo}, 4, 0, 0) /\ Asks
        /\ focus = "faulty" => Within(Conv \ {Solo}, 2, 1, 1)
        /\ IF focus = "summary"
           THEN Within({Solo}, 6, 2, 1) /\ \A t \in DOMAIN task : task'[t].who = Booth!Anon
           ELSE \A r \in Request : task'[r].pc # "fold"
     \/ /\ focus \in {"pages", "talk", "cross", "yeses"}
        /\ Talk!Next /\ UNCHANGED <<vars, convVars>>
        /\ focus = "pages" => Turns(1, {1, 3, 5}, 2, 0, 0, {<<1, 2>>, <<2, 1>>, <<1, 5>>})
        /\ focus = "talk" => Turns(1, {1, 3}, 0, 1, 2, {<<1, 2>>, <<2, 3>>, <<3, 1>>})
        /\ focus = "cross" => /\ Turns(2, {1, 3}, 1, 0, 0, {})
                              /\ \A r \in Request : OfTheList(turn'[r])
        /\ focus = "yeses" => Turns(2, {1, 2}, 0, 0, 1, {<<1, 2>>})

MCSpec == MCInit /\ [][MCNext]_<<vars, convVars, talkVars, focus>>

TypesOK == TypeOK /\ Booth!TypeOK /\ Talk!TypeOK

NotOverheard == Booth!NotOverheard
Defended == Booth!Defended
DeletedIsGone == Booth!DeletedIsGone

\* A number, a page and a yes mean what they meant on the screen.
PickIsWhatWasPrinted == Talk!PickIsWhatWasPrinted
PagesWhole == Talk!PagesWhole
ReplayedOnce == Talk!ReplayedOnce
===============================================================================
