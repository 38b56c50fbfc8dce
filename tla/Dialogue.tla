------------------------------ MODULE Dialogue ------------------------------
(***************************************************************************)
(* What a conversation remembers between two turns: the numbered list that *)
(* a bare "3", «بیشتر» or «بله» is about, and the question the model       *)
(* offered to go on with.  The list is the newest chat_logs row that       *)
(* carries an offer, appended by a log_chat that swallows its faults; the  *)
(* question is a row of the settings table, which is read, then deleted.   *)
(* Two requests of one conversation may overlap, records are edited        *)
(* between two turns, and both rows lose their force with time.            *)
(*                                                                         *)
(* The records are numbered in the order in which a list prints them.      *)
(* There is one topic to ask a list of; a record may be taken into it, out *)
(* of it, or deleted.  The lookup of an id and the query of a topic see    *)
(* the same rows (how late a process sees an edit is module SearchIndex).  *)
(* A turn that ends in the ordinary pipeline gets one of three answers:    *)
(* one that remembers nothing, a choice the model made, or an offer.       *)
(***************************************************************************)
EXTENDS Integers, FiniteSets, SequencesExt

CONSTANTS Turn,         \* requests in flight at once
          Records,      \* bound on the records there are at first
          PageSize,     \* options_shown
          OfferMax,     \* OFFER_IDS_MAX
          Window,       \* PICK_WINDOW_MINUTES, in ticks
          MaxEdit, MaxFault, MaxProposal   \* bounds on what happens

DialogueAssumption ==
  /\ Records \in Nat /\ PageSize \in Nat \ {0, 1} /\ OfferMax \in Nat \ {0}
  /\ {Window, MaxEdit, MaxFault, MaxProposal} \subseteq Nat

Record == 1..Records
None == 0
Proposal == 1..MaxProposal

VARIABLES exists,     \* the records get_entry finds
          topic,      \* those of them the list's query matches
          row,        \* the newest row with an offer, and its age
          proposal,   \* the settings row: the question, None if there is none, and its age
          turn,       \* what each request is doing
          screen,     \* what the visitor reads: the name last printed at a number
          named,      \* every name printed since the list began
          answer,     \* a pick just made: the name the number stood at, the record served
          replays,    \* how often each question was replayed
          asked,      \* questions offered so far
          doubt,      \* what has come between the screen and the row
          reread,     \* a question was read again before it was gone
          counted,    \* what the newest offer's count is of: a page that was counted, one
                      \* that was shown again, or records that have changed since
          edits, faults

vars == <<exists, topic, row, proposal, turn, screen, named, answer, replays, asked, doubt,
          reread, counted, edits, faults>>

NoOffer == [ids |-> <<>>, shown |-> 0, total |-> 0, q |-> FALSE]
NoPick == [meant |-> None, gave |-> None, doubt |-> {}]

Message == [kind : {"number"}, n : Record] \cup
           [kind : {"more", "yes", "no", "list", "question"}, n : {0}]
Idle == [step |-> "idle"]
Busy == [step : {"asked", "peeked", "untaken", "pipeline"}, msg : Message, offer : [ids : Seq(Record),
         shown : Nat, total : Nat, q : BOOLEAN], meant : Record \cup {None},
         question : Proposal \cup {None}]

TypeOK ==
  /\ topic \subseteq exists /\ exists \subseteq Record
  /\ row.offer.ids \in Seq(Record) /\ row.offer.shown \in 0..Len(row.offer.ids)
  /\ row.age \in 0..(Window + 1)
  /\ proposal.id \in Proposal \cup {None} /\ proposal.age \in 0..(Window + 1)
  /\ turn \in [Turn -> Busy \cup {Idle}]
  /\ DOMAIN screen \subseteq Record /\ named \subseteq Record
  /\ answer.meant \in Record \cup {None} /\ answer.gave \in Record \cup {None}
  /\ replays \in [Proposal -> Nat] /\ asked \in 0..MaxProposal
  /\ doubt \cup answer.doubt \subseteq {"unlogged", "crossed", "renumbered"}
  /\ reread \in BOOLEAN /\ counted \in {"page", "again", "edited"}
  /\ edits \in 0..MaxEdit /\ faults \in 0..MaxFault

-----------------------------------------------------------------------------
(* The list.                                                               *)

Lesser(a, b) == IF a < b THEN a ELSE b
Greater(a, b) == IF a > b THEN a ELSE b

First(s, k) == SubSeq(s, 1, Lesser(k, Len(s)))

\* Those of the sequence that are in the set, in their order (a function of its length, since
\* a proof cannot look into SelectSeq).
Kept(s, S) ==
  LET kept[n \in 0..Len(s)] == IF n = 0 THEN <<>>
                               ELSE IF s[n] \in S THEN Append(kept[n - 1], s[n]) ELSE kept[n - 1]
  IN kept[Len(s)]

\* What the list tier matches now, in the order it prints it.
Matched == Kept([r \in Record |-> r], topic)

\* One page from start on, and the offer that is stored with it.
Render(entries, start, total, q) ==
  LET page == SubSeq(entries, start, Lesser(start + PageSize - 1, Len(entries)))
      shown == start - 1 + Len(page)
  IN [start |-> start, page |-> page,
      offer |-> [ids |-> First(entries, Greater(OfferMax, shown)), shown |-> shown,
                 total |-> total, q |-> q]]

\* A stored offer, read back.
Parsed(o) == IF o.ids = <<>> \/ o.shown <= 0 THEN NoOffer
             ELSE [o EXCEPT !.shown = Lesser(@, Len(o.ids)), !.total = Greater(@, Len(o.ids))]

FreshOffer == IF row.age <= Window THEN Parsed(row.offer) ELSE NoOffer

Alive(ids) == Kept(ids, exists)

\* For comparison: the page begins where the old count ended, across the gap.
StoredStepsOver(o) ==
  LET prefix == Alive(First(o.ids, o.shown))
      tail == Alive(SubSeq(o.ids, o.shown + 1, Len(o.ids)))
  IN [entries |-> prefix \o tail, next |-> o.shown + 1, total |-> o.total]

\* What a pager may print: the stored ids that are left, or the whole match again when the
\* list still starts the same way.
Stored(o) ==
  LET prefix == Alive(First(o.ids, o.shown))
      tail == Alive(SubSeq(o.ids, o.shown + 1, Len(o.ids)))
  IN [entries |-> prefix \o tail, next |-> Len(prefix) + 1, total |-> o.total]
SameStart(o) == First(Matched, o.shown) = First(o.ids, o.shown)
Pages(o) ==
  IF o.q /\ Len(o.ids) < o.total /\ SameStart(o)
  THEN [entries |-> Matched, next |-> o.shown + 1, total |-> Len(Matched)]
  ELSE Stored(o)

-----------------------------------------------------------------------------
Init ==
  /\ exists \in {1..n : n \in Record} /\ topic \in {exists, exists \ {1}}
  /\ row = [offer |-> NoOffer, age |-> 0]
  /\ proposal = [id |-> None, age |-> 0]
  /\ turn = [t \in Turn |-> Idle]
  /\ screen = <<>> /\ named = {} /\ answer = NoPick
  /\ replays = [p \in Proposal |-> 0] /\ asked = 0
  /\ doubt = {} /\ reread = FALSE /\ counted = "page"
  /\ edits = 0 /\ faults = 0

Others(t) == {u \in Turn \ {t} : turn[u] # Idle}
Fault == faults < MaxFault /\ faults' = faults + 1
Done(t) == turn' = [turn EXCEPT ![t] = Idle]
Pipeline(t) == turn' = [turn EXCEPT ![t].step = "pipeline"]

listVars == <<row, screen, named, doubt, counted>>
proposalVars == <<proposal, replays, asked, reread>>
recordVars == <<exists, topic, edits>>

\* The page reaches the visitor, and the row its offer unless the log fails.  A page from
\* the first number on is a list of its own.
Show(t, r, why) ==
  LET lines == [n \in r.start..r.offer.shown |-> r.page[n - r.start + 1]]
      fresh == r.start = 1
      causes == why \cup (IF Others(t) = {} THEN {} ELSE {"crossed"})
                    \cup (IF fresh THEN {} ELSE doubt)
  IN /\ screen' = IF fresh THEN lines
                  ELSE [n \in DOMAIN screen \cup DOMAIN lines |->
                          IF n \in DOMAIN lines THEN lines[n] ELSE screen[n]]
     /\ named' = ToSet(r.page) \cup (IF fresh THEN {} ELSE named)
     /\ \/ row' = [offer |-> r.offer, age |-> 0] /\ doubt' = causes /\ UNCHANGED faults
        \/ Fault /\ doubt' = causes \cup {"unlogged"} /\ UNCHANGED row
     /\ Done(t)

\* The count that is stored with the page, if it is stored.
Counts(as) == counted' = IF faults' = faults THEN as ELSE counted

-----------------------------------------------------------------------------
(* A turn.                                                                 *)

\* The visitor sends a message, and the request reads what the last list was.
Send(t, m) ==
  /\ turn[t] = Idle
  /\ \E o \in {FreshOffer, NoOffer} :
       /\ IF o = FreshOffer THEN UNCHANGED faults ELSE Fault
       /\ turn' = [turn EXCEPT ![t] =
            [step |-> "asked", msg |-> m, offer |-> o, question |-> None,
             meant |-> IF m.n \in DOMAIN screen THEN screen[m.n] ELSE None]]
  /\ answer' = NoPick
  /\ UNCHANGED <<recordVars, listVars, proposalVars>>

Asked(t, kind) == turn[t].step = "asked" /\ turn[t].msg.kind = kind

\* For comparison: the number counts among the records that are left.
PickedCompacted(t) ==
  LET left == Alive(turn[t].offer.ids)
      n == turn[t].msg.n
  IN IF n <= Lesser(turn[t].offer.shown, Len(left)) THEN left[n] ELSE None

Picked(t) == LET o == turn[t].offer
                 n == turn[t].msg.n
             IN IF n <= o.shown /\ o.ids[n] \in exists THEN o.ids[n] ELSE None

\* A number: the record that is stored at it, and the same offer stored again.
Pick(t) ==
  /\ Asked(t, "number") /\ Picked(t) # None
  /\ answer' = [meant |-> turn[t].meant, gave |-> Picked(t), doubt |-> doubt]
  /\ \/ row' = [offer |-> turn[t].offer, age |-> 0] /\ UNCHANGED faults
     \/ Fault /\ UNCHANGED row
  /\ Done(t)
  /\ UNCHANGED <<recordVars, screen, named, doubt, counted, proposalVars>>

HasMore(t) == LET o == turn[t].offer
                  all == Pages(o)
              IN o.shown < o.total /\ Len(all.entries) >= all.next

\* The next page, after whatever is left of what was shown; the count is of what is left.
More(t) ==
  /\ Asked(t, "more") /\ HasMore(t)
  /\ LET o == turn[t].offer
         all == Pages(o)
     IN Show(t, Render(all.entries, all.next, Lesser(all.total, Len(all.entries)), o.q),
             IF all.next <= o.shown THEN {"renumbered"} ELSE {})
  /\ Counts("page")
  /\ answer' = NoPick
  /\ UNCHANGED <<recordVars, proposalVars>>

\* A refusal is answered politely and changes nothing.
Decline(t) ==
  /\ Asked(t, "no")
  /\ Done(t)
  /\ answer' = NoPick
  /\ UNCHANGED <<recordVars, listVars, proposalVars, faults>>

\* take_proposal reads the row; a read that fails is an empty row, and an old question none.
Peek(t) ==
  /\ Asked(t, "yes")
  /\ LET fresh == IF proposal.age <= Window THEN proposal.id ELSE None
     IN \/ /\ turn' = [turn EXCEPT ![t].step = "peeked", ![t].question = fresh]
           /\ reread' = (reread \/ \E u \in Others(t) : turn[u].step = "peeked"
                                             /\ turn[u].question = fresh /\ fresh # None)
           /\ UNCHANGED faults
        \/ Fault /\ turn' = [turn EXCEPT ![t].step = "peeked"] /\ UNCHANGED reread
  /\ answer' = NoPick
  /\ UNCHANGED <<recordVars, listVars, proposal, replays, asked>>

\* For comparison: the row stays.
TakeUndeleted(t) ==
  /\ turn[t].step = "peeked"
  /\ LET read == turn[t].question
     IN IF read = None
        THEN turn' = [turn EXCEPT ![t].step = "untaken"] /\ UNCHANGED replays
        ELSE Pipeline(t) /\ replays' = [replays EXCEPT ![read] = @ + 1]
  /\ answer' = NoPick
  /\ UNCHANGED <<recordVars, listVars, proposal, asked, reread, faults>>

\* It deletes whatever the row holds by now, and only then judges what it read.  A delete
\* that fails is swallowed.
Take(t) ==
  /\ turn[t].step = "peeked"
  /\ \/ proposal' = [id |-> None, age |-> 0] /\ UNCHANGED <<reread, faults>>
     \/ Fault /\ reread' = TRUE /\ UNCHANGED proposal
  /\ LET read == turn[t].question
     IN IF read = None
        THEN turn' = [turn EXCEPT ![t].step = "untaken"] /\ UNCHANGED replays
        ELSE Pipeline(t) /\ replays' = [replays EXCEPT ![read] = @ + 1]
  /\ answer' = NoPick
  /\ UNCHANGED <<recordVars, listVars, asked>>

Left(t) == Alive(First(turn[t].offer.ids, turn[t].offer.shown))

\* Nothing to replay: what is left of the list is shown again from its first number.
Again(t) ==
  /\ turn[t].step = "untaken" /\ Left(t) # <<>>
  /\ LET o == turn[t].offer IN Show(t, Render(Left(t), 1, o.total, o.q), {})
  /\ Counts("again")
  /\ answer' = NoPick
  /\ UNCHANGED <<recordVars, proposalVars>>

\* The list of the topic; a topic without records is not the list tier's.
List(t) ==
  /\ Asked(t, "list") /\ topic # {}
  /\ Show(t, Render(Matched, 1, Len(Matched), TRUE), {})
  /\ Counts("page")
  /\ answer' = NoPick
  /\ UNCHANGED <<recordVars, proposalVars>>

\* What none of these answers is a question like any other.
FallThrough(t) ==
  /\ \/ Asked(t, "number") /\ Picked(t) = None
     \/ Asked(t, "more") /\ ~HasMore(t)
     \/ turn[t].step = "untaken" /\ Left(t) = <<>>
     \/ Asked(t, "list") /\ topic = {}
     \/ Asked(t, "question")
  /\ Pipeline(t)
  /\ answer' = NoPick
  /\ UNCHANGED <<recordVars, listVars, proposalVars, faults>>

\* A record, a generated text, a refusal, an outage: nothing a number could be about.
Plain(t) ==
  /\ turn[t].step = "pipeline"
  /\ Done(t)
  /\ answer' = NoPick
  /\ UNCHANGED <<recordVars, listVars, proposalVars, faults>>

\* The model asks which of two records was meant; its choice has no query behind it.
Choose(t) ==
  /\ turn[t].step = "pipeline"
  /\ \E a, b \in exists : a # b /\ Show(t, Render(<<a, b>>, 1, 2, FALSE), {})
  /\ Counts("page")
  /\ answer' = NoPick
  /\ UNCHANGED <<recordVars, proposalVars>>

\* The model ends by offering more: the question is stored over the one before, or, if the
\* write fails, not at all.
Propose(t) ==
  /\ turn[t].step = "pipeline" /\ asked < MaxProposal
  /\ asked' = asked + 1
  /\ \/ proposal' = [id |-> asked + 1, age |-> 0] /\ UNCHANGED faults
     \/ Fault /\ UNCHANGED proposal
  /\ Done(t)
  /\ answer' = NoPick
  /\ UNCHANGED <<recordVars, listVars, replays, reread>>

-----------------------------------------------------------------------------
(* The staff, and time.                                                    *)

Edit(e, p) ==
  /\ edits < MaxEdit
  /\ exists' = e /\ topic' = p
  /\ edits' = edits + 1 /\ counted' = "edited"
  /\ answer' = NoPick
  /\ UNCHANGED <<row, proposal, turn, screen, named, replays, asked, doubt, reread,
                 faults>>

Delete(r) == r \in exists /\ Edit(exists \ {r}, topic \ {r})
TakeIn(r) == r \in exists \ topic /\ Edit(exists, topic \cup {r})
TakeOut(r) == r \in topic /\ Edit(exists, topic \ {r})

Older(x) == IF x.age <= Window THEN [x EXCEPT !.age = @ + 1] ELSE x

Tick ==
  /\ row' = (IF row.offer = NoOffer THEN row ELSE Older(row))
  /\ proposal' = (IF proposal.id = None THEN proposal ELSE Older(proposal))
  /\ <<row', proposal'>> # <<row, proposal>>
  /\ answer' = NoPick
  /\ UNCHANGED <<recordVars, turn, screen, named, replays, asked, doubt, reread, counted,
                 faults>>

Next ==
  \/ \E t \in Turn :
       \/ \E m \in Message : Send(t, m)
       \/ Pick(t) \/ More(t) \/ Decline(t) \/ Peek(t) \/ Take(t) \/ Again(t) \/ List(t)
       \/ FallThrough(t) \/ Plain(t) \/ Choose(t) \/ Propose(t)
  \/ \E r \in Record : Delete(r) \/ TakeIn(r) \/ TakeOut(r)
  \/ Tick

Spec == Init /\ [][Next]_vars

-----------------------------------------------------------------------------
\* A number picks the record whose name was last printed at it, or nothing.  The exceptions
\* are the ones the code leaves open: a list whose row was not written, one that another
\* request crossed, and a pager that closed the gap a deleted record left, which moves the
\* names above the page to other numbers than they stand at on the screen.
PickIsWhatWasPrinted ==
  answer.gave # None /\ answer.doubt = {} => answer.gave = answer.meant

\* No page is stepped over: whatever the stored list counts as shown has been printed, so
\* the next page begins right after the last name the visitor read.
NobodySteppedOver ==
  doubt \subseteq {"renumbered"} => ToSet(First(row.offer.ids, row.offer.shown)) \subseteq named

\* The total of a page is what «بیشتر» can reach, until a record changes.  A list that was
\* shown again is excepted: its total is copied.
Announced == row.offer.total = Len(Pages(row.offer).entries)
CountHonest ==
  doubt \subseteq {"renumbered"} /\ row.offer # NoOffer /\ counted = "page" => Announced

PagesWhole == NobodySteppedOver /\ CountHonest

\* A question that was offered is replayed once, however often the visitor says yes, unless
\* two of the yeses read it before either deleted it, or the delete failed.
ReplayedOnce == reread \/ \A p \in Proposal : replays[p] <= 1
=============================================================================
