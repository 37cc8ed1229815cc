--------------------------- MODULE SourceDelivery ---------------------------
(***************************************************************************)
(* How what a source reports becomes cards: the poll loop and its cursor   *)
(* (internal/sources/runner.go), the pipeline every delivery goes through  *)
(* (manager.go), the table of what has been brought (store.go) and the     *)
(* board's own answer (internal/boardadapter/sourcewriter.go).             *)
(*                                                                         *)
(* One source.  A delivery is cut at every read and write of the database: *)
(* the application may go down between two of them, a write may fail, and  *)
(* another delivery may come in between.                                   *)
(*                                                                         *)
(* A definition marked "Slip" is not the code: it is the definition below  *)
(* it with a mistake, there to see that a property would notice.           *)
(***************************************************************************)
EXTENDS Integers, FiniteSets, Sequences

CONSTANTS
  Items,         \* Item.ExternalID
  MaxVersion,    \* bound on how often the service changes an item
  Dropped,       \* the states of items the rules drop, as <<item, version>>
  Comments,      \* SourceEntry.Update: comment on a change, or ignore it
  Cursor,        \* whether the plugin's polls carry a cursor
  Loops,         \* goroutines of Manager.run
  Pushers,       \* goroutines that deliver what nobody polled for
  First,         \* the loop Start brings up
  MaxFaults,     \* bound on writes and reads that fail
  MaxPushes,     \* bound on pushed deliveries
  MaxRuns,       \* bound on Manager.run called again
  MaxRestarts,   \* bound on restarts of the application
  None

ASSUME SourceAssumption ==
  /\ IsFiniteSet(Loops \cup Pushers)
  /\ First \in Loops
  /\ Loops \cap Pushers = {}
  /\ None \notin Items
  /\ MaxVersion \in Nat \ {0}
  /\ {Comments, Cursor} \subseteq BOOLEAN
  /\ {MaxFaults, MaxPushes, MaxRuns, MaxRestarts} \subseteq Nat

VARIABLES
  latest,     \* the state each item is in at the service, 0 before it exists
  known,      \* the source_item table
  cards,      \* the board's cards, in the order they were made
  cursor,     \* pluginHandler.cursor of each loop: the states it covers
  cancelled,  \* loops whose context is over
  job,        \* what each goroutine is at
  todo,       \* what is left of its batch
  said,       \* history: item states the board has been told of
  met,        \* history: items two deliveries have been at together
  faults, pushes, runs, restarts   \* counted against the bounds

bounds == <<faults, pushes, runs, restarts>>
vars == <<latest, known, cards, cursor, cancelled, job, todo, said, met,
          faults, pushes, runs, restarts>>

Senders == Loops \cup Pushers
Versions == 1 .. MaxVersion

Report == [item : Items, version : Versions]
Entry == [version : {0} \cup Versions, card : Nat]
Card == [item : Items, version : Versions, stamped : BOOLEAN, shown : BOOLEAN]
Job == [pc : {"off", "wait", "next", "look", "ask", "adopt", "decide",
              "stamp", "note", "place", "comment", "update"},
        item : Items \cup {None}, version : {0} \cup Versions, card : Nat]

NoCard == 0
NoEntry == [version |-> 0, card |-> NoCard]
Resting(pc) == [pc |-> pc, item |-> None, version |-> 0, card |-> NoCard]
Fresh == [i \in Items |-> 0]

Working(w) == job[w].pc \notin {"off", "wait", "next"}
On(l) == job[l].pc # "off" /\ l \notin cancelled

Init ==
  /\ latest = [i \in Items |-> 0]
  /\ known = [i \in Items |-> NoEntry]
  /\ cards = <<>>
  /\ cursor = [l \in Loops |-> Fresh]
  /\ cancelled = {}
  /\ job = [w \in Senders |->
              Resting(IF w \in Loops \ {First} THEN "off" ELSE "wait")]
  /\ todo = [w \in Senders |-> {}]
  /\ said = {}
  /\ met = {}
  /\ faults = 0
  /\ pushes = 0
  /\ runs = 0
  /\ restarts = 0

\* The goroutine goes on with the item it has.
Goto(w, pc) == job' = [job EXCEPT ![w].pc = pc]
\* It is done with the item.
Done(w) == job' = [job EXCEPT ![w] = Resting("next")]

Remembered(i, v, c) == [known EXCEPT ![i] = [version |-> v, card |-> c]]

-----------------------------------------------------------------------------
(* Where batches come from                                                 *)

\* The service makes or changes an item.
Change(i) ==
  /\ latest[i] < MaxVersion
  /\ latest' = [latest EXCEPT ![i] = @ + 1]
  /\ UNCHANGED <<known, cards, cursor, cancelled, job, todo, said, met, bounds>>

Unread(l) == {i \in Items : latest[i] \notin {0, cursor[l][i]}}

\* Slip: the answer's cursor is kept whether the plugin declares one or not.
PollAlwaysMarks(l) ==
  /\ job[l].pc = "wait"
  /\ l \notin cancelled
  /\ todo' = [todo EXCEPT ![l] =
                {[item |-> i, version |-> latest[i]] : i \in Unread(l)}]
  /\ cursor' = [cursor EXCEPT ![l] = latest]
  /\ job' = [job EXCEPT ![l] = Resting("next")]
  /\ UNCHANGED <<latest, known, cards, cancelled, said, met, bounds>>

\* The plugin answers with what the cursor does not cover, or with all it sees
\* when it keeps none, and the cursor moves before the items are dealt with.
Poll(l) ==
  /\ job[l].pc = "wait"
  /\ l \notin cancelled
  /\ todo' = [todo EXCEPT ![l] =
                {[item |-> i, version |-> latest[i]] : i \in Unread(l)}]
  /\ cursor' = IF Cursor THEN [cursor EXCEPT ![l] = latest] ELSE cursor
  /\ job' = [job EXCEPT ![l] = Resting("next")]
  /\ UNCHANGED <<latest, known, cards, cancelled, said, met, bounds>>

\* The service refuses the token: the loop ends until somebody starts it.
PollRefused(l) ==
  /\ job[l].pc = "wait"
  /\ l \notin cancelled
  /\ faults < MaxFaults
  /\ faults' = faults + 1
  /\ job' = [job EXCEPT ![l] = Resting("off")]
  /\ UNCHANGED <<latest, known, cards, cursor, cancelled, todo, said, met,
                 pushes, runs, restarts>>

\* A loop that was told to stop looks at its context only between polls.
LoopEnds(l) ==
  /\ l \in cancelled
  /\ job[l].pc = "wait"
  /\ job' = [job EXCEPT ![l] = Resting("off")]
  /\ cancelled' = cancelled \ {l}
  /\ UNCHANGED <<latest, known, cards, cursor, todo, said, met, bounds>>

\* The source is edited, or given a token: the loop that runs is told to stop,
\* is not waited for, and another one starts with a cursor of its own.
Run(l) ==
  /\ runs < MaxRuns
  /\ runs' = runs + 1
  /\ job[l].pc = "off"
  /\ job' = [job EXCEPT ![l] = Resting("wait")]
  /\ cancelled' = {k \in Loops \ {l} : job[k].pc # "off"}
  /\ cursor' = [cursor EXCEPT ![l] = Fresh]
  /\ UNCHANGED <<latest, known, cards, todo, said, met, faults, pushes,
                 restarts>>

\* An item somebody sends unasked: a request to the ingest address, which may
\* repeat an older one, or a plugin's notification, which may move the cursor.
Push(w, i, v) ==
  /\ pushes < MaxPushes
  /\ pushes' = pushes + 1
  /\ job[w].pc = "wait"
  /\ v <= latest[i]
  /\ todo' = [todo EXCEPT ![w] = {[item |-> i, version |-> v]}]
  /\ job' = [job EXCEPT ![w] = Resting("next")]
  /\ \/ UNCHANGED cursor
     \/ \E l \in Loops :
          /\ Cursor /\ On(l)
          /\ cursor' = [cursor EXCEPT ![l][i] = v]
  /\ UNCHANGED <<latest, known, cards, cancelled, said, met, faults, runs,
                 restarts>>

-----------------------------------------------------------------------------
(* Deliver and deliverOne, run by w                                        *)

TakeItem(w) ==
  /\ job[w].pc = "next"
  /\ \E r \in todo[w] :
       /\ job' = [job EXCEPT ![w] = [pc |-> "look", item |-> r.item,
                                     version |-> r.version, card |-> NoCard]]
       /\ todo' = [todo EXCEPT ![w] = @ \ {r}]
       /\ met' = IF \E x \in Senders : Working(x) /\ job[x].item = r.item
                 THEN met \cup {r.item} ELSE met
  /\ UNCHANGED <<latest, known, cards, cursor, cancelled, said, bounds>>

BatchDone(w) ==
  /\ job[w].pc = "next"
  /\ todo[w] = {}
  /\ job' = [job EXCEPT ![w] = Resting("wait")]
  /\ UNCHANGED <<latest, known, cards, cursor, cancelled, todo, said, met,
                 bounds>>

\* updateCard: a changed item is commented on the card it has, or ignored.
Changed(w, c) ==
  job' = [job EXCEPT ![w].pc = IF Comments THEN "comment" ELSE "update",
                     ![w].card = c]

\* Slip: a change is a change, card or no card.
LookNoGuard(w) ==
  /\ job[w].pc = "look"
  /\ LET e == known[job[w].item]
     IN  CASE e.version = 0 -> Goto(w, "ask")
           [] e.version = job[w].version -> Done(w)
           [] OTHER -> Changed(w, e.card)
  /\ UNCHANGED <<latest, known, cards, cursor, cancelled, todo, said, met,
                 bounds>>

\* Slip: an item the table has not heard of is new, whatever the board knows.
LookNoBoard(w) ==
  /\ job[w].pc = "look"
  /\ LET e == known[job[w].item]
     IN  \/ e.version = 0 /\ Goto(w, "decide")
         \/ e.version = job[w].version /\ Done(w)
         \/ /\ e.version \notin {0, job[w].version}
            /\ IF e.card = NoCard THEN Goto(w, "decide") ELSE Changed(w, e.card)
  /\ UNCHANGED <<latest, known, cards, cursor, cancelled, todo, said, met,
                 bounds>>

\* The table is asked first.  The board is asked about an item the table has
\* never heard of; a changed item that has no card is decided anew.
Look(w) ==
  /\ job[w].pc = "look"
  /\ LET e == known[job[w].item]
     IN  \/ e.version = 0 /\ Goto(w, "ask")
         \/ e.version = job[w].version /\ Done(w)
         \/ /\ e.version \notin {0, job[w].version}
            /\ IF e.card = NoCard THEN Goto(w, "decide") ELSE Changed(w, e.card)
  /\ UNCHANGED <<latest, known, cards, cursor, cancelled, todo, said, met,
                 bounds>>

\* CardBySourceItem: a card that says it came from this item.
CardsOf(i) == {c \in DOMAIN cards : cards[c].item = i /\ cards[c].stamped}

\* Slip: the card's version is not compared.
AskNoVersion(w) ==
  /\ job[w].pc = "ask"
  /\ \/ CardsOf(job[w].item) = {} /\ Goto(w, "decide")
     \/ \E c \in CardsOf(job[w].item) :
          job' = [job EXCEPT ![w].pc = "adopt", ![w].card = c]
  /\ UNCHANGED <<latest, known, cards, cursor, cancelled, todo, said, met,
                 bounds>>

Ask(w) ==
  /\ job[w].pc = "ask"
  /\ \/ CardsOf(job[w].item) = {} /\ Goto(w, "decide")
     \/ \E c \in CardsOf(job[w].item) :
          IF cards[c].version = job[w].version
          THEN job' = [job EXCEPT ![w].pc = "adopt", ![w].card = c]
          ELSE Changed(w, c)
  /\ UNCHANGED <<latest, known, cards, cursor, cancelled, todo, said, met,
                 bounds>>

\* A card the board already had is remembered; failing to is only logged.
Adopt(w) ==
  /\ job[w].pc = "adopt"
  /\ Done(w)
  /\ \/ known' = Remembered(job[w].item, job[w].version, job[w].card)
        /\ UNCHANGED faults
     \/ faults < MaxFaults /\ faults' = faults + 1 /\ UNCHANGED known
  /\ UNCHANGED <<latest, cards, cursor, cancelled, todo, said, met, pushes,
                 runs, restarts>>

\* The rules do not want it: it is remembered without a card.
Drop(w) ==
  /\ job[w].pc = "decide"
  /\ <<job[w].item, job[w].version>> \in Dropped
  /\ known' = Remembered(job[w].item, job[w].version, NoCard)
  /\ Done(w)
  /\ UNCHANGED <<latest, cards, cursor, cancelled, todo, said, met, bounds>>

\* The card is written, in no column and not yet saying where it came from.
CreateCard(w) ==
  /\ job[w].pc = "decide"
  /\ <<job[w].item, job[w].version>> \notin Dropped
  /\ cards' = Append(cards, [item |-> job[w].item, version |-> job[w].version,
                             stamped |-> FALSE, shown |-> FALSE])
  /\ said' = said \cup {<<job[w].item, job[w].version>>}
  /\ job' = [job EXCEPT ![w].pc = "stamp", ![w].card = Len(cards) + 1]
  /\ UNCHANGED <<latest, known, cursor, cancelled, todo, met, bounds>>

\* setCardSource: failing to is only logged.
StampCard(w) ==
  /\ job[w].pc = "stamp"
  /\ Goto(w, "note")
  /\ \/ cards' = [cards EXCEPT ![job[w].card].stamped = TRUE]
        /\ UNCHANGED faults
     \/ faults < MaxFaults /\ faults' = faults + 1 /\ UNCHANGED cards
  /\ UNCHANGED <<latest, known, cursor, cancelled, todo, said, met, pushes,
                 runs, restarts>>

\* Slip: the card is left where it was made.
NoteNoMove(w) ==
  /\ job[w].pc = "note"
  /\ known' = Remembered(job[w].item, job[w].version, job[w].card)
  /\ Done(w)
  /\ UNCHANGED <<latest, cards, cursor, cancelled, todo, said, met, bounds>>

\* Remembered before the move.
NoteCard(w) ==
  /\ job[w].pc = "note"
  /\ known' = Remembered(job[w].item, job[w].version, job[w].card)
  /\ Goto(w, "place")
  /\ UNCHANGED <<latest, cards, cursor, cancelled, todo, said, met, bounds>>

\* The column is found or made, and the card is moved into it.
PlaceCard(w) ==
  /\ job[w].pc = "place"
  /\ cards' = [cards EXCEPT ![job[w].card].shown = TRUE]
  /\ Done(w)
  /\ UNCHANGED <<latest, known, cursor, cancelled, todo, said, met, bounds>>

AddComment(w) ==
  /\ job[w].pc = "comment"
  /\ said' = said \cup {<<job[w].item, job[w].version>>}
  /\ Goto(w, "update")
  /\ UNCHANGED <<latest, known, cards, cursor, cancelled, todo, met, bounds>>

\* Slip: the new state is remembered without its card.
NoteChangeBare(w) ==
  /\ job[w].pc = "update"
  /\ known' = Remembered(job[w].item, job[w].version, NoCard)
  /\ Done(w)
  /\ UNCHANGED <<latest, cards, cursor, cancelled, todo, said, met, bounds>>

NoteChange(w) ==
  /\ job[w].pc = "update"
  /\ known' = Remembered(job[w].item, job[w].version, job[w].card)
  /\ Done(w)
  /\ UNCHANGED <<latest, cards, cursor, cancelled, todo, said, met, bounds>>

\* A read or a write fails: the item is counted as failed and left; nothing of
\* what was done for it is undone.
Fail(w) ==
  /\ job[w].pc \in {"look", "ask", "decide", "note", "place", "comment",
                    "update"}
  /\ faults < MaxFaults
  /\ faults' = faults + 1
  /\ Done(w)
  /\ UNCHANGED <<latest, known, cards, cursor, cancelled, todo, said, met,
                 pushes, runs, restarts>>

\* The application goes down and comes up: Start brings the source's loop up
\* with an empty cursor; the table and the board are what they were.
Restart ==
  /\ restarts < MaxRestarts
  /\ restarts' = restarts + 1
  /\ cursor' = [l \in Loops |-> Fresh]
  /\ cancelled' = {}
  /\ job' = [w \in Senders |->
               Resting(IF w \in Loops \ {First} THEN "off" ELSE "wait")]
  /\ todo' = [w \in Senders |-> {}]
  /\ UNCHANGED <<latest, known, cards, said, met, faults, pushes, runs>>

-----------------------------------------------------------------------------

DeliverStep(w) ==
  \/ TakeItem(w)
  \/ BatchDone(w)
  \/ Look(w)
  \/ Ask(w)
  \/ Adopt(w)
  \/ Drop(w)
  \/ CreateCard(w)
  \/ StampCard(w)
  \/ NoteCard(w)
  \/ PlaceCard(w)
  \/ AddComment(w)
  \/ NoteChange(w)
  \/ Fail(w)

Next ==
  \/ \E i \in Items : Change(i)
  \/ \E l \in Loops : Poll(l) \/ PollRefused(l) \/ LoopEnds(l) \/ Run(l)
  \/ \E w \in Pushers, i \in Items, v \in Versions : Push(w, i, v)
  \/ \E w \in Senders : DeliverStep(w)
  \/ Restart

Spec == Init /\ [][Next]_vars

\* Goroutines are scheduled and a poll comes round: the loop waits a bounded
\* time, and every poll and every write has a timeout.
FairSpec ==
  /\ Spec
  /\ \A l \in Loops : WF_vars(Poll(l)) /\ WF_vars(LoopEnds(l))
  /\ \A w \in Senders : WF_vars(DeliverStep(w))

-----------------------------------------------------------------------------
(* Properties                                                              *)

\* The variables keep their types, and a goroutine that is about to write to a
\* card knows which one.
TypeOK ==
  /\ latest \in [Items -> 0 .. MaxVersion]
  /\ known \in [Items -> Entry]
  /\ cards \in Seq(Card)
  /\ \A i \in Items : known[i].card \in {NoCard} \cup DOMAIN cards
  /\ cursor \in [Loops -> [Items -> 0 .. MaxVersion]]
  /\ cancelled \subseteq Loops
  /\ job \in [Senders -> Job]
  /\ \A w \in Senders : Working(w) =>
       job[w].item \in Items /\ job[w].version \in Versions
  /\ \A w \in Senders :
       job[w].pc \in {"adopt", "stamp", "note", "place", "comment", "update"}
         => job[w].card \in DOMAIN cards
  /\ todo \in [Senders -> SUBSET Report]
  /\ said \subseteq Items \X Versions
  /\ met \subseteq Items
  /\ {faults, pushes, runs, restarts} \subseteq Nat

\* What the table says was brought has been brought: a remembered state that
\* the rules wanted stands on the board as a card or as a comment (deliverOne
\* writes to the board first, RememberItem is called once it has succeeded).
RememberedWasSaid ==
  \A i \in Items :
    known[i].version # 0 /\ known[i].card # NoCard =>
      <<i, known[i].version>> \in said

\* A card in no column that nobody is at work on cost a failed write or a
\* restart, one each at most: nothing else leaves a card out of sight.
UnshownCostFaults ==
  Cardinality({c \in DOMAIN cards :
                 /\ ~cards[c].shown
                 /\ \A w \in Senders :
                      job[w].card = c => job[w].pc \notin {"stamp", "note", "place"}})
    <= faults + Cardinality(Senders) * restarts

\* An item that has got a card keeps it, unless two deliveries were at it
\* together: a later state becomes a comment there and never a card of its own.
CardKept ==
  [][\A i \in Items : known[i].card # NoCard /\ i \notin met
       => known'[i].card = known[i].card]_known

\* When the same item has two cards, either two deliveries were at it together,
\* or the earlier card does not say where it came from.  Items the rules have
\* dropped in some state are another matter: those are never looked up.
SecondCardExplained ==
  \A a, b \in DOMAIN cards :
    /\ a < b
    /\ cards[a].item = cards[b].item
    /\ \A v \in Versions : <<cards[a].item, v>> \notin Dropped
    => cards[a].item \in met \/ ~cards[a].stamped

\* Everything the service reports is dealt with in the end, whatever failed on
\* the way, as long as the source keeps running: the item a write failed for
\* comes back with the next poll.
CaughtUp ==
  \/ <>[](\A i \in Items : known[i].version = latest[i])
  \/ <>[](\A l \in Loops : ~On(l))
=============================================================================
