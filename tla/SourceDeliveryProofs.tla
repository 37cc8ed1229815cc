------------------------ MODULE SourceDeliveryProofs ------------------------
(***************************************************************************)
(* What holds of SourceDelivery for every set of items, every rule, every  *)
(* number of loops and pushers and every bound.                            *)
(***************************************************************************)
EXTENDS SourceDelivery, SequenceTheorems, FiniteSetTheorems, FunctionTheorems, TLAPS

-----------------------------------------------------------------------------
(* Types                                                                   *)

LEMMA RestingJob ==
  ASSUME NEW pc \in {"off", "wait", "next"}
  PROVE  Resting(pc) \in Job /\ Resting(pc).pc = pc
  BY DEF Resting, Job, NoCard

LEMMA InitTypeOK == Init => TypeOK
<1> SUFFICES ASSUME Init PROVE TypeOK
  OBVIOUS
<1>1. job \in [Senders -> Job] /\ \A w \in Senders : ~Working(w)
  <2>1. /\ Resting("off") \in Job /\ Resting("off").pc = "off"
        /\ Resting("wait") \in Job /\ Resting("wait").pc = "wait"
    BY RestingJob
  <2> QED
    BY <2>1 DEF Init, Working
<1>2. known \in [Items -> Entry] /\ \A i \in Items : known[i].card = NoCard
  BY DEF Init, NoEntry, Entry, NoCard
<1>3. cards \in Seq(Card)
  BY DEF Init
<1>4. cursor \in [Loops -> [Items -> 0 .. MaxVersion]]
  BY SourceAssumption DEF Init, Fresh
<1> QED
  BY <1>1, <1>2, <1>3, <1>4, SourceAssumption DEF Init, TypeOK, Working

\* The part of TypeOK about the goroutines, for the cards there are.
JobsOK ==
  /\ job \in [Senders -> Job]
  /\ \A w \in Senders : Working(w) =>
       job[w].item \in Items /\ job[w].version \in Versions
  /\ \A w \in Senders :
       job[w].pc \in {"adopt", "stamp", "note", "place", "comment", "update"}
         => job[w].card \in DOMAIN cards

LEMMA DoneOK ==
  ASSUME TypeOK, NEW w \in Senders, Done(w), DOMAIN cards \subseteq DOMAIN cards'
  PROVE  JobsOK'
<1>1. Resting("next") \in Job /\ Resting("next").pc = "next"
  BY RestingJob
<1> QED
  BY <1>1 DEF TypeOK, JobsOK, Done, Working

LEMMA GotoOK ==
  ASSUME TypeOK, NEW w \in Senders, Working(w),
         NEW pc \in {"ask", "decide", "note", "place", "update"},
         pc \in {"ask", "decide"} \/ job[w].card \in DOMAIN cards,
         Goto(w, pc), DOMAIN cards \subseteq DOMAIN cards'
  PROVE  JobsOK'
<1>1. job[w] \in Job
  BY DEF TypeOK
<1>2. [job[w] EXCEPT !.pc = pc] \in Job
  BY <1>1 DEF Job
<1> QED
  BY <1>1, <1>2 DEF TypeOK, JobsOK, Goto, Working, Job

LEMMA ChangedOK ==
  ASSUME TypeOK, NEW w \in Senders, Working(w), NEW c \in DOMAIN cards,
         Changed(w, c), UNCHANGED cards
  PROVE  JobsOK'
<1>1. job[w] \in Job /\ c \in Nat
  BY LenProperties DEF TypeOK
<1> DEFINE r == [job[w] EXCEPT !.pc = IF Comments THEN "comment" ELSE "update",
                               !.card = c]
<1>2. /\ r \in Job /\ r.item = job[w].item /\ r.version = job[w].version
      /\ r.card = c
  BY <1>1 DEF Job
<1>3. job' = [job EXCEPT ![w] = r]
  BY <1>1 DEF Changed, TypeOK
<1> HIDE DEF r
<1> QED
  BY <1>1, <1>2, <1>3 DEF TypeOK, JobsOK, Working

LEMMA RememberedOK ==
  ASSUME TypeOK, NEW i \in Items, NEW v \in Versions,
         NEW c \in {NoCard} \cup DOMAIN cards,
         known' = Remembered(i, v, c), UNCHANGED cards
  PROVE  /\ known' \in [Items -> Entry]
         /\ \A j \in Items : known'[j].card \in {NoCard} \cup DOMAIN cards'
<1>1. c \in Nat
  BY LenProperties DEF TypeOK, NoCard
<1>2. [version |-> v, card |-> c] \in Entry
  BY <1>1 DEF Entry
<1> QED
  BY <1>2 DEF TypeOK, Remembered

\* Setting one field of a card leaves the rest of the board alone.
LEMMA CardWritten ==
  ASSUME TypeOK, NEW c \in DOMAIN cards, NEW r \in Card,
         cards' = [cards EXCEPT ![c] = r]
  PROVE  /\ cards' \in Seq(Card)
         /\ DOMAIN cards' = DOMAIN cards
         /\ cards'[c] = r
         /\ \A d \in DOMAIN cards : d # c => cards'[d] = cards[d]
<1>1. cards \in Seq(Card) /\ DOMAIN cards = 1 .. Len(cards)
  BY LenProperties DEF TypeOK
<1>2. cards' \in Seq(Card) /\ Len(cards') = Len(cards)
  BY <1>1, ExceptSeq
<1>3. DOMAIN cards' = 1 .. Len(cards')
  BY <1>2, LenProperties
<1> QED
  BY <1>1, <1>2, <1>3, ExceptSeq

LEMMA CardAppended ==
  ASSUME TypeOK, NEW r \in Card, cards' = Append(cards, r)
  PROVE  /\ cards' \in Seq(Card)
         /\ Len(cards) \in Nat
         /\ DOMAIN cards = 1 .. Len(cards)
         /\ DOMAIN cards' = 1 .. (Len(cards) + 1)
         /\ cards'[Len(cards) + 1] = r
         /\ \A d \in DOMAIN cards : cards'[d] = cards[d]
<1>1. cards \in Seq(Card) /\ DOMAIN cards = 1 .. Len(cards) /\ Len(cards) \in Nat
  BY LenProperties DEF TypeOK
<1>2. /\ cards' \in Seq(Card) /\ Len(cards') = Len(cards) + 1
      /\ cards'[Len(cards) + 1] = r
      /\ \A d \in 1 .. Len(cards) : cards'[d] = cards[d]
  BY <1>1, AppendProperties
<1>3. DOMAIN cards' = 1 .. Len(cards')
  BY <1>2, LenProperties
<1> QED
  BY <1>1, <1>2, <1>3

LEMMA NextTypeOK == TypeOK /\ [Next]_vars => TypeOK'
<1> SUFFICES ASSUME TypeOK, [Next]_vars
             PROVE  TypeOK'
  OBVIOUS
<1>j. ASSUME JobsOK', UNCHANGED <<latest, known, cards, cursor, cancelled,
                                  todo, said, met, bounds>>
      PROVE  TypeOK'
  BY <1>j DEF TypeOK, JobsOK, bounds, Working
<1>f. ASSUME faults' = faults + 1, UNCHANGED <<pushes, runs, restarts>>
      PROVE  {faults, pushes, runs, restarts}' \subseteq Nat
  BY <1>f DEF TypeOK
<1>1. ASSUME NEW i \in Items, Change(i)
      PROVE  TypeOK'
  <2>1. latest' \in [Items -> 0 .. MaxVersion]
    BY <1>1, SourceAssumption DEF Change, TypeOK
  <2> QED
    BY <1>1, <2>1 DEF Change, TypeOK, Working, bounds
<1>2. ASSUME NEW l \in Loops, Poll(l)
      PROVE  TypeOK'
  <2>1. Resting("next") \in Job /\ Resting("next").pc = "next" /\ l \in Senders
    BY RestingJob DEF Senders
  <2>2. {[item |-> i, version |-> latest[i]] : i \in Unread(l)} \subseteq Report
    <3>1. ASSUME NEW i \in Unread(l)
          PROVE  [item |-> i, version |-> latest[i]] \in Report
      BY <3>1, SourceAssumption DEF Unread, TypeOK, Report, Versions
    <3> QED
      BY <3>1
  <2>3. todo' \in [Senders -> SUBSET Report]
    BY <1>2, <2>1, <2>2 DEF Poll, TypeOK
  <2>4. cursor' \in [Loops -> [Items -> 0 .. MaxVersion]]
    BY <1>2 DEF Poll, TypeOK
  <2> QED
    BY <1>2, <2>1, <2>3, <2>4 DEF Poll, TypeOK, Working, bounds
<1>3. ASSUME NEW l \in Loops, PollRefused(l) \/ LoopEnds(l)
      PROVE  TypeOK'
  <2>1. Resting("off") \in Job /\ Resting("off").pc = "off" /\ l \in Senders
    BY RestingJob DEF Senders
  <2>2. CASE PollRefused(l)
    BY <2>1, <2>2, <1>f DEF PollRefused, TypeOK, Working
  <2>3. CASE LoopEnds(l)
    BY <2>1, <2>3 DEF LoopEnds, TypeOK, Working, bounds
  <2> QED
    BY <1>3, <2>2, <2>3
<1>4. ASSUME NEW l \in Loops, Run(l)
      PROVE  TypeOK'
  <2>1. Resting("wait") \in Job /\ Resting("wait").pc = "wait" /\ l \in Senders
    BY RestingJob DEF Senders
  <2>2. Fresh \in [Items -> 0 .. MaxVersion]
    BY SourceAssumption DEF Fresh
  <2>3. cursor' \in [Loops -> [Items -> 0 .. MaxVersion]]
    BY <1>4, <2>2 DEF Run, TypeOK
  <2>4. job' = [job EXCEPT ![l] = Resting("wait")]
    BY <1>4 DEF Run
  <2>5. JobsOK'
    BY <1>4, <2>1, <2>4 DEF Run, TypeOK, JobsOK, Working
  <2>6. {faults, pushes, runs, restarts}' \subseteq Nat
    BY <1>4 DEF Run, TypeOK
  <2>7. cancelled' \subseteq Loops
    BY <1>4 DEF Run
  <2> QED
    BY <1>4, <2>3, <2>5, <2>6, <2>7 DEF Run, TypeOK, JobsOK, Working
<1>5. ASSUME NEW w \in Pushers, NEW i \in Items, NEW v \in Versions, Push(w, i, v)
      PROVE  TypeOK'
  <2>1. Resting("next") \in Job /\ Resting("next").pc = "next" /\ w \in Senders
    BY RestingJob DEF Senders
  <2>2. {[item |-> i, version |-> v]} \subseteq Report /\ v \in 0 .. MaxVersion
    BY SourceAssumption DEF Report, Versions
  <2>3. todo' \in [Senders -> SUBSET Report]
    BY <1>5, <2>1, <2>2 DEF Push, TypeOK
  <2>4. cursor' \in [Loops -> [Items -> 0 .. MaxVersion]]
    <3>1. ASSUME NEW l \in Loops, cursor' = [cursor EXCEPT ![l][i] = v]
          PROVE  cursor' \in [Loops -> [Items -> 0 .. MaxVersion]]
      BY <3>1, <2>2 DEF TypeOK
    <3> QED
      BY <1>5, <3>1 DEF Push, TypeOK
  <2>5. job' = [job EXCEPT ![w] = Resting("next")]
    BY <1>5 DEF Push
  <2>6. JobsOK'
    BY <1>5, <2>1, <2>5 DEF Push, TypeOK, JobsOK, Working
  <2>7. {faults, pushes, runs, restarts}' \subseteq Nat
    BY <1>5 DEF Push, TypeOK
  <2> QED
    BY <1>5, <2>3, <2>4, <2>6, <2>7 DEF Push, TypeOK, JobsOK, Working
<1>6. ASSUME NEW w \in Senders, DeliverStep(w)
      PROVE  TypeOK'
  <2>w. Working(w) => /\ job[w].item \in Items
                      /\ job[w].version \in Versions
                      /\ job[w] \in Job
    BY DEF TypeOK
  <2>1. CASE TakeItem(w)
    <3>1. PICK r \in todo[w] :
            /\ job' = [job EXCEPT ![w] = [pc |-> "look", item |-> r.item,
                                          version |-> r.version, card |-> NoCard]]
            /\ todo' = [todo EXCEPT ![w] = @ \ {r}]
            /\ met' = IF \E x \in Senders : Working(x) /\ job[x].item = r.item
                      THEN met \cup {r.item} ELSE met
      BY <2>1 DEF TakeItem
    <3>2. r.item \in Items /\ r.version \in Versions
      BY DEF TypeOK, Report
    <3> DEFINE q == [pc |-> "look", item |-> r.item, version |-> r.version,
                     card |-> NoCard]
    <3>3. /\ q \in Job /\ q.pc = "look"
          /\ q.item \in Items /\ q.version \in Versions
      BY <3>2 DEF Job, NoCard
    <3>4. job' = [job EXCEPT ![w] = q]
      BY <3>1
    <3> HIDE DEF q
    <3>5. JobsOK'
      BY <2>1, <3>3, <3>4 DEF TakeItem, TypeOK, JobsOK, Working
    <3>6. met' \subseteq Items /\ todo' \in [Senders -> SUBSET Report]
      BY <3>1, <3>2 DEF TypeOK
    <3> QED
      BY <2>1, <3>5, <3>6 DEF TakeItem, TypeOK, JobsOK, bounds, Working
  <2>2. CASE BatchDone(w)
    <3>1. Resting("wait") \in Job /\ Resting("wait").pc = "wait"
      BY RestingJob
    <3> QED
      BY <2>2, <3>1 DEF BatchDone, TypeOK, Working, bounds
  <2>3. CASE Look(w)
    <3>1. Working(w)
      BY <2>3 DEF Look, Working
    <3> DEFINE e == known[job[w].item]
    <3>2. e.card = NoCard \/ e.card \in DOMAIN cards
      BY <3>1, <2>w DEF TypeOK
    <3>3. Goto(w, "ask") \/ Done(w) \/ Goto(w, "decide") \/ Changed(w, e.card)
      BY <2>3 DEF Look
    <3>4. Changed(w, e.card) => e.card # NoCard \/ Goto(w, "ask") \/ Done(w) \/ Goto(w, "decide")
      BY <2>3 DEF Look
    <3>5. UNCHANGED cards
      BY <2>3 DEF Look
    <3>6. JobsOK'
      BY <3>1, <3>2, <3>3, <3>4, <3>5, GotoOK, DoneOK, ChangedOK
    <3> QED
      BY <2>3, <3>6, <1>j DEF Look
  <2>4. CASE Ask(w)
    <3>1. Working(w) /\ UNCHANGED cards
      BY <2>4 DEF Ask, Working
    <3>2. CASE Goto(w, "decide")
      BY <2>4, <3>1, <3>2, GotoOK, <1>j DEF Ask
    <3>3. ASSUME NEW c \in CardsOf(job[w].item),
                 job' = [job EXCEPT ![w].pc = "adopt", ![w].card = c]
          PROVE  TypeOK'
      <4>1. c \in DOMAIN cards /\ c \in Nat
        BY LenProperties DEF CardsOf, TypeOK
      <4> DEFINE q == [job[w] EXCEPT !.pc = "adopt", !.card = c]
      <4>2. /\ q \in Job /\ q.card = c
            /\ q.item = job[w].item /\ q.version = job[w].version
        BY <4>1, <3>1, <2>w DEF Job
      <4>3. job' = [job EXCEPT ![w] = q]
        BY <3>3 DEF TypeOK
      <4> HIDE DEF q
      <4>4. JobsOK'
        BY <3>1, <4>1, <4>2, <4>3, <2>w DEF TypeOK, JobsOK, Working
      <4> QED
        BY <2>4, <4>4, <1>j DEF Ask
    <3>4. ASSUME NEW c \in CardsOf(job[w].item), Changed(w, c)
          PROVE  TypeOK'
      <4>1. c \in DOMAIN cards
        BY DEF CardsOf
      <4> QED
        BY <2>4, <3>1, <3>4, <4>1, ChangedOK, <1>j DEF Ask
    <3> QED
      BY <2>4, <3>2, <3>3, <3>4 DEF Ask
  <2>5. CASE Adopt(w)
    <3>1. Working(w) /\ UNCHANGED cards /\ job[w].card \in DOMAIN cards /\ Done(w)
      BY <2>5 DEF Adopt, Working, TypeOK
    <3>2. JobsOK'
      BY <3>1, DoneOK
    <3>3. /\ known' \in [Items -> Entry]
          /\ \A i \in Items : known'[i].card \in {NoCard} \cup DOMAIN cards'
      BY <2>5, <2>w, <3>1, RememberedOK DEF Adopt, TypeOK
    <3>4. {faults, pushes, runs, restarts}' \subseteq Nat
      BY <2>5 DEF Adopt, TypeOK
    <3> QED
      BY <2>5, <3>2, <3>3, <3>4 DEF Adopt, TypeOK, JobsOK, Working
  <2>6. CASE Drop(w)
    <3>1. Working(w) /\ UNCHANGED cards /\ Done(w)
      BY <2>6 DEF Drop, Working
    <3>2. JobsOK'
      BY <3>1, DoneOK
    <3>3. /\ known' \in [Items -> Entry]
          /\ \A i \in Items : known'[i].card \in {NoCard} \cup DOMAIN cards'
      BY <2>6, <2>w, <3>1, RememberedOK DEF Drop
    <3> QED
      BY <2>6, <3>2, <3>3 DEF Drop, TypeOK, JobsOK, Working, bounds
  <2>7. CASE CreateCard(w)
    <3>1. Working(w)
      BY <2>7 DEF CreateCard, Working
    <3> DEFINE r == [item |-> job[w].item, version |-> job[w].version,
                     stamped |-> FALSE, shown |-> FALSE]
    <3>2. r \in Card /\ cards' = Append(cards, r)
      BY <2>7, <3>1, <2>w DEF CreateCard, Card
    <3> HIDE DEF r
    <3>b. /\ cards' \in Seq(Card) /\ Len(cards) \in Nat
          /\ DOMAIN cards = 1 .. Len(cards)
          /\ DOMAIN cards' = 1 .. (Len(cards) + 1)
      BY <3>2, CardAppended
    <3>3. /\ cards' \in Seq(Card) /\ Len(cards) \in Nat
          /\ DOMAIN cards \subseteq DOMAIN cards'
          /\ Len(cards) + 1 \in DOMAIN cards'
      BY <3>b
    <3> DEFINE q == [job[w] EXCEPT !.pc = "stamp", !.card = Len(cards) + 1]
    <3>4. /\ q \in Job /\ q.card = Len(cards) + 1 /\ q.pc = "stamp"
          /\ q.item = job[w].item /\ q.version = job[w].version
      <4>1. job[w] \in Job /\ Len(cards) + 1 \in Nat
        BY <3>1, <3>3, <2>w
      <4> QED
        BY <4>1 DEF Job
    <3>5. job' = [job EXCEPT ![w] = q]
      BY <2>7 DEF CreateCard, TypeOK
    <3> HIDE DEF q
    <3>6. JobsOK'
      BY <3>1, <3>3, <3>4, <3>5, <2>w DEF TypeOK, JobsOK, Working
    <3>7. said' \subseteq Items \X Versions
      BY <2>7, <3>1, <2>w DEF CreateCard, TypeOK
    <3>8. \A i \in Items : known[i].card \in {NoCard} \cup DOMAIN cards'
      BY <3>3 DEF TypeOK
    <3> QED
      BY <2>7, <3>3, <3>6, <3>7, <3>8 DEF CreateCard, TypeOK, JobsOK, Working, bounds
  <2>8. CASE StampCard(w) \/ PlaceCard(w)
    <3>1. /\ Working(w)
          /\ job[w].card \in DOMAIN cards
          /\ cards[job[w].card] \in Card
      BY <2>8, ElementOfSeq, LenProperties DEF StampCard, PlaceCard, Working, TypeOK
    <3>2. cards' \in Seq(Card) /\ DOMAIN cards' = DOMAIN cards
      <4>1. CASE UNCHANGED cards
        BY <4>1 DEF TypeOK
      <4>2. CASE cards' = [cards EXCEPT ![job[w].card].stamped = TRUE]
        <5>1. [cards[job[w].card] EXCEPT !.stamped = TRUE] \in Card
          BY <3>1 DEF Card
        <5> QED
          BY <4>2, <5>1, <3>1, CardWritten
      <4>3. CASE cards' = [cards EXCEPT ![job[w].card].shown = TRUE]
        <5>1. [cards[job[w].card] EXCEPT !.shown = TRUE] \in Card
          BY <3>1 DEF Card
        <5> QED
          BY <4>3, <5>1, <3>1, CardWritten
      <4> QED
        BY <2>8, <4>1, <4>2, <4>3 DEF StampCard, PlaceCard
    <3>3. JobsOK'
      BY <2>8, <3>1, <3>2, GotoOK, DoneOK DEF StampCard, PlaceCard
    <3>4. {faults, pushes, runs, restarts}' \subseteq Nat
      BY <2>8 DEF StampCard, PlaceCard, TypeOK, bounds
    <3> QED
      BY <2>8, <3>2, <3>3, <3>4
      DEF StampCard, PlaceCard, TypeOK, JobsOK, Working
  <2>9. CASE NoteCard(w) \/ NoteChange(w)
    <3>1. Working(w) /\ UNCHANGED cards /\ job[w].card \in DOMAIN cards
      BY <2>9 DEF NoteCard, NoteChange, Working, TypeOK
    <3>2. JobsOK'
      BY <2>9, <3>1, GotoOK, DoneOK DEF NoteCard, NoteChange
    <3>3. /\ known' \in [Items -> Entry]
          /\ \A i \in Items : known'[i].card \in {NoCard} \cup DOMAIN cards'
      BY <2>9, <2>w, <3>1, RememberedOK DEF NoteCard, NoteChange
    <3> QED
      BY <2>9, <3>2, <3>3
      DEF NoteCard, NoteChange, TypeOK, JobsOK, Working, bounds
  <2>10. CASE AddComment(w)
    <3>1. Working(w) /\ UNCHANGED cards /\ job[w].card \in DOMAIN cards
      BY <2>10 DEF AddComment, Working, TypeOK
    <3>2. JobsOK'
      BY <2>10, <3>1, GotoOK DEF AddComment
    <3>3. said' \subseteq Items \X Versions
      BY <2>10, <3>1, <2>w DEF AddComment, TypeOK
    <3> QED
      BY <2>10, <3>2, <3>3 DEF AddComment, TypeOK, JobsOK, Working, bounds
  <2>11. CASE Fail(w)
    <3>1. JobsOK'
      BY <2>11, DoneOK DEF Fail
    <3> QED
      BY <2>11, <3>1, <1>f DEF Fail, TypeOK, JobsOK, Working
  <2> QED
    BY <1>6, <2>1, <2>2, <2>3, <2>4, <2>5, <2>6, <2>7, <2>8, <2>9, <2>10, <2>11
    DEF DeliverStep
<1>7. ASSUME Restart
      PROVE  TypeOK'
  <2>1. job' \in [Senders -> Job] /\ \A w \in Senders : job'[w].pc \in {"off", "wait"}
    <3>1. /\ Resting("off") \in Job /\ Resting("off").pc = "off"
          /\ Resting("wait") \in Job /\ Resting("wait").pc = "wait"
      BY RestingJob
    <3> QED
      BY <1>7, <3>1 DEF Restart
  <2>2. cursor' \in [Loops -> [Items -> 0 .. MaxVersion]]
    BY <1>7, SourceAssumption DEF Restart, Fresh
  <2>3. JobsOK'
    BY <2>1 DEF JobsOK, Working
  <2>4. todo' \in [Senders -> SUBSET Report] /\ cancelled' \subseteq Loops
    BY <1>7 DEF Restart
  <2>5. {faults, pushes, runs, restarts}' \subseteq Nat
    BY <1>7 DEF Restart, TypeOK
  <2> QED
    BY <1>7, <2>2, <2>3, <2>4, <2>5 DEF Restart, TypeOK, JobsOK, Working
<1>8. CASE UNCHANGED vars
  BY <1>8 DEF vars, TypeOK, Working
<1> QED
  BY <1>1, <1>2, <1>3, <1>4, <1>5, <1>6, <1>7, <1>8 DEF Next

\* The variables keep their types, whatever overlaps and whatever fails
\* (TypeOK): a goroutine that writes to a card always knows which one.
THEOREM TypeCorrect == Spec => []TypeOK
  BY InitTypeOK, NextTypeOK, PTL DEF Spec

-----------------------------------------------------------------------------
(* What is remembered has been said                                        *)

\* A goroutine past the write to the board, or past the board's own answer,
\* holds a state the board has been told of.
WritersTold ==
  \A w \in Senders :
    job[w].pc \in {"adopt", "stamp", "note", "place", "update"}
      => <<job[w].item, job[w].version>> \in said

\* A card was made from a state it tells of.
CardsTold ==
  \A c \in DOMAIN cards : <<cards[c].item, cards[c].version>> \in said

SaidInv == TypeOK /\ WritersTold /\ CardsTold /\ RememberedWasSaid

LEMMA DoneTold ==
  ASSUME TypeOK, WritersTold, NEW w \in Senders, Done(w), said \subseteq said'
  PROVE  WritersTold'
<1>1. Resting("next").pc = "next"
  BY RestingJob
<1> QED
  BY <1>1 DEF TypeOK, WritersTold, Done

LEMMA GotoTold ==
  ASSUME TypeOK, WritersTold, NEW w \in Senders, NEW pc, Goto(w, pc),
         said \subseteq said',
         \/ pc \notin {"adopt", "stamp", "note", "place", "update"}
         \/ <<job[w].item, job[w].version>> \in said'
  PROVE  WritersTold'
<1>1. job[w] \in Job
  BY DEF TypeOK
<1> QED
  BY <1>1 DEF TypeOK, WritersTold, Goto, Job

\* The goroutine turns to a card, for the item it has.
LEMMA TurnedTold ==
  ASSUME TypeOK, WritersTold, NEW w \in Senders, NEW pc, NEW c,
         job' = [job EXCEPT ![w].pc = pc, ![w].card = c],
         said \subseteq said',
         \/ pc \notin {"adopt", "stamp", "note", "place", "update"}
         \/ <<job[w].item, job[w].version>> \in said'
  PROVE  WritersTold'
<1>1. job[w] \in Job
  BY DEF TypeOK
<1> DEFINE r == [job[w] EXCEPT !.pc = pc, !.card = c]
<1>2. r.pc = pc /\ r.item = job[w].item /\ r.version = job[w].version
  BY <1>1 DEF Job
<1>3. job' = [job EXCEPT ![w] = r]
  BY DEF TypeOK
<1> HIDE DEF r
<1> QED
  BY <1>1, <1>2, <1>3 DEF TypeOK, WritersTold

LEMMA ChangedTold ==
  ASSUME Comments, TypeOK, WritersTold, NEW w \in Senders, NEW c,
         Changed(w, c), UNCHANGED said
  PROVE  WritersTold'
<1> DEFINE r == [job[w] EXCEPT !.pc = "comment", !.card = c]
<1>1. job' = [job EXCEPT ![w] = r] /\ r.pc = "comment"
  BY DEF Changed, TypeOK, Job
<1> HIDE DEF r
<1> QED
  BY <1>1 DEF TypeOK, WritersTold

LEMMA RememberTold ==
  ASSUME TypeOK, RememberedWasSaid, NEW w \in Senders, WritersTold,
         job[w].pc \in {"adopt", "note", "update", "decide"},
         NEW c \in {NoCard, job[w].card},
         job[w].pc = "decide" => c = NoCard,
         known' = Remembered(job[w].item, job[w].version, c),
         UNCHANGED said
  PROVE  RememberedWasSaid'
<1> DEFINE i == job[w].item
           v == job[w].version
<1>1. i \in Items /\ known'[i].version = v /\ known'[i].card = c
  BY DEF TypeOK, Working, Remembered
<1>2. \A j \in Items : j # i => known'[j] = known[j]
  BY DEF TypeOK, Remembered
<1>3. c # NoCard => <<i, v>> \in said
  BY DEF WritersTold
<1> HIDE DEF i, v
<1> QED
  BY <1>1, <1>2, <1>3 DEF RememberedWasSaid

\* The rest of the variables do not matter to what has been said.
LEMMA ElsewhereTold ==
  ASSUME SaidInv, TypeOK', UNCHANGED <<known, said>>, WritersTold', CardsTold'
  PROVE  SaidInv'
  BY DEF SaidInv, RememberedWasSaid

LEMMA NextSaidInv ==
  ASSUME Comments, SaidInv, [Next]_vars
  PROVE  SaidInv'
<1> USE DEF SaidInv
<1>t. TypeOK'
  BY NextTypeOK
<1>c. UNCHANGED <<cards, said>> => CardsTold'
  BY DEF CardsTold
<1>1. ASSUME NEW i \in Items, Change(i)
      PROVE  SaidInv'
  BY <1>1, <1>t, <1>c, ElsewhereTold DEF Change, WritersTold
<1>2. ASSUME NEW l \in Loops, Poll(l) \/ PollRefused(l) \/ LoopEnds(l) \/ Run(l)
      PROVE  SaidInv'
  <2>1. /\ Resting("next").pc = "next" /\ Resting("off").pc = "off"
        /\ Resting("wait").pc = "wait" /\ l \in Senders
    BY RestingJob DEF Senders
  <2>2. /\ UNCHANGED <<known, cards, said>>
        /\ \E pc \in {"next", "off", "wait"} : job' = [job EXCEPT ![l] = Resting(pc)]
    BY <1>2 DEF Poll, PollRefused, LoopEnds, Run
  <2>3. WritersTold'
    BY <2>1, <2>2 DEF TypeOK, WritersTold
  <2> QED
    BY <1>t, <1>c, <2>2, <2>3, ElsewhereTold
<1>3. ASSUME NEW w \in Pushers, NEW i \in Items, NEW v \in Versions, Push(w, i, v)
      PROVE  SaidInv'
  <2>1. Resting("next").pc = "next" /\ w \in Senders
    BY RestingJob DEF Senders
  <2>2. UNCHANGED <<known, cards, said>> /\ job' = [job EXCEPT ![w] = Resting("next")]
    BY <1>3 DEF Push
  <2>3. WritersTold'
    BY <2>1, <2>2 DEF TypeOK, WritersTold
  <2> QED
    BY <1>t, <1>c, <2>2, <2>3, ElsewhereTold
<1>4. ASSUME NEW w \in Senders, DeliverStep(w)
      PROVE  SaidInv'
  <2>1. CASE TakeItem(w)
    <3>1. PICK r \in todo[w] :
            job' = [job EXCEPT ![w] = [pc |-> "look", item |-> r.item,
                                       version |-> r.version, card |-> NoCard]]
      BY <2>1 DEF TakeItem
    <3>2. WritersTold'
      BY <2>1, <3>1 DEF TypeOK, WritersTold, TakeItem
    <3> QED
      BY <2>1, <1>t, <1>c, <3>2, ElsewhereTold DEF TakeItem
  <2>2. CASE BatchDone(w)
    <3>1. Resting("wait").pc = "wait"
      BY RestingJob
    <3>2. WritersTold'
      BY <2>2, <3>1 DEF TypeOK, WritersTold, BatchDone
    <3> QED
      BY <2>2, <1>t, <1>c, <3>2, ElsewhereTold DEF BatchDone
  <2>3. CASE Look(w)
    <3>1. ASSUME NEW c, Changed(w, c) PROVE WritersTold'
      BY <2>3, <3>1, ChangedTold DEF Look
    <3>2. WritersTold'
      BY <2>3, <3>1, GotoTold, DoneTold DEF Look
    <3> QED
      BY <2>3, <1>t, <1>c, <3>2, ElsewhereTold DEF Look
  <2>4. CASE Ask(w)
    <3>1. ASSUME NEW c, Changed(w, c) PROVE WritersTold'
      BY <2>4, <3>1, ChangedTold DEF Ask
    <3>2. ASSUME NEW c \in CardsOf(job[w].item), cards[c].version = job[w].version,
                 job' = [job EXCEPT ![w].pc = "adopt", ![w].card = c]
          PROVE  WritersTold'
      <4>1. <<job[w].item, job[w].version>> \in said
        BY <3>2 DEF CardsOf, CardsTold
      <4> QED
        BY <2>4, <3>2, <4>1, TurnedTold DEF Ask
    <3>3. WritersTold'
      BY <2>4, <3>1, <3>2, GotoTold DEF Ask
    <3> QED
      BY <2>4, <1>t, <1>c, <3>3, ElsewhereTold DEF Ask
  <2>5. CASE Adopt(w)
    <3>1. WritersTold' /\ CardsTold'
      BY <2>5, <1>c, DoneTold DEF Adopt
    <3>2. RememberedWasSaid'
      BY <2>5, RememberTold DEF Adopt, RememberedWasSaid
    <3> QED
      BY <1>t, <3>1, <3>2
  <2>6. CASE Drop(w)
    <3>1. WritersTold' /\ CardsTold'
      BY <2>6, <1>c, DoneTold DEF Drop
    <3>2. RememberedWasSaid'
      BY <2>6, RememberTold DEF Drop
    <3> QED
      BY <1>t, <3>1, <3>2
  <2>7. CASE CreateCard(w)
    <3>1. /\ job' = [job EXCEPT ![w].pc = "stamp", ![w].card = Len(cards) + 1]
          /\ said' = said \cup {<<job[w].item, job[w].version>>}
          /\ UNCHANGED known
      BY <2>7 DEF CreateCard
    <3>2. WritersTold'
      BY <3>1, TurnedTold
    <3> DEFINE r == [item |-> job[w].item, version |-> job[w].version,
                     stamped |-> FALSE, shown |-> FALSE]
    <3>3. r \in Card /\ cards' = Append(cards, r) /\ <<r.item, r.version>> \in said'
      BY <2>7, <3>1 DEF CreateCard, TypeOK, Working, Card
    <3> HIDE DEF r
    <3>4. /\ DOMAIN cards = 1 .. Len(cards) /\ Len(cards) \in Nat
          /\ DOMAIN cards' = 1 .. (Len(cards) + 1)
          /\ cards'[Len(cards) + 1] = r
          /\ \A d \in DOMAIN cards : cards'[d] = cards[d]
      BY <3>3, CardAppended
    <3>5. CardsTold'
      BY <3>1, <3>3, <3>4 DEF CardsTold
    <3>6. RememberedWasSaid'
      BY <3>1 DEF RememberedWasSaid
    <3> QED
      BY <1>t, <3>2, <3>5, <3>6
  <2>8. CASE StampCard(w) \/ PlaceCard(w)
    <3>1. UNCHANGED <<known, said>> /\ job[w].card \in DOMAIN cards
      BY <2>8 DEF StampCard, PlaceCard, TypeOK
    <3>2. cards[job[w].card] \in Card
      BY <3>1, ElementOfSeq, LenProperties DEF TypeOK
    <3>3. CardsTold'
      <4>1. CASE UNCHANGED cards
        BY <3>1, <4>1, <1>c
      <4>2. ASSUME NEW r \in Card, cards' = [cards EXCEPT ![job[w].card] = r],
                   r.item = cards[job[w].card].item,
                   r.version = cards[job[w].card].version
            PROVE  CardsTold'
        BY <3>1, <4>2, CardWritten DEF CardsTold
      <4>3. CASE cards' = [cards EXCEPT ![job[w].card].stamped = TRUE]
        <5>1. [cards[job[w].card] EXCEPT !.stamped = TRUE] \in Card
          BY <3>2 DEF Card
        <5> QED
          BY <3>2, <4>2, <4>3, <5>1 DEF Card
      <4>4. CASE cards' = [cards EXCEPT ![job[w].card].shown = TRUE]
        <5>1. [cards[job[w].card] EXCEPT !.shown = TRUE] \in Card
          BY <3>2 DEF Card
        <5> QED
          BY <3>2, <4>2, <4>4, <5>1 DEF Card
      <4> QED
        BY <2>8, <4>1, <4>3, <4>4 DEF StampCard, PlaceCard
    <3>4. WritersTold'
      <4>1. CASE StampCard(w)
        BY <4>1, <3>1, GotoTold DEF StampCard, WritersTold
      <4>2. CASE PlaceCard(w)
        BY <4>2, <3>1, DoneTold DEF PlaceCard
      <4> QED
        BY <2>8, <4>1, <4>2
    <3> QED
      BY <1>t, <3>1, <3>3, <3>4, ElsewhereTold
  <2>9. CASE NoteCard(w)
    <3>1. <<job[w].item, job[w].version>> \in said
      BY <2>9 DEF NoteCard, WritersTold
    <3>2. WritersTold' /\ CardsTold'
      BY <2>9, <3>1, <1>c, GotoTold DEF NoteCard
    <3>3. RememberedWasSaid'
      BY <2>9, RememberTold DEF NoteCard
    <3> QED
      BY <1>t, <3>2, <3>3
  <2>10. CASE NoteChange(w)
    <3>1. WritersTold' /\ CardsTold'
      BY <2>10, <1>c, DoneTold DEF NoteChange
    <3>2. RememberedWasSaid'
      BY <2>10, RememberTold DEF NoteChange
    <3> QED
      BY <1>t, <3>1, <3>2
  <2>11. CASE AddComment(w)
    <3>1. /\ UNCHANGED <<known, cards>>
          /\ said' = said \cup {<<job[w].item, job[w].version>>}
          /\ Goto(w, "update")
      BY <2>11 DEF AddComment
    <3>2. WritersTold'
      BY <3>1, GotoTold
    <3>3. CardsTold' /\ RememberedWasSaid'
      BY <3>1 DEF CardsTold, RememberedWasSaid
    <3> QED
      BY <1>t, <3>2, <3>3
  <2>12. CASE Fail(w)
    BY <2>12, <1>t, <1>c, DoneTold, ElsewhereTold DEF Fail
  <2> QED
    BY <1>4, <2>1, <2>2, <2>3, <2>4, <2>5, <2>6, <2>7, <2>8, <2>9, <2>10,
       <2>11, <2>12 DEF DeliverStep
<1>5. CASE Restart
  <2>1. Resting("off").pc = "off" /\ Resting("wait").pc = "wait"
    BY RestingJob
  <2>2. WritersTold' /\ UNCHANGED <<known, cards, said>>
    BY <1>5, <2>1 DEF Restart, WritersTold
  <2> QED
    BY <1>t, <1>c, <2>2, ElsewhereTold
<1>6. CASE UNCHANGED vars
  BY <1>6, <1>t, <1>c, ElsewhereTold DEF vars, WritersTold
<1> QED
  BY <1>1, <1>2, <1>3, <1>4, <1>5, <1>6 DEF Next

\* Where changes are commented on, whatever the table remembers with a card
\* has been put on the board, in every interleaving of deliveries, failed
\* writes and restarts (RememberedWasSaid): the table never runs ahead of it.
THEOREM RememberedCorrect ==
  ASSUME Comments
  PROVE  Spec => []RememberedWasSaid
<1>1. Init => SaidInv
  <2> SUFFICES ASSUME Init PROVE SaidInv
    OBVIOUS
  <2>1. Resting("off").pc = "off" /\ Resting("wait").pc = "wait"
    BY RestingJob
  <2>2. WritersTold
    BY <2>1 DEF Init, WritersTold
  <2>3. CardsTold /\ RememberedWasSaid
    BY DEF Init, CardsTold, RememberedWasSaid, NoEntry
  <2> QED
    BY <2>2, <2>3, InitTypeOK DEF SaidInv
<1>2. SaidInv /\ [Next]_vars => SaidInv'
  BY NextSaidInv
<1>3. SaidInv => RememberedWasSaid
  BY DEF SaidInv
<1> QED
  BY <1>1, <1>2, <1>3, PTL DEF Spec

-----------------------------------------------------------------------------
(* Why an item gets a second card                                          *)

\* The items no two deliveries have been at together, that the rules want in
\* every state: for those the answers of the table and of the board hold until
\* they are used.
Quiet == {i \in Items \ met : \A v \in Versions : <<i, v>> \notin Dropped}

OneAtATime ==
  \A w, x \in Senders :
    /\ Working(w) /\ Working(x)
    /\ job[w].item = job[x].item /\ job[w].item \notin met
    => w = x

StampsItsOwn ==
  \A w \in Senders :
    job[w].pc = "stamp" => cards[job[w].card].item = job[w].item

\* Whoever is about to make a card has nothing to find.
DecidesUnstamped ==
  \A w \in Senders, c \in DOMAIN cards :
    /\ job[w].pc = "decide" /\ job[w].item \in Quiet
    /\ cards[c].item = job[w].item
    => ~cards[c].stamped

\* Whoever is about to say where a card came from has the last one.
StampsTheLast ==
  \A w \in Senders, c \in DOMAIN cards :
    /\ job[w].pc = "stamp" /\ job[w].item \in Quiet
    /\ cards[c].item = job[w].item /\ c # job[w].card
    => c < job[w].card /\ ~cards[c].stamped

EarlierUnstamped ==
  \A a, b \in DOMAIN cards :
    a < b /\ cards[a].item = cards[b].item /\ cards[a].item \in Quiet
    => ~cards[a].stamped

\* A wanted item that is in the table is there with its card, so only an item
\* that is not there is decided on.
WantedHasCard ==
  \A i \in Items :
    known[i].version # 0 /\ (\A v \in Versions : <<i, v>> \notin Dropped)
    => known[i].card # NoCard

BoardInv == /\ OneAtATime
            /\ StampsItsOwn
            /\ DecidesUnstamped
            /\ StampsTheLast
            /\ EarlierUnstamped

SecondInv == TypeOK /\ BoardInv /\ WantedHasCard

\* Nothing a card is looked up by changes.
SameCards ==
  /\ DOMAIN cards' = DOMAIN cards
  /\ \A c \in DOMAIN cards : /\ cards'[c].item = cards[c].item
                             /\ cards'[c].stamped = cards[c].stamped

\* A goroutine that goes on with its item, or rests, and neither makes a card
\* nor looks past the answer it got, changes nothing on the board.
LEMMA JobMoved ==
  ASSUME TypeOK, BoardInv, SameCards, met \subseteq met',
         NEW w \in Senders, NEW r, job' = [job EXCEPT ![w] = r],
         r.pc # "stamp",
         \/ r.pc \in {"off", "wait", "next"}
         \/ Working(w) /\ r.item = job[w].item,
         r.pc = "decide" /\ r.item \in Quiet => CardsOf(r.item) = {}
  PROVE  BoardInv'
<1>1. Quiet' \subseteq Quiet
  BY DEF Quiet
<1>2. job'[w] = r /\ \A x \in Senders : x # w => job'[x] = job[x]
  BY DEF TypeOK
<1>3. OneAtATime'
  BY <1>2 DEF BoardInv, OneAtATime, Working
<1>4. StampsItsOwn'
  BY <1>2 DEF BoardInv, StampsItsOwn, SameCards, TypeOK
<1>5. DecidesUnstamped'
  BY <1>1, <1>2 DEF BoardInv, DecidesUnstamped, SameCards, CardsOf
<1>6. StampsTheLast'
  BY <1>1, <1>2 DEF BoardInv, StampsTheLast, SameCards
<1>7. EarlierUnstamped'
  BY <1>1 DEF BoardInv, EarlierUnstamped, SameCards
<1> QED
  BY <1>3, <1>4, <1>5, <1>6, <1>7 DEF BoardInv

LEMMA DoneBoard ==
  ASSUME TypeOK, BoardInv, SameCards, UNCHANGED met, NEW w \in Senders, Done(w)
  PROVE  BoardInv'
<1>1. Resting("next").pc = "next"
  BY RestingJob
<1>2. job' = [job EXCEPT ![w] = Resting("next")]
  BY DEF Done
<1> HIDE DEF Resting
<1> QED
  BY <1>1, <1>2, JobMoved

LEMMA GotoBoard ==
  ASSUME TypeOK, BoardInv, SameCards, UNCHANGED met, NEW w \in Senders, Working(w),
         NEW pc \in {"ask", "decide", "note", "place", "update"}, Goto(w, pc),
         pc = "decide" /\ job[w].item \in Quiet => CardsOf(job[w].item) = {}
  PROVE  BoardInv'
<1> DEFINE r == [job[w] EXCEPT !.pc = pc]
<1>1. /\ job' = [job EXCEPT ![w] = r]
      /\ r.pc = pc /\ r.item = job[w].item
  BY DEF Goto, TypeOK, Job
<1> HIDE DEF r
<1> QED
  BY <1>1, JobMoved

LEMMA TurnedBoard ==
  ASSUME TypeOK, BoardInv, SameCards, UNCHANGED met, NEW w \in Senders, Working(w),
         NEW pc \in {"adopt", "comment", "update"}, NEW c,
         job' = [job EXCEPT ![w].pc = pc, ![w].card = c]
  PROVE  BoardInv'
<1> DEFINE r == [job[w] EXCEPT !.pc = pc, !.card = c]
<1>1. /\ job' = [job EXCEPT ![w] = r]
      /\ r.pc = pc /\ r.item = job[w].item
  BY DEF TypeOK, Job
<1> HIDE DEF r
<1> QED
  BY <1>1, JobMoved

LEMMA ChangedBoard ==
  ASSUME TypeOK, BoardInv, SameCards, UNCHANGED met, NEW w \in Senders, Working(w),
         NEW c, Changed(w, c)
  PROVE  BoardInv'
<1>1. CASE Comments
  <2>1. job' = [job EXCEPT ![w].pc = "comment", ![w].card = c]
    BY <1>1 DEF Changed
  <2> QED
    BY <2>1, TurnedBoard
<1>2. CASE ~Comments
  <2>1. job' = [job EXCEPT ![w].pc = "update", ![w].card = c]
    BY <1>2 DEF Changed
  <2> QED
    BY <2>1, TurnedBoard
<1> QED
  BY <1>1, <1>2

LEMMA TakeItemBoard ==
  ASSUME TypeOK, BoardInv, NEW w \in Senders, TakeItem(w)
  PROVE  BoardInv'
<1>1. PICK i, r :
        /\ i \in Items
        /\ job' = [job EXCEPT ![w] = r] /\ r.pc = "look" /\ r.item = i
        /\ met' = IF \E x \in Senders : Working(x) /\ job[x].item = i
                  THEN met \cup {i} ELSE met
  <2>1. PICK q \in todo[w] :
          /\ job' = [job EXCEPT ![w] = [pc |-> "look", item |-> q.item,
                                        version |-> q.version, card |-> NoCard]]
          /\ met' = IF \E x \in Senders : Working(x) /\ job[x].item = q.item
                    THEN met \cup {q.item} ELSE met
    BY DEF TakeItem
  <2>2. q.item \in Items
    BY DEF TypeOK, Report
  <2> QED
    BY <2>1, <2>2
<1>2. UNCHANGED cards /\ ~Working(w)
  BY DEF TakeItem, Working
<1>3. Quiet' \subseteq Quiet
  BY <1>1 DEF Quiet
<1>4. job'[w] = r /\ \A x \in Senders : x # w => job'[x] = job[x]
  BY <1>1 DEF TypeOK
<1>5. OneAtATime'
  BY <1>1, <1>4 DEF BoardInv, OneAtATime, Working
<1>6. StampsItsOwn' /\ DecidesUnstamped' /\ StampsTheLast' /\ EarlierUnstamped'
  BY <1>1, <1>2, <1>3, <1>4
  DEF BoardInv, StampsItsOwn, DecidesUnstamped, StampsTheLast, EarlierUnstamped
<1> QED
  BY <1>5, <1>6 DEF BoardInv

LEMMA CreateCardBoard ==
  ASSUME TypeOK, BoardInv, NEW w \in Senders, CreateCard(w)
  PROVE  BoardInv'
<1> DEFINE n == Len(cards) + 1
           i == job[w].item
           new == [item |-> i, version |-> job[w].version,
                   stamped |-> FALSE, shown |-> FALSE]
           r == [job[w] EXCEPT !.pc = "stamp", !.card = n]
<1>1. /\ Working(w) /\ UNCHANGED met
      /\ new \in Card /\ cards' = Append(cards, new)
      /\ new.item = i /\ new.stamped = FALSE
  BY DEF CreateCard, TypeOK, Working, Card
<1>2. /\ job'[w] = r /\ r.pc = "stamp" /\ r.card = n /\ r.item = i
      /\ \A x \in Senders : x # w => job'[x] = job[x]
  BY DEF CreateCard, TypeOK, Job
<1> HIDE DEF new, r
<1>3. /\ DOMAIN cards' = DOMAIN cards \cup {n} /\ n \notin DOMAIN cards
      /\ cards'[n] = new
      /\ \A d \in DOMAIN cards : cards'[d] = cards[d] /\ d < n
  <2>1. /\ Len(cards) \in Nat
        /\ DOMAIN cards = 1 .. Len(cards)
        /\ DOMAIN cards' = 1 .. (Len(cards) + 1)
        /\ cards'[Len(cards) + 1] = new
        /\ \A d \in DOMAIN cards : cards'[d] = cards[d]
    BY <1>1, CardAppended
  <2> QED
    BY <2>1
<1> HIDE DEF n, i
<1>4. Quiet' = Quiet
  BY <1>1 DEF Quiet
<1>5. \A d \in DOMAIN cards : cards[d].item = i /\ i \in Quiet => ~cards[d].stamped
  BY DEF CreateCard, BoardInv, DecidesUnstamped, i
<1>6. \A x \in Senders : x # w /\ Working(x) /\ job[x].item = i => i \notin Quiet
  BY <1>1 DEF BoardInv, OneAtATime, Quiet, i
<1>7. \A x \in Senders : job[x].pc = "stamp" =>
        job[x].card \in DOMAIN cards /\ Working(x)
  BY DEF TypeOK, Working
<1>8. OneAtATime'
  BY <1>1, <1>2 DEF BoardInv, OneAtATime, Working, i
<1>9. StampsItsOwn'
  BY <1>1, <1>2, <1>3, <1>7 DEF BoardInv, StampsItsOwn
<1>10. DecidesUnstamped'
  BY <1>1, <1>2, <1>3, <1>4 DEF BoardInv, DecidesUnstamped
<1>11. StampsTheLast'
  <2> SUFFICES ASSUME NEW x \in Senders, NEW c \in DOMAIN cards',
                      job'[x].pc = "stamp", job'[x].item \in Quiet,
                      cards'[c].item = job'[x].item, c # job'[x].card
               PROVE  c < job'[x].card /\ ~cards'[c].stamped
    BY <1>4 DEF StampsTheLast
  <2>1. CASE x = w
    BY <2>1, <1>2, <1>3, <1>5
  <2>2. CASE x # w
    <3>1. job'[x] = job[x] /\ Working(x)
      BY <2>2, <1>2, <1>7
    <3>2. c # n
      BY <2>2, <3>1, <1>1, <1>3, <1>6
    <3> QED
      BY <3>1, <3>2, <1>3 DEF BoardInv, StampsTheLast
  <2> QED
    BY <2>1, <2>2
<1>12. EarlierUnstamped'
  <2> SUFFICES ASSUME NEW a \in DOMAIN cards', NEW b \in DOMAIN cards',
                      a < b, cards'[a].item = cards'[b].item,
                      cards'[a].item \in Quiet
               PROVE  ~cards'[a].stamped
    BY <1>4 DEF EarlierUnstamped
  <2>1. CASE b = n
    BY <2>1, <1>1, <1>3, <1>5
  <2>2. CASE b # n /\ a # n
    BY <2>2, <1>3 DEF BoardInv, EarlierUnstamped
  <2>3. CASE a = n
    BY <2>3, <1>1, <1>3
  <2> QED
    BY <2>1, <2>2, <2>3
<1> QED
  BY <1>8, <1>9, <1>10, <1>11, <1>12 DEF BoardInv

LEMMA StampCardBoard ==
  ASSUME TypeOK, BoardInv, NEW w \in Senders, StampCard(w)
  PROVE  BoardInv'
<1>1. CASE UNCHANGED cards
  BY <1>1, GotoBoard DEF StampCard, SameCards, Working
<1>2. CASE cards' = [cards EXCEPT ![job[w].card].stamped = TRUE]
  <2> DEFINE n == job[w].card
             i == job[w].item
             r == [cards[n] EXCEPT !.stamped = TRUE]
             q == [job[w] EXCEPT !.pc = "note"]
  <2>1. /\ Working(w) /\ UNCHANGED met
        /\ n \in DOMAIN cards /\ cards[n].item = i /\ cards[n] \in Card
    BY ElementOfSeq, LenProperties
    DEF StampCard, TypeOK, Working, BoardInv, StampsItsOwn
  <2>2. r \in Card /\ r.item = i
    BY <2>1 DEF Card
  <2>3. cards' = [cards EXCEPT ![n] = r]
    BY <1>2, <2>1
  <2>4. /\ job'[w] = q /\ q.pc = "note" /\ q.item = i
        /\ \A x \in Senders : x # w => job'[x] = job[x]
    BY DEF StampCard, Goto, TypeOK, Job
  <2> HIDE DEF r, q
  <2>5. /\ DOMAIN cards' = DOMAIN cards /\ cards'[n].item = i
        /\ \A d \in DOMAIN cards : d # n => cards'[d] = cards[d]
    BY <2>1, <2>2, <2>3, CardWritten
  <2>6. \A d \in DOMAIN cards : cards[d].item = i /\ d # n /\ i \in Quiet
          => d < n /\ ~cards[d].stamped
    BY DEF StampCard, BoardInv, StampsTheLast
  <2>7. \A x \in Senders : x # w /\ Working(x) /\ job[x].item = i => i \notin Quiet
    BY <2>1 DEF BoardInv, OneAtATime, Quiet
  <2>8. Quiet' = Quiet
    BY <2>1 DEF Quiet
  <2>9. /\ DOMAIN cards \subseteq Int
        /\ \A d \in DOMAIN cards : cards'[d].item = cards[d].item
    BY <2>1, <2>5, LenProperties DEF TypeOK
  <2>x. \A x \in Senders : job[x].pc = "stamp" =>
          job[x].card \in DOMAIN cards /\ Working(x)
    BY DEF TypeOK, Working
  <2>y. \A x \in Senders : job[x].pc = "decide" => Working(x)
    BY DEF Working
  <2> HIDE DEF n, i
  <2>10. OneAtATime'
    BY <2>1, <2>4 DEF BoardInv, OneAtATime, Working, i
  <2>11. StampsItsOwn'
    BY <2>4, <2>9, <2>x, <2>5 DEF BoardInv, StampsItsOwn
  <2>12. DecidesUnstamped'
    BY <2>1, <2>4, <2>5, <2>7, <2>8, <2>9, <2>y DEF BoardInv, DecidesUnstamped
  <2>13. StampsTheLast'
    BY <2>1, <2>4, <2>5, <2>7, <2>8, <2>9, <2>x DEF BoardInv, StampsTheLast
  <2>14. EarlierUnstamped'
    <3> SUFFICES ASSUME NEW a \in DOMAIN cards, NEW b \in DOMAIN cards,
                        a < b, cards[a].item = cards[b].item,
                        cards[a].item \in Quiet
                 PROVE  ~cards'[a].stamped
      BY <2>5, <2>8, <2>9 DEF EarlierUnstamped
    <3>1. CASE a = n
      BY <3>1, <2>1, <2>6, <2>9
    <3>2. CASE a # n
      BY <3>2, <2>5 DEF BoardInv, EarlierUnstamped
    <3> QED
      BY <3>1, <3>2
  <2> QED
    BY <2>10, <2>11, <2>12, <2>13, <2>14 DEF BoardInv
<1> QED
  BY <1>1, <1>2 DEF StampCard

\* A card that is remembered is one of the board's.
LEMMA RememberBoard ==
  ASSUME TypeOK, WantedHasCard, NEW w \in Senders,
         job[w].pc \in {"adopt", "note", "update"},
         known' = Remembered(job[w].item, job[w].version, job[w].card)
  PROVE  WantedHasCard'
<1>1. job[w].card \in DOMAIN cards /\ job[w].item \in Items
  BY DEF TypeOK, Working
<1>2. DOMAIN cards = 1 .. Len(cards) /\ Len(cards) \in Nat
  BY LenProperties DEF TypeOK
<1>3. job[w].card # NoCard
  BY <1>1, <1>2 DEF NoCard
<1> QED
  BY <1>1, <1>3 DEF TypeOK, WantedHasCard, Remembered

LEMMA NextSecondInv == SecondInv /\ [Next]_vars => SecondInv'
<1> SUFFICES ASSUME SecondInv, [Next]_vars
             PROVE  SecondInv'
  OBVIOUS
<1> USE DEF SecondInv
<1>t. TypeOK'
  BY NextTypeOK
<1>s. UNCHANGED cards => SameCards
  BY DEF SameCards
<1>k. UNCHANGED known => WantedHasCard'
  BY DEF WantedHasCard
<1>1. ASSUME UNCHANGED <<known, cards, job, met>>
      PROVE  SecondInv'
  BY <1>1, <1>t, <1>k DEF BoardInv, OneAtATime, StampsItsOwn, DecidesUnstamped,
     StampsTheLast, EarlierUnstamped, Quiet, Working
<1>2. ASSUME NEW l \in Senders, NEW pc \in {"next", "off", "wait"},
             UNCHANGED <<known, cards, met>>,
             job' = [job EXCEPT ![l] = Resting(pc)]
      PROVE  SecondInv'
  <2>1. Resting(pc).pc = pc
    BY RestingJob
  <2> HIDE DEF Resting
  <2>2. BoardInv'
    BY <1>2, <1>s, <2>1, JobMoved
  <2> QED
    BY <1>2, <1>t, <1>k, <2>2
<1>3. ASSUME NEW l \in Loops, Poll(l) \/ PollRefused(l) \/ LoopEnds(l) \/ Run(l)
      PROVE  SecondInv'
  BY <1>2, <1>3 DEF Poll, PollRefused, LoopEnds, Run, Senders
<1>4. ASSUME NEW w \in Pushers, NEW i \in Items, NEW v \in Versions, Push(w, i, v)
      PROVE  SecondInv'
  BY <1>2, <1>4 DEF Push, Senders
<1>5. ASSUME NEW w \in Senders, DeliverStep(w)
      PROVE  SecondInv'
  <2>1. CASE TakeItem(w)
    BY <2>1, <1>t, <1>k, TakeItemBoard DEF TakeItem
  <2>2. CASE BatchDone(w)
    BY <2>2, <1>2 DEF BatchDone
  <2>3. CASE Look(w)
    <3>1. Working(w) /\ UNCHANGED <<known, cards, met>> /\ SameCards
      BY <2>3, <1>s DEF Look, Working
    <3> DEFINE e == known[job[w].item]
    <3>2. job[w].item \in Quiet /\ e.version # 0 => e.card # NoCard
      BY DEF WantedHasCard, Quiet
    <3>3. Goto(w, "ask") => BoardInv'
      BY <3>1, GotoBoard
    <3>4. Done(w) => BoardInv'
      BY <3>1, DoneBoard
    <3>5. Goto(w, "decide") /\ e.version # 0 /\ e.card = NoCard => BoardInv'
      BY <3>1, <3>2, GotoBoard
    <3>6. Changed(w, e.card) => BoardInv'
      BY <3>1, ChangedBoard
    <3>7. BoardInv'
      BY <2>3, <3>3, <3>4, <3>5, <3>6 DEF Look
    <3> QED
      BY <3>1, <3>7, <1>t, <1>k
  <2>4. CASE Ask(w)
    <3>1. Working(w) /\ UNCHANGED <<known, cards, met>> /\ SameCards
      BY <2>4, <1>s DEF Ask, Working
    <3>2. CardsOf(job[w].item) = {} /\ Goto(w, "decide") => BoardInv'
      BY <3>1, GotoBoard
    <3>3. ASSUME NEW c, job' = [job EXCEPT ![w].pc = "adopt", ![w].card = c]
          PROVE  BoardInv'
      BY <3>1, <3>3, TurnedBoard
    <3>4. ASSUME NEW c, Changed(w, c) PROVE BoardInv'
      BY <3>1, <3>4, ChangedBoard
    <3>5. BoardInv'
      BY <2>4, <3>2, <3>3, <3>4 DEF Ask
    <3> QED
      BY <3>1, <3>5, <1>t, <1>k
  <2>5. CASE Adopt(w)
    <3>1. BoardInv'
      BY <2>5, <1>s, DoneBoard DEF Adopt
    <3>2. WantedHasCard'
      BY <2>5, <1>k, RememberBoard DEF Adopt
    <3> QED
      BY <3>1, <3>2, <1>t
  <2>6. CASE Drop(w)
    <3>1. BoardInv'
      BY <2>6, <1>s, DoneBoard DEF Drop
    <3>2. WantedHasCard'
      BY <2>6 DEF Drop, TypeOK, Working, Remembered, WantedHasCard
    <3> QED
      BY <3>1, <3>2, <1>t
  <2>7. CASE CreateCard(w)
    BY <2>7, <1>t, <1>k, CreateCardBoard DEF CreateCard
  <2>8. CASE StampCard(w)
    BY <2>8, <1>t, <1>k, StampCardBoard DEF StampCard
  <2>9. CASE NoteCard(w)
    <3>1. BoardInv'
      BY <2>9, <1>s, GotoBoard DEF NoteCard, Working
    <3>2. WantedHasCard'
      BY <2>9, RememberBoard DEF NoteCard
    <3> QED
      BY <3>1, <3>2, <1>t
  <2>10. CASE PlaceCard(w)
    <3>1. SameCards
      <4> DEFINE n == job[w].card
                 r == [cards[n] EXCEPT !.shown = TRUE]
      <4>1. n \in DOMAIN cards /\ cards[n] \in Card
        BY <2>10, ElementOfSeq, LenProperties DEF PlaceCard, TypeOK
      <4>2. r \in Card /\ r.item = cards[n].item /\ r.stamped = cards[n].stamped
        BY <4>1 DEF Card
      <4>3. cards' = [cards EXCEPT ![n] = r]
        BY <2>10 DEF PlaceCard
      <4> HIDE DEF r, n
      <4> QED
        BY <4>1, <4>2, <4>3, CardWritten DEF SameCards
    <3>2. BoardInv'
      BY <2>10, <3>1, DoneBoard DEF PlaceCard
    <3> QED
      BY <2>10, <3>2, <1>t, <1>k DEF PlaceCard
  <2>11. CASE AddComment(w)
    BY <2>11, <1>s, <1>t, <1>k, GotoBoard DEF AddComment, Working
  <2>12. CASE NoteChange(w)
    <3>1. BoardInv'
      BY <2>12, <1>s, DoneBoard DEF NoteChange
    <3>2. WantedHasCard'
      BY <2>12, RememberBoard DEF NoteChange
    <3> QED
      BY <3>1, <3>2, <1>t
  <2>13. CASE Fail(w)
    BY <2>13, <1>s, <1>t, <1>k, DoneBoard DEF Fail
  <2> QED
    BY <1>5, <2>1, <2>2, <2>3, <2>4, <2>5, <2>6, <2>7, <2>8, <2>9, <2>10,
       <2>11, <2>12, <2>13 DEF DeliverStep
<1>6. CASE Restart
  <2>1. Resting("off").pc = "off" /\ Resting("wait").pc = "wait"
    BY RestingJob
  <2>2. /\ UNCHANGED <<known, cards, met>>
        /\ \A w \in Senders : job'[w].pc \in {"off", "wait"}
    BY <1>6, <2>1 DEF Restart
  <2>3. BoardInv'
    BY <2>2 DEF BoardInv, OneAtATime, StampsItsOwn, DecidesUnstamped,
       StampsTheLast, EarlierUnstamped, Quiet, Working
  <2> QED
    BY <2>2, <2>3, <1>t, <1>k
<1>7. CASE \E i \in Items : Change(i)
  BY <1>7, <1>1 DEF Change
<1>8. CASE UNCHANGED vars
  BY <1>8, <1>1 DEF vars
<1> QED
  BY <1>3, <1>4, <1>5, <1>6, <1>7, <1>8 DEF Next

LEMMA InitSecondInv == Init => SecondInv
<1> SUFFICES ASSUME Init PROVE SecondInv
  OBVIOUS
<1>1. Resting("off").pc = "off" /\ Resting("wait").pc = "wait"
  BY RestingJob
<1>2. BoardInv
  BY <1>1 DEF Init, BoardInv, OneAtATime, StampsItsOwn, DecidesUnstamped,
     StampsTheLast, EarlierUnstamped, Working
<1>3. WantedHasCard
  BY DEF Init, WantedHasCard, NoEntry
<1> QED
  BY <1>2, <1>3, InitTypeOK DEF SecondInv

\* An item the rules want gets a second card only where two deliveries were at
\* it together or the earlier card never got its origin (SecondCardExplained):
\* the two answers deliverOne asks for are enough for everything else.
THEOREM SecondCardCorrect == Spec => []SecondCardExplained
<1>1. Init => SecondInv
  BY InitSecondInv
<1>2. SecondInv /\ [Next]_vars => SecondInv'
  BY NextSecondInv
<1>3. SecondInv => SecondCardExplained
  <2> SUFFICES ASSUME SecondInv, NEW a \in DOMAIN cards, NEW b \in DOMAIN cards,
                      a < b, cards[a].item = cards[b].item,
                      \A v \in Versions : <<cards[a].item, v>> \notin Dropped
               PROVE  cards[a].item \in met \/ ~cards[a].stamped
    BY DEF SecondCardExplained
  <2>1. cards[a] \in Card
    BY ElementOfSeq, LenProperties DEF SecondInv, TypeOK
  <2>2. cards[a].item \in Items
    BY <2>1 DEF Card
  <2> QED
    BY <2>2 DEF SecondInv, BoardInv, EarlierUnstamped, Quiet
<1> QED
  BY <1>1, <1>2, <1>3, PTL DEF Spec

-----------------------------------------------------------------------------
(* An item nobody met at keeps its card                                    *)

\* What the table has of an item a goroutine is at, with a card c in its hand:
\* nothing while the board is asked, no card while one is made, and otherwise
\* that very card.
Answered(pc, i, c) ==
  /\ pc \in {"ask", "adopt"} => known[i].version = 0
  /\ pc \in {"decide", "stamp", "note"} => known[i].card = NoCard
  /\ pc \in {"comment", "update"} => known[i].card \in {NoCard, c}

\* So long as no two deliveries have been at the item together, the answer the
\* table gave still holds when it is acted on.
AnswerHolds ==
  \A w \in Senders :
    job[w].item \notin met => Answered(job[w].pc, job[w].item, job[w].card)

NoCardUnknown == \A i \in Items : known[i].version = 0 => known[i].card = NoCard

KeptInv == SecondInv /\ AnswerHolds /\ NoCardUnknown

Keeps == \A i \in Items : known[i].card # NoCard /\ i \notin met
                          => known'[i].card = known[i].card

\* The table is not written: the answer holds for a goroutine that goes on to
\* the place the answer sends it to.
LEMMA AnswerMoved ==
  ASSUME TypeOK, AnswerHolds, UNCHANGED known, met \subseteq met',
         NEW w \in Senders, NEW r, job' = [job EXCEPT ![w] = r],
         r.item \notin met => Answered(r.pc, r.item, r.card)
  PROVE  AnswerHolds'
  BY DEF TypeOK, AnswerHolds, Answered

LEMMA AnswerTurned ==
  ASSUME TypeOK, AnswerHolds, UNCHANGED <<known, met>>, NEW w \in Senders,
         NEW pc, NEW c, job' = [job EXCEPT ![w].pc = pc, ![w].card = c],
         job[w].item \notin met => Answered(pc, job[w].item, c)
  PROVE  AnswerHolds'
<1> DEFINE r == [job[w] EXCEPT !.pc = pc, !.card = c]
<1>1. /\ job' = [job EXCEPT ![w] = r]
      /\ r.pc = pc /\ r.item = job[w].item /\ r.card = c
  BY DEF TypeOK, Job
<1> HIDE DEF r
<1> QED
  BY <1>1, AnswerMoved

LEMMA AnswerChanged ==
  ASSUME TypeOK, AnswerHolds, UNCHANGED <<known, met>>, NEW w \in Senders, NEW c,
         Changed(w, c),
         job[w].item \notin met => known[job[w].item].card \in {NoCard, c}
  PROVE  AnswerHolds'
<1> DEFINE pc == IF Comments THEN "comment" ELSE "update"
<1>1. job' = [job EXCEPT ![w].pc = pc, ![w].card = c] /\ pc \in {"comment", "update"}
  BY DEF Changed
<1>2. job[w].item \notin met => Answered(pc, job[w].item, c)
  BY <1>1 DEF Answered
<1> HIDE DEF pc
<1> QED
  BY <1>1, <1>2, AnswerTurned

LEMMA AnswerGoto ==
  ASSUME TypeOK, AnswerHolds, UNCHANGED <<known, met>>, NEW w \in Senders, NEW pc,
         Goto(w, pc),
         job[w].item \notin met => Answered(pc, job[w].item, job[w].card)
  PROVE  AnswerHolds'
<1> DEFINE r == [job[w] EXCEPT !.pc = pc]
<1>1. /\ job' = [job EXCEPT ![w] = r]
      /\ r.pc = pc /\ r.item = job[w].item /\ r.card = job[w].card
  BY DEF Goto, TypeOK, Job
<1> HIDE DEF r
<1> QED
  BY <1>1, AnswerMoved

LEMMA AnswerRested ==
  ASSUME TypeOK, AnswerHolds, UNCHANGED <<known, met>>, NEW w \in Senders,
         NEW pc \in {"next", "off", "wait"},
         job' = [job EXCEPT ![w] = Resting(pc)]
  PROVE  AnswerHolds'
<1>1. Answered(Resting(pc).pc, Resting(pc).item, Resting(pc).card)
  BY RestingJob DEF Answered
<1> HIDE DEF Resting
<1> QED
  BY <1>1, AnswerMoved

\* The goroutine writes the table: nobody else is at the item, unless two have
\* been before.
LEMMA AnswerWritten ==
  ASSUME TypeOK, OneAtATime, AnswerHolds, NoCardUnknown, UNCHANGED met,
         NEW w \in Senders, Working(w),
         NEW c, known' = Remembered(job[w].item, job[w].version, c),
         job[w].item \notin met => known[job[w].item].card \in {NoCard, c},
         Done(w) \/ Goto(w, "place")
  PROVE  AnswerHolds' /\ NoCardUnknown' /\ Keeps
<1>1. /\ job'[w].pc \in {"next", "place"}
      /\ \A x \in Senders \ {w} : job'[x] = job[x]
  BY RestingJob DEF Done, Goto, TypeOK, Job
<1>2. job[w].item \in Items /\ job[w].version \in Nat \ {0}
  BY DEF TypeOK, Versions
<1>3. /\ known'[job[w].item].version = job[w].version
      /\ known'[job[w].item].card = c
      /\ \A i \in Items : i # job[w].item => known'[i] = known[i]
  BY <1>2 DEF Remembered, TypeOK
<1>4. NoCardUnknown' /\ Keeps
  BY <1>2, <1>3 DEF NoCardUnknown, Keeps
<1>5. ASSUME NEW x \in Senders, job'[x].item \notin met
      PROVE  Answered(job[x].pc, job[x].item, job[x].card)'
  <2>1. CASE x = w
    BY <2>1, <1>1 DEF Answered
  <2>2. CASE x # w /\ ~Working(x)
    BY <2>2, <1>1 DEF Answered, Working
  <2>3. CASE x # w /\ Working(x)
    <3>1. job'[x] = job[x] /\ job[x].item \in Items /\ job[x].item \notin met
      BY <2>3, <1>1, <1>5 DEF TypeOK
    <3>2. job[x].item # job[w].item
      BY <2>3, <3>1 DEF OneAtATime
    <3>3. known'[job[x].item] = known[job[x].item]
      BY <3>1, <3>2, <1>3
    <3> QED
      BY <3>1, <3>3 DEF AnswerHolds, Answered
  <2> QED
    BY <2>1, <2>2, <2>3
<1> QED
  BY <1>4, <1>5 DEF AnswerHolds

LEMMA NextKeptInv == KeptInv /\ [Next]_vars => KeptInv' /\ Keeps
<1> SUFFICES ASSUME KeptInv, [Next]_vars
             PROVE  KeptInv' /\ Keeps
  OBVIOUS
<1>i. TypeOK /\ OneAtATime /\ AnswerHolds /\ NoCardUnknown
  BY DEF KeptInv, SecondInv, BoardInv
<1>s. SecondInv'
  BY NextSecondInv DEF KeptInv
<1>k. ASSUME UNCHANGED known, AnswerHolds'
      PROVE  KeptInv' /\ Keeps
  BY <1>k, <1>s, <1>i DEF KeptInv, NoCardUnknown, Keeps
<1>w. ASSUME NEW w \in Senders, NEW c, Working(w), UNCHANGED met,
             known' = Remembered(job[w].item, job[w].version, c),
             job[w].item \notin met => known[job[w].item].card \in {NoCard, c},
             Done(w) \/ Goto(w, "place")
      PROVE  KeptInv' /\ Keeps
  BY <1>w, <1>s, <1>i, AnswerWritten DEF KeptInv
<1>1. ASSUME UNCHANGED <<known, job, met>>
      PROVE  KeptInv' /\ Keeps
  BY <1>1, <1>i, <1>k DEF AnswerHolds, Answered
<1>2. ASSUME NEW l \in Senders, NEW pc \in {"next", "off", "wait"},
             UNCHANGED <<known, met>>, job' = [job EXCEPT ![l] = Resting(pc)]
      PROVE  KeptInv' /\ Keeps
  BY <1>2, <1>i, <1>k, AnswerRested
<1>3. ASSUME NEW l \in Loops, Poll(l) \/ PollRefused(l) \/ LoopEnds(l) \/ Run(l)
      PROVE  KeptInv' /\ Keeps
  BY <1>2, <1>3 DEF Poll, PollRefused, LoopEnds, Run, Senders
<1>4. ASSUME NEW w \in Pushers, NEW i \in Items, NEW v \in Versions, Push(w, i, v)
      PROVE  KeptInv' /\ Keeps
  BY <1>2, <1>4 DEF Push, Senders
<1>5. ASSUME NEW w \in Senders, DeliverStep(w)
      PROVE  KeptInv' /\ Keeps
  <2> DEFINE i == job[w].item
             e == known[i]
  <2>0. ASSUME UNCHANGED <<known, met>>, Done(w)
        PROVE  KeptInv' /\ Keeps
    BY <2>0, <1>2 DEF Done
  <2>1. CASE TakeItem(w)
    <3>1. PICK q \in todo[w] :
            job' = [job EXCEPT ![w] = [pc |-> "look", item |-> q.item,
                                       version |-> q.version, card |-> NoCard]]
      BY <2>1 DEF TakeItem
    <3> DEFINE r == [pc |-> "look", item |-> q.item, version |-> q.version,
                     card |-> NoCard]
    <3>2. job' = [job EXCEPT ![w] = r] /\ Answered(r.pc, r.item, r.card)
      BY <3>1 DEF Answered
    <3>3. met \subseteq met' /\ UNCHANGED known
      BY <2>1 DEF TakeItem
    <3> HIDE DEF r
    <3> QED
      BY <3>2, <3>3, <1>i, <1>k, AnswerMoved
  <2>2. CASE BatchDone(w)
    BY <2>2, <1>2 DEF BatchDone
  <2>3. CASE Look(w)
    <3>1. UNCHANGED <<known, met>>
      BY <2>3 DEF Look
    <3>2. e.version = 0 /\ Goto(w, "ask") => AnswerHolds'
      BY <3>1, <1>i, AnswerGoto DEF Answered
    <3>3. e.card = NoCard /\ Goto(w, "decide") => AnswerHolds'
      BY <3>1, <1>i, AnswerGoto DEF Answered
    <3>4. Changed(w, e.card) => AnswerHolds'
      BY <3>1, <1>i, AnswerChanged
    <3>5. AnswerHolds' \/ Done(w)
      BY <2>3, <3>2, <3>3, <3>4 DEF Look
    <3> QED
      BY <3>1, <3>5, <2>0, <1>k
  <2>4. CASE Ask(w)
    <3>1. /\ UNCHANGED <<known, met>>
          /\ i \notin met => e.version = 0 /\ e.card = NoCard
      BY <2>4, <1>i DEF Ask, AnswerHolds, Answered, NoCardUnknown, TypeOK, Working
    <3>2. Goto(w, "decide") => AnswerHolds'
      BY <3>1, <1>i, AnswerGoto DEF Answered
    <3>3. ASSUME NEW c, job' = [job EXCEPT ![w].pc = "adopt", ![w].card = c]
          PROVE  AnswerHolds'
      <4>1. i \notin met => Answered("adopt", i, c)
        BY <3>1 DEF Answered
      <4> QED
        BY <3>1, <3>3, <4>1, <1>i, AnswerTurned
    <3>4. ASSUME NEW c, Changed(w, c)
          PROVE  AnswerHolds'
      BY <3>1, <3>4, <1>i, AnswerChanged
    <3>5. AnswerHolds'
      BY <2>4, <3>2, <3>3, <3>4 DEF Ask
    <3> QED
      BY <3>1, <3>5, <1>k
  <2>5. CASE Adopt(w)
    <3>1. /\ Working(w) /\ Done(w) /\ UNCHANGED met
          /\ i \notin met => e.card = NoCard
      BY <2>5, <1>i DEF Adopt, AnswerHolds, Answered, NoCardUnknown, TypeOK, Working
    <3>2. CASE UNCHANGED known
      BY <3>1, <3>2, <2>0
    <3>3. CASE known' = Remembered(job[w].item, job[w].version, job[w].card)
      BY <3>1, <3>3, <1>w
    <3> QED
      BY <2>5, <3>2, <3>3 DEF Adopt
  <2>6. CASE Drop(w)
    BY <2>6, <1>i, <1>w DEF Drop, AnswerHolds, Answered, Working
  <2>7. CASE CreateCard(w)
    <3> DEFINE r == [job[w] EXCEPT !.pc = "stamp", !.card = Len(cards) + 1]
    <3>1. UNCHANGED <<known, met>> /\ (i \notin met => e.card = NoCard)
      BY <2>7, <1>i DEF CreateCard, AnswerHolds, Answered
    <3>2. /\ job' = [job EXCEPT ![w] = r]
          /\ r.pc = "stamp" /\ r.item = job[w].item
      BY <2>7, <1>i DEF CreateCard, TypeOK, Job
    <3> HIDE DEF r
    <3>3. r.item \notin met => Answered(r.pc, r.item, r.card)
      BY <3>1, <3>2 DEF Answered
    <3>4. AnswerHolds'
      BY <3>1, <3>2, <3>3, <1>i, AnswerMoved
    <3> QED
      BY <3>1, <3>4, <1>k
  <2>8. CASE StampCard(w)
    <3>1. /\ UNCHANGED <<known, met>> /\ Goto(w, "note")
          /\ i \notin met => Answered("note", i, job[w].card)
      BY <2>8, <1>i DEF StampCard, AnswerHolds, Answered
    <3> QED
      BY <3>1, <1>i, <1>k, AnswerGoto
  <2>9. CASE NoteCard(w)
    BY <2>9, <1>i, <1>w DEF NoteCard, AnswerHolds, Answered, Working
  <2>10. CASE PlaceCard(w) \/ Fail(w)
    BY <2>10, <2>0 DEF PlaceCard, Fail
  <2>11. CASE AddComment(w)
    <3>1. /\ UNCHANGED <<known, met>> /\ Goto(w, "update")
          /\ i \notin met => Answered("update", i, job[w].card)
      BY <2>11, <1>i DEF AddComment, AnswerHolds, Answered
    <3> QED
      BY <3>1, <1>i, <1>k, AnswerGoto
  <2>12. CASE NoteChange(w)
    BY <2>12, <1>i, <1>w DEF NoteChange, AnswerHolds, Answered, Working
  <2> QED
    BY <1>5, <2>1, <2>2, <2>3, <2>4, <2>5, <2>6, <2>7, <2>8, <2>9, <2>10,
       <2>11, <2>12 DEF DeliverStep
<1>6. CASE Restart
  <2>1. Resting("off").pc = "off" /\ Resting("wait").pc = "wait"
    BY RestingJob
  <2>2. UNCHANGED known /\ \A w \in Senders : job'[w].pc \in {"off", "wait"}
    BY <1>6, <2>1 DEF Restart
  <2> QED
    BY <2>2, <1>k DEF AnswerHolds, Answered
<1>7. CASE \E i \in Items : Change(i)
  BY <1>7, <1>1 DEF Change
<1>8. CASE UNCHANGED vars
  BY <1>8, <1>1 DEF vars
<1> QED
  BY <1>3, <1>4, <1>5, <1>6, <1>7, <1>8 DEF Next

\* An item that has got a card keeps it, however many loops and requests
\* deliver, whatever fails and however often the application restarts, so long
\* as no two of them have been at the item together: every write of the table
\* repeats the card its reader was told of (deliverOne).
THEOREM CardKeptCorrect == Spec => CardKept
<1>1. Init => KeptInv
  <2> SUFFICES ASSUME Init PROVE KeptInv
    OBVIOUS
  <2>1. Resting("off").pc = "off" /\ Resting("wait").pc = "wait"
    BY RestingJob
  <2>2. AnswerHolds
    BY <2>1 DEF Init, AnswerHolds, Answered
  <2>3. NoCardUnknown
    BY DEF Init, NoCardUnknown, NoEntry
  <2> QED
    BY <2>2, <2>3, InitSecondInv DEF KeptInv
<1>2. KeptInv /\ [Next]_vars => KeptInv'
  BY NextKeptInv
<1>3. KeptInv /\ [Next]_vars =>
        [\A i \in Items : known[i].card # NoCard /\ i \notin met
                          => known'[i].card = known[i].card]_known
  BY NextKeptInv DEF Keeps
<1> QED
  BY <1>1, <1>2, <1>3, PTL DEF Spec, CardKept

-----------------------------------------------------------------------------
(* What a card left out of sight costs                                     *)

\* The cards UnshownCostFaults counts: in no column, and in nobody's hands.
Lost == {c \in DOMAIN cards :
           /\ ~cards[c].shown
           /\ \A w \in Senders :
                job[w].card = c => job[w].pc \notin {"stamp", "note", "place"}}

LostInv == TypeOK /\ Cardinality(Lost) <= faults + Cardinality(Senders) * restarts

LEMMA LostFinite ==
  ASSUME TypeOK
  PROVE  /\ IsFiniteSet(Senders) /\ Cardinality(Senders) \in Nat
         /\ IsFiniteSet(Lost) /\ Cardinality(Lost) \in Nat
         /\ faults \in Nat /\ restarts \in Nat
         /\ Cardinality(Senders) * restarts \in Nat
<1>1. IsFiniteSet(Senders) /\ Cardinality(Senders) \in Nat
  BY SourceAssumption, FS_CardinalityType DEF Senders
<1>2. IsFiniteSet(DOMAIN cards)
  <2>1. DOMAIN cards = 1 .. Len(cards) /\ Len(cards) \in Nat
    BY LenProperties DEF TypeOK
  <2> QED
    BY <2>1, FS_Interval
<1>3. Lost \in SUBSET DOMAIN cards
  BY DEF Lost
<1>4. IsFiniteSet(Lost) /\ Cardinality(Lost) \in Nat
  BY <1>2, <1>3, FS_Subset, FS_CardinalityType
<1>5. faults \in Nat /\ restarts \in Nat
  BY DEF TypeOK
<1> QED
  BY <1>1, <1>4, <1>5

\* What a step may do: lose nothing, or lose one card to a failed write.
LEMMA LostNothing ==
  ASSUME LostInv, TypeOK', Lost' \subseteq Lost,
         faults' \in {faults, faults + 1}, UNCHANGED restarts
  PROVE  LostInv'
<1>1. IsFiniteSet(Lost) /\ Lost' \in SUBSET Lost
  BY LostFinite DEF LostInv
<1>2. Cardinality(Lost') <= Cardinality(Lost) /\ Cardinality(Lost') \in Nat
  BY <1>1, FS_Subset, FS_CardinalityType
<1>3. Cardinality(Lost)' = Cardinality(Lost')
  OBVIOUS
<1> DEFINE n == Cardinality(Senders) * restarts
<1>4. /\ n \in Nat /\ n' = n /\ faults \in Nat
      /\ Cardinality(Lost) \in Nat /\ Cardinality(Lost) <= faults + n
  BY LostFinite DEF LostInv, Senders
<1> HIDE DEF n
<1>5. Cardinality(Lost)' <= faults' + n'
  BY <1>2, <1>3, <1>4
<1> QED
  BY <1>5 DEF LostInv, n

LEMMA LostOne ==
  ASSUME LostInv, TypeOK', NEW c, Lost' \subseteq Lost \cup {c},
         faults' = faults + 1, UNCHANGED restarts
  PROVE  LostInv'
<1>1. IsFiniteSet(Lost) /\ Lost' \in SUBSET (Lost \cup {c})
  BY LostFinite DEF LostInv
<1>2. /\ IsFiniteSet(Lost \cup {c})
      /\ Cardinality(Lost \cup {c}) <= Cardinality(Lost) + 1
  <2>1. /\ IsFiniteSet(Lost \cup {c})
        /\ Cardinality(Lost \cup {c}) =
             IF c \in Lost THEN Cardinality(Lost) ELSE Cardinality(Lost) + 1
    BY <1>1, FS_AddElement
  <2>2. Cardinality(Lost) \in Nat
    BY LostFinite DEF LostInv
  <2> QED
    BY <2>1, <2>2
<1>3. /\ Cardinality(Lost') <= Cardinality(Lost \cup {c})
      /\ Cardinality(Lost') \in Nat
  BY <1>1, <1>2, FS_Subset, FS_CardinalityType
<1>4. Cardinality(Lost)' = Cardinality(Lost') /\ Cardinality(Lost \cup {c}) \in Nat
  BY <1>2, FS_CardinalityType
<1> DEFINE n == Cardinality(Senders) * restarts
<1>5. /\ n \in Nat /\ n' = n /\ faults \in Nat
      /\ Cardinality(Lost) \in Nat /\ Cardinality(Lost) <= faults + n
  BY LostFinite DEF LostInv, Senders
<1> HIDE DEF n
<1>6. Cardinality(Lost)' <= faults' + n'
  BY <1>2, <1>3, <1>4, <1>5
<1> QED
  BY <1>6 DEF LostInv, n

\* A goroutine that keeps the card it holds, or held none, loses none.
LEMMA HandKept ==
  ASSUME TypeOK, NEW w \in Senders, NEW r, job' = [job EXCEPT ![w] = r],
         \/ job[w].pc \notin {"stamp", "note", "place"}
         \/ r.card = job[w].card /\ r.pc \in {"stamp", "note", "place"},
         DOMAIN cards' = DOMAIN cards,
         \A c \in DOMAIN cards : cards[c].shown => cards'[c].shown
  PROVE  Lost' \subseteq Lost
<1>1. job'[w] = r /\ \A x \in Senders : x # w => job'[x] = job[x]
  BY DEF TypeOK
<1> SUFFICES ASSUME NEW c \in DOMAIN cards, ~cards'[c].shown,
                    \A x \in Senders : job'[x].card = c
                      => job'[x].pc \notin {"stamp", "note", "place"}
             PROVE  c \in Lost
  BY DEF Lost
<1>2. ASSUME NEW x \in Senders, job[x].card = c
      PROVE  job[x].pc \notin {"stamp", "note", "place"}
  BY <1>1, <1>2
<1> QED
  BY <1>2 DEF Lost

LEMMA NextLostInv == LostInv /\ [Next]_vars => LostInv'
<1> SUFFICES ASSUME LostInv, [Next]_vars
             PROVE  LostInv'
  OBVIOUS
<1>t. TypeOK'
  BY NextTypeOK DEF LostInv
<1> USE <1>t
<1>o. TypeOK
  BY DEF LostInv
<1>1. ASSUME UNCHANGED <<cards, job, faults, restarts>>
      PROVE  LostInv'
  <2>1. Lost' \subseteq Lost
    BY <1>1 DEF Lost
  <2> QED
    BY <1>1, <2>1, LostNothing
<1>2. ASSUME NEW w \in Senders, NEW r, job' = [job EXCEPT ![w] = r],
             \/ job[w].pc \notin {"stamp", "note", "place"}
             \/ r.card = job[w].card /\ r.pc \in {"stamp", "note", "place"},
             UNCHANGED <<cards, restarts>>, faults' \in {faults, faults + 1}
      PROVE  LostInv'
  <2>1. Lost' \subseteq Lost
    BY <1>2, <1>o, HandKept
  <2> QED
    BY <1>2, <2>1, LostNothing
<1>3. ASSUME NEW w \in Senders, job[w].pc \notin {"stamp", "note", "place"},
             Done(w) \/ (\E pc \in {"off", "wait", "next"} :
                           job' = [job EXCEPT ![w] = Resting(pc)]),
             UNCHANGED <<cards, restarts>>, faults' \in {faults, faults + 1}
      PROVE  LostInv'
  BY <1>2, <1>3 DEF Done
<1>4. ASSUME NEW w \in Senders, NEW pc, Goto(w, pc),
             job[w].pc \in {"stamp", "note", "place"}
               => pc \in {"stamp", "note", "place"},
             UNCHANGED <<cards, restarts>>, faults' \in {faults, faults + 1}
      PROVE  LostInv'
  <2> DEFINE r == [job[w] EXCEPT !.pc = pc]
  <2>1. job' = [job EXCEPT ![w] = r] /\ r.pc = pc /\ r.card = job[w].card
    BY <1>o, <1>4 DEF Goto, TypeOK, Job
  <2> HIDE DEF r
  <2> QED
    BY <1>2, <1>4, <2>1
<1>5. ASSUME NEW w \in Senders, NEW pc, NEW c,
             job' = [job EXCEPT ![w].pc = pc, ![w].card = c],
             job[w].pc \notin {"stamp", "note", "place"},
             UNCHANGED <<cards, restarts, faults>>
      PROVE  LostInv'
  <2> DEFINE r == [job[w] EXCEPT !.pc = pc, !.card = c]
  <2>1. job' = [job EXCEPT ![w] = r]
    BY <1>o, <1>5 DEF TypeOK
  <2> HIDE DEF r
  <2> QED
    BY <1>2, <1>5, <2>1
<1>6. ASSUME NEW l \in Loops, Poll(l) \/ PollRefused(l) \/ LoopEnds(l) \/ Run(l)
      PROVE  LostInv'
  BY <1>3, <1>6 DEF Poll, PollRefused, LoopEnds, Run, Senders, bounds
<1>7. ASSUME NEW w \in Pushers, NEW i \in Items, NEW v \in Versions, Push(w, i, v)
      PROVE  LostInv'
  BY <1>3, <1>7 DEF Push, Senders
<1>8. ASSUME NEW w \in Senders, DeliverStep(w)
      PROVE  LostInv'
  <2>1. CASE TakeItem(w)
    <3>1. PICK q \in todo[w] :
            job' = [job EXCEPT ![w] = [pc |-> "look", item |-> q.item,
                                       version |-> q.version, card |-> NoCard]]
      BY <2>1 DEF TakeItem
    <3> DEFINE r == [pc |-> "look", item |-> q.item, version |-> q.version,
                     card |-> NoCard]
    <3>2. job' = [job EXCEPT ![w] = r]
      BY <3>1
    <3> HIDE DEF r
    <3> QED
      BY <2>1, <3>2, <1>2 DEF TakeItem, bounds
  <2>2. CASE BatchDone(w)
    BY <2>2, <1>3 DEF BatchDone, bounds
  <2>c. ASSUME NEW c, Changed(w, c), job[w].pc \notin {"stamp", "note", "place"},
               UNCHANGED <<cards, bounds>>
        PROVE  LostInv'
    BY <2>c, <1>5 DEF Changed, bounds
  <2>3. CASE Look(w)
    <3>1. job[w].pc = "look" /\ UNCHANGED <<cards, faults, restarts>>
      BY <2>3 DEF Look, bounds
    <3>2. Goto(w, "ask") \/ Goto(w, "decide") => LostInv'
      BY <3>1, <1>4
    <3>3. Done(w) => LostInv'
      BY <3>1, <1>3
    <3> QED
      BY <2>3, <3>2, <3>3, <2>c DEF Look
  <2>4. CASE Ask(w)
    <3>1. job[w].pc = "ask" /\ UNCHANGED <<cards, faults, restarts>>
      BY <2>4 DEF Ask, bounds
    <3>2. Goto(w, "decide") => LostInv'
      BY <3>1, <1>4
    <3>3. ASSUME NEW c, job' = [job EXCEPT ![w].pc = "adopt", ![w].card = c]
          PROVE  LostInv'
      BY <3>1, <3>3, <1>5
    <3> QED
      BY <2>4, <3>2, <3>3, <2>c DEF Ask
  <2>5. CASE Adopt(w) \/ Drop(w) \/ NoteChange(w)
    BY <2>5, <1>3 DEF Adopt, Drop, NoteChange, bounds
  <2>6. CASE NoteCard(w)
    BY <2>6, <1>4 DEF NoteCard, bounds
  <2>7. CASE AddComment(w)
    BY <2>7, <1>4 DEF AddComment, bounds
  <2>8. CASE CreateCard(w)
    <3> DEFINE n == Len(cards) + 1
               new == [item |-> job[w].item, version |-> job[w].version,
                       stamped |-> FALSE, shown |-> FALSE]
               r == [job[w] EXCEPT !.pc = "stamp", !.card = n]
    <3>1. new \in Card /\ cards' = Append(cards, new)
      BY <2>8, <1>o DEF CreateCard, TypeOK, Working, Card
    <3>2. /\ job' = [job EXCEPT ![w] = r] /\ r.pc = "stamp" /\ r.card = n
          /\ job[w].pc = "decide" /\ UNCHANGED <<faults, restarts>>
      <4>1. job[w] \in Job
        BY <1>o DEF TypeOK
      <4>2. r.pc = "stamp" /\ r.card = n
        BY <4>1 DEF Job
      <4> QED
        BY <2>8, <1>o, <4>2 DEF CreateCard, TypeOK, bounds
    <3> HIDE DEF new, r
    <3>3. /\ DOMAIN cards' = DOMAIN cards \cup {n}
          /\ \A d \in DOMAIN cards : cards'[d] = cards[d]
      <4>1. /\ Len(cards) \in Nat
            /\ DOMAIN cards = 1 .. Len(cards)
            /\ DOMAIN cards' = 1 .. (Len(cards) + 1)
            /\ \A d \in DOMAIN cards : cards'[d] = cards[d]
        BY <1>o, <3>1, CardAppended
      <4> QED
        BY <4>1
    <3> HIDE DEF n
    <3>4. job'[w] = r /\ \A x \in Senders : x # w => job'[x] = job[x]
      BY <1>o, <3>2 DEF TypeOK
    <3>5. Lost' \subseteq Lost
      BY <3>2, <3>3, <3>4 DEF Lost
    <3> QED
      BY <3>2, <3>5, LostNothing
  <2>9. CASE StampCard(w) \/ PlaceCard(w)
    <3> DEFINE n == job[w].card
    <3>1. n \in DOMAIN cards /\ cards[n] \in Card
      BY <2>9, <1>o, ElementOfSeq, LenProperties DEF StampCard, PlaceCard, TypeOK
    <3>2. CASE StampCard(w) /\ UNCHANGED cards
      BY <3>2, <1>4 DEF StampCard
    <3>3. CASE StampCard(w) /\ cards' = [cards EXCEPT ![n].stamped = TRUE]
      <4> DEFINE a == [cards[n] EXCEPT !.stamped = TRUE]
                 r == [job[w] EXCEPT !.pc = "note"]
      <4>1. a \in Card /\ a.shown = cards[n].shown /\ cards' = [cards EXCEPT ![n] = a]
        BY <3>1, <3>3 DEF Card
      <4>2. /\ job' = [job EXCEPT ![w] = r] /\ r.pc = "note" /\ r.card = job[w].card
            /\ faults' \in {faults, faults + 1} /\ UNCHANGED restarts
        BY <3>3, <1>o DEF StampCard, Goto, TypeOK, Job
      <4> HIDE DEF a, r
      <4>3. /\ DOMAIN cards' = DOMAIN cards
            /\ \A c \in DOMAIN cards : cards[c].shown => cards'[c].shown
        BY <3>1, <4>1, <1>o, CardWritten
      <4>4. Lost' \subseteq Lost
        BY <1>o, <4>2, <4>3, HandKept
      <4> QED
        BY <4>2, <4>4, LostNothing
    <3>4. CASE PlaceCard(w)
      <4> DEFINE a == [cards[n] EXCEPT !.shown = TRUE]
      <4>1. a \in Card /\ a.shown /\ cards' = [cards EXCEPT ![n] = a]
        BY <3>1, <3>4 DEF Card, PlaceCard
      <4>2. /\ job' = [job EXCEPT ![w] = Resting("next")]
            /\ UNCHANGED <<faults, restarts>>
        BY <3>4 DEF PlaceCard, Done, bounds
      <4> HIDE DEF a
      <4>3. /\ DOMAIN cards' = DOMAIN cards /\ cards'[n].shown
            /\ \A c \in DOMAIN cards : c # n => cards'[c] = cards[c]
        BY <3>1, <4>1, <1>o, CardWritten
      <4>4. \A x \in Senders : x # w => job'[x] = job[x]
        BY <1>o, <4>2 DEF TypeOK
      <4>5. Lost' \subseteq Lost
        BY <4>3, <4>4 DEF Lost
      <4> QED
        BY <4>2, <4>5, LostNothing
    <3> QED
      BY <2>9, <3>2, <3>3, <3>4 DEF StampCard
  <2>10. CASE Fail(w)
    <3>1. /\ UNCHANGED <<cards, restarts>> /\ faults' = faults + 1
          /\ \A x \in Senders : x # w => job'[x] = job[x]
      BY <2>10, <1>o DEF Fail, Done, TypeOK
    <3>2. Lost' \subseteq Lost \cup {job[w].card}
      BY <3>1 DEF Lost
    <3> QED
      BY <3>1, <3>2, LostOne
  <2> QED
    BY <1>8, <2>1, <2>2, <2>3, <2>4, <2>5, <2>6, <2>7, <2>8, <2>9, <2>10
    DEF DeliverStep
<1>9. CASE Restart
  <2> DEFINE Hands == {job[w].card : w \in Senders}
             f == [w \in Senders |-> job[w].card]
             m == Cardinality(Senders)
  <2>1. UNCHANGED <<cards, faults>> /\ restarts' = restarts + 1
    BY <1>9 DEF Restart
  <2>2. /\ IsFiniteSet(Senders) /\ m \in Nat /\ faults \in Nat /\ restarts \in Nat
        /\ IsFiniteSet(Lost) /\ Cardinality(Lost) \in Nat
    BY <1>o, LostFinite
  <2>3. IsFiniteSet(Hands) /\ Cardinality(Hands) <= m /\ Cardinality(Hands) \in Nat
    <3>1. f \in Surjection(Senders, Hands)
      BY DEF Surjection
    <3> HIDE DEF f, Hands
    <3> QED
      BY <3>1, <2>2, FS_Surjection, FS_CardinalityType
  <2>4. Lost' \in SUBSET (Lost \cup Hands)
    BY <2>1 DEF Lost
  <2> HIDE DEF Hands
  <2>5. /\ IsFiniteSet(Lost \cup Hands)
        /\ Cardinality(Lost \cup Hands)
             = Cardinality(Lost) + Cardinality(Hands) - Cardinality(Lost \cap Hands)
    BY <2>2, <2>3, FS_Union
  <2>6. Cardinality(Lost \cap Hands) \in Nat
    <3>1. Lost \cap Hands \in SUBSET Lost
      OBVIOUS
    <3> QED
      BY <3>1, <2>2, FS_Subset, FS_CardinalityType
  <2>7. /\ Cardinality(Lost') <= Cardinality(Lost \cup Hands)
        /\ Cardinality(Lost') \in Nat /\ Cardinality(Lost \cup Hands) \in Nat
    BY <2>4, <2>5, FS_Subset, FS_CardinalityType
  <2>8. Cardinality(Lost') <= Cardinality(Lost) + m
    BY <2>2, <2>3, <2>5, <2>6, <2>7
  <2>9. Cardinality(Lost) <= faults + m * restarts /\ m * restarts \in Nat
    BY <1>o, LostFinite DEF LostInv
  <2>10. m * restarts' = m * restarts + m
    BY <2>1, <2>2
  <2>11. Cardinality(Lost)' = Cardinality(Lost') /\ Cardinality(Senders)' = m
    BY DEF Senders
  <2> HIDE DEF m
  <2>12. Cardinality(Lost)' <= faults' + m * restarts'
    BY <2>1, <2>2, <2>7, <2>8, <2>9, <2>10, <2>11
  <2> QED
    BY <2>11, <2>12 DEF LostInv
<1>10. CASE \E i \in Items : Change(i)
  BY <1>10, <1>1 DEF Change, bounds
<1>11. CASE UNCHANGED vars
  BY <1>11, <1>1 DEF vars
<1> QED
  BY <1>6, <1>7, <1>8, <1>9, <1>10, <1>11 DEF Next

\* A card is left in no column only at the price of a failed write, or of a
\* restart while its goroutine held it, for any number of goroutines
\* (UnshownCostFaults).
THEOREM UnshownCorrect == Spec => []UnshownCostFaults
<1>1. Init => LostInv
  <2> SUFFICES ASSUME Init PROVE LostInv
    OBVIOUS
  <2>1. TypeOK
    BY InitTypeOK
  <2>2. Lost = {}
    BY DEF Init, Lost
  <2>3. Cardinality(Lost) = 0
    BY <2>2, FS_EmptySet
  <2>4. faults = 0 /\ Cardinality(Senders) * restarts \in Nat
    BY <2>1, LostFinite DEF Init
  <2> QED
    BY <2>1, <2>3, <2>4 DEF LostInv
<1>2. LostInv /\ [Next]_vars => LostInv'
  BY NextLostInv
<1>3. LostInv => UnshownCostFaults
  BY DEF LostInv, Lost, UnshownCostFaults
<1> QED
  BY <1>1, <1>2, <1>3, PTL DEF Spec
=============================================================================
