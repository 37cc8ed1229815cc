-------------------------- MODULE StageQueueProofs --------------------------
(***************************************************************************)
(* What holds of StageQueue for every board, crew, limit and bound.        *)
(***************************************************************************)
EXTENDS StageQueue, FiniteSetTheorems, SequenceTheorems, TLAPS

-----------------------------------------------------------------------------
(* Types                                                                   *)

LEMMA InitTypeOK == Init => TypeOK
  BY StageQueueAssumption
  DEF Init, TypeOK, Starters, Whos, NoRow, FreeSession, IdleStart, Event,
         Row, Session, Start

\* The members of a crew are registered agents.
LEMMA CrewOfAgents ==
  ASSUME NEW k \in Columns
  PROVE  /\ CrewOf(k) \subseteq Agents
         /\ FirstFree(k) \subseteq Agents
  BY StageQueueAssumption DEF CrewOf, FirstFree, FreeCrew

\* How a start goes on keeps the types, whatever it goes on to.
LEMMA GotoTypeOK ==
  ASSUME TypeOK, NEW p \in Starters, start[p].pc # "idle",
         NEW pc \in {"park", "refused", "dequeue"},
         Goto(p, pc)
  PROVE  /\ start' \in [Starters -> Start]
         /\ \A q \in Starters : start'[q].pc # "idle" =>
              start'[q].card \in Cards /\ start'[q].column \in Columns
  BY DEF TypeOK, Start, Goto, Whos

LEMMA TakenTypeOK ==
  ASSUME TypeOK, NEW p \in Starters, start[p].pc # "idle",
         NEW a \in Agents,
         Taken(p, a)
  PROVE  /\ start' \in [Starters -> Start]
         /\ \A q \in Starters : start'[q].pc # "idle" =>
              start'[q].card \in Cards /\ start'[q].column \in Columns
  BY DEF TypeOK, Start, Taken, Whos

LEMMA PassLimitTypeOK ==
  ASSUME TypeOK, NEW p \in Starters, PassLimit(p)
  PROVE  start' \in [Starters -> Start]
<1>1. start \in [Starters -> Start]
  BY DEF TypeOK
<1>2. start' = [start EXCEPT ![p].pc = "commit"]
  BY DEF PassLimit
<1> QED
  BY <1>1, <1>2 DEF Start

\* A goroutine that is done with its call: a session's is free again.
LEMMA ReturnTypeOK ==
  ASSUME TypeOK, NEW p \in Starters, Return(p)
  PROVE  /\ start' \in [Starters -> Start]
         /\ \A q \in Starters : start'[q].pc # "idle" =>
              start'[q].card \in Cards /\ start'[q].column \in Columns
         /\ sess' \in [Sessions -> Session]
         /\ \A s \in Sessions :
              /\ sess'[s].phase # "free" => sess'[s].column \in Columns
              /\ sess'[s].phase = "live" => sess'[s].card \in Cards
<1>1. IdleStart \in Start /\ IdleStart.pc = "idle"
  BY DEF IdleStart, Start, Whos
<1>2. FreeSession \in Session /\ FreeSession.phase = "free"
  BY DEF FreeSession, Session
<1>3. p = Loop \/ p \in Sessions
  BY DEF Starters
<1> QED
  BY <1>1, <1>2, <1>3 DEF TypeOK, Return

LEMMA CancelledTypeOK ==
  ASSUME TypeOK, NEW c \in Cards
  PROVE  /\ Cancelled(c) \in [Sessions -> Session]
         /\ \A s \in Sessions :
              /\ Cancelled(c)[s].phase = sess[s].phase
              /\ Cancelled(c)[s].card = sess[s].card
              /\ Cancelled(c)[s].column = sess[s].column
              /\ Cancelled(c)[s].agent = sess[s].agent
<1>1. CASE byCard[c] = None
  BY <1>1 DEF TypeOK, Cancelled
<1>2. CASE byCard[c] # None
  <2> DEFINE b == byCard[c]
  <2>1. b \in Sessions /\ sess[b] \in Session
    BY <1>2 DEF TypeOK
  <2>2. Cancelled(c) = [sess EXCEPT ![b] = [sess[b] EXCEPT !.cancelled = TRUE]]
    BY <1>2 DEF Cancelled
  <2>3. [sess[b] EXCEPT !.cancelled = TRUE] \in Session
    BY <2>1 DEF Session
  <2>4. /\ [sess[b] EXCEPT !.cancelled = TRUE].phase = sess[b].phase
        /\ [sess[b] EXCEPT !.cancelled = TRUE].card = sess[b].card
        /\ [sess[b] EXCEPT !.cancelled = TRUE].column = sess[b].column
        /\ [sess[b] EXCEPT !.cancelled = TRUE].agent = sess[b].agent
    BY <2>1 DEF Session
  <2> HIDE DEF b
  <2> QED
    BY <2>1, <2>2, <2>3, <2>4 DEF TypeOK
<1> QED
  BY <1>1, <1>2

\* A turn that begins changes nothing but that a cancel reaches it.
LEMMA OnlyTurnBegins ==
  ASSUME TypeOK, NEW s \in Sessions, BeginTurn(s)
  PROVE  /\ sess' \in [Sessions -> Session]
         /\ \A u \in Sessions : /\ sess'[u].phase = sess[u].phase
                               /\ sess'[u].card = sess[u].card
                               /\ sess'[u].column = sess[u].column
                               /\ sess'[u].agent = sess[u].agent
                               /\ sess'[u].cancelled = sess[u].cancelled
         /\ UNCHANGED <<people, events, claims, row, clock, byCard, start, history,
                       bounds>>
<1> DEFINE r == [sess[s] EXCEPT !.turn = TRUE]
<1>1. sess \in [Sessions -> Session] /\ sess[s] \in Session
  BY DEF TypeOK
<1>2. /\ r \in Session /\ r.phase = sess[s].phase /\ r.card = sess[s].card
      /\ r.column = sess[s].column /\ r.agent = sess[s].agent
      /\ r.cancelled = sess[s].cancelled
  BY <1>1 DEF Session
<1>3. sess' = [sess EXCEPT ![s] = r]
  BY DEF BeginTurn
<1> HIDE DEF r
<1> QED
  BY <1>1, <1>2, <1>3 DEF BeginTurn

LEMMA DequeueTypeOK ==
  ASSUME TypeOK, NEW c \in Cards, Dequeue(c)
  PROVE  row' \in [Cards -> Row]
<1>1. NoRow \in Row
  BY DEF NoRow, Row
<1>2. row \in [Cards -> Row]
  BY DEF TypeOK
<1>3. CASE row' = [row EXCEPT ![c] = NoRow]
  BY <1>1, <1>2, <1>3
<1>4. CASE UNCHANGED row
  BY <1>2, <1>4
<1> QED
  BY <1>3, <1>4 DEF Dequeue

\* What is left of a card's moves when one of them is taken out.
LEMMA WithoutTypeOK ==
  ASSUME TypeOK, NEW c \in Cards, NEW i \in 1 .. Len(events[c])
  PROVE  Without(c, i) \in [Cards -> Seq(Event)]
<1> DEFINE q == events[c]
<1>1. events \in [Cards -> Seq(Event)] /\ q \in Seq(Event)
  BY DEF TypeOK
<1>2. RemoveAt(q, i) = SubSeq(q, 1, i - 1) \o SubSeq(q, i + 1, Len(q))
  BY DEF RemoveAt
<1>3. SubSeq(q, 1, i - 1) \in Seq(Event)
  BY <1>1, SubSeqProperties
<1>4. SubSeq(q, i + 1, Len(q)) \in Seq(Event)
  BY <1>1, SubSeqProperties
<1>5. RemoveAt(q, i) \in Seq(Event)
  BY <1>2, <1>3, <1>4, ConcatProperties
<1> QED
  BY <1>1, <1>5 DEF Without

\* The loop handles one move of some card, whichever it was told.
LEMMA HandleEventTypeOK ==
  ASSUME TypeOK, HandleEvent
  PROVE  \E e \in Event :
           /\ e.card \in Cards /\ MoveOf(e) \in Move /\ e.who \in Whos
           /\ HandleEnter(e) \/ SuppressDuplicate(e) \/ HandleLeave(e)
           /\ UNCHANGED <<people, clock, byCard, raced, bounds>>
           /\ events' \in [Cards -> Seq(Event)]
           /\ missed' \subseteq Cards
<1>0. PICK c \in Cards : \E i \in 1 .. Len(events[c]) :
        /\ events' = Without(c, i)
        /\ missed' = IF i > 1 THEN missed \cup {c} ELSE missed
        /\ LET e == events[c][i]
           IN  HandleEnter(e) \/ SuppressDuplicate(e) \/ HandleLeave(e)
  BY DEF HandleEvent
<1>1. PICK i \in 1 .. Len(events[c]) :
        /\ events' = Without(c, i)
        /\ missed' = IF i > 1 THEN missed \cup {c} ELSE missed
        /\ LET e == events[c][i]
           IN  HandleEnter(e) \/ SuppressDuplicate(e) \/ HandleLeave(e)
  BY <1>0
<1> DEFINE e == events[c][i]
<1>2. e \in Event
  BY DEF TypeOK
<1>3. e.card \in Cards /\ MoveOf(e) \in Move /\ e.who \in Whos
  BY <1>2 DEF Event, Move, MoveOf
<1>4. events' \in [Cards -> Seq(Event)] /\ missed' \subseteq Cards
  BY <1>1, WithoutTypeOK DEF TypeOK
<1>5. UNCHANGED <<people, clock, byCard, raced, bounds>>
  BY DEF HandleEvent
<1> QED
  BY <1>1, <1>2, <1>3, <1>4, <1>5

LEMMA NextTypeOK == TypeOK /\ [Next]_vars => TypeOK'
<1> SUFFICES ASSUME TypeOK, [Next]_vars
             PROVE  TypeOK'
  OBVIOUS
<1> USE DEF TypeOK
<1>1. ASSUME NEW c \in Cards, NEW k \in Columns \cup {Elsewhere}, MoveCard(c, k)
      PROVE  TypeOK'
  <2>1. [card |-> c, from |-> board[c], to |-> k, who |-> assignee[c]] \in Event
    BY DEF Event
  <2>2. events' \in [Cards -> Seq(Event)]
    BY <1>1, <2>1 DEF MoveCard, history
  <2> QED
    BY <1>1, <2>2 DEF MoveCard, history
<1>2. ASSUME NEW c \in Cards, NEW w \in Whos, Assign(c, w)
      PROVE  TypeOK'
  BY <1>2 DEF Assign, history
<1>3. ASSUME NEW c \in Cards, CancelSession(c)
      PROVE  TypeOK'
  <2>1. /\ sess' \in [Sessions -> Session]
        /\ \A s \in Sessions : /\ sess'[s].phase = sess[s].phase
                              /\ sess'[s].card = sess[s].card
                              /\ sess'[s].column = sess[s].column
    BY <1>3, CancelledTypeOK DEF CancelSession, history
  <2> QED
    BY SMTT(30), <1>3, <2>1 DEF CancelSession, history
<1>4. ASSUME NEW m \in claims, ExpireClaim(m)
      PROVE  TypeOK'
  BY <1>4 DEF ExpireClaim, people, history, bounds
<1>5. ASSUME HandleEvent
      PROVE  TypeOK'
  <2>1. PICK e \in Event :
          /\ e.card \in Cards /\ MoveOf(e) \in Move /\ e.who \in Whos
          /\ HandleEnter(e) \/ SuppressDuplicate(e) \/ HandleLeave(e)
          /\ UNCHANGED <<people, clock, byCard, raced, bounds>>
          /\ events' \in [Cards -> Seq(Event)]
          /\ missed' \subseteq Cards
    BY <1>5, HandleEventTypeOK
  <2>2. e.card \in Cards /\ MoveOf(e) \in Move /\ e.who \in Whos
    BY <2>1
  <2>3. CASE HandleEnter(e)
    <3>1. /\ start' \in [Starters -> Start]
          /\ \A q \in Starters : start'[q].pc # "idle" =>
               start'[q].card \in Cards /\ start'[q].column \in Columns
      <4>1. CASE start' = start
        BY <4>1
      <4> DEFINE r == [pc |-> "agent", card |-> e.card, column |-> e.to,
                       who |-> e.who, agent |-> None]
      <4>2. CASE start' = [start EXCEPT ![Loop] = r]
        <5>1. r \in Start /\ r.card \in Cards /\ r.column \in Columns
          BY <2>2, <2>3 DEF HandleEnter, Start
        <5> HIDE DEF r
        <5> QED
          BY <4>2, <5>1
      <4> QED
        BY <2>3, <4>1, <4>2 DEF HandleEnter
    <3> QED
      BY <2>1, <2>2, <2>3, <3>1 DEF HandleEnter, people, history, bounds
  <2>4. CASE SuppressDuplicate(e)
    BY <2>1, <2>4 DEF SuppressDuplicate, people, history, bounds
  <2>5. CASE HandleLeave(e)
    <3>1. Dequeue(e.card) /\ sess' = Cancelled(e.card)
      BY <2>5 DEF HandleLeave
    <3>2. row' \in [Cards -> Row]
      BY <3>1, <2>2, DequeueTypeOK
    <3>3. /\ sess' \in [Sessions -> Session]
          /\ \A s \in Sessions : /\ sess'[s].phase = sess[s].phase
                                /\ sess'[s].card = sess[s].card
                                /\ sess'[s].column = sess[s].column
      BY <3>1, <2>2, CancelledTypeOK
    <3> QED
      BY <2>1, <2>5, <3>2, <3>3
      DEF HandleLeave, people, history, bounds
  <2> QED
    BY <2>1, <2>3, <2>4, <2>5
<1>6. ASSUME NEW p \in Starters, StartStep(p)
      PROVE  TypeOK'
  <2>1. CASE Refuse(p)
    BY <2>1, GotoTypeOK DEF Refuse, people, history, bounds
  <2>2. CASE TakeAssignee(p)
    <3>1. start[p].who \in Agents
      BY <2>2, CrewOfAgents DEF TakeAssignee
    <3> QED
      BY <2>2, <3>1, TakenTypeOK DEF TakeAssignee, people, history, bounds
  <2>3. CASE TakeFree(p)
    <3>1. PICK a \in FirstFree(start[p].column) :
            /\ Taken(p, a)
            /\ \/ assignee' = [assignee EXCEPT ![start[p].card] = a]
               \/ Faults /\ UNCHANGED assignee
      BY <2>3 DEF TakeFree
    <3>2. a \in Agents /\ a \in Whos /\ start[p].pc # "idle"
      BY <2>3, CrewOfAgents DEF TakeFree, Whos
    <3>3. /\ start' \in [Starters -> Start]
          /\ \A q \in Starters : start'[q].pc # "idle" =>
               start'[q].card \in Cards /\ start'[q].column \in Columns
      BY <3>1, <3>2, TakenTypeOK
    <3>4. assignee' \in [Cards -> Whos]
      BY <3>1, <3>2
    <3> QED
      BY <2>3, <3>3, <3>4 DEF TakeFree, history, bounds
  <2>4. CASE TakeOnlyAgent(p)
    BY <2>4, TakenTypeOK DEF TakeOnlyAgent, people, history, bounds
  <2>5. CASE CrewBusy(p)
    BY <2>5, GotoTypeOK, ReturnTypeOK DEF CrewBusy, Busy, people, history, bounds
  <2>6. CASE PassLimit(p)
    <3>1. start' \in [Starters -> Start]
      BY <2>6, PassLimitTypeOK
    <3>2. \A q \in Starters : start'[q].pc # "idle" =>
            start'[q].card \in Cards /\ start'[q].column \in Columns
      BY <2>6 DEF PassLimit
    <3>3. raced' \subseteq Columns
      BY <2>6 DEF PassLimit
    <3> QED
      BY <2>6, <3>1, <3>2, <3>3 DEF PassLimit, people, history, bounds
  <2>7. CASE LimitReached(p)
    BY <2>7, GotoTypeOK, ReturnTypeOK DEF LimitReached, Busy, people, history, bounds
  <2>8. ASSUME NEW s \in Sessions, Commit(p, s)
        PROVE  TypeOK'
    <3>1. start[p].card \in Cards /\ start[p].column \in Columns
          /\ start[p].agent \in Agents \cup {None}
      BY <2>8 DEF Commit, Start
    <3>2. /\ start' \in [Starters -> Start]
          /\ \A q \in Starters : start'[q].pc # "idle" =>
               start'[q].card \in Cards /\ start'[q].column \in Columns
      <4>1. CASE p = Loop
        <5>1. IdleStart \in Start /\ IdleStart.pc = "idle"
          BY DEF IdleStart, Start, Whos
        <5> QED
          BY <2>8, <4>1, <5>1 DEF Commit
      <4>2. CASE p # Loop
        BY <2>8, <4>2, GotoTypeOK DEF Commit
      <4> QED
        BY <4>1, <4>2
    <3> DEFINE r == [phase |-> "live", card |-> start[p].card,
                     column |-> start[p].column, agent |-> start[p].agent,
                     turn |-> FALSE, cancelled |-> FALSE]
    <3>3. r \in Session /\ r.card \in Cards /\ r.column \in Columns
      BY <3>1 DEF Session
    <3>4. sess' = [sess EXCEPT ![s] = r]
      BY <2>8 DEF Commit
    <3> HIDE DEF r
    <3> QED
      BY <2>8, <3>1, <3>2, <3>3, <3>4 DEF Commit, people, history, bounds
  <2> QED
    BY <1>6, <2>1, <2>2, <2>3, <2>4, <2>5, <2>6, <2>7, <2>8 DEF StartStep
<1>7. ASSUME Park
      PROVE  TypeOK'
  <2>1. PICK t \in {clock, clock + 1} :
          /\ clock' = t
          /\ \/ row' = Enqueued(start[Loop].card, start[Loop].column, t)
             \/ Faults /\ UNCHANGED row
    BY <1>7 DEF Park
  <2>2. t \in Nat /\ Loop \in Starters
    BY DEF Starters
  <2>3. start[Loop].card \in Cards /\ start[Loop].column \in Columns
    BY <1>7, <2>2 DEF Park
  <2>4. [column |-> start[Loop].column, at |-> t] \in Row
    BY <2>2, <2>3 DEF Row
  <2>5. row' \in [Cards -> Row]
    BY <2>1, <2>3, <2>4 DEF Enqueued
  <2> QED
    BY <1>7, <2>1, <2>2, <2>5, ReturnTypeOK DEF Park, people, history, bounds
<1>8. ASSUME LoopRefused
      PROVE  TypeOK'
  BY <1>8, ReturnTypeOK DEF LoopRefused, Starters, people, history, bounds
<1>9. ASSUME NEW s \in Sessions, DrainReads(s)
      PROVE  TypeOK'
  <2>1. PICK c \in NextQueued(sess[s].column) :
          start' = [start EXCEPT ![s] =
                      [pc |-> "agent", card |-> c, column |-> sess[s].column,
                       who |-> assignee[c], agent |-> None]]
    BY <1>9 DEF DrainReads
  <2>2. c \in Cards /\ sess[s].column \in Columns /\ s \in Starters
    BY <1>9 DEF NextQueued, DrainReads, Starters
  <2> DEFINE r == [pc |-> "agent", card |-> c, column |-> sess[s].column,
                   who |-> assignee[c], agent |-> None]
  <2>3. r \in Start /\ r.card \in Cards /\ r.column \in Columns
    BY <2>2 DEF Start
  <2> HIDE DEF r
  <2> QED
    BY <1>9, <2>1, <2>2, <2>3 DEF DrainReads, people, history, bounds, r
<1>10. ASSUME NEW s \in Sessions,
              DrainNothing(s) \/ DrainRefused(s) \/ DrainStarted(s)
       PROVE  TypeOK'
  <2>1. s \in Starters
    BY DEF Starters
  <2>2. CASE DrainNothing(s)
    BY <2>1, <2>2, ReturnTypeOK DEF DrainNothing, people, history, bounds
  <2>3. CASE DrainRefused(s)
    BY <2>1, <2>3, ReturnTypeOK, DequeueTypeOK DEF DrainRefused, people, history, bounds
  <2>4. CASE DrainStarted(s)
    BY <2>1, <2>4, ReturnTypeOK, DequeueTypeOK DEF DrainStarted, people, history, bounds
  <2> QED
    BY <1>10, <2>2, <2>3, <2>4
<1>11. ASSUME NEW s \in Sessions, EndSession(s)
       PROVE  TypeOK'
  <2> DEFINE r == [FreeSession EXCEPT !.phase = "released",
                                      !.column = sess[s].column]
  <2>1. r \in Session /\ r.phase = "released" /\ r.column \in Columns
    BY <1>11 DEF FreeSession, Session, EndSession
  <2>2. sess' = [sess EXCEPT ![s] = r]
    BY <1>11 DEF EndSession
  <2> HIDE DEF r
  <2>3. byCard' \in [Cards -> Sessions \cup {None}]
    BY <1>11 DEF EndSession
  <2> QED
    BY <1>11, <2>1, <2>2, <2>3 DEF EndSession, people, history, bounds
<1>12. ASSUME Restart
       PROVE  TypeOK'
  <2>1. /\ FreeSession \in Session /\ FreeSession.phase = "free"
        /\ IdleStart \in Start /\ IdleStart.pc = "idle"
    BY DEF FreeSession, Session, IdleStart, Start, Whos
  <2> QED
    BY <1>12, <2>1 DEF Restart, people, history
<1>13. CASE DropEvent
  <2>0. PICK c \in Cards : \E i \in 1 .. Len(events[c]) :
          events' = Without(c, i) /\ missed' = missed \cup {c}
    BY <1>13 DEF DropEvent
  <2>1. PICK i \in 1 .. Len(events[c]) :
          events' = Without(c, i) /\ missed' = missed \cup {c}
    BY <2>0
  <2>2. events' \in [Cards -> Seq(Event)]
    BY <2>1, WithoutTypeOK
  <2> QED
    BY <1>13, <2>1, <2>2 DEF DropEvent, people, bounds
<1>14. ASSUME NEW s \in Sessions, BeginTurn(s)
       PROVE  TypeOK'
  <2>1. /\ sess' \in [Sessions -> Session]
        /\ \A u \in Sessions : /\ sess'[u].phase = sess[u].phase
                              /\ sess'[u].card = sess[u].card
                              /\ sess'[u].column = sess[u].column
    BY <1>14, OnlyTurnBegins
  <2>2. UNCHANGED <<people, events, claims, row, clock, byCard, start, history,
                    bounds>>
    BY <1>14, OnlyTurnBegins
  <2>3. \A u \in Sessions :
          /\ sess'[u].phase # "free" => sess'[u].column \in Columns
          /\ sess'[u].phase = "live" => sess'[u].card \in Cards
    BY <2>1
  <2> QED
    BY <2>1, <2>2, <2>3 DEF people, history, bounds
<1>15. CASE UNCHANGED vars
  BY <1>15 DEF vars
<1> QED
  <2>1. Loop \in Starters /\ Sessions \subseteq Starters
    BY DEF Starters
  <2> QED
    BY <1>1, <1>2, <1>3, <1>4, <1>5, <1>6, <1>7, <1>8, <1>9, <1>10, <1>11,
       <1>12, <1>13, <1>14, <1>15, <2>1
    DEF Next, PeopleAct, LoopStep, DrainStep

\* The variables keep their types on every board (TypeOK).
THEOREM TypeCorrect == Spec => []TypeOK
  BY InitTypeOK, NextTypeOK, PTL DEF Spec

-----------------------------------------------------------------------------
(* Manager.byCard                                                          *)

\* A session's goroutine starts cards only after its own session is released.
DrainOwnsSlot ==
  \A s \in Sessions : start[s].pc # "idle" => sess[s].phase = "released"

ByCardInv == TypeOK /\ DrainOwnsSlot /\ ByCardLive

\* Returning frees a slot that no card's own session occupies.
LEMMA ReturnKeepsByCard ==
  ASSUME ByCardInv, NEW p \in Starters, Return(p), UNCHANGED byCard,
         p \in Sessions => sess[p].phase = "released"
  PROVE  DrainOwnsSlot' /\ ByCardLive'
<1>1. CASE p = Loop
  BY <1>1, StageQueueAssumption
  DEF ByCardInv, TypeOK, DrainOwnsSlot, ByCardLive, Return, IdleStart, Starters
<1>2. CASE p \in Sessions
  <2>1. /\ start' = [start EXCEPT ![p] = IdleStart]
        /\ sess' = [sess EXCEPT ![p] = FreeSession]
    BY <1>2, StageQueueAssumption DEF Return
  <2>2. DrainOwnsSlot'
    BY <1>2, <2>1 DEF ByCardInv, TypeOK, DrainOwnsSlot, IdleStart, Starters
  <2>3. ByCardLive'
    BY <1>2, <2>1 DEF ByCardInv, TypeOK, ByCardLive
  <2> QED
    BY <2>2, <2>3
<1> QED
  BY <1>1, <1>2 DEF Starters

\* Going on with a call disturbs nothing that is live.
LEMMA AdvanceKeepsByCard ==
  ASSUME ByCardInv, NEW p \in Starters, start[p].pc # "idle",
         \A q \in Starters : q # p => start'[q] = start[q],
         UNCHANGED <<sess, byCard>>
  PROVE  DrainOwnsSlot' /\ ByCardLive'
  BY DEF ByCardInv, DrainOwnsSlot, ByCardLive, Starters

LEMMA CancelledKeepsByCard ==
  ASSUME ByCardInv, NEW c \in Cards, sess' = Cancelled(c), UNCHANGED byCard,
         \A s \in Sessions : start'[s] = start[s]
  PROVE  DrainOwnsSlot' /\ ByCardLive'
<1>1. \A s \in Sessions : /\ sess'[s].phase = sess[s].phase
                         /\ sess'[s].card = sess[s].card
  BY CancelledTypeOK DEF ByCardInv
<1>2. byCard \in [Cards -> Sessions \cup {None}]
  BY DEF ByCardInv, TypeOK
<1> QED
  BY <1>1, <1>2 DEF ByCardInv, DrainOwnsSlot, ByCardLive

LEMMA NextByCard == ByCardInv /\ [Next]_vars => DrainOwnsSlot' /\ ByCardLive'
<1> SUFFICES ASSUME ByCardInv, [Next]_vars
             PROVE  DrainOwnsSlot' /\ ByCardLive'
  OBVIOUS
<1>t. TypeOK /\ DrainOwnsSlot /\ ByCardLive
  BY DEF ByCardInv
<1>s. Loop \in Starters /\ Sessions \subseteq Starters /\ Loop \notin Sessions
  BY StageQueueAssumption DEF Starters
<1>1. CASE UNCHANGED <<sess, byCard, start>>
  BY <1>1, <1>t DEF DrainOwnsSlot, ByCardLive
<1>2. ASSUME NEW c \in Cards, CancelSession(c)
      PROVE  DrainOwnsSlot' /\ ByCardLive'
  BY <1>2, CancelledKeepsByCard DEF CancelSession, history
<1>3. CASE HandleEvent
  <2>1. PICK e \in Event :
          /\ e.card \in Cards
          /\ HandleEnter(e) \/ SuppressDuplicate(e) \/ HandleLeave(e)
          /\ UNCHANGED <<byCard, raced>>
    BY <1>3, <1>t, HandleEventTypeOK
  <2>2. UNCHANGED byCard
    BY <2>1
  <2>3. CASE HandleEnter(e)
    <3>1. UNCHANGED sess /\ \A s \in Sessions : start'[s] = start[s]
      BY <2>3, <1>t, <1>s DEF HandleEnter, TypeOK
    <3> QED
      BY <3>1, <2>2, <1>t DEF DrainOwnsSlot, ByCardLive
  <2>4. CASE SuppressDuplicate(e)
    BY <2>4, <2>2, <1>t DEF SuppressDuplicate, DrainOwnsSlot, ByCardLive
  <2>5. CASE HandleLeave(e)
    BY <2>5, <2>1, <2>2, CancelledKeepsByCard DEF HandleLeave
  <2> QED
    BY <2>1, <2>3, <2>4, <2>5
<1>4. ASSUME NEW p \in Starters,
             Refuse(p) \/ TakeAssignee(p) \/ TakeFree(p) \/ TakeOnlyAgent(p)
             \/ PassLimit(p)
      PROVE  DrainOwnsSlot' /\ ByCardLive'
  <2>1. /\ start[p].pc # "idle"
        /\ UNCHANGED <<sess, byCard>>
        /\ \A q \in Starters : q # p => start'[q] = start[q]
    BY <1>4, <1>t
    DEF Refuse, TakeAssignee, TakeFree, TakeOnlyAgent, PassLimit, Goto, Taken,
        TypeOK
  <2> QED
    BY <2>1, AdvanceKeepsByCard
<1>5. ASSUME NEW p \in Starters, CrewBusy(p) \/ LimitReached(p)
      PROVE  DrainOwnsSlot' /\ ByCardLive'
  <2>1. start[p].pc # "idle" /\ Busy(p) /\ UNCHANGED byCard
    BY <1>5 DEF CrewBusy, LimitReached
  <2>2. CASE p = Loop
    <3>1. /\ UNCHANGED <<sess, byCard>>
          /\ \A q \in Starters : q # p => start'[q] = start[q]
      BY <2>1, <2>2, <1>t DEF Busy, Goto, TypeOK
    <3> QED
      BY <2>1, <3>1, AdvanceKeepsByCard
  <2>3. CASE p # Loop
    <3>1. Return(p)
      BY <2>1, <2>3 DEF Busy
    <3>2. p \in Sessions => sess[p].phase = "released"
      BY <2>1, <1>t DEF DrainOwnsSlot
    <3> QED
      BY <2>1, <3>1, <3>2, ReturnKeepsByCard
  <2> QED
    BY <2>2, <2>3
<1>6. ASSUME NEW p \in Starters, NEW s \in Sessions, Commit(p, s)
      PROVE  DrainOwnsSlot' /\ ByCardLive'
  <2>1. start[p].pc = "commit" /\ sess[s].phase = "free" /\ start[s].pc = "idle"
    BY <1>6, <1>t DEF Commit, DrainOwnsSlot
  <2>2. s # p /\ start[p].card \in Cards
    BY <2>1, <1>t DEF TypeOK
  <2>3. \A q \in Starters : q # p => start'[q] = start[q]
    BY <1>6, <1>t DEF Commit, Goto, TypeOK
  <2>4. /\ sess' = [sess EXCEPT ![s] =
                      [phase |-> "live", card |-> start[p].card,
                       column |-> start[p].column, agent |-> start[p].agent,
                       turn |-> FALSE, cancelled |-> FALSE]]
        /\ byCard' = [byCard EXCEPT ![start[p].card] = s]
    BY <1>6 DEF Commit
  <2>5. DrainOwnsSlot'
    <3> SUFFICES ASSUME NEW q \in Sessions, start'[q].pc # "idle"
                 PROVE  sess'[q].phase = "released"
      BY DEF DrainOwnsSlot
    <3>1. q # s
      BY <2>1, <2>2, <2>3, <1>s
    <3>2. start[q].pc # "idle"
      BY <2>1, <2>3, <1>s
    <3> QED
      BY <2>4, <3>1, <3>2, <1>t DEF DrainOwnsSlot, TypeOK
  <2>6. ByCardLive'
    <3> SUFFICES ASSUME NEW c \in Cards, byCard'[c] # None
                 PROVE  /\ sess'[byCard'[c]].phase = "live"
                        /\ sess'[byCard'[c]].card = c
      BY DEF ByCardLive
    <3>1. CASE c = start[p].card
      BY <3>1, <2>4, <1>t DEF TypeOK
    <3>2. CASE c # start[p].card
      <4>1. byCard'[c] = byCard[c] /\ byCard[c] \in Sessions
        BY <3>2, <2>2, <2>4, <1>t DEF TypeOK
      <4>2. sess[byCard[c]].phase = "live" /\ sess[byCard[c]].card = c
        BY <4>1, <1>t DEF ByCardLive
      <4>3. byCard[c] # s
        BY <4>2, <2>1
      <4> QED
        BY <4>1, <4>2, <4>3, <2>4, <1>t DEF TypeOK
    <3> QED
      BY <3>1, <3>2
  <2> QED
    BY <2>5, <2>6
<1>7. CASE Park \/ LoopRefused
  BY <1>7, <1>s, ReturnKeepsByCard DEF Park, LoopRefused
<1>8. ASSUME NEW s \in Sessions, DrainReads(s)
      PROVE  DrainOwnsSlot' /\ ByCardLive'
  <2>1. /\ sess[s].phase = "released"
        /\ UNCHANGED <<sess, byCard>>
        /\ \A q \in Sessions : q # s => start'[q] = start[q]
    BY <1>8, <1>s, <1>t DEF DrainReads, TypeOK
  <2> QED
    BY <2>1, <1>t DEF DrainOwnsSlot, ByCardLive
<1>9. ASSUME NEW s \in Sessions,
             DrainNothing(s) \/ DrainRefused(s) \/ DrainStarted(s)
      PROVE  DrainOwnsSlot' /\ ByCardLive'
  <2>1. sess[s].phase = "released" /\ Return(s) /\ UNCHANGED byCard
    BY <1>9, <1>t DEF DrainNothing, DrainRefused, DrainStarted, DrainOwnsSlot
  <2> QED
    BY <2>1, <1>s, ReturnKeepsByCard
<1>10. ASSUME NEW s \in Sessions, EndSession(s)
       PROVE  DrainOwnsSlot' /\ ByCardLive'
  <2> DEFINE r == [FreeSession EXCEPT !.phase = "released",
                                      !.column = sess[s].column]
  <2>1. r.phase = "released"
    BY DEF FreeSession
  <2>2. sess' = [sess EXCEPT ![s] = r] /\ UNCHANGED start
    BY <1>10 DEF EndSession
  <2> HIDE DEF r
  <2>3. DrainOwnsSlot'
    BY <2>1, <2>2, <1>t DEF DrainOwnsSlot, TypeOK
  <2>4. ByCardLive'
    <3> SUFFICES ASSUME NEW c \in Cards, byCard'[c] # None
                 PROVE  /\ sess'[byCard'[c]].phase = "live"
                        /\ sess'[byCard'[c]].card = c
      BY DEF ByCardLive
    <3>1. byCard'[c] = byCard[c] /\ byCard[c] \in Sessions
      BY <1>10, <1>t DEF EndSession, TypeOK
    <3>2. sess[byCard[c]].phase = "live" /\ sess[byCard[c]].card = c
      BY <3>1, <1>t DEF ByCardLive
    <3>3. byCard[c] # s
      BY <3>1, <3>2, <1>10, <1>t DEF EndSession, TypeOK
    <3> QED
      BY <2>2, <3>1, <3>2, <3>3, <1>t DEF TypeOK
  <2> QED
    BY <2>3, <2>4
<1>11. CASE Restart
  BY <1>11, <1>s DEF Restart, DrainOwnsSlot, ByCardLive, IdleStart
<1>12. ASSUME NEW s \in Sessions, BeginTurn(s)
       PROVE  DrainOwnsSlot' /\ ByCardLive'
  <2>1. byCard \in [Cards -> Sessions \cup {None}]
    BY <1>t DEF TypeOK
  <2> QED
    BY <1>12, <1>t, <2>1, OnlyTurnBegins DEF DrainOwnsSlot, ByCardLive
<1> QED
  <2>1. ASSUME NEW c \in Cards, NEW k \in Columns \cup {Elsewhere}, MoveCard(c, k)
        PROVE  UNCHANGED <<sess, byCard, start>>
    BY <2>1 DEF MoveCard, history
  <2>2. ASSUME NEW c \in Cards, NEW w \in Whos, Assign(c, w)
        PROVE  UNCHANGED <<sess, byCard, start>>
    BY <2>2 DEF Assign, history
  <2>3. ASSUME NEW m \in claims, ExpireClaim(m)
        PROVE  UNCHANGED <<sess, byCard, start>>
    BY <2>3 DEF ExpireClaim
  <2>4. ASSUME NEW p \in Starters, StartStep(p)
        PROVE  DrainOwnsSlot' /\ ByCardLive'
    BY <2>4, <1>4, <1>5, <1>6 DEF StartStep
  <2>5. CASE UNCHANGED vars
    BY <2>5, <1>1 DEF vars
  <2>6. CASE DropEvent
    BY <2>6, <1>1 DEF DropEvent
  <2> QED
    BY <1>1, <1>2, <1>3, <1>7, <1>8, <1>9, <1>10, <1>11, <1>12, <1>s,
       <2>1, <2>2, <2>3, <2>4, <2>5, <2>6
    DEF Next, PeopleAct, LoopStep, DrainStep

LEMMA ByCardInvariant == Spec => []ByCardInv
<1>1. Init => ByCardInv
  BY InitTypeOK
  DEF Init, ByCardInv, DrainOwnsSlot, ByCardLive, Starters, IdleStart
<1>2. ByCardInv /\ [Next]_vars => ByCardInv'
  BY NextTypeOK, NextByCard DEF ByCardInv
<1> QED
  BY <1>1, <1>2, PTL DEF Spec

\* A card's own session, the one a drag or the cancel button ends, is live and
\* works that very card (ByCardLive): releaseSession takes back the entry it
\* owns, and a slot is reused only after that.
THEOREM ByCardCorrect == Spec => []ByCardLive
  BY ByCardInvariant, PTL DEF ByCardInv

-----------------------------------------------------------------------------
(* A column's limit                                                        *)

\* The sessions at work in a column and the starts that have passed its limit
\* fit into it together, unless two starts have overlapped there.
RoomKept(k) ==
  MaxRunning[k] > 0 /\ k \notin raced =>
    Cardinality(Running(k)) + Cardinality(Admitted(k)) <= MaxRunning[k]

WipInv == ByCardInv /\ \A k \in Columns : RoomKept(k)

LEMMA CountsAreFinite ==
  ASSUME NEW k
  PROVE  /\ IsFiniteSet(Running(k)) /\ Cardinality(Running(k)) \in Nat
         /\ IsFiniteSet(Admitted(k)) /\ Cardinality(Admitted(k)) \in Nat
<1>1. IsFiniteSet(Sessions) /\ IsFiniteSet(Starters)
  BY StageQueueAssumption, FS_AddElement DEF Starters
<1>2. Running(k) \subseteq Sessions /\ Admitted(k) \subseteq Starters
  BY DEF Running, Admitted
<1> QED
  BY <1>1, <1>2, FS_Subset, FS_CardinalityType

\* A column that only loses sessions and starts keeps its room.
LEMMA FewerKeepsRoom ==
  ASSUME NEW k \in Columns, RoomKept(k), raced \subseteq raced',
         Running(k)' \subseteq Running(k), Admitted(k)' \subseteq Admitted(k)
  PROVE  RoomKept(k)'
<1>1. /\ IsFiniteSet(Running(k)) /\ Cardinality(Running(k)) \in Nat
      /\ IsFiniteSet(Admitted(k)) /\ Cardinality(Admitted(k)) \in Nat
  BY CountsAreFinite
<1>2. /\ Cardinality(Running(k)') <= Cardinality(Running(k))
      /\ Cardinality(Running(k)') \in Nat
  BY <1>1, FS_Subset, FS_CardinalityType
<1>3. /\ Cardinality(Admitted(k)') <= Cardinality(Admitted(k))
      /\ Cardinality(Admitted(k)') \in Nat
  BY <1>1, FS_Subset, FS_CardinalityType
<1>4. MaxRunning[k] \in Nat
  BY StageQueueAssumption
<1> QED
  BY <1>1, <1>2, <1>3, <1>4 DEF RoomKept

\* A start enters a column that has room and no other start in it.
LEMMA PassLimitKeepsRoom ==
  ASSUME WipInv, NEW p \in Starters, PassLimit(p), NEW k \in Columns
  PROVE  RoomKept(k)'
<1>t. TypeOK /\ RoomKept(k)
  BY DEF WipInv, ByCardInv
<1>1. /\ start[p].pc = "limit"
      /\ start' = [start EXCEPT ![p].pc = "commit"]
      /\ UNCHANGED sess
      /\ raced \subseteq raced'
  BY DEF PassLimit
<1>2. Running(k)' = Running(k)
  BY <1>1 DEF Running
<1>3. ASSUME NEW q \in Starters
      PROVE  /\ start'[q].column = start[q].column
             /\ q # p => start'[q].pc = start[q].pc
  BY <1>1, <1>t DEF TypeOK, Start
<1>a. ASSUME NEW q \in Admitted(k)'
      PROVE  /\ q \in Starters /\ start[q].column = k
             /\ q # p => q \in Admitted(k)
  <2>1. q \in Starters /\ start'[q].pc = "commit" /\ start'[q].column = k
    BY <1>a DEF Admitted
  <2>2. start[q].column = k /\ (q # p => start[q].pc = "commit")
    BY <1>3, <2>1
  <2> QED
    BY <2>1, <2>2 DEF Admitted
<1>4. CASE start[p].column # k
  <2>1. Admitted(k)' \subseteq Admitted(k)
    BY <1>a, <1>4
  <2> QED
    BY <1>1, <1>2, <1>t, <2>1, FewerKeepsRoom
<1>5. CASE start[p].column = k /\ Admitted(k) # {}
  BY <1>5 DEF PassLimit, RoomKept
<1>6. CASE start[p].column = k /\ Admitted(k) = {}
  <2>1. Admitted(k)' \subseteq {p}
    BY <1>a, <1>6
  <2>2. Cardinality(Admitted(k)') <= 1 /\ Cardinality(Admitted(k)') \in Nat
    <3>1. IsFiniteSet({p}) /\ Cardinality({p}) = 1
      BY FS_Singleton
    <3>2. /\ IsFiniteSet(Admitted(k)')
          /\ Cardinality(Admitted(k)') <= Cardinality({p})
      BY <2>1, <3>1, FS_Subset
    <3> QED
      BY <3>1, <3>2, FS_CardinalityType
  <2>3. MaxRunning[k] > 0 => Cardinality(Running(k)) < MaxRunning[k]
    BY <1>6, StageQueueAssumption DEF PassLimit, HasRoom
  <2>4. MaxRunning[k] \in Nat /\ Cardinality(Running(k)) \in Nat
    BY StageQueueAssumption, CountsAreFinite
  <2> QED
    BY <1>2, <2>2, <2>3, <2>4 DEF RoomKept
<1> QED
  BY <1>4, <1>5, <1>6

\* A start that becomes a session takes the room it was let in for.
LEMMA CommitKeepsRoom ==
  ASSUME WipInv, NEW p \in Starters, NEW s \in Sessions, Commit(p, s),
         NEW k \in Columns
  PROVE  RoomKept(k)'
<1>t. TypeOK /\ RoomKept(k)
  BY DEF WipInv, ByCardInv
<1>1. /\ start[p].pc = "commit"
      /\ sess[s].phase = "free"
      /\ sess' = [sess EXCEPT ![s] =
                    [phase |-> "live", card |-> start[p].card,
                     column |-> start[p].column, agent |-> start[p].agent,
                     turn |-> FALSE, cancelled |-> FALSE]]
      /\ UNCHANGED raced
  BY DEF Commit, history
<1>2. /\ \A q \in Starters : q # p => start'[q] = start[q]
      /\ start'[p].pc # "commit"
  BY <1>t DEF Commit, Goto, TypeOK, IdleStart
<1>3. Admitted(k)' = Admitted(k) \ {p}
  BY <1>2 DEF Admitted
<1>4. s \notin Running(k)
  BY <1>1 DEF Running
<1>5. CASE start[p].column # k
  <2>1. Running(k)' \subseteq Running(k)
    BY <1>1, <1>5, <1>t DEF Running, TypeOK
  <2> QED
    BY <1>1, <1>3, <1>t, <2>1, FewerKeepsRoom
<1>6. CASE start[p].column = k
  <2>1. Running(k)' = Running(k) \cup {s}
    BY <1>1, <1>6, <1>t DEF Running, TypeOK
  <2>2. p \in Admitted(k)
    BY <1>1, <1>6 DEF Admitted
  <2>3. /\ IsFiniteSet(Running(k)) /\ Cardinality(Running(k)) \in Nat
        /\ IsFiniteSet(Admitted(k)) /\ Cardinality(Admitted(k)) \in Nat
    BY CountsAreFinite
  <2>4. Cardinality(Running(k)') = Cardinality(Running(k)) + 1
    BY <1>4, <2>1, <2>3, FS_AddElement
  <2>5. Cardinality(Admitted(k)') = Cardinality(Admitted(k)) - 1
    BY <1>3, <2>2, <2>3, FS_RemoveElement
  <2> QED
    BY <1>1, <1>t, <2>3, <2>4, <2>5, StageQueueAssumption DEF RoomKept
<1> QED
  BY <1>5, <1>6

\* Returning only empties a slot and ends a call.
LEMMA ReturnShrinks ==
  ASSUME TypeOK, NEW p \in Starters, Return(p), NEW k
  PROVE  Running(k)' \subseteq Running(k) /\ Admitted(k)' \subseteq Admitted(k)
  BY DEF TypeOK, Return, Running, Admitted, IdleStart, FreeSession

\* Every step but the two above takes no room in any column.
LEMMA OthersShrink ==
  ASSUME ByCardInv, [Next]_vars, NEW k \in Columns,
         \A p \in Starters : ~PassLimit(p) /\ \A s \in Sessions : ~Commit(p, s)
  PROVE  /\ Running(k)' \subseteq Running(k)
         /\ Admitted(k)' \subseteq Admitted(k)
         /\ raced \subseteq raced'
<1> DEFINE Shrinks == /\ Running(k)' \subseteq Running(k)
                      /\ Admitted(k)' \subseteq Admitted(k)
                      /\ raced \subseteq raced'
<1>t. TypeOK
  BY DEF ByCardInv
<1>s. Loop \in Starters /\ Sessions \subseteq Starters
  BY DEF Starters
<1>1. CASE UNCHANGED <<sess, start, raced>>
  BY <1>1 DEF Running, Admitted
<1>2. ASSUME NEW c \in Cards, sess' = Cancelled(c), UNCHANGED <<start, raced>>
      PROVE  Shrinks
  BY <1>2, <1>t, CancelledTypeOK DEF Running, Admitted
<1>3. CASE HandleEvent
  <2>1. PICK e \in Event :
          /\ e.card \in Cards
          /\ HandleEnter(e) \/ SuppressDuplicate(e) \/ HandleLeave(e)
          /\ UNCHANGED <<byCard, raced>>
    BY <1>3, <1>t, HandleEventTypeOK
  <2>2. CASE HandleEnter(e)
    <3>1. UNCHANGED sess
      BY <2>2 DEF HandleEnter
    <3>2. \A q \in Starters : start'[q].pc = "commit" => start'[q] = start[q]
      BY <2>2, <1>t DEF HandleEnter, TypeOK
    <3> QED
      BY <2>1, <3>1, <3>2 DEF Running, Admitted
  <2>3. CASE SuppressDuplicate(e)
    BY <2>1, <2>3, <1>1 DEF SuppressDuplicate
  <2>4. CASE HandleLeave(e)
    BY <2>1, <2>4, <1>2 DEF HandleLeave
  <2> QED
    BY <2>1, <2>2, <2>3, <2>4
<1>4. ASSUME NEW p \in Starters, StartStep(p)
      PROVE  Shrinks
  <2>1. CASE Refuse(p) \/ TakeAssignee(p) \/ TakeFree(p) \/ TakeOnlyAgent(p)
    <3>1. UNCHANGED <<sess, raced>>
      BY <2>1 DEF Refuse, TakeAssignee, TakeFree, TakeOnlyAgent, history
    <3>2. \A q \in Starters : start'[q].pc = "commit" => start'[q] = start[q]
      BY <2>1, <1>t
      DEF Refuse, TakeAssignee, TakeFree, TakeOnlyAgent, Goto, Taken, TypeOK
    <3> QED
      BY <3>1, <3>2 DEF Running, Admitted
  <2>2. CASE CrewBusy(p) \/ LimitReached(p)
    <3>1. Busy(p) /\ UNCHANGED raced
      BY <2>2 DEF CrewBusy, LimitReached, history
    <3>2. CASE p = Loop
      <4>1. UNCHANGED sess
        BY <3>1, <3>2 DEF Busy
      <4>2. \A q \in Starters : start'[q].pc = "commit" => start'[q] = start[q]
        BY <3>1, <3>2, <1>t DEF Busy, Goto, TypeOK
      <4> QED
        BY <3>1, <4>1, <4>2 DEF Running, Admitted
    <3>3. CASE p # Loop
      BY <3>1, <3>3, <1>t, ReturnShrinks DEF Busy
    <3> QED
      BY <3>2, <3>3
  <2> QED
    BY <1>4, <2>1, <2>2 DEF StartStep
<1>5. CASE Park \/ LoopRefused
  BY <1>5, <1>s, <1>t, ReturnShrinks DEF Park, LoopRefused, bounds, history
<1>6. ASSUME NEW s \in Sessions, DrainStep(s)
      PROVE  Shrinks
  <2>1. CASE DrainReads(s)
    <3>1. UNCHANGED <<sess, raced>>
      BY <2>1 DEF DrainReads, history
    <3>2. \A q \in Starters : start'[q].pc = "commit" => start'[q] = start[q]
      BY <2>1, <1>s, <1>t DEF DrainReads, TypeOK
    <3> QED
      BY <3>1, <3>2 DEF Running, Admitted
  <2>2. CASE DrainNothing(s) \/ DrainRefused(s) \/ DrainStarted(s)
    BY <2>2, <1>s, <1>t, ReturnShrinks
    DEF DrainNothing, DrainRefused, DrainStarted, history
  <2> QED
    BY <1>4, <1>6, <1>s, <2>1, <2>2 DEF DrainStep
<1>7. ASSUME NEW s \in Sessions, EndSession(s)
      PROVE  Shrinks
  <2>1. UNCHANGED <<start, raced>>
    BY <1>7 DEF EndSession, history
  <2>2. \A t \in Sessions : t # s => sess'[t] = sess[t]
    BY <1>7, <1>t DEF EndSession, TypeOK
  <2>3. sess[s].phase = "live" /\ sess'[s].phase = "released"
    BY <1>7, <1>t DEF EndSession, TypeOK, FreeSession
  <2> QED
    BY <2>1, <2>2, <2>3 DEF Running, Admitted
<1>8. CASE Restart
  BY <1>8 DEF Restart, Running, Admitted, FreeSession, IdleStart, history
<1>9. ASSUME NEW s \in Sessions, BeginTurn(s)
      PROVE  Shrinks
  BY <1>9, <1>t, OnlyTurnBegins DEF Running, Admitted, history
<1> QED
  <2>1. ASSUME NEW c \in Cards, NEW m \in Columns \cup {Elsewhere}, MoveCard(c, m)
        PROVE  UNCHANGED <<sess, start, raced>>
    BY <2>1 DEF MoveCard, history
  <2>2. ASSUME NEW c \in Cards, NEW w \in Whos, Assign(c, w)
        PROVE  UNCHANGED <<sess, start, raced>>
    BY <2>2 DEF Assign, history
  <2>3. ASSUME NEW m \in claims, ExpireClaim(m)
        PROVE  UNCHANGED <<sess, start, raced>>
    BY <2>3 DEF ExpireClaim, history
  <2>4. ASSUME NEW c \in Cards, CancelSession(c)
        PROVE  Shrinks
    BY <2>4, <1>2 DEF CancelSession, history
  <2>5. CASE UNCHANGED vars
    BY <2>5, <1>1 DEF vars
  <2>6. CASE DropEvent
    BY <2>6, <1>1 DEF DropEvent
  <2> QED
    BY <1>1, <1>3, <1>4, <1>5, <1>6, <1>7, <1>8, <1>9, <1>s,
       <2>1, <2>2, <2>3, <2>4, <2>5, <2>6
    DEF Next, PeopleAct, LoopStep

LEMMA WipInvariant == Spec => []WipInv
<1>1. Init => WipInv
  <2> SUFFICES ASSUME Init PROVE WipInv
    OBVIOUS
  <2>1. ByCardInv
    BY InitTypeOK
    DEF Init, ByCardInv, DrainOwnsSlot, ByCardLive, Starters, IdleStart
  <2>2. ASSUME NEW k \in Columns PROVE RoomKept(k)
    <3>1. Running(k) = {} /\ Admitted(k) = {}
      BY DEF Init, Running, Admitted, FreeSession, IdleStart
    <3> QED
      BY <3>1, FS_EmptySet, StageQueueAssumption DEF RoomKept
  <2> QED
    BY <2>1, <2>2 DEF WipInv
<1>2. WipInv /\ [Next]_vars => WipInv'
  <2> SUFFICES ASSUME WipInv, [Next]_vars PROVE WipInv'
    OBVIOUS
  <2>1. ByCardInv'
    BY NextTypeOK, NextByCard DEF WipInv, ByCardInv
  <2>2. ASSUME NEW k \in Columns PROVE RoomKept(k)'
    BY PassLimitKeepsRoom, CommitKeepsRoom, OthersShrink, FewerKeepsRoom
    DEF WipInv
  <2> QED
    BY <2>1, <2>2 DEF WipInv
<1> QED
  BY <1>1, <1>2, PTL DEF Spec

\* A column holds more sessions than its limit only where two starts have been
\* between the check in startSession and Manager.active at once
\* (WipUnlessRaced): no other way into a stage gets past the number.
THEOREM WipCorrect == Spec => []WipUnlessRaced
<1>1. WipInv => WipUnlessRaced
  <2> SUFFICES ASSUME WipInv, NEW k \in Columns, MaxRunning[k] > 0, k \notin raced
               PROVE  Cardinality(Running(k)) <= MaxRunning[k]
    BY DEF WipUnlessRaced
  <2>1. Cardinality(Running(k)) + Cardinality(Admitted(k)) <= MaxRunning[k]
    BY DEF WipInv, RoomKept
  <2> QED
    BY <2>1, CountsAreFinite, StageQueueAssumption
<1> QED
  BY <1>1, WipInvariant, PTL

-----------------------------------------------------------------------------
(* The queue                                                               *)

LEMMA DequeueKeepsTurns ==
  ASSUME TypeOK, NEW d \in Cards, Dequeue(d),
         NEW c \in Cards, Queued(c), Queued(c)'
  PROVE  row'[c] = row[c]
<1>1. NoRow.column = None
  BY DEF NoRow
<1>2. CASE row' = [row EXCEPT ![d] = NoRow]
  BY <1>1, <1>2 DEF TypeOK, Queued
<1>3. CASE UNCHANGED row
  BY <1>3
<1> QED
  BY <1>2, <1>3 DEF Dequeue

\* A card that waits keeps its turn and its column (TurnKept): EnqueueStage
\* never touches a row that is there, and everything else only deletes rows.
THEOREM TurnIsKept == Spec => TurnKept
<1> DEFINE Kept == \A c \in Cards : Queued(c) /\ Queued(c)' => row'[c] = row[c]
<1>1. TypeOK /\ [Next]_vars => [Kept]_row
  <2> SUFFICES ASSUME TypeOK, [Next]_vars, row' # row,
                      NEW c \in Cards, Queued(c), Queued(c)'
               PROVE  row'[c] = row[c]
    OBVIOUS
  <2>1. CASE HandleEvent
    <3>1. PICK e \in Event :
            /\ e.card \in Cards
            /\ HandleEnter(e) \/ SuppressDuplicate(e) \/ HandleLeave(e)
      BY <2>1, HandleEventTypeOK
    <3>2. HandleLeave(e)
      BY <3>1 DEF HandleEnter, SuppressDuplicate
    <3> QED
      BY <3>1, <3>2, DequeueKeepsTurns DEF HandleLeave
  <2>2. CASE Park
    <3>1. start[Loop].card \in Cards
      BY <2>2 DEF Park, TypeOK, Starters
    <3>2. PICK t : row' = Enqueued(start[Loop].card, start[Loop].column, t)
      BY <2>2 DEF Park
    <3> QED
      BY <3>1, <3>2 DEF Enqueued, TypeOK
  <2>3. ASSUME NEW s \in Sessions, DrainRefused(s) \/ DrainStarted(s)
        PROVE  row'[c] = row[c]
    <3>1. start[s].card \in Cards
      BY <2>3 DEF DrainRefused, DrainStarted, TypeOK, Starters
    <3> QED
      BY <2>3, <3>1, DequeueKeepsTurns DEF DrainRefused, DrainStarted
  <2>4. ASSUME NEW p \in Starters, StartStep(p)
        PROVE  FALSE
    BY <2>4 DEF StartStep, Refuse, TakeAssignee, TakeFree, TakeOnlyAgent,
                CrewBusy, PassLimit, LimitReached, Commit
  <2>5. CASE LoopRefused
    BY <2>5 DEF LoopRefused
  <2>6. ASSUME NEW s \in Sessions,
               DrainReads(s) \/ DrainNothing(s) \/ BeginTurn(s) \/ EndSession(s)
        PROVE  FALSE
    BY <2>6 DEF DrainReads, DrainNothing, BeginTurn, EndSession
  <2>7. CASE PeopleAct
    BY <2>7 DEF PeopleAct, MoveCard, Assign, CancelSession
  <2>8. CASE \E m \in claims : ExpireClaim(m)
    BY <2>8 DEF ExpireClaim
  <2>9. CASE Restart
    BY <2>9 DEF Restart
  <2>10. CASE DropEvent
    BY <2>10 DEF DropEvent
  <2>11. CASE UNCHANGED vars
    BY <2>11 DEF vars
  <2> QED
    BY <2>1, <2>2, <2>3, <2>4, <2>5, <2>6, <2>7, <2>8, <2>9, <2>10, <2>11
    DEF Next, LoopStep, DrainStep, Starters
<1> QED
  BY <1>1, TypeCorrect, PTL DEF Spec, TurnKept

-----------------------------------------------------------------------------
(* A board where nothing waits                                             *)

\* No column has a crew or a limit, so startSession never answers errStageBusy.
NothingWaits == \A k \in Columns : Crew[k] = {} /\ MaxRunning[k] = 0

\* Then the trigger loop alone starts sessions, and only for a card that has
\* none; a live session is always its card's own.
LoopAlone ==
  /\ \A c \in Cards : ~Queued(c)
  /\ \A s \in Sessions : start[s].pc = "idle"
  /\ start[Loop].pc \in {"idle", "agent", "limit", "commit", "refused"}
  /\ start[Loop].pc # "idle" => byCard[start[Loop].card] = None
  /\ \A s \in Sessions : sess[s].phase = "live" => byCard[sess[s].card] = s

LEMMA NextLoopAlone ==
  ASSUME NothingWaits, ByCardInv, LoopAlone, [Next]_vars
  PROVE  LoopAlone'
<1>t. TypeOK /\ ByCardLive
  BY DEF ByCardInv
<1>s. Loop \in Starters /\ Sessions \subseteq Starters /\ Loop \notin Sessions
  BY StageQueueAssumption DEF Starters
<1>1. CASE UNCHANGED <<row, sess, byCard, start>>
  BY <1>1 DEF LoopAlone, Queued
<1>2. ASSUME NEW c \in Cards, sess' = Cancelled(c),
             UNCHANGED <<byCard, start>>, \A d \in Cards : ~Queued(d)'
      PROVE  LoopAlone'
  <2>1. ASSUME NEW s \in Sessions
        PROVE  sess'[s].phase = sess[s].phase /\ sess'[s].card = sess[s].card
    BY <1>2, <1>t, CancelledTypeOK
  <2> QED
    BY <1>2, <2>1 DEF LoopAlone
<1>3. CASE HandleEvent
  <2>1. PICK e \in Event :
          /\ e.card \in Cards
          /\ HandleEnter(e) \/ SuppressDuplicate(e) \/ HandleLeave(e)
          /\ UNCHANGED <<byCard, raced>>
    BY <1>3, <1>t, HandleEventTypeOK
  <2>2. CASE HandleEnter(e)
    <3>1. UNCHANGED <<row, sess, byCard>>
      BY <2>1, <2>2 DEF HandleEnter
    <3>2. CASE UNCHANGED start
      BY <3>1, <3>2, <1>1
    <3> DEFINE r == [pc |-> "agent", card |-> e.card, column |-> e.to,
                     who |-> e.who, agent |-> None]
    <3>3. CASE byCard[e.card] = None /\ start' = [start EXCEPT ![Loop] = r]
      <4>1. r.pc = "agent" /\ r.card = e.card
        OBVIOUS
      <4> HIDE DEF r
      <4>2. start'[Loop] = r /\ \A s \in Sessions : start'[s] = start[s]
        BY <3>3, <1>s, <1>t DEF TypeOK
      <4> QED
        BY <3>1, <3>3, <4>1, <4>2 DEF LoopAlone, Queued
    <3> QED
      BY <2>2, <3>2, <3>3 DEF HandleEnter
  <2>3. CASE SuppressDuplicate(e)
    BY <2>1, <2>3, <1>1 DEF SuppressDuplicate
  <2>4. CASE HandleLeave(e)
    <3>r. row \in [Cards -> Row]
      BY <1>t DEF TypeOK
    <3>1. \A d \in Cards : ~Queued(d)'
      BY <2>1, <2>4, <3>r
      DEF HandleLeave, Dequeue, Queued, LoopAlone, NoRow
    <3> QED
      BY <2>1, <2>4, <3>1, <1>2 DEF HandleLeave
  <2> QED
    BY <2>1, <2>2, <2>3, <2>4
<1>4. ASSUME NEW p \in Starters, StartStep(p)
      PROVE  LoopAlone'
  <2>1. p = Loop /\ start[Loop].column \in Columns
    BY <1>4, <1>t
    DEF LoopAlone, TypeOK, Starters, StartStep, Refuse, TakeAssignee, TakeFree,
        TakeOnlyAgent, CrewBusy, PassLimit, LimitReached, Commit
  <2>2. ~CrewBusy(p) /\ ~LimitReached(p)
    BY <2>1 DEF NothingWaits, CrewBusy, LimitReached, HasRoom
  <2>3. CASE Refuse(p) \/ TakeAssignee(p) \/ TakeFree(p) \/ TakeOnlyAgent(p)
             \/ PassLimit(p)
    <3>1. /\ UNCHANGED <<row, sess, byCard>>
          /\ start[Loop].pc # "idle"
      BY <2>1, <2>3 DEF Refuse, TakeAssignee, TakeFree, TakeOnlyAgent, PassLimit
    <3>2. /\ start'[Loop].pc \in {"limit", "commit", "refused"}
          /\ start'[Loop].card = start[Loop].card
      BY <2>1, <2>3, <1>s, <1>t
      DEF Refuse, TakeAssignee, TakeFree, TakeOnlyAgent, PassLimit, Goto, Taken,
          TypeOK, Start
    <3>3. \A s \in Sessions : start'[s] = start[s]
      BY <2>1, <2>3, <1>s, <1>t
      DEF Refuse, TakeAssignee, TakeFree, TakeOnlyAgent, PassLimit, Goto, Taken,
          TypeOK
    <3> QED
      BY <3>1, <3>2, <3>3 DEF LoopAlone, Queued
  <2>4. ASSUME NEW s \in Sessions, Commit(p, s)
        PROVE  LoopAlone'
    <3>1. /\ start[Loop].pc = "commit"
          /\ UNCHANGED row
          /\ start' = [start EXCEPT ![Loop] = IdleStart]
          /\ sess' = [sess EXCEPT ![s] =
                        [phase |-> "live", card |-> start[Loop].card,
                         column |-> start[Loop].column,
                         agent |-> start[Loop].agent,
                         turn |-> FALSE, cancelled |-> FALSE]]
          /\ byCard' = [byCard EXCEPT ![start[Loop].card] = s]
      BY <2>1, <2>4 DEF Commit
    <3>2. start[Loop].card \in Cards /\ byCard[start[Loop].card] = None
      BY <3>1, <1>s, <1>t DEF LoopAlone, TypeOK
    <3>3. ASSUME NEW t \in Sessions, sess'[t].phase = "live"
          PROVE  byCard'[sess'[t].card] = t
      <4>1. CASE t = s
        BY <3>1, <3>2, <4>1, <1>t DEF TypeOK
      <4>2. CASE t # s
        <5>1. sess'[t] = sess[t] /\ sess[t].phase = "live"
          BY <3>1, <3>3, <4>2, <1>t DEF TypeOK
        <5>2. byCard[sess[t].card] = t /\ sess[t].card \in Cards
          BY <5>1, <1>t DEF LoopAlone, TypeOK
        <5>3. sess[t].card # start[Loop].card
          BY <3>2, <5>2, StageQueueAssumption
        <5> QED
          BY <3>1, <5>1, <5>2, <5>3, <1>t DEF TypeOK
      <4> QED
        BY <4>1, <4>2
    <3>4. start'[Loop].pc = "idle" /\ \A q \in Sessions : start'[q] = start[q]
      BY <3>1, <1>s, <1>t DEF TypeOK, IdleStart
    <3> QED
      BY <3>1, <3>3, <3>4 DEF LoopAlone, Queued
  <2> QED
    BY <1>4, <2>2, <2>3, <2>4 DEF StartStep
<1>5. ASSUME NEW p \in Starters, Return(p), UNCHANGED <<row, byCard>>,
             p \in Sessions => sess[p].phase = "released"
      PROVE  LoopAlone'
  <2>1. start'[p].pc = "idle" /\ \A q \in Starters : q # p => start'[q] = start[q]
    BY <1>5, <1>t DEF Return, TypeOK, IdleStart
  <2>2. ASSUME NEW s \in Sessions, sess'[s].phase = "live"
        PROVE  sess'[s] = sess[s]
    BY <1>5, <2>2, <1>t DEF Return, TypeOK, FreeSession
  <2> QED
    BY <1>5, <2>1, <2>2, <1>s DEF LoopAlone, Queued
<1>6. CASE Park \/ LoopRefused
  BY <1>5, <1>6, <1>s DEF Park, LoopRefused, LoopAlone
<1>7. ASSUME NEW s \in Sessions, DrainStep(s)
      PROVE  LoopAlone'
  <2>1. ~DrainReads(s) /\ ~DrainRefused(s) /\ ~DrainStarted(s)
    <3>1. NextQueued(sess[s].column) = {} \/ sess[s].phase = "free"
      BY <1>t, StageQueueAssumption DEF LoopAlone, NextQueued, Queued, TypeOK
    <3> QED
      BY <3>1 DEF DrainReads, DrainRefused, DrainStarted, LoopAlone
  <2>2. CASE DrainNothing(s)
    BY <2>2, <1>5, <1>s DEF DrainNothing
  <2> QED
    BY <1>4, <1>7, <1>s, <2>1, <2>2 DEF DrainStep
<1>8. ASSUME NEW s \in Sessions, EndSession(s)
      PROVE  LoopAlone'
  <2> DEFINE c == sess[s].card
  <2>1. c \in Cards /\ byCard[c] = s
    BY <1>8, <1>t DEF EndSession, LoopAlone, TypeOK
  <2>2. UNCHANGED <<row, start>> /\ byCard' = [byCard EXCEPT ![c] = None]
    BY <1>8, <2>1 DEF EndSession
  <2>3. ASSUME NEW t \in Sessions, sess'[t].phase = "live"
        PROVE  byCard'[sess'[t].card] = t
    <3>1. t # s
      BY <1>8, <2>3, <1>t DEF EndSession, TypeOK, FreeSession
    <3>2. sess'[t] = sess[t]
      BY <1>8, <3>1, <1>t DEF EndSession, TypeOK
    <3>3. byCard[sess[t].card] = t /\ sess[t].card \in Cards
      BY <2>3, <3>2, <1>t DEF LoopAlone, TypeOK
    <3> QED
      BY <2>1, <2>2, <3>1, <3>2, <3>3, <1>t DEF TypeOK
  <2>4. start[Loop].pc # "idle" => byCard'[start[Loop].card] = None
    BY <2>1, <2>2, <1>s, <1>t DEF LoopAlone, TypeOK
  <2> QED
    BY <2>2, <2>3, <2>4 DEF LoopAlone, Queued
<1>9. CASE Restart
  BY <1>9, <1>s DEF Restart, LoopAlone, Queued, IdleStart, FreeSession
<1>10. ASSUME NEW s \in Sessions, BeginTurn(s)
       PROVE  LoopAlone'
  BY <1>10, <1>t, OnlyTurnBegins DEF LoopAlone, Queued
<1> QED
  <2>1. ASSUME NEW c \in Cards, NEW k \in Columns \cup {Elsewhere}, MoveCard(c, k)
        PROVE  UNCHANGED <<row, sess, byCard, start>>
    BY <2>1 DEF MoveCard, history
  <2>2. ASSUME NEW c \in Cards, NEW w \in Whos, Assign(c, w)
        PROVE  UNCHANGED <<row, sess, byCard, start>>
    BY <2>2 DEF Assign, history
  <2>3. ASSUME NEW m \in claims, ExpireClaim(m)
        PROVE  UNCHANGED <<row, sess, byCard, start>>
    BY <2>3 DEF ExpireClaim
  <2>4. ASSUME NEW c \in Cards, CancelSession(c)
        PROVE  LoopAlone'
    BY <2>4, <1>2 DEF CancelSession, LoopAlone, Queued
  <2>5. CASE UNCHANGED vars
    BY <2>5, <1>1 DEF vars
  <2>6. CASE DropEvent
    BY <2>6, <1>1 DEF DropEvent
  <2> QED
    BY <1>1, <1>3, <1>4, <1>6, <1>7, <1>8, <1>9, <1>10, <1>s,
       <2>1, <2>2, <2>3, <2>4, <2>5, <2>6
    DEF Next, PeopleAct, LoopStep

\* Where nothing ever waits, a card is never worked by two sessions at once
\* (OneSessionPerCard): claimMove's look at byCard is enough as long as the
\* trigger loop is the only one to start sessions.
THEOREM OneSessionWithoutQueue ==
  ASSUME NothingWaits
  PROVE  Spec => []OneSessionPerCard
<1>1. Init => LoopAlone
  BY StageQueueAssumption
  DEF Init, LoopAlone, Queued, NoRow, IdleStart, FreeSession, Starters
<1>2. ByCardInv /\ LoopAlone /\ [Next]_vars => LoopAlone'
  BY NextLoopAlone
<1>3. LoopAlone => OneSessionPerCard
  BY DEF LoopAlone, OneSessionPerCard
<1> QED
  BY <1>1, <1>2, <1>3, ByCardInvariant, PTL DEF Spec

-----------------------------------------------------------------------------
(* Leaving a working column                                                *)

\* What is left of a sequence keeps its order.
LEMMA RemoveAtElements ==
  ASSUME NEW S, NEW q \in Seq(S), NEW j \in 1 .. Len(q)
  PROVE  /\ RemoveAt(q, j) \in Seq(S)
         /\ Len(RemoveAt(q, j)) = Len(q) - 1
         /\ \A i \in 1 .. Len(q) - 1 :
              RemoveAt(q, j)[i] = IF i < j THEN q[i] ELSE q[i + 1]
<1> DEFINE a == SubSeq(q, 1, j - 1)
           b == SubSeq(q, j + 1, Len(q))
<1>1. RemoveAt(q, j) = a \o b
  BY DEF RemoveAt
<1>2. Len(q) \in Nat /\ j \in Nat /\ 1 <= j /\ j <= Len(q)
  OBVIOUS
<1>3. /\ a \in Seq(S) /\ Len(a) = j - 1
      /\ \A i \in 1 .. j - 1 : a[i] = q[i]
  <2>1. \A i \in 1 .. j - 1 : q[i] \in S
    BY <1>2
  <2> QED
    BY <1>2, <2>1, SubSeqProperties
<1>4. /\ b \in Seq(S) /\ Len(b) = Len(q) - j
      /\ \A i \in 1 .. Len(q) - j : b[i] = q[j + i]
  <2>1. \A i \in j + 1 .. Len(q) : q[i] \in S
    BY <1>2
  <2>2. /\ b \in Seq(S)
        /\ Len(b) = IF j + 1 <= Len(q) THEN Len(q) - (j + 1) + 1 ELSE 0
        /\ \A i \in 1 .. Len(q) - (j + 1) + 1 : b[i] = q[(j + 1) + i - 1]
    BY <1>2, <2>1, SubSeqProperties
  <2> HIDE DEF b
  <2> QED
    BY <1>2, <2>2
<1> HIDE DEF a, b
<1>5. /\ a \o b \in Seq(S) /\ Len(a \o b) = Len(a) + Len(b)
      /\ \A i \in 1 .. Len(a) + Len(b) :
           (a \o b)[i] = IF i <= Len(a) THEN a[i] ELSE b[i - Len(a)]
  BY <1>3, <1>4, ConcatProperties
<1>6. ASSUME NEW i \in 1 .. Len(q) - 1
      PROVE  (a \o b)[i] = IF i < j THEN q[i] ELSE q[i + 1]
  <2>1. CASE i < j
    BY <1>2, <1>3, <1>4, <1>5, <2>1
  <2>2. CASE ~(i < j)
    <3>1. (a \o b)[i] = b[i - (j - 1)]
      BY <1>2, <1>3, <1>4, <1>5, <2>2
    <3>2. i - (j - 1) \in 1 .. Len(q) - j /\ j + (i - (j - 1)) = i + 1
      BY <1>2, <2>2
    <3> QED
      BY <1>4, <2>2, <3>1, <3>2
  <2> QED
    BY <2>1, <2>2
<1> QED
  BY <1>1, <1>2, <1>3, <1>4, <1>5, <1>6

\* Where a card stood before its i-th move the loop has not handled.
Before(c, i) == IF i <= Len(events[c]) THEN events[c][i].from ELSE board[c]

\* The moves a card has made lead to where it stands, and a card whose moves
\* were all told in their order is worked only while the loop, as far as it has
\* been told, has it in a working column.
MovesLead(c) ==
  \A i \in 1 .. Len(events[c]) : events[c][i].to = Before(c, i + 1)

Worked(c) ==
  \/ \E s \in Sessions :
       sess[s].phase = "live" /\ ~sess[s].cancelled /\ sess[s].card = c
  \/ start[Loop].pc \in {"agent", "limit", "commit"} /\ start[Loop].card = c

WorkedAsTold(c) == Worked(c) => Before(c, 1) \in Columns

MovesInv ==
  /\ \A c \in Cards : \A i \in 1 .. Len(events[c]) : events[c][i].card = c
  /\ \A c \in Cards \ missed : MovesLead(c) /\ WorkedAsTold(c)

\* Nothing is told and nobody starts to work a card.
LEMMA QuietKeepsMoves ==
  ASSUME MovesInv, UNCHANGED <<events, board, missed>>,
         \A c \in Cards : Worked(c)' => Worked(c)
  PROVE  MovesInv'
<1>1. ASSUME NEW c, NEW i PROVE Before(c, i)' = Before(c, i)
  BY DEF Before
<1>2. ASSUME NEW c \in Cards \ missed PROVE (MovesLead(c) /\ WorkedAsTold(c))'
  <2>1. MovesLead(c) /\ WorkedAsTold(c)
    BY DEF MovesInv
  <2>2. MovesLead(c)'
    BY <1>1, <2>1 DEF MovesLead
  <2>3. WorkedAsTold(c)'
    BY <1>1, <2>1 DEF WorkedAsTold
  <2> QED
    BY <2>2, <2>3
<1>3. \A c \in Cards : \A i \in 1 .. Len(events'[c]) : events'[c][i].card = c
  BY DEF MovesInv
<1> QED
  BY <1>2, <1>3 DEF MovesInv

\* A new move is the last of its card, and starts where the card stood.
LEMMA MoveKeepsMoves ==
  ASSUME TypeOK, MovesInv,
         NEW c \in Cards, NEW k \in Columns \cup {Elsewhere}, MoveCard(c, k)
  PROVE  MovesInv'
<1> DEFINE e == [card |-> c, from |-> board[c], to |-> k, who |-> assignee[c]]
           n == Len(events[c])
<1>1. /\ events' = [events EXCEPT ![c] = Append(@, e)]
      /\ board' = [board EXCEPT ![c] = k]
      /\ UNCHANGED <<missed, sess, start>>
  BY DEF MoveCard, history
<1>2. e \in Event /\ e.card = c /\ e.from = board[c] /\ e.to = k
  BY DEF Event, TypeOK
<1> HIDE DEF e
<1>3. events \in [Cards -> Seq(Event)] /\ events[c] \in Seq(Event) /\ n \in Nat
      /\ board \in [Cards -> Columns \cup {Elsewhere}]
  BY DEF TypeOK
<1>4. /\ events'[c] = Append(events[c], e) /\ board'[c] = k
      /\ \A d \in Cards : d # c => events'[d] = events[d] /\ board'[d] = board[d]
  BY <1>1, <1>3
<1>5. /\ Len(events'[c]) = n + 1
      /\ \A i \in 1 .. n : events'[c][i] = events[c][i]
      /\ events'[c][n + 1] = e
  BY <1>2, <1>3, <1>4, AppendProperties
<1>6. ASSUME NEW i \in 1 .. n + 1 PROVE Before(c, i)' = Before(c, i)
  BY <1>2, <1>3, <1>5, <1>4 DEF Before
<1>7. ASSUME NEW i \in Nat, i = n + 2 PROVE Before(c, i)' = k
  BY <1>3, <1>4, <1>5, <1>7 DEF Before
<1>8. ASSUME NEW d \in Cards, d # c, NEW i PROVE Before(d, i)' = Before(d, i)
  BY <1>4, <1>8 DEF Before
<1>9. ASSUME NEW d \in Cards PROVE Worked(d)' = Worked(d)
  BY <1>1 DEF Worked
<1>10. ASSUME NEW d \in Cards, NEW i \in 1 .. Len(events'[d])
       PROVE  events'[d][i].card = d
  <2>1. CASE d # c
    BY <1>4, <2>1 DEF MovesInv
  <2>2. CASE d = c /\ i \in 1 .. n
    BY <1>5, <2>2 DEF MovesInv
  <2>3. CASE d = c /\ i = n + 1
    BY <1>2, <1>5, <2>3
  <2> QED
    BY <1>3, <1>5, <2>1, <2>2, <2>3
<1>11. ASSUME NEW d \in Cards \ missed PROVE (MovesLead(d) /\ WorkedAsTold(d))'
  <2>1. MovesLead(d) /\ WorkedAsTold(d)
    BY DEF MovesInv
  <2>2. Before(d, 1)' = Before(d, 1)
    BY <1>3, <1>6, <1>8
  <2>3. WorkedAsTold(d)'
    BY <1>9, <2>1, <2>2 DEF WorkedAsTold
  <2>4. CASE d # c
    BY <1>4, <1>8, <2>1, <2>3, <2>4 DEF MovesLead
  <2>5. CASE d = c
    <3>1. ASSUME NEW i \in 1 .. n PROVE events'[c][i].to = Before(c, i + 1)'
      <4>1. events[c][i].to = Before(c, i + 1)
        BY <2>1, <2>5 DEF MovesLead
      <4> QED
        BY <1>3, <1>5, <1>6, <4>1
    <3>2. ASSUME NEW i \in 1 .. n + 1
          PROVE  events'[c][i].to = Before(c, i + 1)'
      <4>1. CASE i \in 1 .. n
        BY <3>1, <4>1
      <4>2. CASE i = n + 1
        BY <1>2, <1>3, <1>5, <1>7, <4>2
      <4> QED
        BY <1>3, <4>1, <4>2
    <3> QED
      BY <1>5, <2>3, <2>5, <3>2 DEF MovesLead
  <2> QED
    BY <2>4, <2>5
<1> QED
  BY <1>1, <1>10, <1>11 DEF MovesInv

\* The loop's being told one of a card's moves, or a move's being lost.
LEMMA TakenMove ==
  ASSUME TypeOK, MovesInv, NEW c \in Cards, NEW i \in 1 .. Len(events[c]),
         events' = Without(c, i), UNCHANGED board
  PROVE  /\ \A d \in Cards : \A j \in 1 .. Len(events'[d]) : events'[d][j].card = d
         /\ \A d \in Cards \ {c} : events'[d] = events[d]
         /\ c \notin missed /\ i = 1 =>
              /\ MovesLead(c)'
              /\ Before(c, 1)' = events[c][1].to
<1> DEFINE q == events[c]
           n == Len(q)
<1>1. events \in [Cards -> Seq(Event)] /\ q \in Seq(Event) /\ n \in Nat
  BY DEF TypeOK
<1>2. /\ events'[c] = RemoveAt(q, i)
      /\ \A d \in Cards \ {c} : events'[d] = events[d]
  BY <1>1 DEF Without
<1>3. /\ Len(events'[c]) = n - 1
      /\ \A j \in 1 .. n - 1 :
           events'[c][j] = IF j < i THEN q[j] ELSE q[j + 1]
  BY <1>1, <1>2, RemoveAtElements
<1>4. \A j \in 1 .. n : q[j].card = c
  BY DEF MovesInv
<1> HIDE DEF q, n
<1>5. ASSUME NEW d \in Cards, NEW j \in 1 .. Len(events'[d])
      PROVE  events'[d][j].card = d
  <2>1. CASE d = c
    <3>1. j \in 1 .. n - 1 /\ j \in 1 .. n /\ j + 1 \in 1 .. n
      BY <1>1, <1>3, <2>1
    <3> QED
      BY <1>3, <1>4, <2>1, <3>1
  <2>2. CASE d # c
    BY <1>2, <2>2 DEF MovesInv
  <2> QED
    BY <2>1, <2>2
<1>6. ASSUME c \notin missed, i = 1
      PROVE  MovesLead(c)' /\ Before(c, 1)' = events[c][1].to
  <2>1. \A j \in 1 .. n : q[j].to = Before(c, j + 1)
    BY <1>6 DEF MovesInv, MovesLead, q, n
  <2>2. ASSUME NEW j \in 1 .. n PROVE Before(c, j)' = Before(c, j + 1)
    <3>1. CASE j <= n - 1
      <4>1. events'[c][j] = q[j + 1] /\ j <= Len(events'[c]) /\ j + 1 <= n
        BY <1>1, <1>3, <1>6, <3>1
      <4> QED
        BY <4>1 DEF Before, q, n
    <3>2. CASE j = n
      <4>1. ~(j <= Len(events'[c])) /\ ~(j + 1 <= n)
        BY <1>1, <1>3, <3>2
      <4> QED
        BY <4>1 DEF Before, q, n
    <3> QED
      BY <1>1, <3>1, <3>2
  <2>3. ASSUME NEW j \in 1 .. n - 1 PROVE events'[c][j].to = Before(c, j + 1)'
    <3>1. events'[c][j] = q[j + 1] /\ j + 1 \in 1 .. n
      BY <1>1, <1>3, <1>6
    <3> QED
      BY <2>1, <2>2, <3>1
  <2>4. 1 \in 1 .. n
    BY <1>1, <1>6 DEF q, n
  <2>5. Before(c, 1)' = q[1].to
    BY <2>1, <2>2, <2>4
  <2> QED
    BY <1>3, <2>3, <2>5 DEF MovesLead, q
<1> QED
  BY <1>2, <1>5, <1>6

\* Who is told to stop works no card any more.
LEMMA CancelledStops ==
  ASSUME TypeOK, NEW c \in Cards
  PROVE  /\ \A s \in Sessions : ~Cancelled(c)[s].cancelled => ~sess[s].cancelled
         /\ byCard[c] # None => Cancelled(c)[byCard[c]].cancelled
<1>1. sess \in [Sessions -> Session] /\ byCard[c] \in Sessions \cup {None}
  BY DEF TypeOK
<1>2. \A s \in Sessions : sess[s] \in Session
  BY <1>1
<1> QED
  BY <1>1, <1>2 DEF Cancelled, Session

LEMMA CancelledWorksNoMore ==
  ASSUME TypeOK, NEW c \in Cards, sess' = Cancelled(c), UNCHANGED start,
         NEW s \in Sessions, NEW d \in Cards,
         sess'[s].phase = "live", ~sess'[s].cancelled, sess'[s].card = d
  PROVE  Worked(d) /\ sess[s].phase = "live" /\ sess[s].card = d
<1>1. sess[s].phase = "live" /\ sess[s].card = d
  BY CancelledTypeOK
<1>2. ~sess[s].cancelled
  BY CancelledStops
<1> QED
  BY <1>1, <1>2 DEF Worked

LEMMA NextMoves ==
  ASSUME NothingWaits, ByCardInv, LoopAlone, MovesInv, [Next]_vars
  PROVE  MovesInv'
<1>t. TypeOK
  BY DEF ByCardInv
<1>s. Loop \in Starters /\ Sessions \subseteq Starters /\ Loop \notin Sessions
  BY StageQueueAssumption DEF Starters
<1>u. sess \in [Sessions -> Session] /\ start \in [Starters -> Start]
  BY <1>t DEF TypeOK
<1>1. CASE UNCHANGED <<events, board, missed, sess, start>>
  BY <1>1, QuietKeepsMoves DEF Worked
<1>2. ASSUME NEW c \in Cards, CancelSession(c)
      PROVE  MovesInv'
  <2>1. /\ UNCHANGED <<events, board, missed, start>>
        /\ sess' = Cancelled(c)
    BY <1>2 DEF CancelSession, history
  <2>3. ASSUME NEW d \in Cards, Worked(d)' PROVE Worked(d)
    <3>1. CASE start'[Loop].pc \in {"agent", "limit", "commit"}
               /\ start'[Loop].card = d
      BY <2>1, <3>1 DEF Worked
    <3>2. ASSUME NEW s \in Sessions,
                 sess'[s].phase = "live", ~sess'[s].cancelled, sess'[s].card = d
          PROVE  Worked(d)
      BY <1>t, <2>1, <3>2, CancelledWorksNoMore
    <3> QED
      BY <2>3, <3>1, <3>2 DEF Worked
  <2> QED
    BY <2>1, <2>3, QuietKeepsMoves
<1>3. CASE HandleEvent
  <2>0. PICK c \in Cards : \E i \in 1 .. Len(events[c]) :
          /\ events' = Without(c, i)
          /\ missed' = IF i > 1 THEN missed \cup {c} ELSE missed
          /\ LET e == events[c][i]
             IN  HandleEnter(e) \/ SuppressDuplicate(e) \/ HandleLeave(e)
    BY <1>3 DEF HandleEvent
  <2>1. PICK i \in 1 .. Len(events[c]) :
          /\ events' = Without(c, i)
          /\ missed' = IF i > 1 THEN missed \cup {c} ELSE missed
          /\ LET e == events[c][i]
             IN  HandleEnter(e) \/ SuppressDuplicate(e) \/ HandleLeave(e)
    BY <2>0
  <2> DEFINE e == events[c][i]
  <2>2. e.card = c /\ start[Loop].pc = "idle" /\ UNCHANGED <<board, byCard>>
    BY <1>3 DEF MovesInv, HandleEvent, people
  <2>3. HandleEnter(e) \/ SuppressDuplicate(e) \/ HandleLeave(e)
    BY <2>1
  <2> HIDE DEF e
  <2>4. /\ \A d \in Cards : \A j \in 1 .. Len(events'[d]) : events'[d][j].card = d
        /\ \A d \in Cards \ {c} : events'[d] = events[d]
        /\ c \notin missed /\ i = 1 =>
             /\ MovesLead(c)'
             /\ Before(c, 1)' = events[c][1].to
    BY <1>t, <2>1, <2>2, TakenMove
  <2>5. ASSUME NEW d \in Cards, Worked(d)'
        PROVE  \/ Worked(d) /\ ~HandleLeave(e)
               \/ Worked(d) /\ d # c
               \/ d = c /\ HandleEnter(e)
    <3>1. CASE HandleEnter(e)
      <4>1. UNCHANGED sess
        BY <3>1 DEF HandleEnter
      <4>2. start' = start \/ start'[Loop].card = c
        BY <1>s, <1>u, <2>2, <3>1 DEF HandleEnter
      <4>3. ~HandleLeave(e)
        BY <3>1 DEF HandleEnter, HandleLeave
      <4> QED
        BY <2>5, <3>1, <4>1, <4>2, <4>3 DEF Worked
    <3>2. CASE SuppressDuplicate(e)
      BY <2>5, <3>2 DEF SuppressDuplicate, HandleLeave, Worked
    <3>3. CASE HandleLeave(e)
      <4>1. sess' = Cancelled(c) /\ UNCHANGED start
        BY <2>2, <3>3 DEF HandleLeave
      <4>3. PICK s \in Sessions : /\ sess'[s].phase = "live"
                                  /\ ~sess'[s].cancelled
                                  /\ sess'[s].card = d
        BY <2>2, <2>5, <4>1 DEF Worked
      <4>4. Worked(d) /\ byCard[d] = s
        <5>1. Worked(d) /\ sess[s].phase = "live" /\ sess[s].card = d
          BY <1>t, <4>1, <4>3, CancelledWorksNoMore
        <5> QED
          BY <5>1 DEF LoopAlone
      <4>5. d # c
        <5>1. byCard[c] # None => sess'[byCard[c]].cancelled
          BY <1>t, <4>1, CancelledStops
        <5>2. s # None
          BY StageQueueAssumption
        <5> QED
          BY <4>3, <4>4, <5>1, <5>2
      <4> QED
        BY <4>4, <4>5
    <3> QED
      BY <2>3, <3>1, <3>2, <3>3
  <2>6. ASSUME NEW d \in Cards \ missed', d # c
        PROVE  (MovesLead(d) /\ WorkedAsTold(d))'
    <3>1. d \notin missed /\ MovesLead(d) /\ WorkedAsTold(d)
      BY <2>1, <2>6 DEF MovesInv
    <3>2. events'[d] = events[d] /\ board' = board
      BY <2>2, <2>4, <2>6
    <3>3. \A j : Before(d, j)' = Before(d, j)
      BY <3>2 DEF Before
    <3>4. Worked(d)' => Worked(d)
      BY <2>5, <2>6
    <3> QED
      BY <3>1, <3>2, <3>3, <3>4 DEF MovesLead, WorkedAsTold
  <2>7. ASSUME c \notin missed'
        PROVE  (MovesLead(c) /\ WorkedAsTold(c))'
    <3>1. i = 1 /\ c \notin missed
      BY <2>1, <2>7
    <3>2. MovesLead(c)' /\ Before(c, 1)' = e.to
      BY <2>4, <3>1 DEF e
    <3>3. Worked(c)' => e.to \in Columns
      <4>1. HandleEnter(e) \/ SuppressDuplicate(e) => e.to \in Columns
        BY DEF HandleEnter, SuppressDuplicate
      <4> QED
        BY <2>3, <2>5, <4>1
    <3> QED
      BY <3>2, <3>3 DEF WorkedAsTold
  <2> QED
    BY <2>4, <2>6, <2>7 DEF MovesInv
<1>4. CASE DropEvent
  <2>0. PICK c \in Cards : \E i \in 1 .. Len(events[c]) :
          events' = Without(c, i) /\ missed' = missed \cup {c}
    BY <1>4 DEF DropEvent
  <2>1. PICK i \in 1 .. Len(events[c]) :
          events' = Without(c, i) /\ missed' = missed \cup {c}
    BY <2>0
  <2>2. UNCHANGED <<board, sess, start>>
    BY <1>4 DEF DropEvent, people
  <2>3. /\ \A d \in Cards : \A j \in 1 .. Len(events'[d]) : events'[d][j].card = d
        /\ \A d \in Cards \ {c} : events'[d] = events[d]
    BY <1>t, <2>1, <2>2, TakenMove
  <2>4. ASSUME NEW d \in Cards \ missed'
        PROVE  (MovesLead(d) /\ WorkedAsTold(d))'
    <3>1. d # c /\ d \notin missed /\ MovesLead(d) /\ WorkedAsTold(d)
      BY <2>1 DEF MovesInv
    <3>2. events'[d] = events[d] /\ board' = board
      BY <2>2, <2>3, <3>1
    <3>3. \A j : Before(d, j)' = Before(d, j)
      BY <3>2 DEF Before
    <3>4. Worked(d)' = Worked(d)
      BY <2>2 DEF Worked
    <3> QED
      BY <3>1, <3>2, <3>3, <3>4 DEF MovesLead, WorkedAsTold
  <2> QED
    BY <2>3, <2>4 DEF MovesInv
<1>5. ASSUME NEW p \in Starters, StartStep(p)
      PROVE  MovesInv'
  <2>1. p = Loop /\ start[Loop].column \in Columns
    BY <1>5, <1>s, <1>t
    DEF LoopAlone, TypeOK, Starters, StartStep, Refuse, TakeAssignee, TakeFree,
        TakeOnlyAgent, CrewBusy, PassLimit, LimitReached, Commit
  <2>2. ~CrewBusy(p) /\ ~LimitReached(p)
    BY <2>1 DEF NothingWaits, CrewBusy, LimitReached, HasRoom
  <2>3. CASE Refuse(p) \/ TakeAssignee(p) \/ TakeFree(p) \/ TakeOnlyAgent(p)
             \/ PassLimit(p)
    <3>1. /\ UNCHANGED <<events, board, missed, sess>>
          /\ start[Loop].pc \in {"agent", "limit", "commit"}
      BY <2>1, <2>3
      DEF Refuse, TakeAssignee, TakeFree, TakeOnlyAgent, PassLimit, people, history
    <3>2. start'[Loop].card = start[Loop].card
      BY <2>1, <2>3, <1>s, <1>u
      DEF Refuse, TakeAssignee, TakeFree, TakeOnlyAgent, PassLimit, Goto, Taken,
          Start
    <3>3. \A c \in Cards : Worked(c)' => Worked(c)
      BY <3>1, <3>2 DEF Worked
    <3> QED
      BY <3>1, <3>3, QuietKeepsMoves
  <2>4. ASSUME NEW s \in Sessions, Commit(p, s)
        PROVE  MovesInv'
    <3>1. /\ start[Loop].pc = "commit"
          /\ start' = [start EXCEPT ![Loop] = IdleStart]
          /\ sess' = [sess EXCEPT ![s] =
                        [phase |-> "live", card |-> start[Loop].card,
                         column |-> start[Loop].column,
                         agent |-> start[Loop].agent,
                         turn |-> FALSE, cancelled |-> FALSE]]
          /\ UNCHANGED <<events, board, missed>>
      BY <2>1, <2>4 DEF Commit, people, history
    <3>2. start'[Loop].pc = "idle"
      BY <3>1, <1>s, <1>u DEF IdleStart
    <3>3. \A t \in Sessions : t # s => sess'[t] = sess[t]
      BY <3>1, <1>u
    <3>4. sess'[s].card = start[Loop].card
      BY <3>1, <1>u
    <3>5. ASSUME NEW c \in Cards, Worked(c)' PROVE Worked(c)
      <4>1. PICK t \in Sessions : /\ sess'[t].phase = "live"
                                  /\ ~sess'[t].cancelled
                                  /\ sess'[t].card = c
        BY <3>2, <3>5 DEF Worked
      <4>2. CASE t = s
        BY <3>1, <3>4, <4>1, <4>2 DEF Worked
      <4>3. CASE t # s
        BY <3>3, <4>1, <4>3 DEF Worked
      <4> QED
        BY <4>2, <4>3
    <3> QED
      BY <3>1, <3>5, QuietKeepsMoves
  <2> QED
    BY <1>5, <2>2, <2>3, <2>4 DEF StartStep
<1>6. ASSUME NEW p \in Starters, Return(p), UNCHANGED <<events, board, missed>>
      PROVE  MovesInv'
  <2>1. start'[p].pc = "idle" /\ \A q \in Starters : q # p => start'[q] = start[q]
    BY <1>6, <1>u DEF Return, IdleStart
  <2>2. ASSUME NEW s \in Sessions, sess'[s].phase = "live"
        PROVE  sess'[s] = sess[s]
    BY <1>6, <2>2, <1>u DEF Return, FreeSession
  <2>3. \A c \in Cards : Worked(c)' => Worked(c)
    BY <2>1, <2>2, <1>s DEF Worked
  <2> QED
    BY <1>6, <2>3, QuietKeepsMoves
<1>7. CASE Park \/ LoopRefused
  BY <1>6, <1>7, <1>s DEF Park, LoopRefused, people, history
<1>8. ASSUME NEW s \in Sessions, DrainStep(s)
      PROVE  MovesInv'
  <2>1. ~DrainReads(s) /\ ~DrainRefused(s) /\ ~DrainStarted(s)
    <3>1. NextQueued(sess[s].column) = {} \/ sess[s].phase = "free"
      BY <1>t, StageQueueAssumption DEF LoopAlone, NextQueued, Queued, TypeOK
    <3> QED
      BY <3>1 DEF DrainReads, DrainRefused, DrainStarted, LoopAlone
  <2>2. CASE DrainNothing(s)
    BY <2>2, <1>6, <1>s DEF DrainNothing, people, history
  <2> QED
    BY <1>5, <1>8, <1>s, <2>1, <2>2 DEF DrainStep
<1>9. ASSUME NEW s \in Sessions, EndSession(s)
      PROVE  MovesInv'
  <2>1. UNCHANGED <<events, board, missed, start>>
    BY <1>9 DEF EndSession, people, history
  <2>2. ASSUME NEW t \in Sessions, sess'[t].phase = "live"
        PROVE  sess'[t] = sess[t]
    BY <1>9, <2>2, <1>u DEF EndSession, FreeSession
  <2>3. \A c \in Cards : Worked(c)' => Worked(c)
    BY <2>1, <2>2 DEF Worked
  <2> QED
    BY <2>1, <2>3, QuietKeepsMoves
<1>10. CASE Restart
  <2>1. /\ events' = [c \in Cards |-> <<>>]
        /\ sess' = [s \in Sessions |-> FreeSession]
        /\ start' = [p \in Starters |-> IdleStart]
    BY <1>10 DEF Restart
  <2>2. \A c \in Cards : Len(events'[c]) = 0
    BY <2>1
  <2>3. \A c \in Cards : ~Worked(c)'
    BY <2>1, <1>s DEF Worked, FreeSession, IdleStart
  <2>4. \A c \in Cards : \A i \in 1 .. Len(events'[c]) : FALSE
    BY <2>2
  <2> QED
    BY <2>3, <2>4 DEF MovesInv, MovesLead, WorkedAsTold
<1>11. ASSUME NEW s \in Sessions, BeginTurn(s)
       PROVE  MovesInv'
  <2>1. UNCHANGED <<events, board, missed, start>>
    BY <1>11, <1>t, OnlyTurnBegins DEF people, history
  <2>2. \A c \in Cards : Worked(c)' => Worked(c)
    BY <1>11, <1>t, <2>1, OnlyTurnBegins DEF Worked
  <2> QED
    BY <2>1, <2>2, QuietKeepsMoves
<1> QED
  <2>1. ASSUME NEW c \in Cards, NEW k \in Columns \cup {Elsewhere}, MoveCard(c, k)
        PROVE  MovesInv'
    BY <2>1, <1>t, MoveKeepsMoves
  <2>2. ASSUME NEW c \in Cards, NEW w \in Whos, Assign(c, w)
        PROVE  UNCHANGED <<events, board, missed, sess, start>>
    BY <2>2 DEF Assign, history
  <2>3. ASSUME NEW m \in claims, ExpireClaim(m)
        PROVE  UNCHANGED <<events, board, missed, sess, start>>
    BY <2>3 DEF ExpireClaim, people, history
  <2>4. CASE UNCHANGED vars
    BY <2>4, <1>1 DEF vars
  <2> QED
    BY <1>1, <1>2, <1>3, <1>4, <1>5, <1>7, <1>8, <1>9, <1>10, <1>11,
       <1>s, <2>1, <2>2, <2>3, <2>4
    DEF Next, PeopleAct, LoopStep

\* Where nothing ever waits, a session still at work once everything has been
\* handled works a card that stands in a working column, unless a move of that
\* card was lost or told late (LeavingWorkCancels): the loop starts a card only
\* where it was told the card is, and ends it when told that it left.
THEOREM LeavingCancelsWithoutQueue ==
  ASSUME NothingWaits
  PROVE  Spec => []LeavingWorkCancels
<1>1. Init => LoopAlone
  BY StageQueueAssumption
  DEF Init, LoopAlone, Queued, NoRow, IdleStart, FreeSession, Starters
<1>2. Init => MovesInv
  <2> SUFFICES ASSUME Init PROVE MovesInv
    OBVIOUS
  <2>1. \A c \in Cards : \A i \in 1 .. Len(events[c]) : FALSE
    BY DEF Init
  <2>2. \A c \in Cards : ~Worked(c)
    BY DEF Init, Worked, FreeSession, IdleStart, Starters
  <2> QED
    BY <2>1, <2>2 DEF MovesInv, MovesLead, WorkedAsTold
<1>3. ByCardInv /\ LoopAlone /\ [Next]_vars => LoopAlone'
  BY NextLoopAlone
<1>4. ByCardInv /\ LoopAlone /\ MovesInv /\ [Next]_vars => MovesInv'
  BY NextMoves
<1>5. ByCardInv /\ MovesInv => LeavingWorkCancels
  <2> SUFFICES ASSUME ByCardInv, MovesInv, Calm, NEW s \in Sessions,
                      sess[s].phase = "live", ~sess[s].cancelled,
                      sess[s].card \notin missed
               PROVE  board[sess[s].card] \in Columns
    BY DEF LeavingWorkCancels
  <2> DEFINE c == sess[s].card
  <2>1. c \in Cards /\ events \in [Cards -> Seq(Event)]
    BY DEF ByCardInv, TypeOK
  <2>2. Worked(c)
    BY DEF Worked
  <2>3. Before(c, 1) \in Columns
    BY <2>1, <2>2 DEF MovesInv, WorkedAsTold
  <2>4. ~(1 <= Len(events[c]))
    <3>1. Untold = {}
      BY DEF Calm
    <3>2. {c} \X (1 .. Len(events[c])) = {}
      BY <2>1, <3>1 DEF Untold
    <3>3. Len(events[c]) \in Nat
      BY <2>1
    <3>4. 1 <= Len(events[c]) => <<c, 1>> \in {c} \X (1 .. Len(events[c]))
      BY <3>3
    <3> QED
      BY <3>2, <3>4
  <2> QED
    BY <2>3, <2>4 DEF Before
<1> QED
  BY <1>1, <1>2, <1>3, <1>4, <1>5, ByCardInvariant, PTL DEF Spec
=============================================================================
