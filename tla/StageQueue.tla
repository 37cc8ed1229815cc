----------------------------- MODULE StageQueue -----------------------------
(***************************************************************************)
(* How a card that lands in a working column gets a session, waits for a   *)
(* place, or is left alone: the trigger loop (internal/acp/trigger.go),    *)
(* startSession (manager.go), the crew (agents.go) and the persisted stage *)
(* queue with its drain (stagequeue.go, store.go).                         *)
(*                                                                         *)
(* Every column here does agent work outside a route.  startSession is cut *)
(* where the code lets go of Manager.mu: the crew is looked up, then the   *)
(* column's limit is, and only then the session enters Manager.active; two *)
(* goroutines may be between these steps at once.  The goroutines that     *)
(* call it are the trigger loop and every finished session, which drains   *)
(* the column it worked in.                                                *)
(*                                                                         *)
(* A definition marked "Slip" is not the code: it is the definition below  *)
(* it with a mistake, there to see that a property would notice.           *)
(***************************************************************************)
EXTENDS Integers, FiniteSets, Sequences, SequencesExt

CONSTANTS
  Cards, Columns, Agents,
  Sessions,      \* runSession goroutines; one is reused when it has returned
  Crew,          \* ColumnSpec.AgentIDs: column -> agents, {} when it has none
  Rank,          \* the order a crew is listed in
  MaxRunning,    \* ColumnSpec.MaxRunning: column -> limit, 0 for no limit
  EventBuffer,   \* capacity of EventsBackend.ch (256 in the code)
  Faults,        \* whether the database, the board or a start's folder may fail
  MaxMoves,      \* bound on drags of a card
  MaxEdits,      \* bound on what else people do: assignments, cancels
  MaxRestarts,   \* bound on restarts of the application
  Elsewhere,     \* any place on the board that does nothing
  Person, Nobody, Loop, None

ASSUME StageQueueAssumption ==
  /\ IsFiniteSet(Sessions)
  /\ Loop \notin Sessions
  /\ None \notin Sessions \cup Cards \cup Columns \cup Agents
  /\ Agents # {}
  /\ Elsewhere \notin Columns
  /\ {Person, Nobody} \cap Agents = {}
  /\ Person # Nobody
  /\ Crew \in [Columns -> SUBSET Agents]
  /\ Rank \in [Agents -> Nat]
  /\ MaxRunning \in [Columns -> Nat]
  /\ EventBuffer \in Nat
  /\ Faults \in BOOLEAN

VARIABLES
  board,     \* where each card stands
  assignee,  \* the card's person field: nobody, a person or an agent
  events,    \* each card's moves not handled yet, in the order they were made
  claims,    \* moves held in the idempotency table
  row,       \* the stage_queue table, keyed by card
  clock,     \* the millisecond queued_at is read from
  sess,      \* the session goroutines; phase "live" is membership of active
  byCard,    \* Manager.byCard
  start,     \* the startSession call each goroutine is in
  raced,     \* history: columns into which two starts have overlapped
  missed,    \* history: cards a move of which was lost or told after a later
  moves, edits, restarts   \* counted against the bounds

people == <<board, assignee>>
history == <<raced, missed>>
bounds == <<moves, edits, restarts>>
vars == <<board, assignee, events, claims, row, clock, sess, byCard, start,
          raced, missed, moves, edits, restarts>>

Starters == Sessions \cup {Loop}
Whos == Agents \cup {Person, Nobody}

Move == [card : Cards, from : Columns \cup {Elsewhere},
         to : Columns \cup {Elsewhere}]
Event == [card : Cards, from : Columns \cup {Elsewhere},
          to : Columns \cup {Elsewhere}, who : Whos]

Row == [column : Columns \cup {None}, at : Nat]
Session == [phase : {"free", "live", "released"}, card : Cards \cup {None},
            column : Columns \cup {None}, agent : Agents \cup {None},
            turn : BOOLEAN,      \* its turn has begun, which a cancel breaks off
            cancelled : BOOLEAN]
Start == [pc : {"idle", "agent", "limit", "commit", "park", "refused",
                "dequeue"},
          card : Cards \cup {None}, column : Columns \cup {None}, who : Whos,
          agent : Agents \cup {None}]

NoRow == [column |-> None, at |-> 0]
IdleStart == [pc |-> "idle", card |-> None, column |-> None,
              who |-> Nobody, agent |-> None]
FreeSession == [phase |-> "free", card |-> None, column |-> None,
                agent |-> None, turn |-> FALSE, cancelled |-> FALSE]

Running(k) == {s \in Sessions : sess[s].phase = "live" /\ sess[s].column = k}
\* Starts that passed the column's limit and are not in Manager.active yet.
Admitted(k) == {p \in Starters : start[p].pc = "commit" /\ start[p].column = k}

BusyAgents == {sess[s].agent : s \in {t \in Sessions : sess[t].phase = "live"}}
CrewOf(k) == IF Crew[k] = {} THEN Agents ELSE Crew[k]
FreeCrew(k) == Crew[k] \ BusyAgents
\* freeAgent: the first of the crew with no live session.
FirstFree(k) == {a \in FreeCrew(k) : \A b \in FreeCrew(k) : Rank[a] <= Rank[b]}

Queued(c) == row[c].column # None
\* NextQueuedStage: the card that has waited longest for the column.
NextQueued(k) ==
  {c \in Cards : /\ row[c].column = k
                 /\ \A d \in Cards : row[d].column = k => row[c].at <= row[d].at}

Init ==
  /\ board = [c \in Cards |-> Elsewhere]
  /\ assignee = [c \in Cards |-> Nobody]
  /\ events = [c \in Cards |-> <<>>]
  /\ claims = {}
  /\ row = [c \in Cards |-> NoRow]
  /\ clock = 0
  /\ sess = [s \in Sessions |-> FreeSession]
  /\ byCard = [c \in Cards |-> None]
  /\ start = [p \in Starters |-> IdleStart]
  /\ raced = {}
  /\ missed = {}
  /\ moves = 0
  /\ edits = 0
  /\ restarts = 0

-----------------------------------------------------------------------------
(* What people do                                                          *)

\* A card is dragged, and the board has a move to tell: the card as it was at
\* that moment.
MoveCard(c, k) ==
  /\ moves < MaxMoves
  /\ k # board[c]
  /\ board' = [board EXCEPT ![c] = k]
  /\ events' = [events EXCEPT ![c] =
                  Append(@, [card |-> c, from |-> board[c], to |-> k,
                             who |-> assignee[c]])]
  /\ moves' = moves + 1
  /\ UNCHANGED <<assignee, claims, row, clock, sess, byCard, start,
                 history, edits, restarts>>

\* Somebody writes the card's person field, which is no move.
Assign(c, w) ==
  /\ edits < MaxEdits
  /\ w # assignee[c]
  /\ assignee' = [assignee EXCEPT ![c] = w]
  /\ edits' = edits + 1
  /\ UNCHANGED <<board, events, claims, row, clock, sess, byCard,
                 start, history, moves, restarts>>

Cancelled(c) ==
  IF byCard[c] = None THEN sess
  ELSE [sess EXCEPT ![byCard[c]].cancelled = TRUE]

\* The cancel button.
CancelSession(c) ==
  /\ edits < MaxEdits
  /\ byCard[c] # None
  /\ sess' = Cancelled(c)
  /\ edits' = edits + 1
  /\ UNCHANGED <<board, assignee, events, claims, row, clock, byCard,
                 start, history, moves, restarts>>

\* The idempotency window of a move has passed.
ExpireClaim(m) ==
  /\ m \in claims
  /\ claims' = claims \ {m}
  /\ UNCHANGED <<people, events, row, clock, sess, byCard, start,
                 history, bounds>>

-----------------------------------------------------------------------------
(* The trigger loop                                                        *)

\* dequeueStage: a delete that fails is logged and the row stays.
Dequeue(c) ==
  \/ row' = [row EXCEPT ![c] = NoRow]
  \/ Faults /\ UNCHANGED row

MoveOf(e) == [card |-> e.card, from |-> e.from, to |-> e.to]

\* Slip: the column is taken from the wrong end of the move.
HandleEnterFrom(e) ==
  /\ e.to \in Columns
  /\ MoveOf(e) \notin claims
  /\ claims' = claims \cup {MoveOf(e)}
  /\ start' = [start EXCEPT ![Loop] =
                 [pc |-> "agent", card |-> e.card, column |-> e.from,
                  who |-> e.who, agent |-> None]]
  /\ UNCHANGED <<row, sess>>

\* Slip: claimMove does not look whether the card has a session.
HandleEnterAnyway(e) ==
  /\ e.to \in Columns
  /\ MoveOf(e) \notin claims
  /\ claims' = claims \cup {MoveOf(e)}
  /\ start' = [start EXCEPT ![Loop] =
                 [pc |-> "agent", card |-> e.card, column |-> e.to,
                  who |-> e.who, agent |-> None]]
  /\ UNCHANGED <<row, sess>>

\* A card entered a working column: the move is claimed, a card that has a
\* live session is skipped, any other is started.
HandleEnter(e) ==
  /\ e.to \in Columns
  /\ MoveOf(e) \notin claims
  /\ claims' = claims \cup {MoveOf(e)}
  /\ start' = IF byCard[e.card] # None
              THEN start
              ELSE [start EXCEPT ![Loop] =
                      [pc |-> "agent", card |-> e.card, column |-> e.to,
                       who |-> e.who, agent |-> None]]
  /\ UNCHANGED <<row, sess>>

\* The same drag seen twice inside the window, or a claim that could not be
\* written, which counts as taken.
SuppressDuplicate(e) ==
  /\ e.to \in Columns
  /\ MoveOf(e) \in claims \/ Faults
  /\ UNCHANGED <<claims, start, row, sess>>

\* Slip: the queue is tidied and the session goes on.
HandleLeaveWorking(e) ==
  /\ e.to \notin Columns
  /\ e.from \in Columns
  /\ Dequeue(e.card)
  /\ UNCHANGED <<claims, start, sess>>

\* A card left a working column for a place that does nothing.
HandleLeave(e) ==
  /\ e.to \notin Columns
  /\ e.from \in Columns
  /\ Dequeue(e.card)
  /\ sess' = Cancelled(e.card)
  /\ UNCHANGED <<claims, start>>

\* The card's i-th move has been handled or lost.
Without(c, i) == [events EXCEPT ![c] = RemoveAt(@, i)]

\* An event is told by one of the ten workers of the board's notifier, so the
\* loop may get any of them next.
HandleEvent ==
  /\ start[Loop].pc = "idle"
  /\ \E c \in Cards : \E i \in 1 .. Len(events[c]) :
       /\ events' = Without(c, i)
       /\ missed' = IF i > 1 THEN missed \cup {c} ELSE missed
       /\ LET e == events[c][i]
          IN  HandleEnter(e) \/ SuppressDuplicate(e) \/ HandleLeave(e)
  /\ UNCHANGED <<people, clock, byCard, raced, bounds>>

Untold == UNION {{c} \X (1 .. Len(events[c])) : c \in Cards}

\* BlockChanged finds the channel full and drops the move.
DropEvent ==
  /\ Cardinality(Untold) > EventBuffer
  /\ \E c \in Cards : \E i \in 1 .. Len(events[c]) :
       /\ events' = Without(c, i)
       /\ missed' = missed \cup {c}
  /\ UNCHANGED <<people, claims, row, clock, sess, byCard, start, raced,
                 bounds>>

-----------------------------------------------------------------------------
(* startSession, called by p: the trigger loop or a session's drain        *)

\* The call goes on with its card and its column; nothing else is read again.
Goto(p, pc) ==
  start' = [start EXCEPT ![p] = [pc |-> pc, card |-> start[p].card,
                                 column |-> start[p].column,
                                 who |-> Nobody, agent |-> None]]

\* The call has its agent.
Taken(p, a) ==
  start' = [start EXCEPT ![p] = [pc |-> "limit", card |-> start[p].card,
                                 column |-> start[p].column,
                                 who |-> Nobody, agent |-> a]]

\* Slip: the goroutine never returns.
ReturnNever(p) ==
  /\ start' = [start EXCEPT ![p] = IdleStart]
  /\ UNCHANGED sess

\* The goroutine's call is over; a draining session's goroutine ends with it.
Return(p) ==
  /\ start' = [start EXCEPT ![p] = IdleStart]
  /\ sess' = IF p = Loop THEN sess ELSE [sess EXCEPT ![p] = FreeSession]

\* errStageBusy: the loop goes on to queue the card, a drain just returns.
Busy(p) ==
  IF p = Loop
  THEN Goto(p, "park") /\ UNCHANGED sess
  ELSE Return(p)

\* The card is a person's, or something the start needs is missing: the
\* folder, the agent, the network, the database row.
Refuse(p) ==
  /\ \/ /\ start[p].pc = "agent"
        /\ \/ start[p].who = Person
           \/ Faults
           \/ /\ start[p].who \notin CrewOf(start[p].column)
              /\ Crew[start[p].column] = {}
              /\ Cardinality(Agents) # 1
     \/ start[p].pc = "commit" /\ Faults
  /\ Goto(p, "refused")
  /\ UNCHANGED <<people, events, claims, row, clock, sess, byCard,
                 history, bounds>>

\* The assignee is on the crew and gets the card, whatever else it is doing.
TakeAssignee(p) ==
  /\ start[p].pc = "agent"
  /\ start[p].who \in CrewOf(start[p].column)
  /\ Taken(p, start[p].who)
  /\ UNCHANGED <<people, events, claims, row, clock, sess, byCard,
                 history, bounds>>

\* Otherwise the first free of the crew does, and is written on the card.
TakeFree(p) ==
  /\ start[p].pc = "agent"
  /\ start[p].who \notin CrewOf(start[p].column) \cup {Person}
  /\ \E a \in FirstFree(start[p].column) :
       /\ Taken(p, a)
       /\ \/ assignee' = [assignee EXCEPT ![start[p].card] = a]
          \/ Faults /\ UNCHANGED assignee
  /\ UNCHANGED <<board, events, claims, row, clock, sess, byCard,
                 history, bounds>>

\* A column without a crew is worked by the only agent there is.
TakeOnlyAgent(p) ==
  /\ start[p].pc = "agent"
  /\ start[p].who \notin CrewOf(start[p].column) \cup {Person}
  /\ Crew[start[p].column] = {}
  /\ \E a \in Agents :
       /\ Agents = {a}
       /\ Taken(p, a)
  /\ UNCHANGED <<people, events, claims, row, clock, sess, byCard,
                 history, bounds>>

CrewBusy(p) ==
  /\ start[p].pc = "agent"
  /\ start[p].who \notin CrewOf(start[p].column) \cup {Person}
  /\ Crew[start[p].column] # {}
  /\ FreeCrew(start[p].column) = {}
  /\ Busy(p)
  /\ UNCHANGED <<people, events, claims, row, clock, byCard, history,
                 bounds>>

\* Slip: one too many.
HasRoomForOneMore(k) ==
  MaxRunning[k] = 0 \/ Cardinality(Running(k)) <= MaxRunning[k]

\* runningInColumn against MaxRunning.
HasRoom(k) == MaxRunning[k] = 0 \/ Cardinality(Running(k)) < MaxRunning[k]

PassLimit(p) ==
  /\ start[p].pc = "limit"
  /\ HasRoom(start[p].column)
  /\ start' = [start EXCEPT ![p].pc = "commit"]
  /\ raced' = IF Admitted(start[p].column) = {} THEN raced
              ELSE raced \cup {start[p].column}
  /\ UNCHANGED <<people, events, claims, row, clock, sess, byCard, missed,
                 bounds>>

LimitReached(p) ==
  /\ start[p].pc = "limit"
  /\ ~HasRoom(start[p].column)
  /\ Busy(p)
  /\ UNCHANGED <<people, events, claims, row, clock, byCard, history,
                 bounds>>

\* The session enters active and becomes the card's own; its goroutine runs.
Commit(p, s) ==
  /\ start[p].pc = "commit"
  /\ sess[s].phase = "free"
  /\ sess' = [sess EXCEPT ![s] =
                [phase |-> "live", card |-> start[p].card,
                 column |-> start[p].column, agent |-> start[p].agent,
                 turn |-> FALSE, cancelled |-> FALSE]]
  /\ byCard' = [byCard EXCEPT ![start[p].card] = s]
  /\ IF p = Loop THEN start' = [start EXCEPT ![p] = IdleStart]
                 ELSE Goto(p, "dequeue")
  /\ UNCHANGED <<people, events, claims, row, clock, history, bounds>>

-----------------------------------------------------------------------------
(* After startSession, in the loop                                         *)

\* EnqueueStage: a card that already waits keeps its row, column and all.
Enqueued(c, k, t) ==
  IF Queued(c) THEN row
  ELSE [row EXCEPT ![c] = [column |-> k, at |-> t]]

\* enqueueStage; two cards may be queued within one millisecond, and a card
\* whose row could not be written is only logged.
Park ==
  /\ start[Loop].pc = "park"
  /\ \E t \in {clock, clock + 1} :
       /\ clock' = t
       /\ \/ row' = Enqueued(start[Loop].card, start[Loop].column, t)
          \/ Faults /\ UNCHANGED row
  /\ Return(Loop)
  /\ UNCHANGED <<people, events, claims, byCard, history, bounds>>

\* sayCardIsTaken and «агент не запущен»: the card gets a reason and no row.
LoopRefused ==
  /\ start[Loop].pc = "refused"
  /\ Return(Loop)
  /\ UNCHANGED <<people, events, claims, row, clock, byCard, history, bounds>>

-----------------------------------------------------------------------------
(* runSession and its drain                                                *)

\* runTurn, or awaitStage in a terminal: there is something a cancel breaks off.
\* Until then it leaves the goroutine where it is, at the agent's handshake.
BeginTurn(s) ==
  /\ sess[s].phase = "live"
  /\ ~sess[s].turn
  /\ sess' = [sess EXCEPT ![s].turn = TRUE]
  /\ UNCHANGED <<people, events, claims, row, clock, byCard, start, history, bounds>>

\* Slip: byCard keeps a session that is over.
EndSessionForgets(s) ==
  /\ sess[s].phase = "live"
  /\ sess' = [sess EXCEPT ![s] = [FreeSession EXCEPT !.phase = "released",
                                                     !.column = sess[s].column]]
  /\ UNCHANGED <<people, events, claims, row, clock, byCard, start, history, bounds>>

\* The work is over, one way or another, and releaseSession takes the session
\* out of active and byCard.
EndSession(s) ==
  /\ sess[s].phase = "live"
  /\ sess' = [sess EXCEPT ![s] = [FreeSession EXCEPT !.phase = "released",
                                                     !.column = sess[s].column]]
  /\ byCard' = IF byCard[sess[s].card] = s
               THEN [byCard EXCEPT ![sess[s].card] = None] ELSE byCard
  /\ UNCHANGED <<people, events, claims, row, clock, start, history, bounds>>

\* drainColumn reads the head of the queue and the card as it is now.
DrainReads(s) ==
  /\ sess[s].phase = "released"
  /\ start[s].pc = "idle"
  /\ \E c \in NextQueued(sess[s].column) :
       start' = [start EXCEPT ![s] =
                   [pc |-> "agent", card |-> c, column |-> sess[s].column,
                    who |-> assignee[c], agent |-> None]]
  /\ UNCHANGED <<people, events, claims, row, clock, sess, byCard,
                 history, bounds>>

\* Nobody waits, or the queue or the card cannot be read.
DrainNothing(s) ==
  /\ sess[s].phase = "released"
  /\ start[s].pc = "idle"
  /\ NextQueued(sess[s].column) = {} \/ Faults
  /\ Return(s)
  /\ UNCHANGED <<people, events, claims, row, clock, byCard, history,
                 bounds>>

\* Slip: the start failed, and the card goes to the back of the queue.
DrainRefusedToBack(s) ==
  /\ start[s].pc = "refused"
  /\ row' = [row EXCEPT ![start[s].card].at = clock + 1]
  /\ Return(s)
  /\ UNCHANGED <<people, events, claims, clock, byCard, history, bounds>>

\* The start failed: the card leaves the queue all the same.
DrainRefused(s) ==
  /\ start[s].pc = "refused"
  /\ Dequeue(start[s].card)
  /\ Return(s)
  /\ UNCHANGED <<people, events, claims, clock, byCard, history, bounds>>

\* Slip: the card started and still waits.
DrainStartedStays(s) ==
  /\ start[s].pc = "dequeue"
  /\ Return(s)
  /\ UNCHANGED <<people, events, claims, row, clock, byCard, history, bounds>>

\* The start went through: the card leaves the queue.
DrainStarted(s) ==
  /\ start[s].pc = "dequeue"
  /\ Dequeue(start[s].card)
  /\ Return(s)
  /\ UNCHANGED <<people, events, claims, clock, byCard, history, bounds>>

\* The application goes down and comes up: what is in memory is gone, what is
\* in the database stays, and recover starts nothing.
Restart ==
  /\ restarts < MaxRestarts
  /\ restarts' = restarts + 1
  /\ events' = [c \in Cards |-> <<>>]
  /\ sess' = [s \in Sessions |-> FreeSession]
  /\ byCard' = [c \in Cards |-> None]
  /\ start' = [p \in Starters |-> IdleStart]
  /\ UNCHANGED <<people, claims, row, clock, history, moves, edits>>

-----------------------------------------------------------------------------

PeopleAct ==
  \/ \E c \in Cards, k \in Columns \cup {Elsewhere} : MoveCard(c, k)
  \/ \E c \in Cards, w \in Whos : Assign(c, w)
  \/ \E c \in Cards : CancelSession(c)

StartStep(p) ==
  \/ Refuse(p)
  \/ TakeAssignee(p)
  \/ TakeFree(p)
  \/ TakeOnlyAgent(p)
  \/ CrewBusy(p)
  \/ PassLimit(p)
  \/ LimitReached(p)
  \/ \E s \in Sessions : Commit(p, s)

LoopStep == HandleEvent \/ StartStep(Loop) \/ Park \/ LoopRefused

DrainStep(s) ==
  \/ DrainReads(s)
  \/ DrainNothing(s)
  \/ StartStep(s)
  \/ DrainRefused(s)
  \/ DrainStarted(s)

Next ==
  \/ PeopleAct
  \/ \E m \in claims : ExpireClaim(m)
  \/ DropEvent
  \/ LoopStep
  \/ \E s \in Sessions : DrainStep(s)
  \/ \E s \in Sessions : BeginTurn(s) \/ EndSession(s)
  \/ Restart

Spec == Init /\ [][Next]_vars

\* Goroutines are scheduled, and a turn that was told to stop does: its context
\* is cancelled.  Any other may talk for ever, and so may a handshake, which no
\* cancel reaches and no timer ends (openConnection).
FairSpec ==
  /\ Spec
  /\ WF_vars(LoopStep)
  /\ \A s \in Sessions : WF_vars(DrainStep(s))
  /\ \A s \in Sessions : WF_vars(/\ sess[s].cancelled
                                /\ sess[s].turn
                                /\ EndSession(s))

\* The same, when every session is also brought to an end sooner or later.
PatientSpec == FairSpec /\ \A s \in Sessions : WF_vars(EndSession(s))

-----------------------------------------------------------------------------
(* Properties                                                              *)

\* The variables keep their types, a start under way knows its card and its
\* column, and a session that occupies a goroutine knows its own.
TypeOK ==
  /\ board \in [Cards -> Columns \cup {Elsewhere}]
  /\ assignee \in [Cards -> Whos]
  /\ events \in [Cards -> Seq(Event)]
  /\ claims \subseteq Move
  /\ row \in [Cards -> Row]
  /\ clock \in Nat
  /\ sess \in [Sessions -> Session]
  /\ byCard \in [Cards -> Sessions \cup {None}]
  /\ start \in [Starters -> Start]
  /\ \A p \in Starters : start[p].pc # "idle" =>
       start[p].card \in Cards /\ start[p].column \in Columns
  /\ \A s \in Sessions :
       /\ sess[s].phase # "free" => sess[s].column \in Columns
       /\ sess[s].phase = "live" => sess[s].card \in Cards
  /\ raced \subseteq Columns
  /\ missed \subseteq Cards
  /\ moves \in Nat
  /\ edits \in Nat
  /\ restarts \in Nat

\* Manager.byCard names a live session of that very card, so a cancel never
\* reaches a session that is over or somebody else's (manager.go, release).
ByCardLive ==
  \A c \in Cards : byCard[c] # None =>
    sess[byCard[c]].phase = "live" /\ sess[byCard[c]].card = c

\* A column's limit is exceeded only where two starts into it have been
\* between the limit check and Manager.active at the same time.
WipUnlessRaced ==
  \A k \in Columns : MaxRunning[k] > 0 /\ k \notin raced =>
    Cardinality(Running(k)) <= MaxRunning[k]

\* One card is worked by one session at a time.
OneSessionPerCard ==
  \A s, t \in Sessions :
    /\ sess[s].phase = "live"
    /\ sess[t].phase = "live"
    /\ sess[s].card = sess[t].card
    => s = t

\* Every event has been handled and no start is under way.
Calm == Untold = {} /\ \A p \in Starters : start[p].pc = "idle"

\* Once everything is handled, a session still at work, not told to stop, is
\* working a card that still stands in some working column - unless a move of
\* that card was dropped, or told after a move that was made later.
LeavingWorkCancels ==
  Calm => \A s \in Sessions :
    sess[s].phase = "live" /\ ~sess[s].cancelled =>
      board[sess[s].card] \in Columns \/ sess[s].card \in missed

\* A row of the queue stays as it was written until it is deleted: a card that
\* comes back to a full column, or whose start found it full again, keeps the
\* time it queued at, which drains go by (EnqueueStage, NextQueuedStage).  That
\* is its turn among those that wait and no more: a card dragged in as a place
\* frees does not look at the queue and may be quicker than all of them.
TurnKept ==
  [][\A c \in Cards : Queued(c) /\ Queued(c)' => row'[c] = row[c]]_row

\* When people leave the board alone, the manager settles: every event is
\* handled, every drain returns, and of the sessions that were told to stop only
\* those are left whose agent has not answered the handshake.
Settles ==
  <>[](/\ Calm
       /\ \A s \in Sessions :
            \/ sess[s].phase = "free"
            \/ sess[s].phase = "live" /\ (sess[s].turn => ~sess[s].cancelled))

\* A card that waits while somebody works its column is never forgotten: the
\* place that session frees is filled (drainColumn), and when somebody else was
\* quicker, that one's end is the next chance.  Holds where all agents work one
\* column, nothing fails and every session ends.
WaitingBehindWorkStarts ==
  \A c \in Cards :
    (\E k \in Columns : row[c].column = k /\ Running(k) # {}) ~> ~Queued(c)

\* The documented promise of the queue: a waiting card starts by itself, or is
\* told why not, or is taken out of its column.
StartsByItself == \A c \in Cards : Queued(c) ~> ~Queued(c)
=============================================================================
