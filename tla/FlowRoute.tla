------------------------------ MODULE FlowRoute ------------------------------
(***************************************************************************)
(* One card on a route (flowengine.go): where the board shows it, where    *)
(* the route has it (saveFlowState), and everybody who moves it at once -  *)
(* the person who drags it, the trigger loop and the goroutines it starts  *)
(* for a drag (handleFlowMove), the sessions of its stages when they end   *)
(* (flowAfterSession) and the watcher of the repository (OnVCSEvent).  All *)
(* of them come to enterNode, which moves the card, records its place,     *)
(* waits for the last session (waitForCardIdle) and starts the next stage. *)
(* A stage whose column is full waits in the queue, and a session that     *)
(* ends there, of this card or another, starts it (drainColumn).           *)
(*                                                                         *)
(* A transition is cut at every read of the card and every write to it: a  *)
(* thread may be overtaken between any two.  What startSession does with   *)
(* a stage is StageQueue's; here a stage starts, is put off or fails.      *)
(* A move the route makes itself is silent and comes back to nobody.       *)
(* Reads of the board succeed, and so do reads and writes of the database; *)
(* writes to the board may fail: a move of the card, which then stays, and *)
(* a record of its place, which is only logged.                            *)
(*                                                                         *)
(* A definition marked "Slip" is not the code: it is the definition below  *)
(* it with a mistake, there to see that a property would notice.           *)
(***************************************************************************)
EXTENDS Integers, Sequences

CONSTANTS
  Nodes,        \* the stages of the route, each on a column of its own
  Works,        \* stages that do something
  Edges,        \* transitions [from, on, to, cond]: cond asks for the option
  Off,          \* the columns off the route
  Starts,       \* where the card may stand when the application comes up
  Sessions,     \* sessions the stages may get
  Loop, Watch,  \* the trigger loop and the watcher
  Drains,       \* goroutines of ended sessions that drain the stage's column
  MaxChances,   \* bound on drags of the card, changes of the option on it,
                \* and moves, records and starts that fail
  None

Triggers == {"success", "failure", "changed", "merged"}

ASSUME FlowRouteAssumption ==
  /\ Works \subseteq Nodes
  /\ Edges \subseteq [from : Nodes, on : Triggers, to : Nodes, cond : BOOLEAN]
  /\ Off \notin Nodes
  /\ Starts \subseteq Nodes \cup {Off}
  /\ None \notin Nodes \cup Sessions \cup {Off}
  /\ MaxChances \in Nat
  /\ Loop # Watch
  /\ {Loop, Watch} \cap (Sessions \cup Drains \cup (1 .. MaxChances)) = {}
  /\ (Sessions \cup Drains) \cap (1 .. MaxChances) = {}
  /\ Sessions \cap Drains = {}

VARIABLES
  column,    \* where the board shows the card
  option,    \* whether the option a condition asks for is set on it
  at,        \* the card's place on the route, on the card (FlowState.NodeID)
  index,     \* the same in this machine's table, which the watcher reads
  stalled,   \* whether the card carries a reason why nothing happens
  waiting,   \* the stage in the card's row of the stage queue
  queue,     \* events of the board on their way to the trigger loop
  keys,      \* idempotency keys that may be inside their window
  byCard,    \* Manager.byCard of this card
  sess,      \* each session: its stage, its phase and its outcome
  merged,    \* whether the card's branch is in the default branch
  latched,   \* whether that is in vcs_seen
  thread,    \* where each thread is in a transition
  unwritten, \* history: the card could not be told its place when it last
             \* changed
  mislaid,   \* history: sessions of stages the card could not be told of
  overtaken, \* history: sessions the card was taken from without a cancel
             \* they heeded
  rushed,    \* history: a stage was started without waiting, or beside another
  crossed,   \* history: two threads wrote the card's place over one another,
             \* or a drag was told before the one that came first
  swallowed, \* history: an event was taken for a duplicate
  chances    \* counted against the bound

board == <<column, option>>
recorded == <<at, index, unwritten>>
place == <<recorded, stalled>>
repo == <<merged, latched>>
started == <<waiting, mislaid>>
history == <<overtaken, rushed, crossed, swallowed>>
vars == <<column, option, at, index, stalled, waiting, queue, keys, byCard,
          sess, merged, latched, thread, unwritten, mislaid, overtaken, rushed,
          crossed, swallowed, chances>>

Drags == 1 .. MaxChances
Threads == {Loop, Watch} \cup Drags \cup Sessions \cup Drains
Columns == Nodes \cup {Off}

Thread == [pc : {"idle", "read", "choose", "move", "save", "wait", "start",
                  "drain", "dequeue"},
           on : Triggers \cup {"drag"},
           own : BOOLEAN,            \* a session's own outcome
           from : Nodes \cup {None},
           to : Nodes \cup {None}]
Rest == [pc |-> "idle", on |-> "drag", own |-> FALSE,
         from |-> None, to |-> None]
Reading(trigger, own) ==
  [Rest EXCEPT !.pc = "read", !.on = trigger, !.own = own]

Session == [stage : Nodes \cup {None},
            phase : {"unused", "work", "stopping", "over", "gone"},
            outcome : {"none", "success", "failure"}]
Live(s) == sess[s].phase \in {"work", "stopping", "over"}
\* The session's outcome is on its way to the route.
Telling(s) == sess[s].phase = "over" \/ thread[s].pc = "read"

HasEdge(n, on) == \E e \in Edges : e.from = n /\ e.on = on
\* FlowEntry.Next: an edge whose condition holds, else the one without any.
Held(n, on) == {e \in Edges : e.from = n /\ e.on = on /\ e.cond /\ option}
Plain(n, on) == {e \in Edges : e.from = n /\ e.on = on /\ ~e.cond}
NextEdges(n, on) == IF Held(n, on) # {} THEN Held(n, on) ELSE Plain(n, on)

MoveKey(from, to) == <<"flow", from, to>>
EdgeKey(n, on) == <<"edge", n, on>>

Init ==
  /\ column \in Starts
  /\ option = FALSE
  /\ at = IF column \in Nodes THEN column ELSE None
  /\ index = at
  /\ stalled = FALSE
  /\ waiting = None
  /\ queue = <<>>
  /\ keys = {}
  /\ byCard = None
  /\ sess = [s \in Sessions |->
               [stage |-> None, phase |-> "unused", outcome |-> "none"]]
  /\ merged = FALSE
  /\ latched = FALSE
  /\ thread = [t \in Threads |-> Rest]
  /\ unwritten = FALSE
  /\ mislaid = {}
  /\ overtaken = {}
  /\ rushed = FALSE
  /\ crossed = FALSE
  /\ swallowed = FALSE
  /\ chances = 0

Chance == chances < MaxChances /\ chances' = chances + 1

-----------------------------------------------------------------------------
(* People                                                                  *)

Drag(c) ==
  /\ Chance
  /\ c # column
  /\ column' = c
  /\ queue' = Append(queue, [kind |-> "move", by |-> chances + 1,
                             from |-> column, to |-> c])
  /\ UNCHANGED <<option, place, started, keys, byCard, sess, repo, thread, history>>

Mark ==
  /\ Chance
  /\ option' = ~option
  /\ queue' = IF option THEN queue
              ELSE Append(queue, [kind |-> "mark", by |-> 0,
                                  from |-> Off, to |-> Off])
  /\ UNCHANGED <<column, place, started, keys, byCard, sess, repo, thread, history>>

Merge ==
  /\ ~merged
  /\ merged' = TRUE
  /\ UNCHANGED <<board, place, queue, started, keys, byCard, sess, latched, thread,
                 history, chances>>

-----------------------------------------------------------------------------
(* The trigger loop                                                        *)

\* Ten workers of the board's notifier tell the loop what happened, each an
\* event of its own: a later one may come first.
Overtake(i) ==
  /\ i \in 1 .. Len(queue) - 1
  /\ queue' = [queue EXCEPT ![i] = queue[i + 1], ![i + 1] = queue[i]]
  /\ crossed' = (crossed \/ {queue[i].kind, queue[i + 1].kind} = {"move"})
  /\ UNCHANGED <<board, place, started, keys, byCard, sess, repo, thread, overtaken,
                 rushed, swallowed, chances>>

\* CancelSessionForCard: a session that is over keeps its outcome, and one that
\* is on its way to its end, or to its agent, may not heed the cancel.
AtWork == {s \in Sessions : s = byCard /\ sess[s].phase = "work"}
Cancel ==
  \E heeding \in SUBSET AtWork :
    /\ sess' = [s \in Sessions |->
                  IF s \in heeding THEN [sess[s] EXCEPT !.phase = "stopping"]
                  ELSE sess[s]]
    /\ overtaken' = overtaken \cup (AtWork \ heeding)
                              \cup {s \in Sessions : Telling(s)}
KeepSessions == UNCHANGED <<sess, overtaken>>

Writing(t) == thread[t].pc \in {"choose", "move", "save"}
Handling == queue # <<>> /\ thread[Loop].pc = "idle"
Event == Head(queue)

\* Slip: the session is cancelled and the card keeps its place on the route.
HandleLeaveKeeps ==
  /\ Handling
  /\ Event.kind = "move" /\ Event.to \notin Nodes
  /\ queue' = Tail(queue)
  /\ IF Event.from \in Nodes THEN Cancel ELSE KeepSessions
  /\ UNCHANGED <<board, place, started, keys, byCard, repo, thread, rushed, crossed,
                 swallowed, chances>>

\* handleFlowMove, a column off the route: the card is let go, and the table
\* with it; that the card itself could not be told is only logged
\* (clearFlowState).
Forgotten ==
  \/ at' = None /\ unwritten' = FALSE /\ UNCHANGED chances
  \/ Chance /\ unwritten' = TRUE /\ UNCHANGED at
HandleLeave ==
  /\ Handling
  /\ Event.kind = "move" /\ Event.to \notin Nodes
  /\ queue' = Tail(queue)
  /\ IF Event.from \in Nodes
     THEN /\ Cancel
          /\ Forgotten
          /\ index' = None
          /\ stalled' = FALSE
          /\ crossed' = (crossed \/ \E t \in Threads : Writing(t))
     ELSE KeepSessions /\ UNCHANGED <<place, crossed, chances>>
  /\ UNCHANGED <<board, started, keys, byCard, repo, thread, rushed, swallowed>>

\* Slip: the session of the stage the card left goes on.
HandleEnterKeeps ==
  /\ Handling
  /\ Event.kind = "move" /\ Event.to \in Nodes
  /\ queue' = Tail(queue)
  /\ keys' = keys \cup {MoveKey(Event.from, Event.to)}
  /\ thread' = [thread EXCEPT ![Event.by] =
                  [Rest EXCEPT !.pc = "save", !.to = Event.to]]
  /\ crossed' = (crossed \/ \E t \in Threads : Writing(t))
  /\ UNCHANGED <<board, place, started, byCard, sess, overtaken, repo, rushed,
                 swallowed, chances>>

\* ... a stage: its session is cancelled and a goroutine enters the new one.
HandleEnter ==
  /\ Handling
  /\ Event.kind = "move" /\ Event.to \in Nodes
  /\ queue' = Tail(queue)
  /\ keys' = keys \cup {MoveKey(Event.from, Event.to)}
  /\ Cancel
  /\ thread' = [thread EXCEPT ![Event.by] =
                  [Rest EXCEPT !.pc = "save", !.to = Event.to]]
  /\ crossed' = (crossed \/ \E t \in Threads : Writing(t))
  /\ UNCHANGED <<board, place, started, byCard, repo, rushed, swallowed,
                 chances>>

\* claimIdempotent: the same drag within the window is one drag.  Whether the
\* window has passed is left open.
HandleAgain ==
  /\ Handling
  /\ Event.kind = "move" /\ Event.to \in Nodes
  /\ MoveKey(Event.from, Event.to) \in keys
  /\ queue' = Tail(queue)
  /\ swallowed' = TRUE
  /\ KeepSessions
  /\ UNCHANGED <<board, place, started, keys, byCard, repo, thread, rushed, crossed,
                 chances>>

\* handleCardChanged: a stage that waits for the option is left by it, in the
\* loop itself.
HandleMark ==
  /\ Handling
  /\ Event.kind = "mark"
  /\ queue' = Tail(queue)
  /\ IF \E e \in Edges : e.from = at /\ e.on = "changed" /\ e.cond
     THEN /\ Cancel
          /\ thread' = [thread EXCEPT ![Loop] = Reading("changed", FALSE)]
     ELSE KeepSessions /\ UNCHANGED thread
  /\ UNCHANGED <<board, place, started, keys, byCard, repo, rushed, crossed, swallowed,
                 chances>>

-----------------------------------------------------------------------------
(* Transitions: advanceFlowWith and enterNode                              *)

To(t, pc) == thread' = [thread EXCEPT ![t].pc = pc]
Quit(t) == thread' = [thread EXCEPT ![t] = Rest]
Follow(t, edges) ==
  \E e \in edges : thread' = [thread EXCEPT ![t].pc = "move", ![t].to = e.to]
Said(trigger) == trigger \in {"success", "failure"}

\* The card's place, and whether its stage listens: an outcome nobody listens
\* for is said on the card.
Read(t) ==
  /\ thread[t].pc = "read"
  /\ IF at # None /\ HasEdge(at, thread[t].on)
     THEN /\ thread' = [thread EXCEPT ![t].pc = "choose", ![t].from = at]
          /\ UNCHANGED stalled
     ELSE /\ Quit(t)
          /\ stalled' = (stalled \/ (at # None /\ Said(thread[t].on)))
  /\ UNCHANGED <<board, recorded, queue, started, keys, byCard, sess, repo, history,
                 chances>>

\* Slip: the reason that no condition held is not recorded.
ChooseSilently(t) ==
  /\ thread[t].pc = "choose"
  /\ LET edges == NextEdges(thread[t].from, thread[t].on)
         key == EdgeKey(thread[t].from, thread[t].on)
     IN IF edges = {}
        THEN Quit(t) /\ UNCHANGED <<keys, swallowed>>
        ELSE /\ keys' = keys \cup {key}
             /\ \/ Follow(t, edges) /\ UNCHANGED swallowed
                \/ key \in keys /\ Quit(t) /\ swallowed' = TRUE
  /\ UNCHANGED <<board, place, queue, started, byCard, sess, repo, overtaken, rushed,
                 crossed, chances>>

\* The card is read, an edge is chosen, and the event is claimed for the stage.
Choose(t) ==
  /\ thread[t].pc = "choose"
  /\ LET edges == NextEdges(thread[t].from, thread[t].on)
         key == EdgeKey(thread[t].from, thread[t].on)
     IN IF edges = {}
        THEN /\ Quit(t)
             /\ stalled' = (stalled \/ thread[t].on # "merged")
             /\ UNCHANGED <<keys, swallowed>>
        ELSE /\ keys' = keys \cup {key}
             /\ UNCHANGED stalled
             /\ \/ Follow(t, edges) /\ UNCHANGED swallowed
                \/ key \in keys /\ Quit(t) /\ swallowed' = TRUE
  /\ UNCHANGED <<board, recorded, queue, started, byCard, sess, repo, overtaken, rushed,
                 crossed, chances>>

\* What the transition read of the card is no longer so, or about to change.
Stale(t) ==
  \/ \E u \in Threads : thread[u].pc = "save"
  \/ \E i \in 1 .. Len(queue) : queue[i].kind = "move"

\* MoveCardByOptionName: the card goes there from wherever it is now.
Move(t) ==
  /\ thread[t].pc = "move"
  /\ column' = thread[t].to
  /\ crossed' = (crossed \/ Stale(t))
  /\ To(t, "save")
  /\ UNCHANGED <<option, place, queue, started, keys, byCard, sess, repo, overtaken,
                 rushed, swallowed, chances>>

MoveFails(t) ==
  /\ thread[t].pc = "move"
  /\ Chance
  /\ stalled' = TRUE
  /\ Quit(t)
  /\ UNCHANGED <<board, recorded, queue, started, keys, byCard, sess, repo, history>>

\* An outcome, a merge or a stage that would not start takes the card from a
\* session that works.  An option cancels the one at work when it is handled,
\* and not one that starts before it is followed; a drag is followed at once.
Outrun(t) == {s \in Sessions \ {t} : /\ thread[t].on # "drag"
                                     /\ Live(s) \/ Telling(s)}

\* The card's place is recorded on it and in the table; that the card could not
\* be told is only logged, and the route goes on (saveFlowState).
Recorded(n) ==
  /\ index' = n
  /\ \/ at' = n /\ unwritten' = FALSE /\ UNCHANGED chances
     \/ Chance /\ unwritten' = TRUE /\ UNCHANGED at

\* Slip: the next stage does not wait for the last one's session.
SaveAndStart(t) ==
  /\ thread[t].pc = "save"
  /\ Recorded(thread[t].to)
  /\ stalled' = FALSE
  /\ overtaken' = overtaken \cup Outrun(t)
  /\ IF thread[t].to \in Works THEN To(t, "start") ELSE Quit(t)
  /\ UNCHANGED <<board, queue, started, keys, byCard, sess, repo, rushed, crossed,
                 swallowed>>

\* clearStall, saveFlowState, and on to runNodeAction.
Save(t) ==
  /\ thread[t].pc = "save"
  /\ Recorded(thread[t].to)
  /\ stalled' = FALSE
  /\ overtaken' = overtaken \cup Outrun(t)
  /\ IF thread[t].to \in Works THEN To(t, "wait") ELSE Quit(t)
  /\ UNCHANGED <<board, queue, started, keys, byCard, sess, repo, rushed, crossed,
                 swallowed>>

Starting(t) == thread[t].pc \in {"start", "drain"}

\* waitForCardIdle, and its deadline.
Idle(t) ==
  /\ thread[t].pc = "wait"
  /\ byCard = None
  /\ To(t, "start")
  /\ rushed' = (rushed \/ \E u \in Threads : Starting(u))
  /\ UNCHANGED <<board, place, queue, started, keys, byCard, sess, repo, overtaken,
                 crossed, swallowed, chances>>

WaitedEnough(t) ==
  /\ thread[t].pc = "wait"
  /\ byCard # None
  /\ To(t, "start")
  /\ rushed' = TRUE
  /\ overtaken' = overtaken \cup {s \in Sessions : Live(s)}
  /\ UNCHANGED <<board, place, queue, started, keys, byCard, sess, repo, crossed,
                 swallowed, chances>>

\* The stage is started behind the back of whoever moves the card on, or after
\* it was moved; and the session byCard named before it is nobody's to cancel
\* any more.
Late(t) == index # thread[t].to \/ \E u \in Threads : Writing(u)
StartSession(t, s) ==
  /\ sess[s].phase = "unused"
  /\ sess' = [sess EXCEPT ![s].phase = "work", ![s].stage = thread[t].to]
  /\ byCard' = s
  /\ stalled' = FALSE
  /\ overtaken' = overtaken \cup {u \in {s} : Late(t)}
                            \cup {u \in Sessions : Live(u)}
  /\ mislaid' = mislaid \cup {u \in {s} : /\ index = thread[t].to
                                          /\ at # thread[t].to}

Start(t, s) ==
  /\ thread[t].pc = "start"
  /\ StartSession(t, s)
  /\ Quit(t)
  /\ UNCHANGED <<board, recorded, queue, waiting, keys, repo, rushed, crossed,
                 swallowed, chances>>

\* errStageBusy, enqueueStage: the card waits, and if it has a row in the queue
\* already, it keeps that one.
StartQueued(t) ==
  /\ thread[t].pc = "start"
  /\ waiting' = IF waiting = None THEN thread[t].to ELSE waiting
  /\ stalled' = FALSE
  /\ Quit(t)
  /\ UNCHANGED <<board, recorded, queue, mislaid, keys, byCard, sess, repo,
                 history, chances>>

\* The card is a person's, or its folder another card's or not saved: it says
\* so and keeps its place.
StartStays(t) ==
  /\ thread[t].pc = "start"
  /\ stalled' = TRUE
  /\ Quit(t)
  /\ UNCHANGED <<board, recorded, queue, started, keys, byCard, sess, repo,
                 history, chances>>

\* Anything else that keeps a stage from starting is its failure.
StartFails(t) ==
  /\ thread[t].pc = "start"
  /\ Chance
  /\ stalled' = TRUE
  /\ thread' = [thread EXCEPT ![t] = Reading("failure", FALSE)]
  /\ UNCHANGED <<board, recorded, queue, started, keys, byCard, sess, repo,
                 history>>

-----------------------------------------------------------------------------
(* The queue of the stage's column: drainColumn                            *)

\* The card's row is the next one.  Nobody looks where the card stands now, or
\* waits for its session.
DrainReads(t) ==
  /\ thread[t].pc = "idle"
  /\ waiting # None
  /\ thread' = [thread EXCEPT ![t].pc = "drain", ![t].to = waiting]
  /\ rushed' = (rushed \/ byCard # None \/ \E u \in Threads : Starting(u))
  /\ UNCHANGED <<board, place, queue, started, keys, byCard, sess, repo,
                 overtaken, crossed, swallowed, chances>>

DrainStarts(t, s) ==
  /\ thread[t].pc = "drain"
  /\ StartSession(t, s)
  /\ To(t, "dequeue")
  /\ UNCHANGED <<board, recorded, queue, waiting, keys, repo, rushed, crossed,
                 swallowed, chances>>

\* The card has started: its row goes, whichever stage it is of by now.
Dequeue(t) ==
  /\ thread[t].pc = "dequeue"
  /\ waiting' = None
  /\ Quit(t)
  /\ UNCHANGED <<board, place, queue, mislaid, keys, byCard, sess, repo, history,
                 chances>>

\* Somebody else took the place: the row stays.
DrainBusy(t) ==
  /\ thread[t].pc = "drain"
  /\ Quit(t)
  /\ UNCHANGED <<board, place, queue, started, keys, byCard, sess, repo, history,
                 chances>>

\* The card is a person's by now.
DrainTaken(t) ==
  /\ thread[t].pc = "drain"
  /\ waiting' = None
  /\ stalled' = TRUE
  /\ Quit(t)
  /\ UNCHANGED <<board, recorded, queue, mislaid, keys, byCard, sess, repo,
                 history, chances>>

\* Whatever else kept it from starting, a folder that is not free included, is
\* the failure of the stage the card stands at now.
DrainFails(t) ==
  /\ thread[t].pc = "drain"
  /\ Chance
  /\ waiting' = None
  /\ stalled' = TRUE
  /\ thread' = [thread EXCEPT ![t] = Reading("failure", FALSE)]
  /\ UNCHANGED <<board, recorded, queue, mislaid, keys, byCard, sess, repo,
                 history>>

-----------------------------------------------------------------------------
(* Sessions and the watcher                                                *)

\* A cancelled session has no outcome (flowOutcome), nor has one whose time is
\* up, whose agent stops by itself, or whose folder turns out not to be free or
\* whose terminal is closed, which the card says.
Finish(s, outcome) ==
  /\ sess[s].phase \in {"work", "stopping"}
  /\ outcome \in {"none", "success", "failure"}
  /\ sess[s].phase = "stopping" => outcome = "none"
  /\ sess' = [sess EXCEPT ![s].phase = "over", ![s].outcome = outcome]
  /\ stalled' \in {stalled, stalled \/ outcome = "none"}
  /\ UNCHANGED <<board, recorded, queue, started, keys, byCard, repo, thread,
                 history, chances>>

\* Slip: the card keeps the name of the session that is gone.
ReleaseKeeps(s) ==
  /\ sess[s].phase = "over"
  /\ sess' = [sess EXCEPT ![s].phase = "gone"]
  /\ thread' = [thread EXCEPT ![s] = IF sess[s].outcome = "none" THEN Rest
                                     ELSE Reading(sess[s].outcome, TRUE)]
  /\ UNCHANGED <<board, place, queue, started, keys, byCard, repo, history, chances>>

\* releaseSession, and flowAfterSession after it.
Release(s) ==
  /\ sess[s].phase = "over"
  /\ sess' = [sess EXCEPT ![s].phase = "gone"]
  /\ byCard' = IF byCard = s THEN None ELSE byCard
  /\ thread' = [thread EXCEPT ![s] = IF sess[s].outcome = "none" THEN Rest
                                     ELSE Reading(sess[s].outcome, TRUE)]
  /\ UNCHANGED <<board, place, queue, started, keys, repo, history, chances>>

\* Slip: a card at work is left alone, and the merge is latched all the same.
PollPolitely ==
  /\ thread[Watch].pc = "idle"
  /\ index # None /\ HasEdge(index, "merged")
  /\ merged /\ ~latched
  /\ latched' = TRUE
  /\ thread' = [thread EXCEPT ![Watch] = IF byCard = None
                                        THEN Reading("merged", FALSE) ELSE Rest]
  /\ UNCHANGED <<board, place, queue, started, keys, byCard, sess, merged, history,
                 chances>>

\* FlowTargets, PollVCS and deliverVCSEvent: only a stage that waits for the
\* merge is asked about, and the merge is delivered once.
Poll ==
  /\ thread[Watch].pc = "idle"
  /\ index # None /\ HasEdge(index, "merged")
  /\ merged /\ ~latched
  /\ latched' = TRUE
  /\ thread' = [thread EXCEPT ![Watch] = Reading("merged", FALSE)]
  /\ UNCHANGED <<board, place, queue, started, keys, byCard, sess, merged, history,
                 chances>>

-----------------------------------------------------------------------------

Handle == HandleLeave \/ HandleEnter \/ HandleAgain \/ HandleMark

Transit(t) ==
  \/ Read(t) \/ Choose(t) \/ Move(t) \/ MoveFails(t) \/ Save(t)
  \/ Idle(t) \/ WaitedEnough(t)
  \/ (\E s \in Sessions : Start(t, s) \/ DrainStarts(t, s))
  \/ StartQueued(t) \/ StartStays(t) \/ StartFails(t)
  \/ Dequeue(t) \/ DrainBusy(t) \/ DrainTaken(t) \/ DrainFails(t)

Next ==
  \/ \E c \in Columns : Drag(c)
  \/ Mark
  \/ Merge
  \/ \E i \in 1 .. Len(queue) : Overtake(i)
  \/ Handle
  \/ \E t \in Threads : Transit(t)
  \/ \E t \in Drains : DrainReads(t)
  \/ \E s \in Sessions, o \in {"none", "success", "failure"} : Finish(s, o)
  \/ \E s \in Sessions : Release(s)
  \/ Poll

Spec == Init /\ [][Next]_vars

\* Goroutines run, the wait has a deadline, the watcher polls for ever, and a
\* session that is over is released.  Nothing makes a session end, of this card
\* or of another whose end would drain the column.
FairSpec ==
  /\ Spec
  /\ WF_vars(Handle) /\ WF_vars(Poll)
  /\ \A t \in Threads : WF_vars(Transit(t))
  /\ \A s \in Sessions : WF_vars(Release(s))

-----------------------------------------------------------------------------
(* Properties                                                              *)

\* The variables keep their types; byCard names a live session.
TypeOK ==
  /\ column \in Columns
  /\ option \in BOOLEAN
  /\ at \in Nodes \cup {None}
  /\ index \in Nodes \cup {None}
  /\ waiting \in Works \cup {None}
  /\ stalled \in BOOLEAN
  /\ queue \in Seq([kind : {"move", "mark"}, by : 0 .. MaxChances,
                    from : Columns, to : Columns])
  /\ keys \subseteq {MoveKey(c, d) : c \in Columns, d \in Columns}
                    \cup {EdgeKey(n, on) : n \in Nodes, on \in Triggers}
  /\ byCard \in Sessions \cup {None}
  /\ byCard # None => Live(byCard)
  /\ sess \in [Sessions -> Session]
  /\ merged \in BOOLEAN
  /\ latched \in BOOLEAN
  /\ thread \in [Threads -> Thread]
  /\ unwritten \in BOOLEAN
  /\ mislaid \subseteq Sessions
  /\ overtaken \subseteq Sessions
  /\ rushed \in BOOLEAN
  /\ crossed \in BOOLEAN
  /\ swallowed \in BOOLEAN
  /\ chances \in 0 .. MaxChances

\* An outcome moves the card on from the stage it is the outcome of, unless the
\* card was taken from that session without a cancel it heeded - it was over
\* already (advanceFlowWith goes by where the card stands now), or about to be,
\* or it started late or out of the queue after the card had left, or something
\* other than a person moved the card on - or the card could not be told of the
\* stage when it was entered, and still says the one before it.
OutcomeOfItsStage ==
  \A s \in Sessions :
    thread[s].own /\ thread[s].from # None
      => thread[s].from = sess[s].stage \/ s \in overtaken \cup mislaid

\* A card has two sessions only after a stage was started without waiting for
\* the last one, by a wait that came to its end or by a drain, which does not
\* wait, or two starts were under way together (waitForCardIdle).
OneSessionAtATime ==
  rushed \/ \A s, u \in Sessions : Live(s) /\ Live(u) => s = u

\* When everything has been dealt with, the board and the route agree on where
\* the card is, unless one thread wrote its place over another's, or a drag was
\* told before the one that came first, or taken for the drag before it.  What
\* the card says of its place may be older, where it could not be told of the
\* last change; what the watcher goes by is not.
Quiet == queue = <<>> /\ \A t \in Threads : thread[t].pc = "idle"
Shown(n) == IF n = None THEN Off ELSE n
StandsWhereShown ==
  Quiet => \/ crossed
           \/ swallowed
           \/ column = Shown(index) /\ (at = index \/ unwritten)

\* The outcome of a session that was not overtaken moves the card on or leaves
\* a reason on it (advanceFlowWith, stallCardSoft): a route does not stop
\* without a word, unless the event was taken for a duplicate or the card was
\* moved meanwhile.  Where the card cannot be told of the next stage it is moved
\* there all the same.
OutcomeHeeded ==
  \A s \in Sessions :
    (sess[s].phase = "over" /\ sess[s].outcome # "none")
      ~> (stalled \/ swallowed \/ crossed \/ s \in overtaken
           \/ at # sess[s].stage \/ column # sess[s].stage)

\* A card that stands where every merge moves it on, as board, card and table
\* agree, is moved on when its branch is merged, unless that merge was latched
\* for an earlier stage.
WaitsForMerge(n) == \E e \in Edges : e.from = n /\ e.on = "merged" /\ ~e.cond
MergeMovesOn ==
  \A n \in {m \in Nodes : WaitsForMerge(m)} :
    ({column, at, index} = {n} /\ merged /\ ~latched)
      ~> (column # n \/ at # n \/ stalled \/ swallowed \/ crossed)

\* A session is to its route what SessionVerdict promises and SessionLife keeps:
\* it is told to stop or it is not, and is heard of once, at its end.  One that
\* stops by itself is one that was told to.
Stopped(s) == \/ sess[s].phase = "stopping"
              \/ sess[s].phase \in {"over", "gone"} /\ sess[s].outcome = "none"
Heard(s) == IF sess[s].phase # "gone" THEN None
            ELSE IF sess[s].outcome = "none" THEN "nothing"
            ELSE sess[s].outcome
Verdict == INSTANCE SessionVerdict WITH
  stopped <- {s \in Sessions : Stopped(s)},
  outcome <- [s \in Sessions |-> Heard(s)]
VerdictSpec == Verdict!Spec
=============================================================================
