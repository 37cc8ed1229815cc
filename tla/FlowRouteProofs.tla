--------------------------- MODULE FlowRouteProofs ---------------------------
(***************************************************************************)
(* What holds of FlowRoute for every route, every number of sessions and   *)
(* every bound: the inductive invariant, and what follows from it.         *)
(***************************************************************************)
EXTENDS FlowRoute, SequenceTheorems, TLAPS

-----------------------------------------------------------------------------
(* The inductive invariant                                                 *)

\* Where a thread goes is known when it goes there.
ThreadInv ==
  \A t \in Threads :
    /\ thread[t].pc \in {"read", "choose", "move"} => thread[t].on # "drag"
    /\ thread[t].pc = "choose" => thread[t].from \in Nodes
    /\ thread[t].pc \in {"move", "save"} => thread[t].to \in Nodes
    /\ thread[t].pc \in {"wait", "start", "drain"} => thread[t].to \in Works

\* Each drag is somebody's and goes somewhere.
QueueInv ==
  \A i \in 1 .. Len(queue) : queue[i].kind = "move" =>
    /\ queue[i].by \in Drags
    /\ queue[i].from # queue[i].to

\* A session comes to the route when it is gone, and not before.
GoneInv ==
  \A s \in Sessions :
    thread[s].pc # "idle" \/ thread[s].own => sess[s].phase = "gone"

\* While nobody starts beside a session, byCard names the one there is.
OneInv ==
  rushed \/
    /\ \A s \in Sessions : Live(s) => byCard = s
    /\ \A t \in Threads : Starting(t) => byCard = None
    /\ \A t, u \in Threads : Starting(t) /\ Starting(u) => t = u

\* A session that was not overtaken, of a stage the card was told of, and that
\* has something to say, or will have, is of the stage the card says it stands
\* at, and no drag is about to change that.
Tells(s) == \/ sess[s].phase = "work"
            \/ sess[s].phase = "over" /\ sess[s].outcome # "none"
            \/ thread[s].pc = "read" /\ thread[s].own
Dragging(t) == thread[t].pc = "save" /\ thread[t].on = "drag"
TellInv ==
  \A s \in Sessions \ (overtaken \cup mislaid) :
    /\ sess[s].phase = "work" => byCard = s
    /\ Tells(s) => at = sess[s].stage /\ \A t \in Threads : ~Dragging(t)

\* The last drag, else the thread that saves, else the route's own table says
\* where the board shows the card; and the card says the same as the table, or
\* could not be told.
IsMove(i) == queue[i].kind = "move"
LastMove(i) == IsMove(i) /\ \A j \in 1 .. Len(queue) : j > i => ~IsMove(j)
NoMove == \A i \in 1 .. Len(queue) : ~IsMove(i)
Saving(t) == thread[t].pc = "save"
StandInv ==
  crossed \/ swallowed \/
    /\ \A i \in 1 .. Len(queue) : LastMove(i) => queue[i].to = column
    /\ \A t \in Threads : NoMove /\ Saving(t) => thread[t].to = column
    /\ NoMove /\ (\A t \in Threads : ~Saving(t)) =>
         column = Shown(index)
    /\ \A t, u \in Threads : Saving(t) /\ Saving(u) => t = u

WrittenInv == at = index \/ unwritten

Typed == TypeOK /\ ThreadInv /\ QueueInv
IInv == /\ Typed /\ GoneInv /\ OneInv /\ TellInv /\ OutcomeOfItsStage
        /\ StandInv /\ WrittenInv

-----------------------------------------------------------------------------
(* Types                                                                   *)

LEMMA Apart ==
  /\ Loop \in Threads /\ Watch \in Threads
  /\ Drags \subseteq Threads /\ Sessions \subseteq Threads
  /\ Drains \subseteq Threads
  /\ Loop # Watch
  /\ Loop \notin Sessions /\ Watch \notin Sessions
  /\ \A d \in Drags : d \notin Sessions /\ d # Loop /\ d # Watch
  /\ \A d \in Drains : d \notin Sessions
  BY FlowRouteAssumption DEF Threads, Drags

LEMMA RestIsThread ==
  /\ Rest \in Thread
  /\ Rest.pc = "idle" /\ Rest.on = "drag" /\ Rest.own = FALSE /\ Rest.from = None
  BY DEF Rest, Thread

LEMMA ReadingIsThread ==
  ASSUME NEW trigger \in Triggers, NEW own \in BOOLEAN
  PROVE  /\ Reading(trigger, own) \in Thread
         /\ Reading(trigger, own).pc = "read"
         /\ Reading(trigger, own).on = trigger
         /\ Reading(trigger, own).own = own
         /\ Reading(trigger, own).from = None
  BY DEF Reading, Rest, Thread

LEMMA SavingIsThread ==
  ASSUME NEW n \in Nodes
  PROVE  /\ [Rest EXCEPT !.pc = "save", !.to = n] \in Thread
         /\ [Rest EXCEPT !.pc = "save", !.to = n].pc = "save"
         /\ [Rest EXCEPT !.pc = "save", !.to = n].on = "drag"
         /\ [Rest EXCEPT !.pc = "save", !.to = n].own = FALSE
         /\ [Rest EXCEPT !.pc = "save", !.to = n].to = n
  BY DEF Rest, Thread

\* Thread t becomes r and nobody else moves.
Becomes(t, r) ==
  /\ thread' \in [Threads -> Thread]
  /\ thread'[t] = r
  /\ \A u \in Threads \ {t} : thread'[u] = thread[u]

LEMMA ThreadBecomes ==
  ASSUME TypeOK, NEW t \in Threads, NEW r \in Thread,
         thread' = [thread EXCEPT ![t] = r]
  PROVE  Becomes(t, r)
  BY DEF TypeOK, Becomes

\* A thread goes on, keeping what it knows.
GoesOn(t, p) ==
  /\ thread' \in [Threads -> Thread]
  /\ thread'[t].pc = p
  /\ thread'[t].on = thread[t].on
  /\ thread'[t].own = thread[t].own
  /\ \A u \in Threads \ {t} : thread'[u] = thread[u]

LEMMA ToGoesOn ==
  ASSUME TypeOK, NEW t \in Threads, NEW p \in {"save", "wait", "start", "dequeue"},
         To(t, p)
  PROVE  /\ GoesOn(t, p)
         /\ thread'[t].from = thread[t].from
         /\ thread'[t].to = thread[t].to
<1>1. thread[t] \in Thread /\ thread \in [Threads -> Thread]
  BY DEF TypeOK
<1> DEFINE r == [thread[t] EXCEPT !.pc = p]
<1>2. /\ r \in Thread /\ r.pc = p /\ r.on = thread[t].on
      /\ r.own = thread[t].own /\ r.from = thread[t].from
      /\ r.to = thread[t].to
  BY <1>1 DEF Thread
<1>3. thread' = [thread EXCEPT ![t] = r]
  BY DEF To
<1> HIDE DEF r
<1> QED
  BY <1>2, <1>3, ThreadBecomes DEF Becomes, GoesOn

LEMMA QuitRests ==
  ASSUME TypeOK, NEW t \in Threads, Quit(t)
  PROVE  Becomes(t, Rest)
  BY RestIsThread, ThreadBecomes DEF Quit

LEMMA FollowGoesOn ==
  ASSUME TypeOK, NEW t \in Threads, NEW edges \in SUBSET Edges, Follow(t, edges)
  PROVE  /\ GoesOn(t, "move")
         /\ thread'[t].from = thread[t].from
         /\ thread'[t].to \in Nodes
<1>1. thread[t] \in Thread /\ thread \in [Threads -> Thread]
  BY DEF TypeOK
<1>2. PICK e \in edges : thread' = [thread EXCEPT ![t].pc = "move", ![t].to = e.to]
  BY DEF Follow
<1>3. e.to \in Nodes
  BY FlowRouteAssumption
<1> DEFINE r == [thread[t] EXCEPT !.pc = "move", !.to = e.to]
<1>4. /\ r \in Thread /\ r.pc = "move" /\ r.on = thread[t].on
      /\ r.own = thread[t].own /\ r.from = thread[t].from
      /\ r.to \in Nodes
  BY <1>1, <1>3 DEF Thread
<1>5. thread' = [thread EXCEPT ![t] = r]
  BY <1>1, <1>2
<1> HIDE DEF r
<1> QED
  BY <1>4, <1>5, ThreadBecomes DEF Becomes, GoesOn

LEMMA NextEdgesOfRoute ==
  ASSUME NEW n, NEW on
  PROVE  NextEdges(n, on) \subseteq Edges
  BY DEF NextEdges, Held, Plain

\* What each step of a transition makes of its thread.
LEMMA ReadGoesOn ==
  ASSUME Typed, NEW t \in Threads, Read(t)
  PROVE  \/ /\ GoesOn(t, "choose")
            /\ at \in Nodes
            /\ thread'[t].from = at
         \/ Becomes(t, Rest)
<1>1. thread[t] \in Thread /\ thread \in [Threads -> Thread] /\ TypeOK
  BY DEF Typed, TypeOK
<1>2. CASE at # None /\ HasEdge(at, thread[t].on)
  <2> DEFINE r == [thread[t] EXCEPT !.pc = "choose", !.from = at]
  <2>1. at \in Nodes
    BY <1>1, <1>2 DEF TypeOK
  <2>2. /\ r \in Thread /\ r.pc = "choose" /\ r.on = thread[t].on
        /\ r.own = thread[t].own /\ r.from = at
    BY <1>1, <2>1 DEF Thread
  <2>3. thread' = [thread EXCEPT ![t] = r]
    BY <1>1, <1>2 DEF Read
  <2> HIDE DEF r
  <2> QED
    BY <1>1, <2>1, <2>2, <2>3, ThreadBecomes DEF Becomes, GoesOn
<1>3. CASE ~(at # None /\ HasEdge(at, thread[t].on))
  BY <1>1, <1>3, QuitRests DEF Read
<1> QED
  BY <1>2, <1>3

LEMMA ChooseGoesOn ==
  ASSUME Typed, NEW t \in Threads, Choose(t)
  PROVE  \/ /\ GoesOn(t, "move")
            /\ thread'[t].from = thread[t].from
            /\ thread'[t].to \in Nodes
         \/ Becomes(t, Rest)
<1> DEFINE edges == NextEdges(thread[t].from, thread[t].on)
<1>1. edges \in SUBSET Edges
  BY NextEdgesOfRoute
<1>2. Quit(t) \/ Follow(t, edges)
  BY DEF Choose
<1> HIDE DEF edges
<1> QED
  BY <1>1, <1>2, QuitRests, FollowGoesOn DEF Typed

LEMMA SaveGoesOn ==
  ASSUME Typed, NEW t \in Threads, Save(t)
  PROVE  \/ /\ GoesOn(t, "wait")
            /\ thread'[t].from = thread[t].from
            /\ thread'[t].to = thread[t].to /\ thread[t].to \in Works
         \/ Becomes(t, Rest)
  BY ToGoesOn, QuitRests DEF Save, Typed

\* A stage that does not start, or is started already, is put off or fails, and
\* the card is where it was.
Untouched == UNCHANGED <<column, recorded, queue, byCard, sess, mislaid, history>>
PutsOff(t) == \/ StartQueued(t) \/ StartStays(t)
              \/ Dequeue(t) \/ DrainBusy(t) \/ DrainTaken(t)
Fails(t) == StartFails(t) \/ DrainFails(t)

LEMMA PutsOffFacts ==
  ASSUME Typed, NEW t \in Threads, PutsOff(t)
  PROVE  /\ Becomes(t, Rest) /\ Untouched
         /\ thread[t].pc \in {"start", "drain", "dequeue"}
<1>1. Quit(t) /\ thread[t].pc \in {"start", "drain", "dequeue"}
  BY DEF PutsOff, StartQueued, StartStays, Dequeue, DrainBusy, DrainTaken
<1>2. Untouched
  BY DEF PutsOff, StartQueued, StartStays, Dequeue, DrainBusy, DrainTaken,
         Untouched, board, place, started
<1> QED
  BY <1>1, <1>2, QuitRests DEF Typed

LEMMA FailsFacts ==
  ASSUME Typed, NEW t \in Threads, Fails(t)
  PROVE  /\ Becomes(t, Reading("failure", FALSE)) /\ Untouched
         /\ thread[t].pc \in {"start", "drain"}
         /\ thread'[t].pc = "read" /\ ~thread'[t].own
         /\ thread'[t].on = "failure"
<1>1. /\ thread' = [thread EXCEPT ![t] = Reading("failure", FALSE)]
      /\ thread[t].pc \in {"start", "drain"}
  BY DEF Fails, StartFails, DrainFails
<1>2. Untouched
  BY DEF Fails, StartFails, DrainFails, Untouched, board, started
<1>3. Becomes(t, Reading("failure", FALSE))
  BY <1>1, ReadingIsThread, ThreadBecomes DEF Typed, Triggers
<1> QED
  BY <1>1, <1>2, <1>3, ReadingIsThread DEF Becomes, Triggers

\* A drain takes the stage of the card's row, and begins nothing by that alone.
LEMMA DrainFacts ==
  ASSUME Typed, NEW t \in Drains, DrainReads(t)
  PROVE  /\ t \in Threads /\ thread[t].pc = "idle"
         /\ GoesOn(t, "drain")
         /\ thread'[t].to \in Works
<1>1. /\ t \in Threads /\ thread[t] \in Thread /\ TypeOK
      /\ waiting \in Works /\ waiting \in Nodes
  BY Apart, FlowRouteAssumption DEF Typed, TypeOK, DrainReads
<1> DEFINE r == [thread[t] EXCEPT !.pc = "drain", !.to = waiting]
<1>2. /\ r \in Thread /\ r.pc = "drain" /\ r.on = thread[t].on
      /\ r.own = thread[t].own /\ r.to = waiting
  BY <1>1 DEF Thread
<1>3. thread' = [thread EXCEPT ![t] = r]
  BY <1>1 DEF DrainReads, TypeOK
<1> HIDE DEF r
<1> QED
  BY <1>1, <1>2, <1>3, ThreadBecomes DEF Becomes, GoesOn, DrainReads

\* A session is begun by a transition or by a drain.
Begins(t, s) == Start(t, s) \/ DrainStarts(t, s)

LEMMA BeginsFacts ==
  ASSUME Typed, NEW t \in Threads, NEW s \in Sessions, Begins(t, s)
  PROVE  /\ StartSession(t, s) /\ Starting(t)
         /\ UNCHANGED <<board, recorded, queue, waiting, keys, repo, rushed,
                        crossed, swallowed>>
         /\ Becomes(t, Rest) \/ GoesOn(t, "dequeue")
         /\ thread'[t].pc \in {"idle", "dequeue"}
         /\ \/ ~thread'[t].own
            \/ /\ thread'[t].own = thread[t].own
               /\ thread'[t].from = thread[t].from
<1>1. /\ StartSession(t, s) /\ Starting(t)
      /\ UNCHANGED <<board, recorded, queue, waiting, keys, repo, rushed,
                     crossed, swallowed>>
  BY DEF Begins, Start, DrainStarts, Starting
<1>2. CASE Start(t, s)
  <2>1. Becomes(t, Rest)
    BY <1>2, QuitRests DEF Start, Typed
  <2> QED
    BY <1>1, <2>1, RestIsThread DEF Becomes
<1>3. CASE DrainStarts(t, s)
  <2>1. GoesOn(t, "dequeue") /\ thread'[t].from = thread[t].from
    BY <1>3, ToGoesOn DEF DrainStarts, Typed
  <2> QED
    BY <1>1, <2>1 DEF GoesOn
<1> QED
  BY <1>2, <1>3 DEF Begins

LEMMA TransitDone ==
  ASSUME NEW t, Transit(t)
  PROVE  \/ Read(t) \/ Choose(t) \/ Move(t) \/ MoveFails(t) \/ Save(t)
         \/ Idle(t) \/ WaitedEnough(t) \/ (\E s \in Sessions : Begins(t, s))
         \/ PutsOff(t) \/ Fails(t)
  BY DEF Transit, Begins, PutsOff, Fails

\* The first of the queue, and what is left.
LEMMA EventFacts ==
  ASSUME Typed, queue # <<>>
  PROVE  /\ Len(queue) \in Nat \ {0}
         /\ Event = queue[1]
         /\ Event \in [kind : {"move", "mark"}, by : 0 .. MaxChances,
                       from : Columns, to : Columns]
         /\ Event.kind = "move" => Event.by \in Drags /\ Event.from # Event.to
         /\ Tail(queue) \in Seq([kind : {"move", "mark"}, by : 0 .. MaxChances,
                                 from : Columns, to : Columns])
         /\ Len(Tail(queue)) = Len(queue) - 1
         /\ \A i \in 1 .. Len(queue) - 1 : Tail(queue)[i] = queue[i + 1]
<1> DEFINE E == [kind : {"move", "mark"}, by : 0 .. MaxChances,
                 from : Columns, to : Columns]
<1>1. queue \in Seq(E)
  BY DEF Typed, TypeOK
<1> HIDE DEF E
<1>2. /\ Len(queue) \in Nat \ {0}
      /\ Head(queue) \in E
      /\ Tail(queue) \in Seq(E)
      /\ Len(Tail(queue)) = Len(queue) - 1
      /\ \A i \in 1 .. Len(Tail(queue)) : Tail(queue)[i] = queue[i + 1]
  BY <1>1, EmptySeq, HeadTailProperties
<1>3. Event = queue[1] /\ 1 \in 1 .. Len(queue)
  BY <1>1, <1>2 DEF Event
<1>4. Event.kind = "move" => Event.by \in Drags /\ Event.from # Event.to
  BY <1>3 DEF Typed, QueueInv
<1> QED
  BY <1>2, <1>3, <1>4 DEF E, Event

LEMMA CancelFacts ==
  ASSUME TypeOK, Cancel
  PROVE  /\ sess' \in [Sessions -> Session]
         /\ \A s \in Sessions :
              /\ sess'[s].stage = sess[s].stage
              /\ sess'[s].outcome = sess[s].outcome
              /\ \/ sess'[s] = sess[s]
                 \/ /\ s = byCard /\ sess[s].phase = "work"
                    /\ sess'[s].phase = "stopping"
              /\ s = byCard /\ sess'[s].phase = "work" => s \in overtaken'
              /\ Telling(s) => s \in overtaken'
         /\ overtaken \subseteq overtaken'
         /\ overtaken' \subseteq Sessions
<1>1. sess \in [Sessions -> Session] /\ overtaken \subseteq Sessions
  BY DEF TypeOK
<1>2. \A s \in Sessions :
        /\ [sess[s] EXCEPT !.phase = "stopping"] \in Session
        /\ [sess[s] EXCEPT !.phase = "stopping"].phase = "stopping"
        /\ [sess[s] EXCEPT !.phase = "stopping"].stage = sess[s].stage
        /\ [sess[s] EXCEPT !.phase = "stopping"].outcome = sess[s].outcome
  BY <1>1 DEF Session
<1>3. PICK heeding \in SUBSET AtWork :
        /\ sess' = [s \in Sessions |->
                      IF s \in heeding THEN [sess[s] EXCEPT !.phase = "stopping"]
                      ELSE sess[s]]
        /\ overtaken' = overtaken \cup (AtWork \ heeding)
                                  \cup {s \in Sessions : Telling(s)}
  BY DEF Cancel
<1>4. \A s \in Sessions :
        sess'[s] = IF s \in heeding THEN [sess[s] EXCEPT !.phase = "stopping"]
                   ELSE sess[s]
  BY <1>3
<1>5. sess' \in [Sessions -> Session]
  <2>1. \A s \in Sessions :
          (IF s \in heeding THEN [sess[s] EXCEPT !.phase = "stopping"]
           ELSE sess[s]) \in Session
    BY <1>1, <1>2
  <2> QED
    BY <1>3, <2>1
<1>6. AtWork \subseteq Sessions
      /\ \A s \in AtWork : s = byCard /\ sess[s].phase = "work"
  BY DEF AtWork
<1>7. \A s \in Sessions :
        /\ sess'[s].stage = sess[s].stage
        /\ sess'[s].outcome = sess[s].outcome
        /\ \/ sess'[s] = sess[s]
           \/ /\ s = byCard /\ sess[s].phase = "work"
              /\ sess'[s].phase = "stopping"
  BY <1>2, <1>4, <1>6
<1>8. \A s \in Sessions :
        s = byCard /\ sess'[s].phase = "work" => s \in overtaken'
  <2> SUFFICES ASSUME NEW s \in Sessions, s = byCard, sess'[s].phase = "work"
               PROVE  s \in overtaken'
    OBVIOUS
  <2>1. s \notin heeding
    BY <1>2, <1>4
  <2>2. s \in AtWork
    BY <1>4, <2>1 DEF AtWork
  <2> QED
    BY <1>3, <2>1, <2>2
<1> QED
  BY <1>1, <1>3, <1>5, <1>6, <1>7, <1>8

\* The types, in the parts that a step keeps for a reason of its own.
Events == [kind : {"move", "mark"}, by : 0 .. MaxChances,
           from : Columns, to : Columns]
Places == /\ column \in Columns
          /\ at \in Nodes \cup {None}
          /\ index \in Nodes \cup {None}
          /\ waiting \in Works \cup {None}
          /\ mislaid \subseteq Sessions
          /\ overtaken \subseteq Sessions
          /\ chances \in 0 .. MaxChances
Flags == /\ option \in BOOLEAN /\ stalled \in BOOLEAN
         /\ merged \in BOOLEAN /\ latched \in BOOLEAN
         /\ unwritten \in BOOLEAN
         /\ rushed \in BOOLEAN /\ crossed \in BOOLEAN /\ swallowed \in BOOLEAN
Queued == queue \in Seq(Events) /\ QueueInv
Keyed == keys \subseteq {MoveKey(c, d) : c \in Columns, d \in Columns}
                        \cup {EdgeKey(n, on) : n \in Nodes, on \in Triggers}
Named == /\ byCard \in Sessions \cup {None}
         /\ byCard # None => Live(byCard)
         /\ sess \in [Sessions -> Session]
Threaded == thread \in [Threads -> Thread] /\ ThreadInv

LEMMA TypedParts ==
  Typed <=> Places /\ Flags /\ Queued /\ Keyed /\ Named /\ Threaded
  BY DEF Typed, TypeOK, Events, Places, Flags, Queued, Keyed, Named, Threaded

LEMMA TypedPartsNext ==
  Places' /\ Flags' /\ Queued' /\ Keyed' /\ Named' /\ Threaded' => Typed'
  BY DEF Typed, TypeOK, Events, Places, Flags, Queued, Keyed, Named, Threaded

LEMMA PlacesKept ==
  ASSUME Typed, Next
  PROVE  Places'
<1> USE DEF Places
<1>1. Places /\ ThreadInv /\ thread \in [Threads -> Thread]
      /\ MaxChances \in Nat
  BY TypedParts, FlowRouteAssumption DEF Threaded
<1>2. ASSUME NEW c \in Columns, Drag(c)
      PROVE  Places'
  BY <1>1, <1>2 DEF Drag, Chance, place, recorded, started, history
<1>3. CASE Mark
  BY <1>1, <1>3 DEF Mark, Chance, place, recorded, started, history
<1>4. CASE Merge
  BY <1>1, <1>4 DEF Merge, board, place, recorded, started, history
<1>5. CASE HandleLeave
  <2>1. overtaken' \subseteq Sessions
    BY <1>1, <1>5, CancelFacts DEF HandleLeave, KeepSessions, Typed
  <2>2. /\ at' \in {at, None} /\ index' \in {index, None}
        /\ chances' \in 0 .. MaxChances
    BY <1>1, <1>5 DEF HandleLeave, Forgotten, Chance, place, recorded
  <2> QED
    BY <1>1, <1>5, <2>1, <2>2 DEF HandleLeave, board, started
<1>6. CASE HandleEnter
  BY <1>1, <1>6, CancelFacts
     DEF HandleEnter, board, place, recorded, started, Typed
<1>7. CASE HandleAgain
  BY <1>1, <1>7 DEF HandleAgain, KeepSessions, board, place, recorded, started
<1>8. CASE HandleMark
  <2>1. overtaken' \subseteq Sessions
    BY <1>1, <1>8, CancelFacts DEF HandleMark, KeepSessions, Typed
  <2> QED
    BY <1>1, <1>8, <2>1 DEF HandleMark, board, place, recorded, started
<1>9. ASSUME NEW t \in Threads, Transit(t)
      PROVE  Places'
  <2>1. CASE Read(t)
    BY <1>1, <2>1 DEF Read, board, recorded, started, history
  <2>2. CASE Choose(t)
    BY <1>1, <2>2 DEF Choose, board, recorded, started
  <2>3. CASE Move(t)
    BY <1>1, <2>3 DEF Move, place, recorded, started, ThreadInv, Columns
  <2>4. CASE MoveFails(t)
    BY <1>1, <2>4 DEF MoveFails, board, recorded, started, history, Chance
  <2>5. CASE Save(t)
    <3>1. /\ at' \in {at, thread[t].to} /\ index' = thread[t].to
          /\ chances' \in 0 .. MaxChances /\ thread[t].to \in Nodes
      BY <1>1, <2>5 DEF Save, Recorded, Chance, ThreadInv
    <3> QED
      BY <1>1, <2>5, <3>1 DEF Save, board, started, Outrun
  <2>6. CASE Idle(t)
    BY <1>1, <2>6 DEF Idle, board, place, recorded, started
  <2>7. CASE WaitedEnough(t)
    BY <1>1, <2>7 DEF WaitedEnough, board, place, recorded, started
  <2>8. ASSUME NEW s \in Sessions, Begins(t, s)
        PROVE  Places'
    BY <1>1, <2>8 DEF Begins, Start, DrainStarts, StartSession, board, recorded
  <2>9. CASE StartQueued(t)
    <3>1. waiting' \in Works \cup {None}
      <4>1. CASE waiting # None
        BY <1>1, <2>9, <4>1 DEF StartQueued
      <4>2. CASE waiting = None
        BY <1>1, <2>9, <4>2 DEF StartQueued, ThreadInv
      <4> QED
        BY <4>1, <4>2
    <3> QED
      BY <1>1, <2>9, <3>1 DEF StartQueued, board, recorded, history
  <2>10. CASE StartStays(t)
    BY <1>1, <2>10 DEF StartStays, board, recorded, started, history
  <2>11. CASE StartFails(t)
    BY <1>1, <2>11 DEF StartFails, board, recorded, started, history, Chance
  <2>12. CASE Dequeue(t)
    BY <1>1, <2>12 DEF Dequeue, board, place, recorded, history
  <2>13. CASE DrainBusy(t)
    BY <1>1, <2>13 DEF DrainBusy, board, place, recorded, started, history
  <2>14. CASE DrainTaken(t)
    BY <1>1, <2>14 DEF DrainTaken, board, recorded, history
  <2>15. CASE DrainFails(t)
    BY <1>1, <2>15 DEF DrainFails, board, recorded, history, Chance
  <2> QED
    BY <1>9, <2>1, <2>2, <2>3, <2>4, <2>5, <2>6, <2>7, <2>8, <2>9, <2>10,
       <2>11, <2>12, <2>13, <2>14, <2>15 DEF Transit, Begins
<1>10. ASSUME NEW s \in Sessions, NEW o, Finish(s, o)
       PROVE  Places'
  BY <1>1, <1>10 DEF Finish, board, recorded, started, history
<1>11. ASSUME NEW s \in Sessions, Release(s)
       PROVE  Places'
  BY <1>1, <1>11 DEF Release, board, place, recorded, started, history
<1>12. CASE Poll
  BY <1>1, <1>12 DEF Poll, board, place, recorded, started, history
<1>13. ASSUME NEW i \in 1 .. Len(queue), Overtake(i)
       PROVE  Places'
  BY <1>1, <1>13 DEF Overtake, board, place, recorded, started
<1>14. ASSUME NEW t \in Drains, DrainReads(t)
       PROVE  Places'
  BY <1>1, <1>14 DEF DrainReads, board, place, recorded, started
<1> QED
  BY <1>2, <1>3, <1>4, <1>5, <1>6, <1>7, <1>8, <1>9, <1>10, <1>11, <1>12,
     <1>13, <1>14 DEF Next, Handle

LEMMA FlagsKept ==
  ASSUME Typed, Next
  PROVE  Flags'
<1> USE DEF Flags
<1>1. Flags
  BY TypedParts
<1>2. ASSUME NEW c \in Columns, Drag(c)
      PROVE  Flags'
  BY <1>1, <1>2 DEF Drag, place, recorded, repo, history
<1>3. CASE Mark
  BY <1>1, <1>3 DEF Mark, place, recorded, repo, history
<1>4. CASE Merge
  BY <1>1, <1>4 DEF Merge, board, place, recorded, history
<1>5. CASE HandleLeave
  <2>1. unwritten' \in BOOLEAN /\ stalled' \in BOOLEAN /\ crossed' \in BOOLEAN
    BY <1>1, <1>5 DEF HandleLeave, Forgotten, place, recorded
  <2> QED
    BY <1>1, <1>5, <2>1 DEF HandleLeave, board, repo
<1>6. CASE HandleEnter
  BY <1>1, <1>6 DEF HandleEnter, board, place, recorded, repo
<1>7. CASE HandleAgain
  BY <1>1, <1>7 DEF HandleAgain, board, place, recorded, repo
<1>8. CASE HandleMark
  BY <1>1, <1>8 DEF HandleMark, board, place, recorded, repo
<1>9. ASSUME NEW t \in Threads, Transit(t)
      PROVE  Flags'
  <2>1. CASE Read(t)
    BY <1>1, <2>1 DEF Read, board, recorded, repo, history
  <2>2. CASE Choose(t)
    <3>1. stalled' \in BOOLEAN /\ swallowed' \in BOOLEAN
      BY <1>1, <2>2 DEF Choose
    <3> QED
      BY <1>1, <2>2, <3>1 DEF Choose, board, recorded, repo
  <2>3. CASE Move(t)
    BY <1>1, <2>3 DEF Move, place, recorded, repo
  <2>4. CASE MoveFails(t)
    BY <1>1, <2>4 DEF MoveFails, board, recorded, repo, history
  <2>5. CASE Save(t)
    BY <1>1, <2>5 DEF Save, Recorded, board, repo
  <2>6. CASE Idle(t)
    BY <1>1, <2>6 DEF Idle, board, place, recorded, repo
  <2>7. CASE WaitedEnough(t)
    BY <1>1, <2>7 DEF WaitedEnough, board, place, recorded, repo
  <2>8. ASSUME NEW s \in Sessions, Begins(t, s)
        PROVE  Flags'
    BY <1>1, <2>8
       DEF Begins, Start, DrainStarts, StartSession, board, recorded, repo
  <2>9. CASE StartQueued(t)
    BY <1>1, <2>9 DEF StartQueued, board, recorded, repo, history
  <2>10. CASE StartStays(t)
    BY <1>1, <2>10 DEF StartStays, board, recorded, repo, history
  <2>11. CASE StartFails(t)
    BY <1>1, <2>11 DEF StartFails, board, recorded, repo, history
  <2>12. CASE Dequeue(t)
    BY <1>1, <2>12 DEF Dequeue, board, place, recorded, repo, history
  <2>13. CASE DrainBusy(t)
    BY <1>1, <2>13 DEF DrainBusy, board, place, recorded, repo, history
  <2>14. CASE DrainTaken(t)
    BY <1>1, <2>14 DEF DrainTaken, board, recorded, repo, history
  <2>15. CASE DrainFails(t)
    BY <1>1, <2>15 DEF DrainFails, board, recorded, repo, history
  <2> QED
    BY <1>9, <2>1, <2>2, <2>3, <2>4, <2>5, <2>6, <2>7, <2>8, <2>9, <2>10,
       <2>11, <2>12, <2>13, <2>14, <2>15 DEF Transit, Begins
<1>10. ASSUME NEW s \in Sessions, NEW o, Finish(s, o)
       PROVE  Flags'
  BY <1>1, <1>10 DEF Finish, board, recorded, repo, history
<1>11. ASSUME NEW s \in Sessions, Release(s)
       PROVE  Flags'
  BY <1>1, <1>11 DEF Release, board, place, recorded, repo, history
<1>12. CASE Poll
  BY <1>1, <1>12 DEF Poll, board, place, recorded, history
<1>13. ASSUME NEW i \in 1 .. Len(queue), Overtake(i)
       PROVE  Flags'
  BY <1>1, <1>13 DEF Overtake, board, place, recorded, repo
<1>14. ASSUME NEW t \in Drains, DrainReads(t)
       PROVE  Flags'
  BY <1>1, <1>14 DEF DrainReads, board, place, recorded, repo
<1> QED
  BY <1>2, <1>3, <1>4, <1>5, <1>6, <1>7, <1>8, <1>9, <1>10, <1>11, <1>12,
     <1>13, <1>14 DEF Next, Handle

\* The queue grows at its end and is handled at its head.
LEMMA QueueGrows ==
  ASSUME Queued, NEW e \in Events, e.kind = "move" => e.by \in Drags /\ e.from # e.to
  PROVE  /\ Append(queue, e) \in Seq(Events)
         /\ Len(Append(queue, e)) = Len(queue) + 1
         /\ Append(queue, e)[Len(queue) + 1] = e
         /\ \A i \in 1 .. Len(queue) : Append(queue, e)[i] = queue[i]
         /\ \A i \in 1 .. Len(queue) + 1 : Append(queue, e)[i].kind = "move" =>
              /\ Append(queue, e)[i].by \in Drags
              /\ Append(queue, e)[i].from # Append(queue, e)[i].to
<1>1. queue \in Seq(Events) /\ Len(queue) \in Nat
  BY LenProperties DEF Queued
<1>2. /\ Append(queue, e) \in Seq(Events)
      /\ Len(Append(queue, e)) = Len(queue) + 1
      /\ Append(queue, e)[Len(queue) + 1] = e
      /\ \A i \in 1 .. Len(queue) : Append(queue, e)[i] = queue[i]
  BY <1>1, AppendProperties
<1>3. \A i \in 1 .. Len(queue) + 1 : i = Len(queue) + 1 \/ i \in 1 .. Len(queue)
  BY <1>1
<1> QED
  BY <1>1, <1>2, <1>3 DEF Queued, QueueInv

LEMMA QueueShrinks ==
  ASSUME Typed, queue # <<>>, queue' = Tail(queue)
  PROVE  Queued'
<1>1. /\ queue' \in Seq(Events)
      /\ Len(queue) \in Nat
      /\ Len(queue') = Len(queue) - 1
      /\ \A i \in 1 .. Len(queue) - 1 : queue'[i] = queue[i + 1]
  BY EventFacts DEF Events
<1>2. \A i \in 1 .. Len(queue) - 1 : i + 1 \in 1 .. Len(queue)
  BY <1>1
<1> QED
  BY <1>1, <1>2 DEF Queued, QueueInv, Typed

LEMMA DragIsEvent ==
  ASSUME Typed, NEW c \in Columns, Drag(c)
  PROVE  LET e == [kind |-> "move", by |-> chances + 1, from |-> column, to |-> c]
         IN  e \in Events /\ e.by \in Drags /\ e.from # e.to
<1>1. chances \in 0 .. MaxChances /\ chances < MaxChances /\ MaxChances \in Nat
      /\ column \in Columns /\ c # column
  BY TypedParts, FlowRouteAssumption DEF Places, Drag, Chance
<1>2. chances + 1 \in 0 .. MaxChances /\ chances + 1 \in 1 .. MaxChances
  BY <1>1
<1> QED
  BY <1>1, <1>2 DEF Events, Drags

LEMMA MarkIsEvent ==
  /\ [kind |-> "mark", by |-> 0, from |-> Off, to |-> Off] \in Events
  /\ [kind |-> "mark", by |-> 0, from |-> Off, to |-> Off].kind # "move"
  BY FlowRouteAssumption DEF Events, Columns

\* Two events that change places are no others than they were.
LEMMA OvertakeFacts ==
  ASSUME Typed, NEW i \in 1 .. Len(queue), Overtake(i)
  PROVE  /\ Queued'
         /\ i \in Nat /\ i + 1 \in 1 .. Len(queue)
         /\ Len(queue) \in Nat /\ Len(queue') = Len(queue)
         /\ queue'[i] = queue[i + 1] /\ queue'[i + 1] = queue[i]
         /\ \A j \in 1 .. Len(queue) :
              j # i /\ j # i + 1 => queue'[j] = queue[j]
<1> DEFINE n == Len(queue)
<1>1. queue \in Seq(Events) /\ QueueInv /\ n \in Nat
  BY TypedParts, LenProperties DEF Queued
<1>2. i \in Nat /\ i \in 1 .. n /\ i + 1 \in 1 .. n
  BY <1>1 DEF Overtake
<1>3. queue' = [queue EXCEPT ![i] = queue[i + 1], ![i + 1] = queue[i]]
  BY DEF Overtake
<1>4. /\ queue'[i] = queue[i + 1] /\ queue'[i + 1] = queue[i]
      /\ \A j \in 1 .. n : j # i /\ j # i + 1 => queue'[j] = queue[j]
  BY <1>1, <1>2, <1>3
<1>5. queue' \in Seq(Events) /\ Len(queue') = n
  BY <1>1, <1>2, <1>3
<1> HIDE DEF n
<1>6. ASSUME NEW j \in 1 .. n, queue'[j].kind = "move"
      PROVE  queue'[j].by \in Drags /\ queue'[j].from # queue'[j].to
  <2>1. CASE j = i
    BY <1>1, <1>2, <1>4, <1>6, <2>1 DEF QueueInv, n
  <2>2. CASE j = i + 1
    BY <1>1, <1>2, <1>4, <1>6, <2>2 DEF QueueInv, n
  <2>3. CASE j # i /\ j # i + 1
    BY <1>1, <1>4, <1>6, <2>3 DEF QueueInv, n
  <2> QED
    BY <2>1, <2>2, <2>3
<1>7. Queued'
  BY <1>5, <1>6 DEF Queued, QueueInv
<1> QED
  BY <1>1, <1>2, <1>4, <1>5, <1>7 DEF n

LEMMA QueuedKept ==
  ASSUME Typed, Next
  PROVE  Queued'
<1>1. Queued
  BY TypedParts
<1>2. ASSUME queue' = queue
      PROVE  Queued'
  BY <1>1, <1>2 DEF Queued, QueueInv
<1>3. ASSUME NEW c \in Columns, Drag(c)
      PROVE  Queued'
  BY <1>1, <1>3, DragIsEvent, QueueGrows DEF Drag, Queued, QueueInv
<1>4. CASE Mark
  <2>1. CASE option
    BY <1>2, <1>4, <2>1 DEF Mark
  <2>2. CASE ~option
    BY <1>1, <1>4, <2>2, MarkIsEvent, QueueGrows DEF Mark, Queued, QueueInv
  <2> QED
    BY <2>1, <2>2
<1>5. CASE Handle
  BY <1>5, QueueShrinks
     DEF Handle, HandleLeave, HandleEnter, HandleAgain, HandleMark, Handling
<1>6. CASE Merge
  BY <1>2, <1>6 DEF Merge
<1>7. ASSUME NEW t \in Threads, Transit(t)
      PROVE  queue' = queue
  BY <1>7, TransitDone, BeginsFacts, PutsOffFacts, FailsFacts
     DEF Read, Choose, Move, MoveFails, Save, Idle, WaitedEnough, Untouched
<1>8. ASSUME NEW s \in Sessions, NEW o, Finish(s, o)
      PROVE  queue' = queue
  BY <1>8 DEF Finish
<1>9. ASSUME NEW s \in Sessions, Release(s)
      PROVE  queue' = queue
  BY <1>9 DEF Release
<1>10. CASE Poll
  BY <1>2, <1>10 DEF Poll
<1>11. ASSUME NEW i \in 1 .. Len(queue), Overtake(i)
       PROVE  Queued'
  BY <1>11, OvertakeFacts
<1>12. ASSUME NEW t \in Drains, DrainReads(t)
       PROVE  queue' = queue
  BY <1>12 DEF DrainReads
<1> QED
  BY <1>2, <1>3, <1>4, <1>5, <1>6, <1>7, <1>8, <1>9, <1>10, <1>11, <1>12
     DEF Next

LEMMA KeyedKept ==
  ASSUME Typed, Next
  PROVE  Keyed'
<1>1. Keyed /\ thread \in [Threads -> Thread] /\ ThreadInv
  BY TypedParts DEF Threaded
<1>2. ASSUME keys' = keys
      PROVE  Keyed'
  BY <1>1, <1>2 DEF Keyed
<1>3. ASSUME NEW c \in Columns, Drag(c)
      PROVE  keys' = keys
  BY <1>3 DEF Drag
<1>4. CASE HandleEnter
  <2>1. Event.from \in Columns /\ Event.to \in Columns
    BY <1>4, EventFacts DEF HandleEnter, Handling
  <2>2. keys' = keys \cup {MoveKey(Event.from, Event.to)}
    BY <1>4 DEF HandleEnter
  <2> QED
    BY <1>1, <2>1, <2>2 DEF Keyed
<1>5. ASSUME NEW t \in Threads, Choose(t)
      PROVE  Keyed'
  <2>1. thread[t].from \in Nodes /\ thread[t].on \in Triggers
    BY <1>1, <1>5 DEF Choose, ThreadInv, Thread
  <2>2. keys' = keys \/ keys' = keys \cup {EdgeKey(thread[t].from, thread[t].on)}
    BY <1>5 DEF Choose
  <2> QED
    BY <1>1, <2>1, <2>2 DEF Keyed
<1>6. ASSUME NEW t \in Threads, Transit(t), ~Choose(t)
      PROVE  keys' = keys
  BY <1>6 DEF Transit, Read, Move, MoveFails, Save, Idle, WaitedEnough,
              Start, StartQueued, StartStays, StartFails, DrainStarts, Dequeue,
              DrainBusy, DrainTaken, DrainFails
<1>7. ASSUME NEW s \in Sessions, NEW o, Finish(s, o)
      PROVE  keys' = keys
  BY <1>7 DEF Finish
<1>8. ASSUME NEW s \in Sessions, Release(s)
      PROVE  keys' = keys
  BY <1>8 DEF Release
<1>9. CASE Mark \/ Merge \/ HandleLeave \/ HandleAgain \/ HandleMark \/ Poll
  BY <1>2, <1>9 DEF Mark, Merge, HandleLeave, HandleAgain, HandleMark, Poll
<1>10. ASSUME NEW i \in 1 .. Len(queue), Overtake(i)
       PROVE  keys' = keys
  BY <1>10 DEF Overtake
<1>11. ASSUME NEW t \in Drains, DrainReads(t)
       PROVE  keys' = keys
  BY <1>11 DEF DrainReads
<1> QED
  BY <1>2, <1>3, <1>4, <1>5, <1>6, <1>7, <1>8, <1>9, <1>10, <1>11
     DEF Next, Handle

\* What a session becomes: its phase alone changes, or it gets a stage or an
\* outcome besides.
LEMMA StartFacts ==
  ASSUME Typed, NEW t \in Threads, NEW s \in Sessions, Begins(t, s)
  PROVE  /\ sess' \in [Sessions -> Session]
         /\ sess'[s].phase = "work" /\ sess'[s].stage = thread[t].to
         /\ sess[s].phase = "unused"
         /\ \A u \in Sessions \ {s} : sess'[u] = sess[u]
         /\ thread[t].to \in Nodes
         /\ byCard' = s
<1>1. /\ sess \in [Sessions -> Session] /\ thread[t].to \in Nodes
      /\ StartSession(t, s)
  BY TypedParts, FlowRouteAssumption
     DEF Named, Threaded, ThreadInv, Begins, Start, DrainStarts
<1> DEFINE r == [sess[s] EXCEPT !.phase = "work", !.stage = thread[t].to]
<1>2. r \in Session /\ r.phase = "work" /\ r.stage = thread[t].to
  BY <1>1 DEF Session
<1>3. sess' = [sess EXCEPT ![s] = r]
  BY <1>1 DEF StartSession
<1> HIDE DEF r
<1> QED
  BY <1>1, <1>2, <1>3 DEF StartSession

LEMMA FinishFacts ==
  ASSUME Typed, NEW s \in Sessions, NEW o, Finish(s, o)
  PROVE  /\ sess' \in [Sessions -> Session]
         /\ sess'[s].phase = "over" /\ sess'[s].stage = sess[s].stage
         /\ sess'[s].outcome = o
         /\ \/ sess[s].phase = "work"
            \/ sess[s].phase = "stopping" /\ o = "none"
         /\ \A u \in Sessions \ {s} : sess'[u] = sess[u]
<1>1. sess \in [Sessions -> Session] /\ o \in {"none", "success", "failure"}
  BY TypedParts DEF Named, Finish
<1> DEFINE r == [sess[s] EXCEPT !.phase = "over", !.outcome = o]
<1>2. r \in Session /\ r.phase = "over" /\ r.stage = sess[s].stage
      /\ r.outcome = o
  BY <1>1 DEF Session
<1>3. sess' = [sess EXCEPT ![s] = r]
  BY <1>1 DEF Finish
<1> HIDE DEF r
<1> QED
  BY <1>1, <1>2, <1>3 DEF Finish

LEMMA ReleaseFacts ==
  ASSUME Typed, NEW s \in Sessions, Release(s)
  PROVE  /\ sess' \in [Sessions -> Session]
         /\ sess[s].phase = "over"
         /\ sess'[s].phase = "gone" /\ sess'[s].stage = sess[s].stage
         /\ sess'[s].outcome = sess[s].outcome
         /\ \A u \in Sessions \ {s} : sess'[u] = sess[u]
         /\ \/ sess[s].outcome = "none" /\ Becomes(s, Rest)
            \/ /\ sess[s].outcome \in {"success", "failure"}
               /\ Becomes(s, Reading(sess[s].outcome, TRUE))
<1>1. sess \in [Sessions -> Session] /\ TypeOK /\ s \in Threads
      /\ sess[s].outcome \in {"none", "success", "failure"}
  BY TypedParts, Apart DEF Named, Typed, Session
<1> DEFINE r == [sess[s] EXCEPT !.phase = "gone"]
<1>2. r \in Session /\ r.phase = "gone" /\ r.stage = sess[s].stage
      /\ r.outcome = sess[s].outcome
  BY <1>1 DEF Session
<1>3. sess' = [sess EXCEPT ![s] = r]
  BY <1>1 DEF Release
<1> HIDE DEF r
<1>4. CASE sess[s].outcome = "none"
  <2>1. Becomes(s, Rest)
    BY <1>1, <1>4, RestIsThread, ThreadBecomes DEF Release
  <2> QED
    BY <1>1, <1>2, <1>3, <1>4, <2>1 DEF Release
<1>5. CASE sess[s].outcome # "none"
  <2>1. sess[s].outcome \in Triggers
    BY <1>1, <1>5 DEF Triggers
  <2>2. Becomes(s, Reading(sess[s].outcome, TRUE))
    BY <1>1, <1>5, <2>1, ReadingIsThread, ThreadBecomes DEF Release
  <2> QED
    BY <1>1, <1>2, <1>3, <1>5, <2>2 DEF Release
<1> QED
  BY <1>4, <1>5

LEMMA NamedKept ==
  ASSUME Typed, Next
  PROVE  Named'
<1>1. Named /\ TypeOK /\ None \notin Sessions
  BY TypedParts, FlowRouteAssumption DEF Typed
<1>2. ASSUME sess' = sess, byCard' = byCard
      PROVE  Named'
  BY <1>1, <1>2 DEF Named, Live
<1>3. ASSUME Cancel, byCard' = byCard
      PROVE  Named'
  BY <1>1, <1>3, CancelFacts DEF Named, Live
<1>4. ASSUME NEW t \in Threads, NEW s \in Sessions, Begins(t, s)
      PROVE  Named'
  BY <1>1, <1>4, StartFacts DEF Named, Live
<1>5. ASSUME NEW s \in Sessions, NEW o, Finish(s, o)
      PROVE  Named'
  <2>1. byCard' = byCard
    BY <1>5 DEF Finish
  <2> QED
    BY <1>1, <1>5, <2>1, FinishFacts DEF Named, Live
<1>6. ASSUME NEW s \in Sessions, Release(s)
      PROVE  Named'
  <2>1. byCard' = IF byCard = s THEN None ELSE byCard
    BY <1>6 DEF Release
  <2> QED
    BY <1>1, <1>6, <2>1, ReleaseFacts DEF Named, Live
<1>7. ASSUME NEW c \in Columns, Drag(c)
      PROVE  Named'
  BY <1>2, <1>7 DEF Drag
<1>8. CASE Handle
  <2>1. byCard' = byCard /\ (Cancel \/ sess' = sess)
    BY <1>8 DEF Handle, HandleLeave, HandleEnter, HandleAgain, HandleMark,
                KeepSessions
  <2> QED
    BY <1>2, <1>3, <2>1
<1>9. ASSUME NEW t \in Threads, Transit(t), \A s \in Sessions : ~Begins(t, s)
      PROVE  Named'
  <2>1. sess' = sess /\ byCard' = byCard
    BY <1>9, TransitDone, PutsOffFacts, FailsFacts
       DEF Read, Choose, Move, MoveFails, Save, Idle, WaitedEnough, Untouched
  <2> QED
    BY <1>2, <2>1
<1>10. CASE Mark \/ Merge \/ Poll
  BY <1>2, <1>10 DEF Mark, Merge, Poll
<1>11. ASSUME NEW i \in 1 .. Len(queue), Overtake(i)
       PROVE  Named'
  BY <1>2, <1>11 DEF Overtake
<1>12. ASSUME NEW t \in Drains, DrainReads(t)
       PROVE  Named'
  BY <1>2, <1>12 DEF DrainReads
<1> QED
  BY <1>4, <1>5, <1>6, <1>7, <1>8, <1>9, <1>10, <1>11, <1>12 DEF Next

\* What ThreadInv says of one thread.
Knows(r) ==
  /\ r.pc \in {"read", "choose", "move"} => r.on # "drag"
  /\ r.pc = "choose" => r.from \in Nodes
  /\ r.pc \in {"move", "save"} => r.to \in Nodes
  /\ r.pc \in {"wait", "start", "drain"} => r.to \in Works

LEMMA ThreadedNext ==
  ASSUME Typed, NEW t \in Threads, thread' \in [Threads -> Thread],
         \A u \in Threads \ {t} : thread'[u] = thread[u],
         Knows(thread'[t])
  PROVE  Threaded'
  BY TypedParts DEF Threaded, ThreadInv, Knows

LEMMA EnterFacts ==
  ASSUME Typed, HandleEnter
  PROVE  /\ Event.by \in Drags /\ Event.by \in Threads
         /\ Event.to \in Nodes
         /\ thread' \in [Threads -> Thread]
         /\ thread'[Event.by].pc = "save" /\ thread'[Event.by].on = "drag"
         /\ thread'[Event.by].own = FALSE /\ thread'[Event.by].to = Event.to
         /\ \A u \in Threads \ {Event.by} : thread'[u] = thread[u]
<1> DEFINE d == Event.by
           r == [Rest EXCEPT !.pc = "save", !.to = Event.to]
<1>1. d \in Drags /\ d \in Threads /\ Event.to \in Nodes /\ TypeOK
  BY EventFacts, Apart DEF HandleEnter, Handling, Typed
<1>2. thread' = [thread EXCEPT ![d] = r]
  BY DEF HandleEnter
<1>3. /\ r \in Thread /\ r.pc = "save" /\ r.on = "drag" /\ r.own = FALSE
      /\ r.to = Event.to
  BY <1>1, SavingIsThread
<1> HIDE DEF d, r
<1>4. Becomes(d, r)
  BY <1>1, <1>2, <1>3, ThreadBecomes
<1> QED
  BY <1>1, <1>3, <1>4 DEF Becomes, d

LEMMA MarkFacts ==
  ASSUME Typed, HandleMark
  PROVE  \/ KeepSessions /\ thread' = thread
         \/ Cancel /\ Becomes(Loop, Reading("changed", FALSE))
  BY Apart, ReadingIsThread, ThreadBecomes DEF HandleMark, Typed, Triggers

LEMMA PollFacts ==
  ASSUME Typed, Poll
  PROVE  Becomes(Watch, Reading("merged", FALSE))
  BY Apart, ReadingIsThread, ThreadBecomes DEF Poll, Typed, Triggers

\* A step of a transition moves one thread, which was at it.
LEMMA TransitMovesOne ==
  ASSUME Typed, NEW t \in Threads, Transit(t)
  PROVE  /\ thread[t].pc # "idle"
         /\ thread' \in [Threads -> Thread]
         /\ \A u \in Threads \ {t} : thread'[u] = thread[u]
         /\ Knows(thread'[t])
<1>1. TypeOK /\ Knows(thread[t]) /\ thread[t] \in Thread
  BY TypedParts DEF Typed, Threaded, ThreadInv, Knows
<1> DEFINE One == /\ thread[t].pc # "idle"
                  /\ thread' \in [Threads -> Thread]
                  /\ \A u \in Threads \ {t} : thread'[u] = thread[u]
                  /\ Knows(thread'[t])
<1>2. ASSUME Becomes(t, Rest), thread[t].pc # "idle"
      PROVE  One
  BY <1>2, RestIsThread DEF Becomes, Knows
<1>3. CASE Read(t)
  BY <1>1, <1>2, <1>3, ReadGoesOn DEF Read, GoesOn, Knows
<1>4. CASE Choose(t)
  <2>1. thread[t].pc = "choose"
    BY <1>4 DEF Choose
  <2> QED
    BY <1>1, <1>2, <1>4, <2>1, ChooseGoesOn DEF GoesOn, Knows
<1>5. CASE Move(t)
  BY <1>1, <1>5, ToGoesOn DEF Move, GoesOn, Knows
<1>6. CASE MoveFails(t)
  BY <1>1, <1>2, <1>6, QuitRests DEF MoveFails
<1>7. CASE Save(t)
  BY <1>1, <1>2, <1>7, SaveGoesOn DEF Save, GoesOn, Knows
<1>8. CASE Idle(t)
  BY <1>1, <1>8, ToGoesOn DEF Idle, GoesOn, Knows
<1>9. CASE WaitedEnough(t)
  BY <1>1, <1>9, ToGoesOn DEF WaitedEnough, GoesOn, Knows
<1>10. ASSUME NEW s \in Sessions, Begins(t, s)
       PROVE  One
  BY <1>1, <1>2, <1>10, BeginsFacts DEF Starting, GoesOn, Knows
<1>11. CASE PutsOff(t)
  BY <1>2, <1>11, PutsOffFacts
<1>12. CASE Fails(t)
  BY <1>12, FailsFacts DEF Becomes, Knows
<1> QED
  BY <1>3, <1>4, <1>5, <1>6, <1>7, <1>8, <1>9, <1>10, <1>11, <1>12, TransitDone

LEMMA ThreadedKept ==
  ASSUME Typed, Next
  PROVE  Threaded'
<1>1. Threaded
  BY TypedParts
<1>2. ASSUME thread' = thread
      PROVE  Threaded'
  BY <1>1, <1>2 DEF Threaded, ThreadInv
<1>3. ASSUME NEW t \in Threads, NEW trigger \in Triggers, NEW own \in BOOLEAN,
             Becomes(t, Reading(trigger, own))
      PROVE  Threaded'
  BY <1>3, ReadingIsThread, ThreadedNext DEF Becomes, Knows, Triggers
<1>4. ASSUME NEW c \in Columns, Drag(c)
      PROVE  Threaded'
  BY <1>2, <1>4 DEF Drag
<1>5. CASE HandleEnter
  BY <1>5, EnterFacts, ThreadedNext DEF Knows
<1>6. CASE HandleMark
  BY <1>2, <1>3, <1>6, MarkFacts, Apart DEF Triggers
<1>7. ASSUME NEW t \in Threads, Transit(t)
      PROVE  Threaded'
  BY <1>7, TransitMovesOne, ThreadedNext
<1>8. ASSUME NEW s \in Sessions, NEW o, Finish(s, o)
      PROVE  Threaded'
  BY <1>2, <1>8 DEF Finish
<1>9. ASSUME NEW s \in Sessions, Release(s)
      PROVE  Threaded'
  <2>1. CASE Becomes(s, Rest)
    BY <2>1, Apart, RestIsThread, ThreadedNext DEF Becomes, Knows
  <2>2. ASSUME sess[s].outcome \in {"success", "failure"},
               Becomes(s, Reading(sess[s].outcome, TRUE))
        PROVE  Threaded'
    BY <1>3, <2>2, Apart DEF Triggers
  <2> QED
    BY <1>9, <2>1, <2>2, ReleaseFacts
<1>10. CASE Poll
  BY <1>3, <1>10, PollFacts, Apart DEF Triggers
<1>11. CASE Mark \/ Merge \/ HandleLeave \/ HandleAgain
  BY <1>2, <1>11 DEF Mark, Merge, HandleLeave, HandleAgain
<1>12. ASSUME NEW i \in 1 .. Len(queue), Overtake(i)
       PROVE  Threaded'
  BY <1>2, <1>12 DEF Overtake
<1>13. ASSUME NEW t \in Drains, DrainReads(t)
       PROVE  Threaded'
  BY <1>13, DrainFacts, ThreadedNext DEF GoesOn, Knows
<1> QED
  BY <1>4, <1>5, <1>6, <1>7, <1>8, <1>9, <1>10, <1>11, <1>12, <1>13
     DEF Next, Handle

LEMMA NextTyped ==
  ASSUME Typed, Next
  PROVE  Typed'
  BY PlacesKept, FlagsKept, QueuedKept, KeyedKept, NamedKept, ThreadedKept,
     TypedPartsNext

-----------------------------------------------------------------------------
(* A session comes to the route when it is gone                            *)

\* A session keeps its stage once it has one, and is gone for good.
LEMMA SessionGoesOn ==
  ASSUME Typed, Next, NEW s \in Sessions, sess[s].phase # "unused"
  PROVE  /\ sess'[s].stage = sess[s].stage
         /\ sess[s].phase = "gone" => sess'[s] = sess[s]
         /\ sess'[s].phase # "unused"
<1>1. TypeOK /\ Named
  BY TypedParts DEF Typed
<1>2. ASSUME Cancel
      PROVE  /\ sess'[s].stage = sess[s].stage
             /\ sess[s].phase = "gone" => sess'[s] = sess[s]
             /\ sess'[s].phase # "unused"
  BY <1>1, <1>2, CancelFacts
<1>3. ASSUME NEW t \in Threads, NEW u \in Sessions, Begins(t, u)
      PROVE  sess'[s] = sess[s]
  BY <1>3, StartFacts
<1>4. ASSUME NEW u \in Sessions, NEW o, Finish(u, o)
      PROVE  /\ sess'[s].stage = sess[s].stage
             /\ sess[s].phase = "gone" => sess'[s] = sess[s]
             /\ sess'[s].phase # "unused"
  BY <1>4, FinishFacts
<1>5. ASSUME NEW u \in Sessions, Release(u)
      PROVE  /\ sess'[s].stage = sess[s].stage
             /\ sess[s].phase = "gone" => sess'[s] = sess[s]
             /\ sess'[s].phase # "unused"
  BY <1>5, ReleaseFacts
<1>6. CASE Handle
  <2>1. Cancel \/ sess' = sess
    BY <1>6 DEF Handle, HandleLeave, HandleEnter, HandleAgain, HandleMark,
                KeepSessions
  <2> QED
    BY <1>2, <2>1
<1>7. ASSUME NEW t \in Threads, Transit(t), \A u \in Sessions : ~Begins(t, u)
      PROVE  sess' = sess
  BY <1>7, TransitDone, PutsOffFacts, FailsFacts
     DEF Read, Choose, Move, MoveFails, Save, Idle, WaitedEnough, Untouched
<1>8. ASSUME NEW c \in Columns, Drag(c)
      PROVE  sess' = sess
  BY <1>8 DEF Drag
<1>9. CASE Mark \/ Merge \/ Poll
  BY <1>9 DEF Mark, Merge, Poll
<1>10. ASSUME NEW i \in 1 .. Len(queue), Overtake(i)
       PROVE  sess' = sess
  BY <1>10 DEF Overtake
<1>11. ASSUME NEW t \in Drains, DrainReads(t)
       PROVE  sess' = sess
  BY <1>11 DEF DrainReads
<1> QED
  BY <1>3, <1>4, <1>5, <1>6, <1>7, <1>8, <1>9, <1>10, <1>11 DEF Next

LEMMA NextGone ==
  ASSUME Typed, GoneInv, Next
  PROVE  GoneInv'
<1>1. \A s \in Sessions : sess[s].phase = "gone" => sess'[s].phase = "gone"
  BY SessionGoesOn
<1>2. ASSUME \A s \in Sessions : thread'[s] = thread[s]
      PROVE  GoneInv'
  BY <1>1, <1>2 DEF GoneInv
<1>3. ASSUME NEW c \in Columns, Drag(c)
      PROVE  GoneInv'
  BY <1>2, <1>3 DEF Drag
<1>4. CASE HandleEnter
  BY <1>2, <1>4, EnterFacts, Apart
<1>5. CASE HandleMark
  BY <1>2, <1>5, MarkFacts, Apart DEF Becomes
<1>6. ASSUME NEW t \in Threads, Transit(t)
      PROVE  GoneInv'
  BY <1>1, <1>6, TransitMovesOne, Apart DEF GoneInv
<1>7. ASSUME NEW s \in Sessions, NEW o, Finish(s, o)
      PROVE  GoneInv'
  BY <1>2, <1>7 DEF Finish
<1>8. ASSUME NEW s \in Sessions, Release(s)
      PROVE  GoneInv'
  BY <1>1, <1>8, ReleaseFacts, Apart DEF GoneInv, Becomes
<1>9. CASE Poll
  BY <1>2, <1>9, PollFacts, Apart DEF Becomes
<1>10. CASE Mark \/ Merge \/ HandleLeave \/ HandleAgain
  BY <1>2, <1>10 DEF Mark, Merge, HandleLeave, HandleAgain
<1>11. ASSUME NEW i \in 1 .. Len(queue), Overtake(i)
       PROVE  GoneInv'
  BY <1>2, <1>11 DEF Overtake
<1>12. ASSUME NEW t \in Drains, DrainReads(t)
       PROVE  GoneInv'
  BY <1>2, <1>12, DrainFacts, Apart DEF GoesOn
<1> QED
  BY <1>3, <1>4, <1>5, <1>6, <1>7, <1>8, <1>9, <1>10, <1>11, <1>12
     DEF Next, Handle

-----------------------------------------------------------------------------
(* One session at a time                                                   *)

LEMMA OneKept ==
  ASSUME OneInv, rushed => rushed', byCard' = byCard,
         \A s \in Sessions : Live(s)' => Live(s),
         \A t \in Threads : Starting(t)' => Starting(t)
  PROVE  OneInv'
  BY DEF OneInv

LEMMA NextOne ==
  ASSUME Typed, OneInv, Next
  PROVE  OneInv'
<1>1. Named /\ TypeOK /\ None \notin Sessions
  BY TypedParts, FlowRouteAssumption DEF Typed
<1>2. ASSUME thread' = thread, sess' = sess, rushed' = rushed, byCard' = byCard
      PROVE  OneInv'
  BY <1>2, OneKept DEF Live, Starting
<1>3. ASSUME NEW t \in Threads, rushed => rushed', byCard' = byCard, sess' = sess,
             \A u \in Threads \ {t} : thread'[u] = thread[u],
             ~Starting(t)'
      PROVE  OneInv'
  BY <1>3, OneKept DEF Live, Starting
<1>4. ASSUME NEW c \in Columns, Drag(c)
      PROVE  OneInv'
  BY <1>2, <1>4 DEF Drag, history
<1>5. CASE Mark \/ Merge
  BY <1>2, <1>5 DEF Mark, Merge, history
<1>6. ASSUME Cancel \/ sess' = sess, rushed' = rushed, byCard' = byCard,
             \A t \in Threads : Starting(t)' => Starting(t)
      PROVE  OneInv'
  <2>1. \A s \in Sessions : Live(s)' => Live(s)
    BY <1>1, <1>6, CancelFacts DEF Live
  <2> QED
    BY <1>6, <2>1, OneKept
<1>7. CASE HandleLeave
  BY <1>6, <1>7 DEF HandleLeave, KeepSessions, Starting
<1>8. CASE HandleEnter
  <2>1. \A t \in Threads : Starting(t)' => Starting(t)
    BY <1>8, EnterFacts DEF Starting
  <2> QED
    BY <1>6, <1>8, <2>1 DEF HandleEnter
<1>9. CASE HandleAgain
  BY <1>6, <1>9 DEF HandleAgain, KeepSessions, Starting
<1>10. CASE HandleMark
  <2>1. rushed' = rushed /\ byCard' = byCard
    BY <1>10 DEF HandleMark
  <2>2. \A t \in Threads : Starting(t)' => Starting(t)
    BY <1>10, MarkFacts, ReadingIsThread DEF Starting, Becomes, Triggers
  <2> QED
    BY <1>6, <1>10, <2>1, <2>2, MarkFacts DEF KeepSessions
<1>11. ASSUME NEW t \in Threads, Transit(t)
       PROVE  OneInv'
  <2>0. /\ thread' \in [Threads -> Thread]
        /\ \A u \in Threads \ {t} : thread'[u] = thread[u]
    BY <1>11, TransitMovesOne
  <2>1. ASSUME Becomes(t, Rest), rushed' = rushed, byCard' = byCard, sess' = sess
        PROVE  OneInv'
    BY <1>3, <2>0, <2>1, RestIsThread DEF Becomes, Starting
  <2>2. CASE Read(t)
    <3>1. rushed' = rushed /\ byCard' = byCard /\ sess' = sess
      BY <2>2 DEF Read, history
    <3> QED
      BY <1>3, <2>0, <2>1, <2>2, <3>1, ReadGoesOn DEF GoesOn, Starting
  <2>3. CASE Choose(t)
    <3>1. rushed' = rushed /\ byCard' = byCard /\ sess' = sess
      BY <2>3 DEF Choose
    <3> QED
      BY <1>3, <2>0, <2>1, <2>3, <3>1, ChooseGoesOn DEF GoesOn, Starting
  <2>4. CASE Move(t)
    BY <1>1, <1>3, <2>0, <2>4, ToGoesOn DEF Move, GoesOn, Starting
  <2>5. CASE MoveFails(t)
    BY <1>1, <2>1, <2>5, QuitRests DEF MoveFails, history
  <2>6. CASE Save(t)
    <3>1. rushed' = rushed /\ byCard' = byCard /\ sess' = sess
      BY <2>6 DEF Save
    <3> QED
      BY <1>3, <2>0, <2>1, <2>6, <3>1, SaveGoesOn DEF GoesOn, Starting
  <2>7. CASE Idle(t)
    <3>1. /\ byCard = None /\ byCard' = None /\ sess' = sess
          /\ rushed' = (rushed \/ \E u \in Threads : Starting(u))
      BY <2>7 DEF Idle
    <3> QED
      BY <1>1, <2>0, <3>1 DEF OneInv, Live, Starting
  <2>8. CASE WaitedEnough(t)
    BY <2>8 DEF WaitedEnough, OneInv
  <2>9. ASSUME NEW s \in Sessions, Begins(t, s)
        PROVE  OneInv'
    <3>1. Starting(t) /\ rushed' = rushed /\ ~Starting(t)'
      BY <2>9, BeginsFacts DEF Starting
    <3>2. CASE rushed
      BY <3>1, <3>2 DEF OneInv
    <3>3. CASE ~rushed
      <4>1. byCard = None /\ \A u \in Sessions : ~Live(u)
        BY <1>1, <3>1, <3>3 DEF OneInv
      <4>2. \A u \in Sessions : Live(u)' => u = s
        BY <2>9, <4>1, StartFacts DEF Live
      <4>3. \A u \in Threads : ~Starting(u)'
        BY <2>0, <3>1, <3>3 DEF OneInv, Starting
      <4>4. byCard' = s
        BY <2>9, StartFacts
      <4> QED
        BY <4>2, <4>3, <4>4 DEF OneInv
    <3> QED
      BY <3>2, <3>3
  <2>10. CASE PutsOff(t)
    BY <2>1, <2>10, PutsOffFacts DEF Untouched, history
  <2>11. CASE Fails(t)
    <3>1. ~Starting(t)'
      BY <2>11, FailsFacts DEF Starting
    <3>2. rushed' = rushed /\ byCard' = byCard /\ sess' = sess
      BY <2>11, FailsFacts DEF Untouched, history
    <3> QED
      BY <1>3, <2>0, <3>1, <3>2
  <2> QED
    BY <1>11, <2>2, <2>3, <2>4, <2>5, <2>6, <2>7, <2>8, <2>9, <2>10, <2>11,
       TransitDone
<1>12. ASSUME NEW s \in Sessions, NEW o, Finish(s, o)
       PROVE  OneInv'
  <2>1. rushed' = rushed /\ byCard' = byCard /\ thread' = thread
    BY <1>12 DEF Finish, history
  <2>2. \A u \in Sessions : Live(u)' => Live(u)
    BY <1>12, FinishFacts DEF Live
  <2> QED
    BY <2>1, <2>2, OneKept DEF Starting
<1>13. ASSUME NEW s \in Sessions, Release(s)
       PROVE  OneInv'
  <2>1. rushed' = rushed /\ byCard' = IF byCard = s THEN None ELSE byCard
    BY <1>13 DEF Release, history
  <2>2. Live(s) /\ \A u \in Sessions : Live(u)' => Live(u) /\ u # s
    BY <1>13, ReleaseFacts DEF Live
  <2>3. \A t \in Threads : Starting(t)' => Starting(t)
    <3>1. CASE Becomes(s, Rest)
      BY <3>1, RestIsThread DEF Starting, Becomes
    <3>2. ASSUME sess[s].outcome \in {"success", "failure"},
                 Becomes(s, Reading(sess[s].outcome, TRUE))
          PROVE  \A t \in Threads : Starting(t)' => Starting(t)
      <4>1. sess[s].outcome \in Triggers
        BY <3>2 DEF Triggers
      <4> QED
        BY <3>2, <4>1, ReadingIsThread DEF Starting, Becomes
    <3> QED
      BY <1>13, <3>1, <3>2, ReleaseFacts
  <2> QED
    BY <2>1, <2>2, <2>3 DEF OneInv
<1>14. CASE Poll
  <2>1. ~Starting(Watch)'
        /\ \A u \in Threads \ {Watch} : thread'[u] = thread[u]
    BY <1>14, PollFacts, ReadingIsThread DEF Becomes, Triggers, Starting
  <2> QED
    BY <1>3, <1>14, <2>1, Apart DEF Poll, history
<1>15. ASSUME NEW i \in 1 .. Len(queue), Overtake(i)
       PROVE  OneInv'
  BY <1>2, <1>15 DEF Overtake
<1>16. ASSUME NEW t \in Drains, DrainReads(t)
       PROVE  OneInv'
  <2>1. /\ rushed' = (rushed \/ byCard # None \/ \E u \in Threads : Starting(u))
        /\ byCard' = byCard /\ sess' = sess
    BY <1>16 DEF DrainReads
  <2>2. \A u \in Threads \ {t} : thread'[u] = thread[u]
    BY <1>16, DrainFacts DEF GoesOn
  <2> QED
    BY <1>1, <2>1, <2>2 DEF OneInv, Live, Starting
<1> QED
  BY <1>4, <1>5, <1>7, <1>8, <1>9, <1>10, <1>11, <1>12, <1>13, <1>14, <1>15,
     <1>16 DEF Next, Handle

-----------------------------------------------------------------------------
(* What a session has to say is about the stage the card stands at         *)

\* What was noted of a session stays noted.
LEMMA NotesGrow ==
  ASSUME Typed, Next
  PROVE  overtaken \subseteq overtaken' /\ mislaid \subseteq mislaid'
<1> DEFINE Goal == overtaken \subseteq overtaken' /\ mislaid \subseteq mislaid'
<1>1. TypeOK
  BY DEF Typed
<1>2. ASSUME NEW t \in Threads, Transit(t)
      PROVE  Goal
  BY <1>2, TransitDone, BeginsFacts, PutsOffFacts, FailsFacts
     DEF Read, Choose, Move, MoveFails, Save, Idle, WaitedEnough, StartSession,
         Untouched, history, started
<1>3. CASE Handle
  BY <1>1, <1>3, CancelFacts
     DEF Handle, HandleLeave, HandleEnter, HandleAgain, HandleMark,
         KeepSessions, started
<1>4. ASSUME NEW c \in Columns, Drag(c)
      PROVE  Goal
  BY <1>4 DEF Drag, history, started
<1>5. ASSUME NEW s \in Sessions, NEW o, Finish(s, o)
      PROVE  Goal
  BY <1>5 DEF Finish, history, started
<1>6. ASSUME NEW s \in Sessions, Release(s)
      PROVE  Goal
  BY <1>6 DEF Release, history, started
<1>7. CASE Mark \/ Merge \/ Poll
  BY <1>7 DEF Mark, Merge, Poll, history, started
<1>8. ASSUME NEW i \in 1 .. Len(queue), Overtake(i)
      PROVE  Goal
  BY <1>8 DEF Overtake, started
<1>9. ASSUME NEW t \in Drains, DrainReads(t)
      PROVE  Goal
  BY <1>9 DEF DrainReads, started
<1> QED
  BY <1>2, <1>3, <1>4, <1>5, <1>6, <1>7, <1>8, <1>9 DEF Next

Noted == overtaken \cup mislaid

LEMMA TellKept ==
  ASSUME TellInv, at' = at, Noted \subseteq Noted',
         \A s \in Sessions \ Noted' :
           /\ sess'[s].phase = "work" => sess[s].phase = "work" /\ byCard' = byCard
           /\ Tells(s)' => Tells(s) /\ sess'[s].stage = sess[s].stage,
         \A t \in Threads : Dragging(t)' => Dragging(t)
  PROVE  TellInv'
  BY DEF TellInv, Noted

\* A cancel leaves nobody who would say anything unnoticed.
LEMMA CancelSilences ==
  ASSUME Typed, TellInv, Cancel, Noted \subseteq Noted',
         \A s \in Sessions : thread'[s].pc = "read" => thread[s].pc = "read"
  PROVE  TellInv'
<1>1. ASSUME NEW s \in Sessions, s \notin Noted'
      PROVE  ~Tells(s)'
  BY <1>1, CancelFacts DEF Typed, TellInv, Tells, Telling, Noted
<1> QED
  BY <1>1 DEF TellInv, Tells, Noted

LEMMA NextTell ==
  ASSUME Typed, GoneInv, TellInv, Next
  PROVE  TellInv'
<1>1. /\ Named /\ Threaded /\ TypeOK /\ None \notin Sessions
      /\ Noted \subseteq Noted'
  BY TypedParts, NotesGrow, FlowRouteAssumption DEF Typed, Noted
<1>2. ASSUME thread' = thread, sess' = sess, byCard' = byCard, at' = at
      PROVE  TellInv'
  BY <1>1, <1>2, TellKept DEF Tells, Dragging
<1>3. ASSUME NEW c \in Columns, Drag(c)
      PROVE  TellInv'
  BY <1>2, <1>3 DEF Drag, place, recorded
<1>4. CASE Mark \/ Merge
  BY <1>2, <1>4 DEF Mark, Merge, place, recorded
<1>5. CASE HandleLeave
  <2>1. CASE Event.from \in Nodes
    BY <1>1, <1>5, <2>1, CancelSilences DEF HandleLeave
  <2>2. CASE Event.from \notin Nodes
    BY <1>2, <1>5, <2>2 DEF HandleLeave, KeepSessions, place, recorded
  <2> QED
    BY <2>1, <2>2
<1>6. CASE HandleEnter
  <2>1. \A s \in Sessions : thread'[s] = thread[s]
    BY <1>6, EnterFacts, Apart
  <2> QED
    BY <1>1, <1>6, <2>1, CancelSilences DEF HandleEnter
<1>7. CASE HandleAgain
  BY <1>2, <1>7 DEF HandleAgain, KeepSessions, place, recorded
<1>8. CASE HandleMark
  <2>1. CASE KeepSessions /\ thread' = thread
    BY <1>2, <1>8, <2>1 DEF HandleMark, KeepSessions, place, recorded
  <2>2. CASE Cancel /\ Becomes(Loop, Reading("changed", FALSE))
    <3>1. \A s \in Sessions : thread'[s] = thread[s]
      BY <2>2, Apart DEF Becomes
    <3> QED
      BY <1>1, <2>2, <3>1, CancelSilences
  <2> QED
    BY <1>8, <2>1, <2>2, MarkFacts
<1>9. ASSUME NEW t \in Threads, Transit(t)
      PROVE  TellInv'
  <2>0. /\ thread' \in [Threads -> Thread]
        /\ \A u \in Threads \ {t} : thread'[u] = thread[u]
        /\ thread[t].pc \in {"choose", "move"} => thread[t].on # "drag"
    BY <1>1, <1>9, TransitMovesOne DEF Threaded, ThreadInv
  <2>1. ASSUME at' = at, sess' = sess, byCard' = byCard,
               thread'[t].pc = "read" => ~thread'[t].own,
               thread'[t].pc = "save" => thread'[t].on # "drag"
        PROVE  TellInv'
    <3>1. \A s \in Sessions : Tells(s)' => Tells(s)
      BY <2>0, <2>1, Apart DEF Tells
    <3>2. \A u \in Threads : Dragging(u)' => Dragging(u)
      BY <2>0, <2>1 DEF Dragging
    <3> QED
      BY <1>1, <2>1, <3>1, <3>2, TellKept
  <2>2. CASE Read(t)
    <3>1. at' = at /\ sess' = sess /\ byCard' = byCard
      BY <2>2 DEF Read, recorded
    <3>2. thread'[t].pc \notin {"read", "save"}
      BY <2>2, ReadGoesOn, RestIsThread DEF GoesOn, Becomes
    <3> QED
      BY <2>1, <3>1, <3>2
  <2>3. CASE Choose(t)
    <3>1. at' = at /\ sess' = sess /\ byCard' = byCard
      BY <2>3 DEF Choose, recorded
    <3>2. thread'[t].pc \notin {"read", "save"}
      BY <2>3, ChooseGoesOn, RestIsThread DEF GoesOn, Becomes
    <3> QED
      BY <2>1, <3>1, <3>2
  <2>4. CASE Move(t)
    <3>1. /\ at' = at /\ sess' = sess
          /\ byCard' = byCard /\ thread[t].pc = "move"
      BY <2>4 DEF Move, place, recorded
    <3>2. thread'[t].pc = "save" /\ thread'[t].on = thread[t].on
      BY <1>1, <2>4, ToGoesOn DEF Move, GoesOn
    <3> QED
      BY <2>0, <2>1, <3>1, <3>2
  <2>5. CASE MoveFails(t)
    <3>1. at' = at /\ sess' = sess /\ byCard' = byCard
      BY <2>5 DEF MoveFails, recorded
    <3>2. thread'[t].pc \notin {"read", "save"}
      BY <1>1, <2>5, QuitRests, RestIsThread DEF MoveFails, Becomes
    <3> QED
      BY <2>1, <3>1, <3>2
  <2>6. CASE Save(t)
    <3>1. /\ sess' = sess /\ overtaken' = overtaken \cup Outrun(t)
          /\ thread[t].pc = "save"
      BY <2>6 DEF Save
    <3>2. thread'[t].pc \notin {"read", "save"}
      BY <2>6, SaveGoesOn, RestIsThread DEF GoesOn, Becomes
    <3>3. ASSUME NEW s \in Sessions, Tells(s)'
          PROVE  Tells(s) /\ s # t
      BY <2>0, <3>1, <3>2, <3>3, Apart DEF Tells, GoneInv
    <3>4. CASE thread[t].on = "drag"
      <4>1. \A s \in Sessions \ Noted : ~Tells(s)
        BY <3>1, <3>4 DEF TellInv, Dragging, Noted
      <4> QED
        BY <1>1, <3>3, <4>1 DEF TellInv, Tells, Noted
    <3>5. CASE thread[t].on # "drag"
      <4>1. \A s \in Sessions : Tells(s) /\ s # t => s \in overtaken'
        BY <3>1, <3>5 DEF Tells, Outrun, Live, Telling
      <4> QED
        BY <3>3, <4>1 DEF TellInv, Tells
    <3> QED
      BY <3>4, <3>5
  <2>7. CASE Idle(t)
    <3>1. at' = at /\ sess' = sess /\ byCard' = byCard
      BY <2>7 DEF Idle, place, recorded
    <3>2. thread'[t].pc \notin {"read", "save"}
      BY <1>1, <2>7, ToGoesOn DEF Idle, GoesOn
    <3> QED
      BY <2>1, <3>1, <3>2
  <2>8. CASE WaitedEnough(t)
    <3>1. at' = at /\ sess' = sess /\ byCard' = byCard
      BY <2>8 DEF WaitedEnough, place, recorded
    <3>2. thread'[t].pc \notin {"read", "save"}
      BY <1>1, <2>8, ToGoesOn DEF WaitedEnough, GoesOn
    <3> QED
      BY <2>1, <3>1, <3>2
  <2>9. ASSUME NEW s \in Sessions, Begins(t, s)
        PROVE  TellInv'
    <3>1. /\ at' = at
          /\ overtaken' = overtaken \cup {u \in {s} : Late(t)}
                            \cup {u \in Sessions : Live(u)}
          /\ mislaid' = mislaid \cup {u \in {s} : /\ index = thread[t].to
                                                  /\ at # thread[t].to}
      BY <2>9, BeginsFacts DEF StartSession, recorded
    <3>2. thread'[t].pc \notin {"read", "save"}
      BY <2>9, BeginsFacts
    <3>3. \A u \in Threads : Dragging(u)' => Dragging(u)
      BY <2>0, <3>2 DEF Dragging
    <3>4. ASSUME NEW u \in Sessions \ Noted', u # s
          PROVE  /\ sess'[u].phase # "work"
                 /\ Tells(u)' => Tells(u) /\ sess'[u].stage = sess[u].stage
      <4>1. ~Live(u) /\ u \in Sessions /\ sess'[u] = sess[u]
        BY <2>9, <3>1, <3>4, StartFacts DEF Noted
      <4>2. thread'[u].pc = "read" => thread'[u] = thread[u]
        BY <2>0, <3>2, Apart
      <4> QED
        BY <4>1, <4>2 DEF Tells, Live
    <3>5. ASSUME s \notin Noted'
          PROVE  at = sess'[s].stage /\ \A u \in Threads : ~Dragging(u)
      <4>1. index = thread[t].to /\ \A u \in Threads : ~Writing(u)
        BY <3>1, <3>5 DEF Late, Noted
      <4>2. at = thread[t].to
        BY <3>1, <3>5, <4>1 DEF Noted
      <4> QED
        BY <2>9, <4>1, <4>2, StartFacts DEF Writing, Dragging
    <3>6. byCard' = s
      BY <2>9, StartFacts
    <3>7. ASSUME NEW u \in Sessions \ Noted'
          PROVE  /\ sess'[u].phase = "work" => byCard' = u
                 /\ Tells(u)' => /\ at' = sess'[u].stage
                                 /\ \A v \in Threads : ~Dragging(v)'
      <4>1. CASE u = s
        BY <3>1, <3>3, <3>5, <3>6, <3>7, <4>1
      <4>2. CASE u # s
        <5>1. u \in Sessions \ Noted
          BY <1>1, <3>7
        <5> QED
          BY <3>1, <3>3, <3>4, <3>7, <4>2, <5>1 DEF TellInv, Noted
      <4> QED
        BY <4>1, <4>2
    <3> QED
      BY <3>7 DEF TellInv, Noted
  <2>10. CASE PutsOff(t)
    BY <2>1, <2>10, PutsOffFacts, RestIsThread DEF Untouched, recorded, Becomes
  <2>11. CASE Fails(t)
    <3>1. at' = at /\ sess' = sess /\ byCard' = byCard
      BY <2>11, FailsFacts DEF Untouched, recorded
    <3>2. ~thread'[t].own /\ thread'[t].pc # "save"
      BY <2>11, FailsFacts
    <3> QED
      BY <2>1, <3>1, <3>2
  <2> QED
    BY <1>9, <2>2, <2>3, <2>4, <2>5, <2>6, <2>7, <2>8, <2>9, <2>10, <2>11,
       TransitDone
<1>10. ASSUME NEW s \in Sessions, NEW o, Finish(s, o)
       PROVE  TellInv'
  <2>1. at' = at /\ byCard' = byCard /\ thread' = thread
    BY <1>10 DEF Finish, recorded
  <2>2. \A u \in Sessions :
          /\ sess'[u].phase = "work" => sess[u].phase = "work"
          /\ Tells(u)' => Tells(u)
          /\ sess'[u].stage = sess[u].stage
    BY <1>10, <2>1, FinishFacts DEF Tells
  <2> QED
    BY <1>1, <2>1, <2>2, TellKept DEF Dragging
<1>11. ASSUME NEW s \in Sessions, Release(s)
       PROVE  TellInv'
  <2>1. at' = at /\ byCard' = IF byCard = s THEN None ELSE byCard
    BY <1>11 DEF Release, place, recorded
  <2>2. /\ thread'[s].pc = "read" => sess[s].outcome # "none"
        /\ thread'[s].pc # "save"
        /\ \A u \in Threads \ {s} : thread'[u] = thread[u]
    <3>1. CASE Becomes(s, Rest)
      BY <3>1, RestIsThread DEF Becomes
    <3>2. ASSUME sess[s].outcome \in {"success", "failure"},
                 Becomes(s, Reading(sess[s].outcome, TRUE))
          PROVE  thread'[s].pc = "read" /\ sess[s].outcome # "none"
                 /\ \A u \in Threads \ {s} : thread'[u] = thread[u]
      <4>1. sess[s].outcome \in Triggers
        BY <3>2 DEF Triggers
      <4> QED
        BY <3>2, <4>1, ReadingIsThread DEF Becomes
    <3> QED
      BY <1>11, <3>1, <3>2, ReleaseFacts
  <2>3. \A u \in Sessions :
          /\ sess'[u].phase = "work" => sess[u].phase = "work" /\ u # s
          /\ Tells(u)' => Tells(u)
          /\ sess'[u].stage = sess[u].stage
    BY <1>11, <2>2, ReleaseFacts, Apart DEF Tells
  <2>4. \A t \in Threads : Dragging(t)' => Dragging(t)
    BY <2>2 DEF Dragging
  <2>5. \A u \in Sessions \ Noted' :
          sess'[u].phase = "work" => byCard' = byCard
    BY <1>1, <2>1, <2>3 DEF TellInv, Noted
  <2> QED
    BY <1>1, <2>1, <2>3, <2>4, <2>5, TellKept
<1>12. CASE Poll
  <2>1. /\ thread'[Watch].pc # "save"
        /\ \A u \in Threads \ {Watch} : thread'[u] = thread[u]
    BY <1>12, PollFacts, ReadingIsThread DEF Becomes, Triggers
  <2>2. at' = at /\ byCard' = byCard /\ sess' = sess
    BY <1>12 DEF Poll, place, recorded
  <2>3. \A u \in Sessions : Tells(u)' => Tells(u)
    BY <2>1, <2>2, Apart DEF Tells
  <2>4. \A t \in Threads : Dragging(t)' => Dragging(t)
    BY <2>1 DEF Dragging
  <2> QED
    BY <1>1, <2>2, <2>3, <2>4, TellKept
<1>13. ASSUME NEW i \in 1 .. Len(queue), Overtake(i)
       PROVE  TellInv'
  BY <1>2, <1>13 DEF Overtake, place, recorded
<1>14. ASSUME NEW t \in Drains, DrainReads(t)
       PROVE  TellInv'
  <2>1. at' = at /\ byCard' = byCard /\ sess' = sess
    BY <1>14 DEF DrainReads, place, recorded
  <2>2. /\ t \in Threads /\ thread'[t].pc \notin {"read", "save"}
        /\ \A u \in Threads \ {t} : thread'[u] = thread[u]
    BY <1>14, DrainFacts DEF GoesOn
  <2>3. \A u \in Sessions : Tells(u)' => Tells(u)
    BY <2>1, <2>2, Apart DEF Tells
  <2>4. \A u \in Threads : Dragging(u)' => Dragging(u)
    BY <2>2 DEF Dragging
  <2> QED
    BY <1>1, <2>1, <2>3, <2>4, TellKept
<1> QED
  BY <1>3, <1>4, <1>5, <1>6, <1>7, <1>8, <1>9, <1>10, <1>11, <1>12, <1>13,
     <1>14 DEF Next, Handle

\* A session's thread stands as it stood, or has no stage of its own in hand,
\* or has the one it is the outcome of.
LEMMA OutcomeNext ==
  ASSUME Typed, GoneInv, OutcomeOfItsStage, Next,
         Noted \subseteq Noted',
         \A s \in Sessions :
           \/ thread'[s].own = thread[s].own /\ thread'[s].from = thread[s].from
           \/ ~thread'[s].own \/ thread'[s].from = None
           \/ thread'[s].from = sess[s].stage /\ sess[s].phase # "unused"
           \/ s \in Noted
  PROVE  OutcomeOfItsStage'
<1>1. \A s \in Sessions : sess[s].phase # "unused" => sess'[s].stage = sess[s].stage
  BY SessionGoesOn
<1>2. \A s \in Sessions : thread[s].own => sess[s].phase # "unused"
  BY DEF GoneInv
<1> QED
  BY <1>1, <1>2 DEF OutcomeOfItsStage, Noted

LEMMA NextOutcome ==
  ASSUME Typed, GoneInv, TellInv, OutcomeOfItsStage, Next
  PROVE  OutcomeOfItsStage'
<1>0. Threaded /\ TypeOK /\ Noted \subseteq Noted'
  BY TypedParts, NotesGrow DEF Typed, Noted
<1>1. ASSUME \A s \in Sessions :
               \/ thread'[s].own = thread[s].own /\ thread'[s].from = thread[s].from
               \/ ~thread'[s].own \/ thread'[s].from = None
      PROVE  OutcomeOfItsStage'
  BY <1>0, <1>1, OutcomeNext
<1>2. ASSUME NEW c \in Columns, Drag(c)
      PROVE  OutcomeOfItsStage'
  BY <1>1, <1>2 DEF Drag
<1>3. CASE Mark \/ Merge \/ HandleLeave \/ HandleAgain
  BY <1>1, <1>3 DEF Mark, Merge, HandleLeave, HandleAgain
<1>4. CASE HandleEnter
  BY <1>1, <1>4, EnterFacts, Apart
<1>5. CASE HandleMark
  BY <1>1, <1>5, MarkFacts, Apart DEF Becomes
<1>6. ASSUME NEW t \in Threads, Transit(t)
      PROVE  OutcomeOfItsStage'
  <2>0. \A u \in Threads \ {t} : thread'[u] = thread[u]
    BY <1>6, TransitMovesOne
  <2>1. ASSUME \/ thread'[t].own = thread[t].own
                  /\ thread'[t].from = thread[t].from
               \/ ~thread'[t].own
        PROVE  OutcomeOfItsStage'
    BY <1>1, <2>0, <2>1, Apart
  <2>2. CASE Becomes(t, Rest)
    BY <2>1, <2>2, RestIsThread DEF Becomes
  <2>3. CASE Read(t)
    <3>1. CASE GoesOn(t, "choose") /\ thread'[t].from = at
      <4>1. thread[t].pc = "read"
        BY <2>3 DEF Read
      <4>2. \A s \in Sessions \ {t} :
              thread'[s].own = thread[s].own /\ thread'[s].from = thread[s].from
        BY <2>0, Apart
      <4>3. t \in Sessions /\ thread'[t].own =>
              \/ thread'[t].from = sess[t].stage /\ sess[t].phase # "unused"
              \/ t \in Noted
        BY <3>1, <4>1 DEF TellInv, Tells, GoesOn, GoneInv, Noted
      <4> QED
        BY <1>0, <4>2, <4>3, OutcomeNext
    <3> QED
      BY <2>2, <2>3, <3>1, ReadGoesOn
  <2>4. CASE Choose(t)
    BY <2>1, <2>2, <2>4, ChooseGoesOn DEF GoesOn
  <2>5. CASE Move(t)
    BY <1>0, <2>1, <2>5, ToGoesOn DEF Move, GoesOn
  <2>6. CASE MoveFails(t)
    BY <1>0, <2>2, <2>6, QuitRests DEF MoveFails
  <2>7. CASE Save(t)
    BY <2>1, <2>2, <2>7, SaveGoesOn DEF GoesOn
  <2>8. CASE Idle(t)
    BY <1>0, <2>1, <2>8, ToGoesOn DEF Idle, GoesOn
  <2>9. CASE WaitedEnough(t)
    BY <1>0, <2>1, <2>9, ToGoesOn DEF WaitedEnough, GoesOn
  <2>10. ASSUME NEW s \in Sessions, Begins(t, s)
         PROVE  OutcomeOfItsStage'
    BY <2>1, <2>10, BeginsFacts
  <2>11. CASE PutsOff(t)
    BY <2>2, <2>11, PutsOffFacts
  <2>12. CASE Fails(t)
    BY <2>1, <2>12, FailsFacts
  <2> QED
    BY <1>6, <2>3, <2>4, <2>5, <2>6, <2>7, <2>8, <2>9, <2>10, <2>11, <2>12,
       TransitDone
<1>7. ASSUME NEW s \in Sessions, NEW o, Finish(s, o)
      PROVE  OutcomeOfItsStage'
  BY <1>1, <1>7 DEF Finish
<1>8. ASSUME NEW s \in Sessions, Release(s)
      PROVE  OutcomeOfItsStage'
  <2>1. CASE Becomes(s, Rest)
    BY <1>1, <2>1, RestIsThread, Apart DEF Becomes
  <2>2. ASSUME sess[s].outcome \in {"success", "failure"},
               Becomes(s, Reading(sess[s].outcome, TRUE))
        PROVE  OutcomeOfItsStage'
    <3>1. sess[s].outcome \in Triggers
      BY <2>2 DEF Triggers
    <3>2. thread'[s].from = None
      BY <2>2, <3>1, ReadingIsThread DEF Becomes
    <3>3. \A u \in Sessions \ {s} : thread'[u] = thread[u]
      BY <2>2, Apart DEF Becomes
    <3> QED
      BY <1>1, <3>2, <3>3
  <2> QED
    BY <1>8, <2>1, <2>2, ReleaseFacts
<1>9. CASE Poll
  BY <1>1, <1>9, PollFacts, Apart DEF Becomes
<1>10. ASSUME NEW i \in 1 .. Len(queue), Overtake(i)
       PROVE  OutcomeOfItsStage'
  BY <1>1, <1>10 DEF Overtake
<1>11. ASSUME NEW t \in Drains, DrainReads(t)
       PROVE  OutcomeOfItsStage'
  BY <1>1, <1>11, DrainFacts, Apart DEF GoesOn
<1> QED
  BY <1>2, <1>3, <1>4, <1>5, <1>6, <1>7, <1>8, <1>9, <1>10, <1>11
     DEF Next, Handle

-----------------------------------------------------------------------------
(* Where the board shows the card, and where the route has it              *)

\* Nobody begins or ends to save, and the drags in the queue are as they were.
LEMMA StandKept ==
  ASSUME StandInv, crossed => crossed', swallowed => swallowed',
         queue' = queue, column' = column, index' = index,
         \A t \in Threads : thread'[t] = thread[t] \/ (~Saving(t) /\ ~Saving(t)')
  PROVE  StandInv'
  BY DEF StandInv, NoMove, LastMove, IsMove, Saving

\* What is left of the queue when its first event is taken.
LEMMA MovesLeft ==
  ASSUME Typed, queue # <<>>, queue' = Tail(queue)
  PROVE  /\ Event.kind = "move" /\ NoMove' => LastMove(1) /\ 1 \in 1 .. Len(queue)
         /\ Event.kind # "move" => (NoMove' <=> NoMove)
         /\ \A i \in 1 .. Len(queue') :
              LastMove(i)' => /\ i + 1 \in 1 .. Len(queue)
                              /\ LastMove(i + 1)
                              /\ queue'[i] = queue[i + 1]
         /\ Event = queue[1]
<1>1. /\ Len(queue) \in Nat \ {0}
      /\ Event = queue[1]
      /\ Len(queue') = Len(queue) - 1
      /\ \A i \in 1 .. Len(queue) - 1 : queue'[i] = queue[i + 1]
  BY EventFacts
<1>2. \A i \in 1 .. Len(queue') : i + 1 \in 1 .. Len(queue) /\ (IsMove(i)' <=> IsMove(i + 1))
  BY <1>1 DEF IsMove
<1>3. \A j \in 1 .. Len(queue) : j = 1 \/ (j - 1 \in 1 .. Len(queue') /\ (j - 1) + 1 = j)
  BY <1>1
<1>4. \A j \in 1 .. Len(queue) : j # 1 => (IsMove(j) <=> IsMove(j - 1)')
  BY <1>2, <1>3
<1>5. NoMove' => \A j \in 1 .. Len(queue) : j # 1 => ~IsMove(j)
  BY <1>3, <1>4 DEF NoMove
<1>6. Event.kind = "move" <=> IsMove(1)
  BY <1>1 DEF IsMove
<1>7. 1 \in 1 .. Len(queue)
  BY <1>1
<1>8. Event.kind = "move" /\ NoMove' => LastMove(1)
  BY <1>1, <1>5, <1>6 DEF LastMove
<1>9. NoMove => NoMove'
  BY <1>2 DEF NoMove
<1>10. Event.kind # "move" /\ NoMove' => NoMove
  BY <1>5, <1>6 DEF NoMove
<1>11. ASSUME NEW i \in 1 .. Len(queue'), LastMove(i)'
       PROVE  LastMove(i + 1)
  <2>1. IsMove(i + 1)
    BY <1>2, <1>11 DEF LastMove
  <2>2. ASSUME NEW j \in 1 .. Len(queue), j > i + 1
        PROVE  ~IsMove(j)
    <3>1. j # 1 /\ j - 1 \in 1 .. Len(queue') /\ j - 1 > i
      BY <1>1, <2>2
    <3> QED
      BY <1>4, <1>11, <3>1 DEF LastMove
  <2> QED
    BY <2>1, <2>2 DEF LastMove
<1> QED
  BY <1>1, <1>2, <1>7, <1>8, <1>9, <1>10, <1>11

\* A mark at the end of the queue is no drag.
LEMMA MarkIsNoMove ==
  ASSUME Typed, Mark
  PROVE  /\ NoMove' <=> NoMove
         /\ \A i \in 1 .. Len(queue') :
              LastMove(i)' => i \in 1 .. Len(queue) /\ LastMove(i)
                              /\ queue'[i] = queue[i]
<1> DEFINE e == [kind |-> "mark", by |-> 0, from |-> Off, to |-> Off]
<1>1. Queued /\ Len(queue) \in Nat /\ e.kind = "mark"
  BY TypedParts, LenProperties DEF Queued
<1>2. CASE queue' = queue
  BY <1>2 DEF NoMove, LastMove, IsMove
<1>3. CASE queue' = Append(queue, e)
  <2> HIDE DEF e
  <2>0. PICK n : n = Len(queue) + 1
    OBVIOUS
  <2>1. /\ Len(queue') = n
        /\ queue'[n] = e
        /\ \A i \in 1 .. Len(queue) : queue'[i] = queue[i]
    BY <1>1, <1>3, <2>0, AppendProperties DEF Queued
  <2>2. \A i \in 1 .. n : i = n \/ i \in 1 .. Len(queue)
    BY <1>1, <2>0
  <2>3. ~IsMove(n)'
    BY <1>1, <2>1 DEF IsMove
  <2>4. \A i \in 1 .. Len(queue) :
          i \in 1 .. Len(queue') /\ (IsMove(i)' <=> IsMove(i))
    BY <1>1, <2>0, <2>1 DEF IsMove
  <2>5. NoMove' <=> NoMove
    BY <2>1, <2>2, <2>3, <2>4 DEF NoMove
  <2>6. ASSUME NEW i \in 1 .. Len(queue'), LastMove(i)'
        PROVE  i \in 1 .. Len(queue) /\ LastMove(i) /\ queue'[i] = queue[i]
    <3>1. i \in 1 .. Len(queue)
      BY <2>1, <2>2, <2>3, <2>6 DEF LastMove
    <3> QED
      BY <2>1, <2>4, <2>6, <3>1 DEF LastMove
  <2> QED
    BY <2>5, <2>6
<1> QED
  BY <1>2, <1>3 DEF Mark

\* A drag is the last one as soon as it is made.
LEMMA DragIsLast ==
  ASSUME Typed, NEW c \in Columns, Drag(c)
  PROVE  /\ ~NoMove'
         /\ \A i \in 1 .. Len(queue') : LastMove(i)' => queue'[i].to = column'
<1> DEFINE e == [kind |-> "move", by |-> chances + 1, from |-> column, to |-> c]
<1>1. Queued /\ Len(queue) \in Nat /\ e.kind = "move" /\ e.to = c
  BY TypedParts, LenProperties DEF Queued
<1>2. queue' = Append(queue, e) /\ column' = c
  BY DEF Drag
<1> HIDE DEF e
<1>3. PICK n : n = Len(queue) + 1
  OBVIOUS
<1>4. Len(queue') = n /\ queue'[n] = e
  BY <1>1, <1>2, <1>3, AppendProperties DEF Queued
<1>5. n \in 1 .. Len(queue') /\ IsMove(n)'
  BY <1>1, <1>3, <1>4 DEF IsMove
<1>6. \A i \in 1 .. Len(queue') : LastMove(i)' => i = n
  BY <1>1, <1>3, <1>4, <1>5 DEF LastMove
<1> QED
  BY <1>1, <1>2, <1>4, <1>5, <1>6 DEF NoMove

\* A drag and what is no drag change places: the last drag is the last still.
LEMMA OvertakeKeepsLast ==
  ASSUME Typed, NEW i \in 1 .. Len(queue), Overtake(i), ~crossed'
  PROVE  /\ NoMove' <=> NoMove
         /\ \A j \in 1 .. Len(queue') :
              LastMove(j)' => \E k \in 1 .. Len(queue) :
                                LastMove(k) /\ queue'[j] = queue[k]
<1> DEFINE n == Len(queue)
           other(j) == IF j = i THEN i + 1 ELSE IF j = i + 1 THEN i ELSE j
<1>1. /\ i \in Nat /\ i + 1 \in 1 .. n /\ n \in Nat /\ Len(queue') = n
      /\ queue'[i] = queue[i + 1] /\ queue'[i + 1] = queue[i]
      /\ \A j \in 1 .. n : j # i /\ j # i + 1 => queue'[j] = queue[j]
  BY OvertakeFacts
<1>2. ~(IsMove(i) /\ IsMove(i + 1))
  BY DEF Overtake, IsMove
<1> HIDE DEF n
<1>3. i \in 1 .. n
  BY DEF n
<1>4. \A j \in 1 .. n : /\ other(j) \in 1 .. n
                        /\ queue'[j] = queue[other(j)]
                        /\ queue[j] = queue'[other(j)]
  BY <1>1, <1>3
<1>5. \A j \in 1 .. n : (IsMove(j)' <=> IsMove(other(j)))
                        /\ (IsMove(j) <=> IsMove(other(j))')
  BY <1>4 DEF IsMove
<1>6. NoMove' <=> NoMove
  <2>1. NoMove' <=> \A j \in 1 .. n : ~IsMove(j)'
    BY <1>1 DEF NoMove
  <2>2. NoMove <=> \A j \in 1 .. n : ~IsMove(j)
    BY DEF NoMove, n
  <2> HIDE DEF other
  <2> QED
    BY <1>4, <1>5, <2>1, <2>2
<1>7. ASSUME NEW j \in 1 .. Len(queue'), LastMove(j)'
      PROVE  \E k \in 1 .. Len(queue) : LastMove(k) /\ queue'[j] = queue[k]
  <2>1. /\ j \in 1 .. n /\ IsMove(j)'
        /\ \A m \in 1 .. n : m > j => ~IsMove(m)'
    BY <1>1, <1>7 DEF LastMove
  <2>2. other(j) \in 1 .. n /\ queue'[j] = queue[other(j)] /\ IsMove(other(j))
    BY <1>4, <1>5, <2>1
  <2>3. ASSUME NEW m \in 1 .. n, m > other(j), IsMove(m) PROVE FALSE
    <3>1. other(m) \in 1 .. n /\ IsMove(other(m))'
      BY <1>4, <1>5, <2>3
    <3>2. ~(other(m) > j)
      BY <2>1, <3>1
    <3>3. j = i + 1 /\ m = i + 1
      BY <1>1, <2>1, <2>3, <3>2
    <3>4. IsMove(i) /\ IsMove(i + 1)
      BY <1>1, <2>2, <2>3, <3>3
    <3> QED
      BY <1>2, <3>4
  <2>4. LastMove(other(j))
    BY <2>2, <2>3 DEF LastMove, n
  <2> HIDE DEF other
  <2> QED
    BY <2>2, <2>4 DEF n
<1> QED
  BY <1>6, <1>7

LEMMA NextStand ==
  ASSUME Typed, GoneInv, StandInv, Next
  PROVE  StandInv'
<1>0. Threaded /\ TypeOK /\ column \in Columns /\ Off \notin Nodes
      /\ None \notin Nodes
  BY TypedParts, FlowRouteAssumption DEF Typed, Places
<1>1. ASSUME (crossed => crossed'), (swallowed => swallowed'),
             queue' = queue, column' = column, index' = index, thread' = thread
      PROVE  StandInv'
  BY <1>1, StandKept
<1>2. ASSUME NEW c \in Columns, Drag(c)
      PROVE  StandInv'
  <2>1. crossed' = crossed /\ swallowed' = swallowed /\ thread' = thread
    BY <1>2 DEF Drag, history
  <2> QED
    BY <1>2, <2>1, DragIsLast DEF StandInv, Saving
<1>3. CASE Mark
  <2>1. crossed' = crossed /\ swallowed' = swallowed /\ thread' = thread
        /\ column' = column /\ index' = index
    BY <1>3 DEF Mark, history, place, recorded
  <2> QED
    BY <1>3, <2>1, MarkIsNoMove DEF StandInv, Saving
<1>4. CASE Merge
  BY <1>1, <1>4 DEF Merge, board, place, recorded, history
<1>5. ASSUME Handling, queue' = Tail(queue)
      PROVE  queue # <<>>
  BY <1>5 DEF Handling
<1>6. CASE HandleLeave
  <2>1. /\ queue # <<>> /\ queue' = Tail(queue) /\ Event.kind = "move"
        /\ Event.to \notin Nodes
        /\ column' = column /\ thread' = thread /\ swallowed' = swallowed
        /\ crossed => crossed'
    BY <1>6 DEF HandleLeave, Handling, board
  <2>2. Event.from \in Nodes
    <3>1. Event.from # Event.to /\ Event.from \in Columns /\ Event.to \in Columns
      BY <2>1, EventFacts
    <3> QED
      BY <2>1, <3>1 DEF Columns
  <2>3. /\ index' = None
        /\ crossed' = (crossed \/ \E t \in Threads : Writing(t))
    BY <1>6, <2>2 DEF HandleLeave
  <2>4. SUFFICES ASSUME ~crossed', ~swallowed'
                 PROVE  StandInv'
    BY DEF StandInv
  <2>5. ~crossed /\ ~swallowed /\ \A t \in Threads : ~Saving(t)
    BY <2>1, <2>3, <2>4 DEF Writing, Saving
  <2>6. \A i \in 1 .. Len(queue') : LastMove(i)' => queue'[i].to = column'
    BY <2>1, <2>5, MovesLeft DEF StandInv
  <2>7. NoMove' => column' = Off
    <3>1. NoMove' => Event.to = column
      BY <2>1, <2>5, MovesLeft DEF StandInv
    <3> QED
      BY <1>0, <2>1, <3>1 DEF Columns
  <2> QED
    BY <2>1, <2>3, <2>5, <2>6, <2>7 DEF StandInv, Saving, Shown
<1>7. CASE HandleEnter
  <2>1. /\ queue # <<>> /\ queue' = Tail(queue) /\ Event.kind = "move"
        /\ column' = column /\ swallowed' = swallowed
        /\ crossed' = (crossed \/ \E t \in Threads : Writing(t))
    BY <1>7 DEF HandleEnter, Handling, board
  <2>2. SUFFICES ASSUME ~crossed', ~swallowed'
                 PROVE  StandInv'
    BY DEF StandInv
  <2>3. ~crossed /\ ~swallowed /\ \A t \in Threads : ~Saving(t)
    BY <2>1, <2>2 DEF Writing, Saving
  <2>4. \A i \in 1 .. Len(queue') : LastMove(i)' => queue'[i].to = column'
    BY <2>1, <2>3, MovesLeft DEF StandInv
  <2>5. NoMove' => Event.to = column'
    BY <2>1, <2>3, MovesLeft DEF StandInv
  <2>6. PICK d \in Threads : /\ thread'[d].pc = "save"
                            /\ thread'[d].to = Event.to
                            /\ \A u \in Threads \ {d} : thread'[u] = thread[u]
    BY <1>7, EnterFacts
  <2>7. \A t \in Threads : Saving(t)' <=> t = d
    BY <2>3, <2>6 DEF Saving
  <2> QED
    BY <2>4, <2>5, <2>6, <2>7 DEF StandInv
<1>8. CASE HandleAgain
  BY <1>8 DEF HandleAgain, StandInv
<1>9. CASE HandleMark
  <2>1. /\ queue # <<>> /\ queue' = Tail(queue) /\ Event.kind = "mark"
        /\ column' = column /\ index' = index /\ crossed' = crossed
        /\ swallowed' = swallowed /\ thread[Loop].pc = "idle"
    BY <1>9 DEF HandleMark, Handling, board, place, recorded
  <2>2. \A t \in Threads : thread'[t] = thread[t] \/ (~Saving(t) /\ ~Saving(t)')
    BY <1>9, <2>1, MarkFacts, ReadingIsThread DEF Becomes, Saving, Triggers
  <2>3. \A t \in Threads : Saving(t)' <=> Saving(t)
    BY <2>2 DEF Saving
  <2>4. \A t \in Threads : Saving(t) => thread'[t].to = thread[t].to
    BY <2>2
  <2> QED
    BY <2>1, <2>3, <2>4, MovesLeft DEF StandInv
<1>10. ASSUME NEW t \in Threads, Transit(t)
       PROVE  StandInv'
  <2>0. \A u \in Threads \ {t} : thread'[u] = thread[u]
    BY <1>10, TransitMovesOne
  <2>1. ASSUME (crossed => crossed'), (swallowed => swallowed'),
               queue' = queue, column' = column, index' = index,
               thread[t].pc # "save", thread'[t].pc # "save"
        PROVE  StandInv'
    BY <2>0, <2>1, StandKept DEF Saving
  <2>2. CASE Read(t)
    <3>1. thread[t].pc = "read" /\ queue' = queue /\ column' = column /\ index' = index
          /\ crossed' = crossed /\ swallowed' = swallowed
      BY <2>2 DEF Read, board, recorded, history
    <3>2. thread'[t].pc # "save"
      BY <2>2, ReadGoesOn, RestIsThread DEF GoesOn, Becomes
    <3> QED
      BY <2>1, <3>1, <3>2
  <2>3. CASE Choose(t)
    <3>1. thread[t].pc = "choose" /\ queue' = queue /\ column' = column
          /\ index' = index /\ crossed' = crossed
      BY <2>3 DEF Choose, board, recorded
    <3>2. swallowed => swallowed'
      BY <2>3 DEF Choose
    <3>3. thread'[t].pc # "save"
      BY <2>3, ChooseGoesOn, RestIsThread DEF GoesOn, Becomes
    <3> QED
      BY <2>1, <3>1, <3>2, <3>3
  <2>4. CASE Move(t)
    <3>1. /\ queue' = queue /\ index' = index /\ swallowed' = swallowed
          /\ crossed' = (crossed \/ Stale(t))
          /\ column' = thread[t].to
      BY <2>4 DEF Move, place, recorded
    <3>2. /\ thread'[t].pc = "save" /\ thread'[t].to = column'
      BY <1>0, <2>4, <3>1, ToGoesOn DEF Move, GoesOn
    <3>3. SUFFICES ASSUME ~crossed'
                   PROVE  StandInv'
      BY DEF StandInv
    <3>4. NoMove /\ \A u \in Threads : ~Saving(u)
      BY <3>1, <3>3 DEF Stale, NoMove, IsMove, Saving
    <3>5. \A u \in Threads : Saving(u)' <=> u = t
      BY <2>0, <3>2, <3>4 DEF Saving
    <3>6. NoMove'
      BY <3>1, <3>4 DEF NoMove, IsMove
    <3> QED
      BY <3>2, <3>5, <3>6 DEF StandInv, NoMove, LastMove
  <2>5. CASE MoveFails(t)
    <3>1. thread[t].pc = "move" /\ queue' = queue /\ column' = column /\ index' = index
          /\ crossed' = crossed /\ swallowed' = swallowed
      BY <2>5 DEF MoveFails, board, recorded, history
    <3>2. thread'[t].pc # "save"
      BY <1>0, <2>5, QuitRests, RestIsThread DEF MoveFails, Becomes
    <3> QED
      BY <2>1, <3>1, <3>2
  <2>6. CASE Save(t)
    <3>1. /\ thread[t].pc = "save" /\ queue' = queue /\ column' = column
          /\ index' = thread[t].to
          /\ crossed' = crossed /\ swallowed' = swallowed
      BY <2>6 DEF Save, Recorded, board
    <3>2. thread'[t].pc # "save"
      BY <2>6, SaveGoesOn, RestIsThread DEF GoesOn, Becomes
    <3>3. thread[t].to \in Nodes
      BY <1>0, <3>1 DEF Threaded, ThreadInv
    <3>4. SUFFICES ASSUME ~crossed, ~swallowed
                   PROVE  StandInv'
      BY <3>1 DEF StandInv
    <3>5. /\ \A i \in 1 .. Len(queue) : LastMove(i) => queue[i].to = column
          /\ NoMove => thread[t].to = column
          /\ \A u \in Threads : Saving(u) => u = t
      BY <3>1, <3>4 DEF StandInv, Saving
    <3>6. \A u \in Threads : ~Saving(u)'
      BY <2>0, <3>2, <3>5 DEF Saving
    <3>7. NoMove' => index' = column' /\ index' # None
      BY <1>0, <3>1, <3>3, <3>5 DEF NoMove, IsMove
    <3>8. \A i \in 1 .. Len(queue') : LastMove(i)' => queue'[i].to = column'
      BY <3>1, <3>5 DEF LastMove, IsMove
    <3> QED
      BY <3>6, <3>7, <3>8 DEF StandInv, Shown
  <2>7. CASE Idle(t)
    <3>1. thread[t].pc = "wait" /\ queue' = queue /\ column' = column /\ index' = index
          /\ crossed' = crossed /\ swallowed' = swallowed
      BY <2>7 DEF Idle, board, place, recorded
    <3>2. thread'[t].pc # "save"
      BY <1>0, <2>7, ToGoesOn DEF Idle, GoesOn
    <3> QED
      BY <2>1, <3>1, <3>2
  <2>8. CASE WaitedEnough(t)
    <3>1. thread[t].pc = "wait" /\ queue' = queue /\ column' = column /\ index' = index
          /\ crossed' = crossed /\ swallowed' = swallowed
      BY <2>8 DEF WaitedEnough, board, place, recorded
    <3>2. thread'[t].pc # "save"
      BY <1>0, <2>8, ToGoesOn DEF WaitedEnough, GoesOn
    <3> QED
      BY <2>1, <3>1, <3>2
  <2>9. ASSUME NEW s \in Sessions, Begins(t, s)
        PROVE  StandInv'
    <3>1. thread[t].pc # "save" /\ queue' = queue /\ column' = column
          /\ index' = index /\ crossed' = crossed /\ swallowed' = swallowed
      BY <2>9, BeginsFacts DEF Starting, board, recorded
    <3>2. thread'[t].pc # "save"
      BY <2>9, BeginsFacts
    <3> QED
      BY <2>1, <3>1, <3>2
  <2>10. CASE PutsOff(t) \/ Fails(t)
    <3>1. thread[t].pc # "save" /\ Untouched
      BY <2>10, PutsOffFacts, FailsFacts
    <3>2. thread'[t].pc # "save"
      BY <2>10, PutsOffFacts, FailsFacts, RestIsThread DEF Becomes
    <3> QED
      BY <2>1, <3>1, <3>2 DEF Untouched, recorded, history
  <2> QED
    BY <1>10, <2>2, <2>3, <2>4, <2>5, <2>6, <2>7, <2>8, <2>9, <2>10, TransitDone
<1>11. ASSUME NEW s \in Sessions, NEW o, Finish(s, o)
       PROVE  StandInv'
  BY <1>1, <1>11 DEF Finish, board, place, recorded, history
<1>12. ASSUME NEW s \in Sessions, Release(s)
       PROVE  StandInv'
  <2>1. queue' = queue /\ column' = column /\ index' = index
        /\ crossed' = crossed /\ swallowed' = swallowed
    BY <1>12 DEF Release, board, place, recorded, history
  <2>2. thread[s].pc = "idle"
    BY <1>12, ReleaseFacts DEF GoneInv
  <2>3. thread'[s].pc # "save" /\ \A u \in Threads \ {s} : thread'[u] = thread[u]
    <3>1. CASE Becomes(s, Rest)
      BY <3>1, RestIsThread DEF Becomes
    <3>2. ASSUME sess[s].outcome \in {"success", "failure"},
                 Becomes(s, Reading(sess[s].outcome, TRUE))
          PROVE  thread'[s].pc = "read"
                 /\ \A u \in Threads \ {s} : thread'[u] = thread[u]
      <4>1. sess[s].outcome \in Triggers
        BY <3>2 DEF Triggers
      <4> QED
        BY <3>2, <4>1, ReadingIsThread DEF Becomes
    <3> QED
      BY <1>12, <3>1, <3>2, ReleaseFacts
  <2> QED
    BY <2>1, <2>2, <2>3, StandKept DEF Saving
<1>13. CASE Poll
  <2>1. /\ queue' = queue /\ column' = column /\ index' = index
        /\ crossed' = crossed /\ swallowed' = swallowed
        /\ thread[Watch].pc = "idle"
    BY <1>13 DEF Poll, board, place, recorded, history
  <2>2. thread'[Watch].pc # "save"
        /\ \A u \in Threads \ {Watch} : thread'[u] = thread[u]
    BY <1>13, PollFacts, ReadingIsThread DEF Becomes, Triggers
  <2> QED
    BY <2>1, <2>2, StandKept DEF Saving
<1>14. ASSUME NEW i \in 1 .. Len(queue), Overtake(i)
       PROVE  StandInv'
  <2>1. /\ column' = column /\ index' = index /\ thread' = thread
        /\ swallowed' = swallowed
        /\ (crossed => crossed')
    BY <1>14 DEF Overtake, board, place, recorded
  <2>2. CASE crossed'
    BY <2>2 DEF StandInv
  <2>3. CASE ~crossed'
    <3>1. /\ NoMove' <=> NoMove
          /\ \A j \in 1 .. Len(queue') :
               LastMove(j)' => \E k \in 1 .. Len(queue) :
                                 LastMove(k) /\ queue'[j] = queue[k]
      BY <1>14, <2>3, OvertakeKeepsLast
    <3>2. ASSUME NEW t \in Threads PROVE Saving(t)' <=> Saving(t)
      BY <2>1 DEF Saving
    <3>3. CASE swallowed
      BY <2>1, <3>3 DEF StandInv
    <3>4. CASE ~swallowed
      <4>1. /\ \A j \in 1 .. Len(queue) : LastMove(j) => queue[j].to = column
            /\ \A t \in Threads : NoMove /\ Saving(t) => thread[t].to = column
            /\ NoMove /\ (\A t \in Threads : ~Saving(t)) =>
                 column = Shown(index)
        BY <2>1, <2>3, <3>4 DEF StandInv
      <4>2. \A j \in 1 .. Len(queue') : LastMove(j)' => queue'[j].to = column'
        BY <2>1, <3>1, <4>1
      <4>3. ASSUME NEW t \in Threads, NoMove', Saving(t)'
            PROVE  thread'[t].to = column'
        <5>1. NoMove
          BY <3>1, <4>3
        <5>2. Saving(t)
          BY <3>2, <4>3
        <5>3. thread[t].to = column
          BY <4>1, <5>1, <5>2
        <5> QED
          BY <2>1, <5>3
      <4>4. NoMove' /\ (\A t \in Threads : ~Saving(t)') =>
              column' = Shown(index')
        BY <2>1, <3>1, <3>2, <4>1
      <4>5. ASSUME NEW t \in Threads, NEW u \in Threads,
                   Saving(t)', Saving(u)'
            PROVE  t = u
        <5>1. Saving(t) /\ Saving(u)
          BY <3>2, <4>5
        <5> QED
          BY <2>1, <2>3, <3>4, <5>1 DEF StandInv
      <4> QED
        BY <4>2, <4>3, <4>4, <4>5 DEF StandInv
    <3> QED
      BY <3>3, <3>4
  <2> QED
    BY <2>2, <2>3
<1>15. ASSUME NEW t \in Drains, DrainReads(t)
       PROVE  StandInv'
  <2>1. /\ queue' = queue /\ column' = column /\ index' = index
        /\ crossed' = crossed /\ swallowed' = swallowed
        /\ thread[t].pc = "idle"
    BY <1>15 DEF DrainReads, board, place, recorded
  <2>2. thread'[t].pc # "save" /\ \A u \in Threads \ {t} : thread'[u] = thread[u]
    BY <1>15, DrainFacts DEF GoesOn
  <2> QED
    BY <2>1, <2>2, StandKept DEF Saving
<1> QED
  BY <1>2, <1>3, <1>4, <1>6, <1>7, <1>8, <1>9, <1>10, <1>11, <1>12, <1>13,
     <1>14, <1>15 DEF Next, Handle

\* The card and the table are written together, the card perhaps in vain.
LEMMA NextWritten ==
  ASSUME WrittenInv, Next
  PROVE  WrittenInv'
<1>1. ASSUME recorded' = recorded
      PROVE  WrittenInv'
  BY <1>1 DEF WrittenInv, recorded
<1>2. CASE HandleLeave
  BY <1>1, <1>2 DEF HandleLeave, Forgotten, WrittenInv, place
<1>3. ASSUME NEW t \in Threads, Save(t)
      PROVE  WrittenInv'
  BY <1>3 DEF Save, Recorded, WrittenInv
<1>4. ASSUME NEW t \in Threads, Transit(t), ~Save(t)
      PROVE  recorded' = recorded
  BY <1>4 DEF Transit, Read, Choose, Move, MoveFails, Idle, WaitedEnough,
              Start, StartQueued, StartStays, StartFails, DrainStarts, Dequeue,
              DrainBusy, DrainTaken, DrainFails, place
<1>5. CASE HandleEnter \/ HandleAgain \/ HandleMark
  BY <1>1, <1>5 DEF HandleEnter, HandleAgain, HandleMark, place
<1>6. CASE Mark \/ Merge \/ Poll
  BY <1>1, <1>6 DEF Mark, Merge, Poll, place
<1>7. ASSUME NEW c \in Columns, Drag(c)
      PROVE  recorded' = recorded
  BY <1>7 DEF Drag, place
<1>8. ASSUME NEW s \in Sessions, NEW o, Finish(s, o)
      PROVE  recorded' = recorded
  BY <1>8 DEF Finish
<1>9. ASSUME NEW s \in Sessions, Release(s)
      PROVE  recorded' = recorded
  BY <1>9 DEF Release, place
<1>10. ASSUME NEW i \in 1 .. Len(queue), Overtake(i)
       PROVE  recorded' = recorded
  BY <1>10 DEF Overtake, place
<1>11. ASSUME NEW t \in Drains, DrainReads(t)
       PROVE  recorded' = recorded
  BY <1>11 DEF DrainReads, place
<1> QED
  BY <1>1, <1>2, <1>3, <1>4, <1>5, <1>6, <1>7, <1>8, <1>9, <1>10, <1>11
     DEF Next, Handle

-----------------------------------------------------------------------------

LEMMA InitInv == Init => IInv
<1> SUFFICES ASSUME Init PROVE IInv
  OBVIOUS
<1>1. /\ queue = <<>> /\ Len(queue) = 0
      /\ thread = [t \in Threads |-> Rest]
      /\ byCard = None /\ overtaken = {} /\ keys = {} /\ chances = 0
      /\ index = at /\ waiting = None /\ mislaid = {}
      /\ column \in Columns /\ column \in Starts
      /\ at = IF column \in Nodes THEN column ELSE None
  BY FlowRouteAssumption DEF Init, Columns
<1>2. \A t \in Threads : thread[t] = Rest
  BY <1>1
<1>3. \A s \in Sessions : /\ sess[s].phase = "unused" /\ thread[s] = Rest
  BY <1>2, Apart DEF Init
<1>4. sess \in [Sessions -> Session]
  <2>1. [stage |-> None, phase |-> "unused", outcome |-> "none"] \in Session
    BY DEF Session
  <2> QED
    BY <2>1 DEF Init
<1>5. Places /\ Flags /\ Keyed /\ Named
  <2>1. Places
    BY <1>1, FlowRouteAssumption DEF Places
  <2>2. Flags
    BY DEF Init, Flags
  <2> QED
    BY <1>1, <1>4, <2>1, <2>2 DEF Keyed, Named
<1>6. Queued
  BY <1>1, EmptySeq DEF Queued, QueueInv
<1>7. Threaded
  BY <1>1, <1>2, RestIsThread DEF Threaded, ThreadInv
<1>8. GoneInv /\ OutcomeOfItsStage
  BY <1>3, RestIsThread DEF GoneInv, OutcomeOfItsStage
<1>9. OneInv
  BY <1>1, <1>2, <1>3, RestIsThread DEF OneInv, Live, Starting
<1>10. TellInv
  BY <1>3, RestIsThread DEF TellInv, Tells
<1>11. StandInv
  <2>1. \A t \in Threads : ~Saving(t)
    BY <1>2, RestIsThread DEF Saving
  <2>2. column = Shown(index)
    BY <1>1, FlowRouteAssumption DEF Columns, Shown
  <2>3. \A i \in 1 .. Len(queue) : FALSE
    BY <1>1
  <2> QED
    BY <2>1, <2>2, <2>3 DEF StandInv
<1>12. WrittenInv
  BY <1>1 DEF WrittenInv
<1> QED
  BY <1>5, <1>6, <1>7, <1>8, <1>9, <1>10, <1>11, <1>12, TypedParts DEF IInv

LEMMA StutterInv ==
  ASSUME IInv, UNCHANGED vars
  PROVE  IInv'
<1>1. Typed'
  BY DEF IInv, vars, Typed, TypeOK, Live, ThreadInv, QueueInv
<1>2. GoneInv' /\ OneInv' /\ TellInv' /\ OutcomeOfItsStage'
  BY DEF IInv, vars, GoneInv, OneInv, TellInv, OutcomeOfItsStage, Live,
         Starting, Tells, Dragging
<1>3. StandInv' /\ WrittenInv'
  BY StandKept DEF IInv, vars, WrittenInv
<1> QED
  BY <1>1, <1>2, <1>3 DEF IInv

THEOREM Invariant == Spec => []IInv
<1>1. Init => IInv
  BY InitInv
<1>2. IInv /\ [Next]_vars => IInv'
  BY NextTyped, NextGone, NextOne, NextTell, NextOutcome, NextStand,
     NextWritten, StutterInv DEF IInv
<1> QED
  BY <1>1, <1>2, PTL DEF Spec

\* The variables keep their types, and byCard names a live session
\* (registerSession, releaseSession).
THEOREM TypeCorrect == Spec => []TypeOK
<1>1. IInv => TypeOK
  BY DEF IInv, Typed
<1> QED
  BY <1>1, Invariant, PTL

\* An outcome moves the card on from the stage it is the outcome of, unless
\* the card was taken from its session without a cancel it heeded, or could not
\* be told of the stage when it was entered (flowAfterSession, advanceFlowWith,
\* saveFlowState).
THEOREM OutcomeOfItsStageCorrect == Spec => []OutcomeOfItsStage
<1>1. IInv => OutcomeOfItsStage
  BY DEF IInv
<1> QED
  BY <1>1, Invariant, PTL

\* Two sessions of a card live side by side only after a stage was started
\* without waiting for the last one, or beside another that was being started
\* (waitForCardIdle, drainColumn).
THEOREM OneSessionAtATimeCorrect == Spec => []OneSessionAtATime
<1>1. IInv => OneSessionAtATime
  BY DEF IInv, OneInv, OneSessionAtATime
<1> QED
  BY <1>1, Invariant, PTL

\* When nothing is under way the board and the route agree on where the card
\* is, unless two threads wrote its place over one another, a drag was told
\* before the one that came first, or taken for a duplicate; and what the card
\* says of its place is the same, unless it could not be told (handleFlowMove,
\* enterNode, saveFlowState, clearFlowState).
THEOREM StandsWhereShownCorrect == Spec => []StandsWhereShown
<1>1. ASSUME IInv, Quiet
      PROVE  \/ crossed \/ swallowed
             \/ column = Shown(index) /\ (at = index \/ unwritten)
  <2>1. NoMove /\ \A t \in Threads : ~Saving(t)
    BY <1>1 DEF Quiet, NoMove, Saving
  <2> QED
    BY <1>1, <2>1 DEF IInv, StandInv, WrittenInv
<1>2. IInv => StandsWhereShown
  BY <1>1 DEF StandsWhereShown
<1> QED
  BY <1>2, Invariant, PTL

-----------------------------------------------------------------------------
(* A session is to its route what SessionVerdict promises                  *)

\* How far a session may go in one step.
Goes(s) ==
  /\ sess'[s].outcome = sess[s].outcome
  /\ \/ sess[s].phase = "unused" /\ sess'[s].phase = "work"
     \/ sess[s].phase = "work" /\ sess'[s].phase = "stopping"
Ends(s) ==
  /\ sess'[s].phase = "over"
  /\ \/ sess[s].phase = "work"
     \/ sess[s].phase = "stopping" /\ sess'[s].outcome = "none"
Leaves(s) ==
  /\ sess[s].phase = "over" /\ sess'[s].phase = "gone"
  /\ sess'[s].outcome = sess[s].outcome

\* A step moves one session on, or none.
LEMMA SessionsOneByOne ==
  ASSUME Typed, Next
  PROVE  \/ \A s \in Sessions : sess'[s] = sess[s]
         \/ \E s \in Sessions : /\ Goes(s) \/ Ends(s) \/ Leaves(s)
                                /\ \A u \in Sessions \ {s} : sess'[u] = sess[u]
<1> DEFINE Goal == \/ \A s \in Sessions : sess'[s] = sess[s]
                   \/ \E s \in Sessions :
                        /\ Goes(s) \/ Ends(s) \/ Leaves(s)
                        /\ \A u \in Sessions \ {s} : sess'[u] = sess[u]
<1>1. TypeOK
  BY DEF Typed
<1>2. ASSUME sess' = sess
      PROVE  Goal
  BY <1>2
<1>3. CASE Handle
  <2>1. CASE Cancel
    <3>1. CASE byCard \in Sessions
      <4>1. \A u \in Sessions \ {byCard} : sess'[u] = sess[u]
        BY <1>1, <2>1, CancelFacts
      <4>2. sess'[byCard] = sess[byCard] \/ Goes(byCard)
        BY <1>1, <2>1, <3>1, CancelFacts DEF Goes
      <4> QED
        BY <3>1, <4>1, <4>2
    <3>2. CASE byCard \notin Sessions
      <4>1. \A s \in Sessions : sess'[s] = sess[s]
        BY <1>1, <2>1, <3>2, CancelFacts
      <4> QED
        BY <4>1
    <3> QED
      BY <3>1, <3>2
  <2>2. Cancel \/ sess' = sess
    BY <1>3 DEF Handle, HandleLeave, HandleEnter, HandleAgain, HandleMark,
                KeepSessions
  <2> QED
    BY <1>2, <2>1, <2>2
<1>4. ASSUME NEW t \in Threads, Transit(t)
      PROVE  Goal
  <2>1. ASSUME NEW s \in Sessions, Begins(t, s)
        PROVE  Goal
    <3>1. sess \in [Sessions -> Session]
      BY <1>1 DEF TypeOK
    <3>2. sess'[s].outcome = sess[s].outcome
      <4>1. sess' = [sess EXCEPT ![s].phase = "work", ![s].stage = thread[t].to]
        BY <2>1, BeginsFacts DEF StartSession
      <4> QED
        BY <3>1, <4>1 DEF Session
    <3> QED
      BY <2>1, <3>2, StartFacts DEF Goes
  <2>2. (\E s \in Sessions : Begins(t, s)) \/ sess' = sess
    BY <1>4, TransitDone, PutsOffFacts, FailsFacts
       DEF Read, Choose, Move, MoveFails, Save, Idle, WaitedEnough, Untouched
  <2> QED
    BY <1>2, <2>1, <2>2
<1>5. ASSUME NEW s \in Sessions, NEW o, Finish(s, o)
      PROVE  Goal
  BY <1>5, FinishFacts DEF Ends
<1>6. ASSUME NEW s \in Sessions, Release(s)
      PROVE  Goal
  BY <1>6, ReleaseFacts DEF Leaves
<1>7. CASE (\E c \in Columns : Drag(c)) \/ Mark \/ Merge \/ Poll
           \/ (\E i \in 1 .. Len(queue) : Overtake(i))
           \/ \E t \in Drains : DrainReads(t)
  BY <1>2, <1>7 DEF Drag, Mark, Merge, Poll, Overtake, DrainReads
<1> QED
  BY <1>3, <1>4, <1>5, <1>6, <1>7 DEF Next

\* What the promise sees of the sessions that do not move is what it saw.
LEMMA OthersUnmoved ==
  ASSUME NEW s, \A u \in Sessions \ {s} : sess'[u] = sess[u]
  PROVE  \A u \in Sessions \ {s} : (Stopped(u)' <=> Stopped(u))
                                   /\ Heard(u)' = Heard(u)
BY DEF Stopped, Heard

LEMMA StepKeepsVerdict ==
  IInv /\ [Next]_vars => [Verdict!Next]_(Verdict!vars)
<1> DEFINE stopped == {s \in Sessions : Stopped(s)}
           outcome == [s \in Sessions |-> Heard(s)]
<1> SUFFICES ASSUME IInv, [Next]_vars
             PROVE  Verdict!Next \/ UNCHANGED Verdict!vars
  OBVIOUS
<1>1. ASSUME \A s \in Sessions : sess'[s] = sess[s]
      PROVE  UNCHANGED Verdict!vars
  <2>1. \A s \in Sessions : (Stopped(s)' <=> Stopped(s)) /\ Heard(s)' = Heard(s)
    BY <1>1 DEF Stopped, Heard
  <2> QED
    BY <2>1 DEF Verdict!vars
<1>2. ASSUME NEW s \in Sessions, \A u \in Sessions \ {s} : sess'[u] = sess[u],
             Heard(s)' = Heard(s), Stopped(s) => Stopped(s)',
             Stopped(s)' => Heard(s) = None
      PROVE  Verdict!Next \/ UNCHANGED Verdict!vars
  <2>1. \A u \in Sessions : Heard(u)' = Heard(u)
    BY <1>2, OthersUnmoved
  <2>2. outcome' = outcome
    BY <2>1
  <2>3. stopped' = stopped \/ (Stopped(s)' /\ stopped' = stopped \cup {s})
    BY <1>2, OthersUnmoved
  <2>4. CASE stopped' = stopped
    BY <2>2, <2>4 DEF Verdict!vars
  <2>5. CASE Stopped(s)' /\ stopped' = stopped \cup {s}
    <3>1. Verdict!Stop(s)
      BY <1>2, <2>2, <2>5 DEF Verdict!Stop
    <3> QED
      BY <3>1 DEF Verdict!Next
  <2> QED
    BY <2>3, <2>4, <2>5
<1>3. ASSUME NEW s \in Sessions, \A u \in Sessions \ {s} : sess'[u] = sess[u],
             Leaves(s)
      PROVE  Verdict!Next
  <2>1. (Stopped(s)' <=> Stopped(s)) /\ Heard(s) = None
    BY <1>3 DEF Leaves, Stopped, Heard
  <2>2. stopped' = stopped
    BY <1>3, <2>1, OthersUnmoved
  <2>3. /\ Heard(s)' \in {"success", "failure", "nothing"}
        /\ s \in stopped => Heard(s)' = "nothing"
    <3>1. sess[s].outcome \in {"none", "success", "failure"}
      BY DEF IInv, Typed, TypeOK, Session
    <3> QED
      BY <1>3, <3>1 DEF Leaves, Stopped, Heard
  <2>4. outcome' = [outcome EXCEPT ![s] = Heard(s)']
    BY <1>3, OthersUnmoved
  <2>5. Verdict!Tell(s, Heard(s)')
    BY <2>1, <2>2, <2>3, <2>4 DEF Verdict!Tell
  <2> QED
    BY <2>3, <2>5 DEF Verdict!Next
<1>4. CASE Next
  <2>1. ASSUME NEW s \in Sessions, Goes(s) \/ Ends(s),
               \A u \in Sessions \ {s} : sess'[u] = sess[u]
        PROVE  Verdict!Next \/ UNCHANGED Verdict!vars
    <3>1. /\ Heard(s) = None /\ Heard(s)' = None
          /\ Stopped(s) => Stopped(s)'
      BY <2>1 DEF Goes, Ends, Heard, Stopped
    <3> QED
      BY <1>2, <2>1, <3>1
  <2> QED
    BY <1>1, <1>3, <1>4, <2>1, SessionsOneByOne DEF IInv
<1>5. CASE UNCHANGED vars
  BY <1>1, <1>5 DEF vars
<1> QED
  BY <1>4, <1>5

\* FlowRoute sees of its sessions what SessionVerdict allows, for any route:
\* each is told to stop or is not, and is heard of once; one that was told to
\* stop in time is heard to have ended without an outcome (flowAfterSession).
\* SessionLife implements the same promise from the other side.
THEOREM VerdictHeard == Spec => VerdictSpec
<1>1. Init => Verdict!Init
  <2> SUFFICES ASSUME Init
               PROVE  Verdict!Init
    OBVIOUS
  <2>1. \A s \in Sessions : sess[s].phase = "unused"
    BY DEF Init
  <2>2. \A s \in Sessions : ~Stopped(s) /\ Heard(s) = None
    BY <2>1 DEF Stopped, Heard
  <2> QED
    BY <2>2 DEF Verdict!Init
<1> QED
  BY <1>1, StepKeepsVerdict, Invariant, PTL DEF Spec, VerdictSpec, Verdict!Spec
=============================================================================
