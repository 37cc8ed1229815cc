----------------------------- MODULE SessionLife -----------------------------
(***************************************************************************)
(* The life of a session, from the goroutine that runs it to the outcome   *)
(* its card is told: runSession and the two kinds of task it runs, a turn  *)
(* over ACP (internal/acp/session.go) and a conversation in a terminal     *)
(* (stageterminal.go), with everything that reaches into it meanwhile:     *)
(* CancelSessionForCard (manager.go), a question to a person               *)
(* (question.go), finish_work, the watcher of a quiet terminal, the        *)
(* turn's timeout and the application going down.                          *)
(*                                                                         *)
(* Session.mu guards the status and the marks of a cancel, the database    *)
(* is written after the lock is let go: each step here is one section of   *)
(* the lock, or one write, or one wait.  A goroutine that has a write to   *)
(* make does nothing else first (writing).  A session starts outside any   *)
(* card's column or route: StageQueue and FlowRoute are about those.       *)
(*                                                                         *)
(* A definition marked "Slip" is not the code: it is the definition below  *)
(* it with a mistake, there to see that a property would notice.           *)
(***************************************************************************)
EXTENDS Integers, FiniteSets

CONSTANTS
  Sessions,
  Questions,     \* the questions a session's agent may have at once
  MaxTurns,      \* Config.MaxConcurrent: capacity of Manager.sem
  Kinds,         \* which kinds of session there are
  MaxCalls,      \* bound on calls of CancelSessionForCard for one session
  MaxReports,    \* bound on calls of finish_work for one session
  None

ASSUME SessionLifeAssumption ==
  /\ IsFiniteSet(Sessions)
  /\ MaxTurns \in Nat \ {0}
  /\ Kinds \subseteq {"acp", "terminal"}
  /\ {"runner", "canceller", "watcher"} \cap Questions = {}
  /\ MaxCalls \in Nat
  /\ MaxReports \in Nat
  /\ None \notin {"queued", "running", "waiting", "done", "failed", "cancelled",
                  "error", "ctx", "gone", "success", "failure", "nothing",
                  "comment", "stall"}

VARIABLES
  down,      \* Manager.rootCtx is done
  places,    \* places of Manager.sem that other sessions' turns hold
  kind,      \* what runs a session's task
  run,       \* its goroutine: where it is and what it has learned
  sess,      \* the Session under its lock, and the context of its task
  stored,    \* the status column of agent_session
  writing,   \* the status each goroutine is about to write there
  call,      \* the call of CancelSessionForCard under way
  ask,       \* the questions of the session
  cli,       \* the terminal the stage runs in, its report and its watcher
  heeded,    \* history: the sessions a cancel call came in time for
  early,     \* history: those cancelled before their task had begun
  crossed,   \* history: those with two statuses on their way to the database
  stopped,   \* history: those whose agent said by itself it was cancelled
  calls, reports   \* counted against the bounds

vars == <<down, places, kind, run, sess, stored, writing, call, ask, cli,
          heeded, early, crossed, stopped, calls, reports>>
outside == <<down, places>>
marks == <<heeded, early, stopped>>
history == <<heeded, early, crossed, stopped>>
bounds == <<calls, reports>>

Ended == {"done", "failed", "cancelled"}
Live == {"running", "waiting"}
Status == {"queued"} \cup Live \cup Ended
Writers == {"runner", "canceller", "watcher"} \cup Questions

AcpSteps == {"connect", "slot", "turn", "began", "prompt", "judge"}
TerminalSteps == {"open", "await", "hold", "held", "parked", "picked"}
Run == [pc : {"start", "prepare", "conclude", "wind", "release", "over"}
             \cup AcpSteps \cup TerminalSteps,
        early : BOOLEAN,       \* pending, as the turn's section read it
        result : {None, "done", "failed", "error", "ctx", "gone"},
        verdict : {None} \cup Ended,
        told : {None, "success", "failure", "nothing"},
        said : {None, "comment", "stall"}]
Sess == [status : Status, sent : BOOLEAN, pending : BOOLEAN,
         ctx : {"none", "live", "cancelled", "expired"},
         hook : {"off", "armed"}]
Cli == [state : {"none", "up", "broken", "gone"}, waits : BOOLEAN,
        tool : BOOLEAN, report : {None, "done", "failed"},
        watch : {"off", "on", "stop"}, attention : BOOLEAN]

Busy(s, g) == writing[s][g] # None
Quiet(s) == \A g \in Writers : ~Busy(s, g)
CtxDone(s) ==
  sess[s].ctx \in {"cancelled", "expired"} \/ (sess[s].ctx = "live" /\ down)
Holding == {s \in Sessions : run[s].pc \in {"turn", "began", "prompt"}}

Init ==
  /\ down = FALSE
  /\ places = 0
  /\ kind \in [Sessions -> Kinds]
  /\ run = [s \in Sessions |->
              [pc |-> "start", early |-> FALSE, result |-> None,
               verdict |-> None, told |-> None, said |-> None]]
  /\ sess = [s \in Sessions |->
              [status |-> "queued", sent |-> FALSE, pending |-> FALSE,
               ctx |-> "none", hook |-> "off"]]
  /\ stored = [s \in Sessions |-> "queued"]
  /\ writing = [s \in Sessions |-> [g \in Writers |-> None]]
  /\ call = [s \in Sessions |-> "idle"]
  /\ ask = [s \in Sessions |-> [q \in Questions |-> "none"]]
  /\ cli = [s \in Sessions |->
              [state |-> "none", waits |-> FALSE, tool |-> FALSE,
               report |-> None, watch |-> "off", attention |-> FALSE]]
  /\ heeded = {}
  /\ early = {}
  /\ crossed = {}
  /\ stopped = {}
  /\ calls = [s \in Sessions |-> 0]
  /\ reports = [s \in Sessions |-> 0]

-----------------------------------------------------------------------------
(* What every goroutine does with a status                                 *)

\* The status g will write next, and whether another write is still on its way.
Writes(s, g, v) ==
  /\ writing' = [writing EXCEPT ![s][g] = v]
  /\ crossed' = crossed \cup {x \in {s} : ~Quiet(x)}

KeepsStatus == UNCHANGED <<sess, writing, crossed>>

\* Slip: the end is not written to the database.
FinishUnsaved(s, g, v) ==
  IF sess[s].status \in Ended
  THEN KeepsStatus
  ELSE /\ sess' = [sess EXCEPT ![s].status = v]
       /\ UNCHANGED <<writing, crossed>>

\* finishSession: only a session that has not ended gets a terminal status.
Finish(s, g, v) ==
  IF sess[s].status \in Ended
  THEN KeepsStatus
  ELSE /\ sess' = [sess EXCEPT ![s].status = v]
       /\ Writes(s, g, v)

\* Slip: a status is written over a terminal one.
SetStatusAlways(s, g, v) ==
  /\ sess' = [sess EXCEPT ![s].status = v]
  /\ Writes(s, g, v)

\* setStatus: between the states of a live session.
SetStatus(s, g, v) ==
  IF sess[s].status \in Ended
  THEN KeepsStatus
  ELSE /\ sess' = [sess EXCEPT ![s].status = v]
       /\ Writes(s, g, v)

\* persistStatus, after the lock is let go.
Persist(s, g) ==
  /\ Busy(s, g)
  /\ stored' = [stored EXCEPT ![s] = writing[s][g]]
  /\ writing' = [writing EXCEPT ![s][g] = None]
  /\ UNCHANGED <<outside, kind, run, sess, call, ask, cli, history, bounds>>

-----------------------------------------------------------------------------
(* runSession                                                              *)

\* The runner of s stands at p and has nothing left to write.
At(s, p) == run[s].pc = p /\ ~Busy(s, "runner")
Go(s, p) == run' = [run EXCEPT ![s].pc = p]
\* The runner ends the session for a reason of its own and says so, or not.
Ends(s, p, v, word) ==
  /\ run' = [run EXCEPT ![s].pc = p, ![s].verdict = v, ![s].said = word]
  /\ Finish(s, "runner", v)

Start(s) ==
  /\ At(s, "start")
  /\ IF down THEN Ends(s, "release", "cancelled", None)
             ELSE Go(s, "prepare") /\ KeepsStatus
  /\ UNCHANGED <<outside, kind, stored, call, ask, cli, marks, bounds>>

\* Slip: every session connects to its agent, one with a terminal too.
PrepareConnects(s) ==
  /\ At(s, "prepare")
  /\ Go(s, "connect")
  /\ stored' = [stored EXCEPT ![s] = "running"]
  /\ UNCHANGED <<outside, kind, sess, writing, call, ask, cli, history,
                 bounds>>

\* prepareWorkdir stores "running" whatever the status is.
Prepare(s) ==
  /\ At(s, "prepare")
  /\ Go(s, IF kind[s] = "acp" THEN "connect" ELSE "open")
  /\ stored' = [stored EXCEPT ![s] = "running"]
  /\ UNCHANGED <<outside, kind, sess, writing, call, ask, cli, history,
                 bounds>>

\* The folder is another card's or has unsaved work: the card gets a stall.
FolderTaken(s) ==
  /\ At(s, "prepare")
  /\ Ends(s, "release", "cancelled", "stall")
  /\ UNCHANGED <<outside, kind, stored, call, ask, cli, marks, bounds>>

PrepareFails(s) ==
  /\ At(s, "prepare")
  /\ Ends(s, "release", "failed", "comment")
  /\ UNCHANGED <<outside, kind, stored, call, ask, cli, marks, bounds>>

\* openConnection stores "running" too.
Connect(s) ==
  /\ At(s, "connect")
  /\ Go(s, "slot")
  /\ stored' = [stored EXCEPT ![s] = "running"]
  /\ UNCHANGED <<outside, kind, sess, writing, call, ask, cli, history,
                 bounds>>

ConnectFails(s) ==
  /\ At(s, "connect")
  /\ Ends(s, "release", "failed", "comment")
  /\ UNCHANGED <<outside, kind, stored, call, ask, cli, marks, bounds>>

\* releaseSession, then flowAfterSession: the route hears of a session that is
\* done or failed and of no other.
Release(s) ==
  /\ At(s, "release")
  /\ run' = [run EXCEPT ![s].pc = "over",
                        ![s].told = CASE sess[s].status = "done" -> "success"
                                      [] sess[s].status = "failed" -> "failure"
                                      [] OTHER -> "nothing"]
  /\ UNCHANGED <<outside, kind, sess, stored, writing, call, ask, cli,
                 history, bounds>>

-----------------------------------------------------------------------------
(* runCardTask: one turn over ACP                                          *)

TakeSlot(s) ==
  /\ At(s, "slot")
  /\ Cardinality(Holding) + places < MaxTurns
  /\ Go(s, "turn")
  /\ UNCHANGED <<outside, kind, sess, stored, writing, call, ask, cli,
                 history, bounds>>

\* Turns of other sessions take places and give them back, which matters only
\* while a turn here waits for one.
OtherTakes ==
  /\ \E s \in Sessions : run[s].pc = "slot"
  /\ Cardinality(Holding) + places < MaxTurns
  /\ places' = places + 1
  /\ UNCHANGED <<down, kind, run, sess, stored, writing, call, ask, cli,
                 history, bounds>>

OtherLeaves ==
  /\ places > 0
  /\ places' = places - 1
  /\ UNCHANGED <<down, kind, run, sess, stored, writing, call, ask, cli,
                 history, bounds>>

\* The application goes down while the turn waits for a place.
SlotWaitEnds(s) ==
  /\ At(s, "slot")
  /\ down
  /\ run' = [run EXCEPT ![s].pc = "judge", ![s].result = "error"]
  /\ UNCHANGED <<outside, kind, sess, stored, writing, call, ask, cli,
                 history, bounds>>

\* Slip: a cancel that came before the turn is forgotten.
TurnForgets(s) ==
  /\ At(s, "turn")
  /\ run' = [run EXCEPT ![s].pc = "began"]
  /\ sess' = [sess EXCEPT ![s].ctx = "live", ![s].pending = FALSE,
                          ![s].sent = FALSE, ![s].status = "running"]
  /\ Writes(s, "runner", "running")
  /\ UNCHANGED <<outside, kind, stored, call, ask, cli, marks, bounds>>

\* The turn's section of the lock: a cancel that came before it still counts,
\* and the status is running whatever it was.
Turn(s) ==
  /\ At(s, "turn")
  /\ run' = [run EXCEPT ![s].pc = "began", ![s].early = sess[s].pending]
  /\ sess' = [sess EXCEPT ![s].ctx = "live", ![s].pending = FALSE,
                          ![s].sent = sess[s].pending, ![s].status = "running"]
  /\ Writes(s, "runner", "running")
  /\ UNCHANGED <<outside, kind, stored, call, ask, cli, marks, bounds>>

\* cancel() for the early cancel, AfterFunc, and the prompt goes out.
Prompt(s) ==
  /\ At(s, "began")
  /\ Go(s, "prompt")
  /\ sess' = [sess EXCEPT ![s].hook = "armed",
                          ![s].ctx = IF run[s].early THEN "cancelled" ELSE @]
  /\ UNCHANGED <<outside, kind, stored, writing, call, ask, cli, history,
                 bounds>>

\* The turn's time is up.
Expire(s) ==
  /\ run[s].pc = "prompt"
  /\ sess[s].ctx = "live"
  /\ sess' = [sess EXCEPT ![s].ctx = "expired"]
  /\ UNCHANGED <<outside, kind, run, stored, writing, call, ask, cli, history,
                 bounds>>

\* The AfterFunc of the context: cancelACP marks the session as cancelled.
Hook(s) ==
  /\ sess[s].hook = "armed"
  /\ CtxDone(s)
  /\ sess' = [sess EXCEPT ![s].hook = "off", ![s].sent = TRUE]
  /\ UNCHANGED <<outside, kind, run, stored, writing, call, ask, cli, history,
                 bounds>>

\* Prompt returns, by the agent's answer or by an error, which a context that
\* is done is; the place is given back and AfterFunc called off, unless it has
\* been started.
PromptReturns(s, r, mark) ==
  /\ At(s, "prompt")
  /\ run' = [run EXCEPT ![s].pc = "judge", ![s].result = r]
  /\ \E h \in {"off"} \cup IF CtxDone(s) THEN {sess[s].hook} ELSE {} :
       sess' = [sess EXCEPT ![s].hook = h, ![s].sent = @ \/ mark]
  /\ stopped' = stopped \cup {x \in {s} : mark}
  /\ UNCHANGED <<outside, kind, stored, writing, call, ask, cli, heeded,
                 early, crossed, bounds>>

AgentAnswers(s) == PromptReturns(s, "done", FALSE)
AgentBreaks(s) == PromptReturns(s, "error", FALSE)
AgentStops(s) == PromptReturns(s, "done", TRUE)
\* Slip: the turn has no timeout.
InterruptedByPerson(s) ==
  /\ sess[s].ctx = "cancelled" \/ down
  /\ PromptReturns(s, "error", FALSE)
Interrupted(s) == CtxDone(s) /\ PromptReturns(s, "error", FALSE)

\* commentFirstTurn reads what became of the turn...
Judge(s) ==
  /\ At(s, "judge")
  /\ run' = [run EXCEPT ![s].pc = "conclude",
                        ![s].verdict = IF down THEN None
                                       ELSE IF sess[s].sent THEN "cancelled"
                                       ELSE IF run[s].result = "error"
                                       THEN "failed" ELSE "done"]
  /\ UNCHANGED <<outside, kind, sess, stored, writing, call, ask, cli,
                 history, bounds>>

\* ... ends the session by it, and comments on the card unless it was cancelled.
Conclude(s) ==
  /\ At(s, "conclude")
  /\ IF run[s].verdict = None
     THEN Go(s, "wind") /\ KeepsStatus
     ELSE /\ run' = [run EXCEPT ![s].pc = "wind",
                       ![s].said = IF run[s].verdict = "cancelled" THEN @
                                   ELSE "comment"]
          /\ Finish(s, "runner", run[s].verdict)
  /\ UNCHANGED <<outside, kind, stored, call, ask, cli, marks, bounds>>

\* runCardTask: a session the shutdown met is cancelled.
Wind(s) ==
  /\ At(s, "wind")
  /\ kind[s] = "acp"
  /\ Go(s, "release")
  /\ IF down THEN Finish(s, "runner", "cancelled") ELSE KeepsStatus
  /\ UNCHANGED <<outside, kind, stored, call, ask, cli, marks, bounds>>

-----------------------------------------------------------------------------
(* runCardTaskInTerminal: a conversation the agent itself ends             *)

\* startStageTerminal opens a terminal or takes the one open on the node.
OpenTerminal(s) ==
  /\ At(s, "open")
  /\ Go(s, "await")
  /\ cli' = [cli EXCEPT ![s].state = "up"]
  /\ UNCHANGED <<outside, kind, sess, stored, writing, call, ask, history,
                 bounds>>

OpenFails(s) ==
  /\ At(s, "open")
  /\ Ends(s, "release", "failed", "comment")
  /\ UNCHANGED <<outside, kind, stored, call, ask, cli, marks, bounds>>

\* awaitStage: only now has finish_work somebody to tell.
AwaitStage(s) ==
  /\ At(s, "await")
  /\ Go(s, "hold")
  /\ cli' = [cli EXCEPT ![s].waits = TRUE]
  /\ UNCHANGED <<outside, kind, sess, stored, writing, call, ask, history,
                 bounds>>

\* The section of the lock, and a cancel() for the cancel it found.
Hold(s) ==
  /\ At(s, "hold")
  /\ Go(s, "held")
  /\ sess' = [sess EXCEPT ![s].pending = FALSE, ![s].status = "running",
                          ![s].ctx = IF sess[s].pending THEN "cancelled"
                                     ELSE "live"]
  /\ Writes(s, "runner", "running")
  /\ UNCHANGED <<outside, kind, stored, call, ask, cli, marks, bounds>>

\* What the select may find ready.
Ready(s) == {r \in {cli[s].report} : r # None}
            \cup {r \in {"gone"} : cli[s].state \in {"broken", "gone"}}
            \cup {r \in {"ctx"} : CtxDone(s)}

\* The watcher is started and the select entered: any ready case is taken, and
\* with none ready the goroutine is parked for the first one to come.
Select(s) ==
  /\ At(s, "held")
  /\ \/ /\ Ready(s) = {}
        /\ Go(s, "parked")
        /\ cli' = [cli EXCEPT ![s].watch = "on"]
     \/ \E r \in Ready(s) :
          /\ run' = [run EXCEPT ![s].pc = "picked", ![s].result = r]
          /\ cli' = [cli EXCEPT ![s].watch = "on",
                                ![s].report = IF r = @ THEN None ELSE @]
  /\ UNCHANGED <<outside, kind, sess, stored, writing, call, ask, history,
                 bounds>>

\* A parked select is woken by the first event.
Wakes(r) ==
  [s \in Sessions |-> IF run[s].pc = "parked"
                      THEN [run[s] EXCEPT !.pc = "picked", !.result = r]
                      ELSE run[s]]
Wake(s, r) == run' = [run EXCEPT ![s] = Wakes(r)[s]]

\* Slip: a context that is done outweighs the report.
StageVerdictByContext(s) ==
  IF CtxDone(s) THEN "cancelled"
  ELSE CASE run[s].result \in {"done", "failed"} -> run[s].result
         [] OTHER -> IF cli[s].state = "broken" THEN "failed" ELSE "cancelled"

\* What the stage's end is, once one case of the select was taken, and what the
\* card is told of it.
StageVerdict(s) ==
  CASE run[s].result \in {"done", "failed"} -> run[s].result
    [] OTHER -> IF ~CtxDone(s) /\ cli[s].state = "broken" THEN "failed"
                ELSE "cancelled"
\* Slip: a terminal somebody closed is taken for a cancel.
StageWordQuiet(s) == IF StageVerdict(s) = "cancelled" THEN None ELSE "comment"
StageWord(s) ==
  IF StageVerdict(s) # "cancelled" THEN "comment"
  ELSE IF CtxDone(s) /\ ~down THEN None
  ELSE "stall"

\* The watcher is told to stop and the conversation is closed where the stage
\* closes it; a CLI that does not go in time is left behind.
StageOver(s) ==
  /\ At(s, "picked")
  /\ run' = [run EXCEPT ![s].pc = "conclude", ![s].verdict = StageVerdict(s),
                        ![s].said = StageWord(s)]
  /\ \E state \in {"up", "gone"} :
       /\ StageWord(s) = "stall" => state = "up"
       /\ cli' = [cli EXCEPT ![s].watch = IF @ = "on" THEN "stop" ELSE @,
                             ![s].state = IF @ = "up" THEN state ELSE @]
  /\ UNCHANGED <<outside, kind, sess, stored, writing, call, ask, history,
                 bounds>>

\* forgetStage: finish_work finds nobody any more, and no quiet is shown.
ForgetStage(s) ==
  /\ At(s, "wind")
  /\ kind[s] = "terminal"
  /\ Go(s, "release")
  /\ cli' = [cli EXCEPT ![s].waits = FALSE, ![s].attention = FALSE]
  /\ UNCHANGED <<outside, kind, sess, stored, writing, call, ask, history,
                 bounds>>

\* FinishWorkFromTools looks up who waits for the report of this terminal...
FindStage(s) ==
  /\ cli[s].waits
  /\ cli[s].state = "up"
  /\ ~cli[s].tool
  /\ reports[s] < MaxReports
  /\ cli' = [cli EXCEPT ![s].tool = TRUE]
  /\ reports' = [reports EXCEPT ![s] = @ + 1]
  /\ UNCHANGED <<outside, kind, run, sess, stored, writing, call, ask,
                 history, calls>>

\* ... writes the stage's fields on the card, and says r to whoever it found,
\* by now parked, gone on, or told already.
Report(s, r) ==
  /\ cli[s].tool
  /\ IF run[s].pc = "parked"
     THEN /\ Wake(s, r)
          /\ cli' = [cli EXCEPT ![s].tool = FALSE]
     ELSE /\ cli' = [cli EXCEPT ![s].tool = FALSE,
                                ![s].report = IF @ = None THEN r ELSE @]
          /\ run' = run
  /\ UNCHANGED <<outside, kind, sess, stored, writing, call, ask, history,
                 bounds>>

\* The CLI ends: a person closes it, it dies on its way up, or it is killed.
CliEnds(s, state) ==
  /\ cli[s].state = "up"
  /\ cli' = [cli EXCEPT ![s].state = state]
  /\ Wake(s, "gone")
  /\ UNCHANGED <<outside, kind, sess, stored, writing, call, ask, history,
                 bounds>>

\* watchStageQuiet: the terminal falls silent or speaks again.  A tick may be
\* taken although the stop is there too.
WatchTick(s) ==
  /\ cli[s].watch # "off"
  /\ ~Busy(s, "watcher")
  /\ cli' = [cli EXCEPT ![s].attention = ~@]
  /\ SetStatus(s, "watcher", IF cli[s].attention THEN "running" ELSE "waiting")
  /\ UNCHANGED <<outside, kind, run, stored, call, ask, marks, bounds>>

\* Slip: the watcher leaves without lowering what it raised.
WatchLeaves(s) ==
  /\ cli[s].watch = "stop" \/ (cli[s].watch = "on" /\ cli[s].state # "up")
  /\ ~Busy(s, "watcher")
  /\ cli' = [cli EXCEPT ![s].watch = "off"]
  /\ UNCHANGED <<outside, kind, run, sess, stored, writing, call, ask,
                 history, bounds>>

WatchEnds(s) ==
  /\ cli[s].watch = "stop" \/ (cli[s].watch = "on" /\ cli[s].state # "up")
  /\ ~Busy(s, "watcher")
  /\ cli' = [cli EXCEPT ![s].watch = "off", ![s].attention = FALSE]
  /\ UNCHANGED <<outside, kind, run, sess, stored, writing, call, ask,
                 history, bounds>>

-----------------------------------------------------------------------------
(* CancelSessionForCard                                                    *)

\* Has the session's end not been decided yet?
Open(s) == run[s].verdict = None /\ run[s].pc \notin {"release", "over"}

\* Its section of the session's lock.
Cancel(s) ==
  /\ run[s].pc # "over"
  /\ call[s] = "idle"
  /\ ~Busy(s, "canceller")
  /\ calls[s] < MaxCalls
  /\ LET running == sess[s].status \in Live IN
       /\ sess' = [sess EXCEPT ![s].sent = TRUE, ![s].pending = ~running]
       /\ call' = [call EXCEPT ![s] = IF running /\ sess[s].ctx # "none"
                                      THEN "interrupt" ELSE "finish"]
  /\ calls' = [calls EXCEPT ![s] = @ + 1]
  /\ UNCHANGED <<outside, kind, run, stored, writing, ask, cli, history,
                 reports>>

\* There is a task to interrupt: its context is cancelled, which wakes a parked
\* stage.
Interrupt(s) ==
  /\ call[s] = "interrupt"
  /\ call' = [call EXCEPT ![s] = "idle"]
  /\ sess' = [sess EXCEPT ![s].ctx = IF @ = "live" THEN "cancelled" ELSE @]
  /\ Wake(s, "ctx")
  /\ heeded' = heeded \cup {x \in {s} : IF kind[x] = "acp" THEN Open(x)
                                         ELSE run[x].pc = "parked"}
  /\ UNCHANGED <<outside, kind, stored, writing, ask, cli, early, crossed,
                 stopped, bounds>>

\* There is none: the session is ended outright.
FinishByCancel(s) ==
  /\ call[s] = "finish"
  /\ call' = [call EXCEPT ![s] = "idle"]
  /\ Finish(s, "canceller", "cancelled")
  /\ heeded' = heeded \cup {x \in {s} : kind[x] = "acp" /\ Open(x)}
  /\ early' = early \cup {x \in {s} : sess[x].status \notin Ended}
  /\ UNCHANGED <<outside, kind, run, stored, ask, cli, stopped, bounds>>

-----------------------------------------------------------------------------
(* ask and awaitAnswer                                                     *)

\* Slip: a question does not show on the status.
AskUnseen(s, q) ==
  /\ kind[s] = "acp"
  /\ run[s].pc \in {"prompt", "judge", "conclude", "wind"}
  /\ ask[s][q] = "none"
  /\ ask' = [ask EXCEPT ![s][q] = "raised"]
  /\ UNCHANGED <<outside, kind, run, sess, stored, writing, call, cli,
                 history, bounds>>

\* The agent asks; the handler is a goroutine of its own and may be late.
Ask(s, q) ==
  /\ kind[s] = "acp"
  /\ run[s].pc \in {"prompt", "judge", "conclude", "wind"}
  /\ \E p \in Questions : ask[s][p] = "none"
  /\ q = CHOOSE p \in Questions : ask[s][p] = "none"
  /\ ask' = [ask EXCEPT ![s][q] = "raised"]
  /\ SetStatus(s, q, "waiting")
  /\ UNCHANGED <<outside, kind, run, stored, call, cli, marks, bounds>>

\* awaitAnswer registers the question...
Register(s, q) ==
  /\ ask[s][q] = "raised"
  /\ ~Busy(s, q)
  /\ ask' = [ask EXCEPT ![s][q] = "open"]
  /\ UNCHANGED <<outside, kind, run, sess, stored, writing, call, cli,
                 history, bounds>>

\* ... and waits for an answer, for its agent to take the question back, or for
\* the end of the application.
Answered(s, q) ==
  /\ ask[s][q] = "open"
  /\ ask' = [ask EXCEPT ![s][q] = "back"]
  /\ UNCHANGED <<outside, kind, run, sess, stored, writing, call, cli,
                 history, bounds>>

\* The connection of a session that is over is closed, and its requests with it.
Withdrawn(s, q) ==
  /\ down \/ run[s].pc \in {"release", "over"}
  /\ Answered(s, q)

\* The session works again, whatever other question it may be waiting with.
AskBack(s, q) ==
  /\ ask[s][q] = "back"
  /\ ask' = [ask EXCEPT ![s][q] = "closed"]
  /\ SetStatus(s, q, "running")
  /\ UNCHANGED <<outside, kind, run, stored, call, cli, marks, bounds>>

-----------------------------------------------------------------------------

\* The root context is done: every parked stage hears of it.
Shutdown ==
  /\ ~down
  /\ down' = TRUE
  /\ run' = Wakes("ctx")
  /\ UNCHANGED <<places, kind, sess, stored, writing, call, ask, cli, history,
                 bounds>>

RunStep(s) ==
  \/ Start(s) \/ Prepare(s) \/ FolderTaken(s) \/ PrepareFails(s)
  \/ Connect(s) \/ ConnectFails(s) \/ TakeSlot(s) \/ SlotWaitEnds(s) \/ Turn(s)
  \/ Prompt(s) \/ Interrupted(s) \/ Judge(s) \/ Conclude(s) \/ Wind(s)
  \/ OpenTerminal(s) \/ OpenFails(s) \/ AwaitStage(s) \/ Hold(s) \/ Select(s)
  \/ StageOver(s) \/ ForgetStage(s) \/ Release(s)

AgentStep(s) ==
  \/ AgentAnswers(s) \/ AgentBreaks(s) \/ AgentStops(s)
  \/ FindStage(s) \/ \E r \in {"done", "failed"} : Report(s, r)
  \/ \E state \in {"gone", "broken"} : CliEnds(s, state)

AskStep(s, q) == Register(s, q) \/ Withdrawn(s, q) \/ AskBack(s, q)
CallStep(s) == Interrupt(s) \/ FinishByCancel(s)

Next ==
  \/ \E s \in Sessions :
       \/ RunStep(s) \/ AgentStep(s)
       \/ Expire(s) \/ Hook(s)
       \/ WatchTick(s) \/ WatchEnds(s)
       \/ Cancel(s) \/ CallStep(s)
       \/ \E g \in Writers : Persist(s, g)
       \/ \E q \in Questions : Ask(s, q) \/ AskStep(s, q) \/ Answered(s, q)
  \/ OtherTakes \/ OtherLeaves
  \/ Shutdown

Spec == Init /\ [][Next]_vars

\* Goroutines are scheduled, timers fire, and the shutdown kills the terminals
\* and breaks off the handshake with an agent.  No agent is obliged to answer,
\* the one that is being connected to included, and no person.  A channel's
\* senders are served in turn, and a turn of another session that holds a place
\* ends as SessionEnds says this one's does: it needs no second place for it.
FairSpec ==
  /\ Spec
  /\ WF_vars(OtherLeaves)
  /\ \A s \in Sessions :
       /\ WF_vars(run[s].pc # "connect" /\ RunStep(s))
       /\ WF_vars(down /\ ConnectFails(s))
       /\ SF_vars(TakeSlot(s))
       /\ WF_vars(Expire(s))
       /\ WF_vars(WatchEnds(s))
       /\ WF_vars(down /\ CliEnds(s, "gone"))
       /\ WF_vars(\E g \in Writers : Persist(s, g))
       /\ WF_vars(\E q \in Questions : AskStep(s, q))

-----------------------------------------------------------------------------
(* Properties                                                              *)

\* The variables keep their types, a session of one kind never stands at a step
\* of the other, and an end that is carried out was decided.
TypeOK ==
  /\ down \in BOOLEAN
  /\ places \in 0 .. MaxTurns
  /\ kind \in [Sessions -> Kinds]
  /\ run \in [Sessions -> Run]
  /\ sess \in [Sessions -> Sess]
  /\ \A s \in Sessions :
       /\ run[s].pc \in AcpSteps => kind[s] = "acp"
       /\ run[s].pc \in TerminalSteps => kind[s] = "terminal"
       /\ run[s].pc = "conclude" /\ kind[s] = "terminal" =>
            run[s].verdict # None
       /\ Busy(s, "watcher") => kind[s] = "terminal"
  /\ stored \in [Sessions -> Status]
  /\ writing \in [Sessions -> [Writers -> Status \cup {None}]]
  /\ call \in [Sessions -> {"idle", "interrupt", "finish"}]
  /\ ask \in [Sessions ->
               [Questions -> {"none", "raised", "open", "back", "closed"}]]
  /\ cli \in [Sessions -> Cli]
  /\ UNION {heeded, early, crossed, stopped} \subseteq Sessions
  /\ calls \in [Sessions -> Nat]
  /\ reports \in [Sessions -> Nat]

\* The status of a session, once terminal, is changed by nothing but the start
\* of its own task, which does not look (runTurn, runCardTaskInTerminal): no
\* question, watcher, cancel or second ending brings a session back.
RevivedOnlyByItsTask ==
  [][\A s \in Sessions :
       sess[s].status \in Ended /\ sess'[s].status # sess[s].status =>
         run[s].pc \in {"turn", "hold"}]_vars

\* A report taken while the stage was waiting for it is how the stage ends,
\* whatever happens at the same time, unless the session was being cancelled
\* (runCardTaskInTerminal, FinishWorkFromTools).
ReportCounts ==
  \A s \in Sessions :
    run[s].pc = "over" /\ run[s].result \in {"done", "failed"}
      /\ kind[s] = "terminal" /\ calls[s] = 0
    => sess[s].status = run[s].result

\* A session that ends without a word on its card, and without an outcome for
\* its route, was cancelled by somebody, by the shutdown, by its own timeout or
\* by its agent (commentFirstTurn, runCardTaskInTerminal).
SilentOnlyIfStopped ==
  \A s \in Sessions :
    run[s].pc = "over" /\ run[s].said = None /\ run[s].told = "nothing" =>
      \/ calls[s] > 0
      \/ down
      \/ sess[s].ctx = "expired"
      \/ s \in stopped

\* When a session is over and every write has been made, the database says of
\* it what memory says, except where the session was cancelled before its task
\* began, or two writes of its status were on their way at once.
StoredAsEnded ==
  \A s \in Sessions :
    run[s].pc = "over" /\ Quiet(s) /\ stored[s] # sess[s].status =>
      s \in early \cup crossed

\* A card shows that its agent waits for a person as long as a question stands,
\* unless another question of the same session has been closed in the meantime
\* (ask puts the session back to running without counting).
AskShown ==
  \A s \in Sessions, q \in Questions :
    ask[s][q] = "open" /\ sess[s].status \notin Ended =>
      \/ sess[s].status = "waiting"
      \/ \E p \in Questions : ask[s][p] = "closed"

\* A turn that waits for its place, is at work or asks a question ends, however
\* long its agent or a person keeps silent; and so does every session when the
\* application goes down.
SessionEnds ==
  \A s \in Sessions : (run[s].pc = "slot" \/ down) ~> run[s].pc = "over"

\* A session that is over leaves no question and no sign of waiting behind.
NothingLeftAsking ==
  \A s \in Sessions :
    run[s].pc = "over" ~>
      [](/\ ~cli[s].attention
         /\ \A q \in Questions : ask[s][q] \in {"none", "closed"})

\* What a session promises its card and its route (SessionVerdict).
Verdict == INSTANCE SessionVerdict WITH
  stopped <- heeded,
  outcome <- [s \in Sessions |-> run[s].told]
VerdictSpec == Verdict!Spec
=============================================================================
