# XCIII: models and proofs

XCIII is a desktop board (a fork of Focalboard, `src/server`) that runs coding
agents: a card dragged into a working column gets a session, the session works
in a folder or a branch of its own, and cards may come from sources that are
polled or that push. This directory holds TLA+ modules of the parts where
several goroutines, a database and people meet, the TLC configurations that
check them and the TLAPS proofs about them.

Line references are to `src/`.

## 1. The system

| Part | State | Operations | Talks to |
|---|---|---|---|
| **Board events** `internal/boardadapter/events.go`, `users.go` | a channel of 256 moves, each a snapshot of the card | `BlockChanged`, `CardByID`, `AssignCardAgent` | notified by the board server, read by the trigger loop |
| **Trigger loop** `internal/acp/trigger.go` | the idempotency table | `handleEvent`, `handleEnter`, `claimMove` | `startSession`, the queue, routes |
| **Session start** `manager.go`, `agents.go`, `columns.go` | `active`, `byCard` | `startSession`, `resolveSessionAgent`, `freeAgent`, `runningInColumn`, `CancelSessionForCard`, `releaseSession` | called by the loop, by drains, by routes, by buttons |
| **Stage queue** `stagequeue.go`, `store.go` | table `stage_queue` | `enqueueStage`, `dequeueStage`, `drainColumn` | drained by every session that ends |
| **Session lifecycle** `session.go`, `client.go` | status, `cancelSent`, `cancelPending`, `turnCancel`; a global semaphore of turns; table `agent_session` | `runSession`, `runTurn`, `commentFirstTurn`, `finishSession`, `persistStatus` | the agent process over ACP, the card's route |
| **Stage terminals** `stageterminal.go`, `terminal.go` | terminals, who waits for a stage's report | `runCardTaskInTerminal`, `awaitStage`, `watchStageQuiet`, `FinishWorkFromTools` | the agent's CLI, board tools |
| **Questions and permission** `question.go`, `elicitation.go`, `toolhook.go` | open questions | `ask`, `AnswerQuestion` | the person, the agent |
| **Routes** `flowengine.go`, `flows.go`, `cardflow.go` | the card's node, the idempotency table | `handleFlowMove`, `handleCardChanged`, `enterNode`, `advanceFlowWith`, `flowAfterSession`, `OnVCSEvent` | moves cards, starts stages |
| **Workspaces** `workspace.go`, `worktree.go`, `workmode.go` | the checkout table, copies on disk, branches | `ClaimWorkspace`, `folderIsFree`, `RemoveWorktreeIfClean`, `FoldWorktree`, `ReleaseWorkspace` | git, behind one lock per repository |
| **Repository watching** `vcsloop.go`, `internal/vcs` | latches in `vcs_seen` | `PollVCS`, `deliverVCSEvent`, `ReleaseMergedBranch` | routes, workspaces |
| **Sources: runner** `internal/sources/runner.go`, `plugin/` | a loop and a cursor per source | `run`, `Restart`, `loop`, `Items` | plugin processes |
| **Sources: pipeline** `internal/sources/manager.go`, `store.go`, `rules.go` | table `source_item` | `Deliver`, `createCard`, `updateCard`, `stateOf` | the board writer, the ingest address |
| **Source board writer** `internal/boardadapter/sourcewriter.go` | the card's origin, on the card | `CreateCard`, `CardBySourceItem`, `MoveCardByOptionName` | the board server |
| **Registries** `registrymove.go`, `registrystore.go`, `proxies.go`, `agents.go`, `deploys.go`, `workdirs.go` | slices of `Config`, and a table for each | the dialogs' edits, `persistRegistriesLocked`, `loadRegistriesLocked` | starts and routes read them; checkouts and boards have keys into them |
| **Deploys, tests, OAuth, board tools, desktop wiring, server, web, mobile** | — | — | — |

What is hard here:

* `startSession` is called by several goroutines at once and reads `active`
  several times, under a lock it lets go of in between. The session enters
  `active` only at the end.
* A card that meets a full column is queued by the trigger loop after the
  answer "busy" has come back; a session that ends drains the queue once.
* An event is a snapshot: who the card belonged to when it was dragged.
* The queue and the claims outlive the process, sessions do not.
* A delivery of a source is a chain of separate writes (card, origin, row,
  column); each may fail, and the process may go down between two of them.
* A replaced poll loop is told to stop and not waited for; its writes do not
  look at its context.
* A session's status is decided under its lock and written to the database
  after; a cancel, a question, the watcher of a terminal, the turn's timeout and
  the shutdown all reach into it meanwhile. A turn that begins does not look
  whether the session has been cancelled.
* A stage in a terminal is ended by whichever of three events `select` takes.
* A card on a route is moved by the person, by its sessions' outcomes and by the
  watcher of the repository, each reading its place and writing it in two steps.
* An edit of a registry rewrites four tables in no transaction, and memory has
  the edit before they do.
* Git's answer (is the folder free, is the copy clean) is used some commands
  later, and people work in the folder meanwhile.

What each part must keep:

* starts and queue: at most one session per card; no column over its limit; a
  waiting card keeps its place among those that wait and gets started; leaving
  work stops work; a person's card stays that person's;
* sources: no item lost, no second card, no card out of sight, nothing recorded
  as brought that was not;
* sessions: one end, told once, and stored as it was; a cancel that came early
  still counts; a question shows; a turn ends however silent its agent is;
* routes: an outcome moves the card only from its own stage; the board and the
  route agree; one session at a time; nothing stops without a word;
* workspaces: one card works in a folder, on its own branch; no work is lost;
  what is held is let go;
* registries: memory and tables agree; nothing goes that nobody removed.

## 2. Modules

### `StageQueue` — starts and the stage queue

Every column of the model does agent work outside a route; `Elsewhere` stands
for every place that does nothing.

| Model | Code |
|---|---|
| `events[c]` | the moves of card `c` between the board's notifier and the trigger loop: its ten workers and `EventsBackend.ch`, in the order they were made |
| `missed` | history: cards a move of which was dropped, or told after a later one |
| `claims` | the idempotency table; `ExpireClaim` is its window |
| `row` | `stage_queue`, keyed by card; `clock` is the millisecond of `queued_at` |
| `sess[s].phase = "live"` | membership of `Manager.active` |
| `sess[s].turn`, `cancelled` | the session's turn has begun (`session.go:566-596`), and somebody told it to stop |
| `sess[s].phase = "released"` | the deferred `drainColumn` is still to run |
| `byCard` | `Manager.byCard` |
| `start[p]` | the `startSession` call goroutine `p` is in: `agent` before `resolveSessionAgent`, `limit` before `runningInColumn`, `commit` before `active`, `park`, `refused` and `dequeue` after it returned |

`HandleEvent` is one turn of the trigger loop up to the call of `startSession`;
it takes any event, because ten workers tell the loop what happened and a later
move may be told first (`server/app/app.go:22`, `callbackqueue.go`). `DropEvent`
is a move that found the channel full.
`Refuse`, `TakeAssignee`, `TakeFree`, `TakeOnlyAgent`, `CrewBusy`, `PassLimit`,
`LimitReached` and `Commit` are `startSession`, cut where `Manager.mu` is let
go. `Park` and `LoopRefused` are what the loop does with the answer,
`DrainReads`, `DrainNothing`, `DrainRefused` and `DrainStarted` are
`drainColumn`. `BeginTurn` is the start of a session's turn; `EndSession` is the
end of the work and `releaseSession`. People drag cards, write the person field
and press cancel; `Restart` loses what is in memory.

Worth knowing: a start does not look at the queue. A card dragged in as a place
frees up takes it ahead of one that waits; `TurnKept` promises the order of those
that wait, which is the order of their rows, and no more.

Left out: stall records (nothing decides on them), deploy and test columns,
starts by button, rows of cards on a route (their drain, and what becomes of such
a stage, is in `FlowRoute`), and what a session does between `Commit` and
`EndSession`. A start's other reasons to fail (folder, network, the sessions
table) are `Refuse` under `Faults`. A move is never reported twice: the board
reports only a value that differs from the old one. Nothing decides on the order
of moves of two cards, so each card has a sequence of its own.

### `SourceDelivery` — from a source's report to a card

| Model | Code |
|---|---|
| `latest` | the service: the state each item is in (external) |
| `known` | `source_item` |
| `cards` | the board's cards, `stamped` for the field `xciiiSource`, `shown` for standing in a column |
| `cursor[l]` | `pluginHandler.cursor` of loop `l`, read as the states it covers |
| `job[w]`, `todo[w]` | the delivery goroutine `w` is in, cut at every read and write of the database |

`Poll`, `PollRefused`, `LoopEnds`, `Run` are `runner.go`; `Push` is a request to
the ingest address or a plugin's notification; `Look` and `Ask` are `stateOf`,
`Drop`, `CreateCard`, `StampCard`, `NoteCard`, `PlaceCard` are `createCard`,
`AddComment` and `NoteChange` are `updateCard`. `Fail` is the error path of each
of them. `met` is a history variable: items two deliveries were at together.

Left out: which rule decides (`Dropped` is what they decide), the text of cards
and comments, the log, back-off times, editing and removing sources, deletion of
cards by people. A batch is a set: the pipeline takes its items one by one and
nothing depends on their order.

### `SessionLife` — from a session's start to what its card is told

| Model | Code |
|---|---|
| `run[s].pc` | where the goroutine `runSession` is: `prepare`, `connect`; `slot`, `turn`, `began`, `prompt`, `judge` for a turn over ACP; `open`, `await`, `hold`, `held`, `parked`, `picked` for a stage in a terminal; then `conclude`, `wind`, `release`, `over` |
| `sess[s]` | what `Session.mu` guards: `status`, `cancelSent`, `cancelPending`, and the context behind `turnCancel`; `hook` is its `AfterFunc` |
| `writing[s][g]`, `stored` | the status goroutine `g` is about to store, and the column `status` of `agent_session` |
| `call` | the call of `CancelSessionForCard` under way, after its section of the lock |
| `ask[s][q]` | a question: raised, registered (`open`), answered (`back`), `closed` |
| `cli[s]` | the stage's terminal, the channel of its report, `finish_work` under way (`tool`), the watcher and the sign of attention it raised |
| `places` | places of `Manager.sem` other sessions' turns hold |

`Start` to `Release` are `runSession`, `TakeSlot` to `Wind` `runCardTask` with
`runTurn`, `OpenTerminal` to `ForgetStage` `runCardTaskInTerminal`; `FindStage`
and `Report` are `FinishWorkFromTools`, `WatchTick` and `WatchEnds`
`watchStageQuiet`; `Cancel`, `Interrupt` and `FinishByCancel` are
`CancelSessionForCard`, `Ask` to `AskBack` `ask` and `awaitAnswer`. Each is one
section of the lock, one write or one wait. A `select` with several cases ready
takes any (`Select`), a parked one the first that comes (`Wake`).

`SessionVerdict` is what a session promises its route, without any of that: it
is told to stop or it is not, its outcome is told once, and a session that was
stopped in time has none. `SessionLife` implements it under `stopped <- heeded`,
`outcome <- told`.

Worth knowing: a timeout of the turn ends the session as cancelled, because the
hook of the context marks it so (`session.go:609-623`), where
`docs/spec-acp.md:208` calls it failed; and `Prepare` and `Connect` store
"running" before the status is that, so an early cancel may leave the database
at "running" (`StoredAsEnded` excepts it).

Left out: planning sessions, the reports of deploys and tests, models and modes,
the log of a session, elicitation forms, the tool hook (whose asker is no
session), resuming a conversation, the pty.

### `Workspace` — copies, branches and the folder itself

| Model | Code |
|---|---|
| `copies`, `held` | live rows of the checkout table by mode; `held` in the order of `created_at` |
| `branch`, `copy`, `dirty` | git: each card's branch, its copy on disk, uncommitted work there |
| `head`, `unsaved` | what the folder has checked out, and whether it has unsaved tracked work |
| `lock` | `repoLock`, where it is held between two steps |
| `act[a]` | the claim, the work and the clearing up of a card's session or of a person's terminal beside it |
| `parked`, `latched`, `news` | the route's wait for a merge, `vcs_seen`, the event being delivered |

`Look` to `RecordFails` are `ClaimWorkspace`, `StartWork` and `StartFails` what
comes of it, `Tidy`, `Fold`, `Probe`, `Remove`, `Free` are `cleanupWorktree` and
`releaseTerminalWorktree`, `Poll` and `Deliver` the watcher and
`ReleaseMergedBranch`. People edit, switch and merge; `Restart` loses who was at
work, not the table and not the disk.

Worth knowing, since the properties name them as exceptions: where the base has
no name (`HEAD`), a removal counts no commits and deletes a branch with committed
work; a failed `rev-list` counts as none ahead; `ReleaseMergedBranch` frees the
row of a copy that is still on disk, and the next claim is refused because the
directory is there; a card that holds the folder is sent back into it without a
look at the branch; a change of the folder's mode between the claims of a card's
session and of its terminal gives the card two places; a terminal removes the
copy and keeps the row.

Left out: folders that are no repository, the board's own drafts, names of
branches, pruning, `KeepFailedWorktrees`, pull requests and pushes (the same path
as a merge).

### `FlowRoute` — one card on its route

| Model | Code |
|---|---|
| `column`, `option` | the card on the board |
| `at` | the place the card itself records (`FlowState.NodeID`), which `advanceFlowWith` goes by |
| `index` | the same in this machine's table, which the watcher goes by (`FlowTargets`) |
| `stalled` | a recorded reason why nothing happens |
| `waiting` | the stage in the card's row of `stage_queue` |
| `queue` | the events the trigger loop has not handled; `Overtake` swaps two that different workers of the notifier carry |
| `keys` | idempotency keys of drags and of edges that may be within their window |
| `thread[t]` | a transition: `read` (`advanceFlowWith`), `choose` (`FlowEntry.Next`, `claimIdempotent`), `move`, `save` (`enterNode`), `wait` (`waitForCardIdle`), `start` (`runNodeAction`); or a drain: `drain`, `dequeue` (`drainColumn`) |
| `sess`, `byCard` | sessions of the stages, and the one a cancel would find |
| `merged`, `latched` | the card's branch, and the mark in `vcs_seen` |

A transition may be run by the loop (an option), by the watcher (a merge), by a
session (its outcome) or by a goroutine of its own (a drag). It is cut at every
read and write of the card. A drag is an event for the loop; a move the route
makes is silent and comes back to nobody.

Writes to the board may fail. A move that fails stalls the card (`MoveFails`).
A record of the card's place that fails is only logged (`saveFlowState`,
`clearFlowState`, `flowengine.go:541-545, 556-561`): the table has the new place,
the card the old one, and the route goes on (`Recorded`, `Forgotten`).
`unwritten` says so until the next record, `mislaid` of the sessions started
meanwhile.

A stage starts (`Start`), waits for a place in its column (`StartQueued`), stays
where it is with a word on the card - the card is a person's, its folder is taken
or not saved (`StartStays`) - or has failed (`StartFails`). A row of the queue is
taken up when a session of its column ends, of this card or of another: `Drains`
are the goroutines of those sessions. The drain starts the stage of the row
(`DrainStarts`, `Dequeue`), finds the column full again (`DrainBusy`) or the card
a person's (`DrainTaken`), or makes a failure of it (`DrainFails`).

What the exceptions of the properties stand for: an outcome goes by the stage the
card says it stands at now, not by the stage it belongs to, and that may be an
older one where the card could not be told; a start that fails later than the
card moves is a failure of a later stage; the watcher and an outcome move a card
without cancelling a session that works; two stages that waited together both
start, and a drain neither waits for the card's session nor looks where the card
stands; an option cancels when it is handled, not a session that starts before it
is followed; a session that is on its way to its end, or to its agent, may not
heed a cancel (`SessionLife`). `overtaken`, `mislaid`, `unwritten`, `rushed`,
`crossed` and `swallowed` record when one of these happened and nothing else.

Of a session `FlowRoute` sees what `SessionVerdict` promises (`VerdictSpec`, under
`stopped <- Stopped`, `outcome <- Heard`; proved, section 4, and so no property
of a run): it may also end without an outcome that nobody asked for, when its
time is up or its agent stops by itself, and then the card stays where it is.

Worth knowing: a stage that comes out of the queue to a folder that is taken or
not saved goes down its failure edge (`stagequeue.go:143-149`), where the same
stage entered directly stays and says so (`flowengine.go:224-228`); a card that
enters a second stage while it has a row keeps the row of the first
(`store.go`, `EnqueueStage`); and the row that goes after a drain is the one the
card has by then.

Left out: the editor of routes, binding a card to a route, a stage's branch,
conditions on the agent's words. What `startSession` does with a stage is
`StageQueue`'s. Reads of the board and the database succeed, and so do writes of
the database: a failed read of the card stops a route with a line in the log
only. The application does not go down: a restart loses the threads and the
sessions and keeps the places, so a merge that was latched and not delivered
is lost to its card.

### `Registries` — settings in memory and in their tables

| Model | Code |
|---|---|
| `memory`, `rows` | the slices of `Config`, and the tables `proxy`, `agent`, `deploy_target` and `workspace` with `workspace_board` |
| `saving` | where `persistRegistriesLocked` is: the registry, the entries still to be saved, the folder whose modes are being written, the rows still to be deleted |
| `known` | `existing`, the names and ids of the rows when it began |
| `boards`, `held` | the boards there are, and the folders the checkout table points at |
| `ok` | whether the last edit was answered without an error |

`Add`, `Update`, `Attach`, `SetMode`, `Touch` and `Remove` are the dialogs' edits
and whatever else saves the settings. `ReadNames` is `registryIDs`, `SaveRow` and
`SaveFails` are the saves of an entry with `adopt` and the tables' unique names
and foreign keys (`migrations/000001_init.up.sql`, enforced), `ClearModes` and
`WriteMode` `saveWorkspaceModes`, `Prune` and `DeleteRow` `pruneRegistry`; each is
one statement. `Restart` takes what the tables hold, `RestartBlind` is a start
whose read failed (`manager.go:221`).

Worth knowing, since the properties except it: a rename that failed leaves the
old name to be adopted, id and all, by an entry added later, and the two then
write over each other's row (`Shared`); a start that read nothing lets the next
save delete every row, and opening a board saves (`boardseed.go:254`); a folder
that has a checkout leaves memory and not its table, and every later edit is
answered with an error until a restart brings it back (`workdirs.go:284`, against
`registrymove.go:11-12`, "so the two cannot drift"); an entry that names a deleted
board makes every save fail in the same way; a save that ends between the two
statements of `saveWorkspaceModes` loses a folder's modes in the table.

Left out: what else an entry carries (addresses, settings, accounts), entries a
settings file written by hand may hold, references by name that are folded once
(`bindrefs.go`), the automation on boards (`boardseed.go`), the first set-up.

In every module a definition whose comment begins with "Slip" is not the code.
It is a plausible mistake in the definition that follows it; putting it in that
one's place breaks a property (`PROJECT.json`, "mutants").

How they fit: `FlowRoute` sees of a session its start, its cancel and its end,
which is what `SessionVerdict` promises of `SessionLife`; both modules are proved
to implement it; `StageQueue` sees
between `Commit` and `EndSession` what `SessionLife` opens up; `Workspace` is
what a start asks for and what an end gives back, and its checkouts are what
holds a folder in `Registries`; the merge that moves a card on
in `FlowRoute` is the event that frees its folder in `Workspace`. They are
checked one by one: the product of their states is far out of TLC's reach, and
each takes of its neighbours what they may show of themselves, cut as its
section above says.

## 3. Runs

| Run | Bounds | Shows |
|---|---|---|
| `roomy` | 2 cards, 2 columns, one agent, no limit, 2 goroutines, 3 moves, 1 edit, 1 restart, a channel of 1, faults (837,586 states) | types, `ByCardLive`, `OneSessionPerCard`, `LeavingWorkCancels`, `Settles` |
| `waiting` | 2 cards, 1 column with a crew of one and limit 1, 3 goroutines, 3 moves, 1 edit, no faults, every session ends (174,780 states) | `WipUnlessRaced`, `TurnKept`, `WaitingBehindWorkStarts` |
| `source_alone` | 1 loop, no cursor, 2 items of 2 states, 2 faults, 1 restart | types, `RememberedWasSaid`, `UnshownCostFaults`, `CaughtUp` |
| `source_together` | 2 loops, 1 pusher, 1 fault, 1 restart (1,258,535 states) | `SecondCardExplained`, `CardKept` |
| `session` | 1 session of either kind, 2 questions, 1 place for turns, 1 cancel, 2 reports, the timeout and the shutdown (293,720 states) | types, `ReportCounts`, `SilentOnlyIfStopped`, `StoredAsEnded`, `AskShown`, `RevivedOnlyByItsTask`, `SessionEnds`, `NothingLeftAsking`, the refinement of `SessionVerdict` |
| `workspace` | 2 cards, a terminal beside one, either mode, a base with and without a name, 2 claims, 2 acts of people, database or machine (1,172,662 states) | types, `FolderAlone`, `OwnBranch`, `CopyHasRow`, `WorkLostOnlyInWindow`, `TerminalKeepsCopy`, `MergedFolderFreed` |
| `route` | 1 card at the review of a route of 3 stages, 2 sessions, 1 drain, 1 merge, 2 chances for drags, options and failures (1,131,153 states) | types, `OutcomeOfItsStage`, `OneSessionAtATime`, `StandsWhereShown` |
| `route_moves_on` | as `route`, 1 session, under fairness (88,730 states) | `OutcomeHeeded`, `MergeMovesOn` |
| `registries` | 2 names, 1 board, 3 edits, 2 restarts, deleted boards or failures (846,566 states) | types, `Stored`, `KeptUnlessRemoved`, `NetworkKept` |
| `starts_by_itself` | as `waiting`, 2 moves and no edit | a waiting card may be forgotten |
| `source_cursor` | 1 loop with a cursor, 1 fault | a failed item never comes back |
| `copy_kept` | 2 cards, a terminal, 2 claims, nothing fails | a copy removed under a session at work |

Why the bounds are enough to matter: three session goroutines let two sessions
end while a third starts, which is the least that makes two drains of one head;
three moves put one card to work and let the other wait and leave, or come back.
A queue whose reads and writes fail is left to the proofs, which allow for every
fault; failures are checked where nothing waits (`roomy`). In the
sources two item states are the least that makes a change, two loops and a
pusher the least in which a replaced loop, its successor and a request overlap,
and one fault or restart is one interrupted chain of writes. A session meets
another only at the places for turns, which `places` stands for; two questions
are the least where one is answered while the other stands, two reports where
one comes too late. In a folder the hazards are of two cards, or of a session and
a terminal of one card: two claims make either pair, and two further acts are
enough to change the mode or the branch between them. On a route two sessions
are the one that ends and the one that starts; the card comes up standing at a
stage, so two chances are two drags, the same drag twice among them, or a drag
and a failure, of a record of the card's place for one; one drain is enough to
start what waits behind or beside either session. That an outcome or a merge
moves the card on is a matter of one session or none. Of the registries three edits are the least that make an entry,
break its renaming and give its name away, and two chances a failure with a
restart after it. The proofs of section 4 lift the safety part of these bounds.

`CHECK_DEADLOCK FALSE` everywhere: people stop acting when the bounds are spent,
and the program then waits for them. The channel holds one move in `roomy`,
so moves are dropped there; `LeavingWorkCancels` excepts the card whose
move was dropped or told late (`missed`), and no other.

### Where code and words disagree

Each of these runs checks one sentence of the repository and TLC finds the
shortest behaviour that breaks it.

* **A forgotten card** (`starts_by_itself`). `README.md:295-296` and
  `stagequeue.go:10-13`: the card "starts by itself as soon as" a place frees
  up. `handleEnter` hears that the column is full, the only session ends and
  drains an empty queue, then the card is queued.
* **A failed item is lost** (`source_cursor`). `internal/sources/store.go:61-63`:
  an item lost to a failed write comes back on the next delivery.
  `docs/sources.md:1186`: the cursor saves traffic, not correctness. The cursor
  is stored before the items are delivered (`runner.go:286`).
* **A copy removed under a session** (`copy_kept`). `docs/flows.md:328`: a copy
  is kept when a CLI is still running in it; `session.go:409-411`: a copy
  somebody is sitting in is never touched. Only the session's end asks. A
  terminal that made the copy removes it when its CLI exits, with a session at
  work in it that has not written yet.
The modules show more, which no run repeats because few steps make them: a drag
from one working column to another cancels nothing, where `docs/flows.md:266`
says it does (`handleEvent` asks only where the card went);
a drain may start a card that has a session already, against
`docs/spec-acp.md:207` (the row goes after the start; `NothingWaits` is the
premise that excludes it); a column may go over its limit, against
`manager.go:436-438` (`raced` of `StageQueue` names the overlap); and a person
set between the drag and the start is overwritten by an agent, against
`internal/boardadapter/users.go:147-148` (the check reads the event). In
`SourceDelivery` a row without a card skips the question to the board
(`manager.go:360`), so an item that was dropped first gets a second card beside
a stamped one, against `internal/sources/sources.go:67-68`. In `FlowRoute` a
transition that has read the card's place before a person drags the card off
moves it back from wherever it is (`flowengine.go:66`), against
`flowengine.go:36-37` ("never drag it back: the human wins"); and a card that is
dragged on or off its route while it waits for a column keeps its row, since
`handleFlowMove` answers before the line that would let it go
(`trigger.go:47-48`), and a drain starts the stage it has left, against
`stagequeue.go:66-67` and `store.go:563`.

### Fairness

`StageQueue!FairSpec`: the loop and the drains are goroutines and are scheduled;
a session whose turn has begun and is cancelled ends, since the turn's context is
over. Nothing makes any other session end: a cancel during the handshake with the
agent breaks nothing off, and the handshake has no timeout (`session.go:310,
526-536`); a stage in a terminal has none either (`docs/deferred.md:330-341`). So
`Settles` promises only that a session left alive is one whose turn was not told
to stop.
`PatientSpec` adds that every session ends, which is what a promise about
waiting has to assume. People are never fair.

`SourceDelivery!FairSpec`: a loop polls again after a bounded wait, every poll
and every board write has a timeout (`pollTimeout`, `boardWriteTimeout`), and
goroutines are scheduled. `CaughtUp` allows for a source that stopped because
the service refused its token.

`SessionLife!FairSpec`: the session's goroutine, its writes, its questions'
handlers and its watcher run; the turn's timer fires; the shutdown kills
terminals and breaks off a handshake. The agent is not fair, at its handshake
least of all, and neither are people. A place for a turn is taken under strong
fairness: a channel serves its senders in turn, and a place other sessions hold
comes free because their turns have the same timer.

`Workspace!FairSpec`: the watcher polls for ever. `FlowRoute!FairSpec`: the loop,
the watcher and the transitions run, a wait has its deadline, a session that is
over is released. Nothing makes a session end, so no row has to be drained, and
no merge has to come.

## 4. Proofs

Each of the six modules of proofs EXTENDS the module it is about and holds for
every value of its constants under its assumption.

`StageQueueProofs`: for any cards, columns, agents, crews, limits, buffer, any
finite number of session goroutines, and any bounds.

| Theorem | Statement | Argument |
|---|---|---|
| `TypeCorrect` | `Spec => []TypeOK` | inductive as it stands; one lemma per action |
| `ByCardCorrect` | `Spec => []ByCardLive` | with `DrainOwnsSlot` (a goroutine that drains has no live session of its own), since a drain that returns frees its slot |
| `WipCorrect` | `Spec => []WipUnlessRaced` | `RoomKept`: sessions running plus starts admitted do not pass the limit; in a column that is not raced a second start is admitted only when the first has become a session |
| `TurnIsKept` | `Spec => TurnKept` | every write of `row` either deletes or leaves a queued row alone, whatever else starts meanwhile |
| `LeavingCancelsWithoutQueue` | `ASSUME NothingWaits PROVE Spec => []LeavingWorkCancels` | `MovesInv`: of a card that missed nothing the untold moves lead from where the loop last saw it to where it stands (`MovesLead`), and it is at work, or about to be, only where the loop last saw it in a working column (`WorkedAsTold`); when no move is left untold, that is where it stands |
| `OneSessionWithoutQueue` | `ASSUME NothingWaits PROVE Spec => []OneSessionPerCard` | with no crew and no limit nothing is ever queued, so only the loop starts sessions and it looks at `byCard` first; without that premise a drain starts a second session |

`SourceDeliveryProofs`: for any items, any rules, any number of loops and
pushers, any interleaving and any bounds.

| Theorem | Statement | Argument |
|---|---|---|
| `TypeCorrect` | `Spec => []TypeOK` | inductive; the lemmas `DoneOK`, `GotoOK`, `ChangedOK`, `RememberedOK`, `CardWritten`, `CardAppended` cover the ways a step moves a goroutine, the table and the board |
| `RememberedCorrect` | `ASSUME Comments PROVE Spec => []RememberedWasSaid` | `SaidInv`: every card tells a state that was said (`CardsTold`), and every goroutine past its write to the board, or past the board's answer, holds such a state (`WritersTold`). A source whose changes are ignored remembers states nobody is told of, hence the premise |
| `SecondCardCorrect` | `Spec => []SecondCardExplained` | `SecondInv`, over the items no two deliveries were at together and no rule drops (`Quiet`): one goroutine at a time (`OneAtATime`); who is about to make a card finds no stamped one (`DecidesUnstamped`), because a wanted item in the table has a card there (`WantedHasCard`) and the board was asked otherwise; who is about to stamp holds the last card of the item (`StampsTheLast`) |
| `CardKeptCorrect` | `Spec => CardKept` | `KeptInv`: what the table has of the item a goroutine is at is what the goroutine was told (`AnswerHolds`), so a write repeats the card that was read. It holds of items nobody met at, by `OneAtATime` of `SecondInv`: where two are at one item, the second card replaces the first in the table |
| `UnshownCorrect` | `Spec => []UnshownCostFaults` | `LostInv` counts the cards in no column and in nobody's hands: a step loses none (`LostNothing`), a failure at most the one its goroutine holds (`LostOne`), a restart at most one for each goroutine (a surjection of the goroutines onto the cards they hold) |

`SessionLifeProofs`: for any finite number of sessions of either kind, any
questions, any capacity and any number of cancels and reports. The inductive
invariant is `IInv`, `TypeOK` and `Good(s)` of every session, in nine parts; a
step of one session leaves the others good (`OnlyOne`), so each action has one
lemma with one step per part. None of the properties below is inductive alone:
that the route was told nothing yet needs where the runner stands (`Steps`),
that a heeded session does not end as done needs the marks a cancel leaves until
the turn reads them (`Marked`), that the database agrees needs who is still to
write (`Stores`).

| Theorem | Statement | Rests on |
|---|---|---|
| `TypeCorrect` | `Spec => []TypeOK` | `Steps` for the end of a stage |
| `ReportCountsCorrect` | `Spec => []ReportCounts` | `Reports`: without a cancel only the runner ends a stage, so what `select` took stays the verdict |
| `SilentOnlyIfStoppedCorrect` | `Spec => []SilentOnlyIfStopped` | `Speaks`: who is not stopped has no mark of a cancel and a live context up to the end |
| `AskShownCorrect` | `Spec => []AskShown` | `Shows`, with raised questions as well as open ones |
| `StoredAsEndedCorrect` | `Spec => []StoredAsEnded` | `Stores`: every status on its way is the status, unless two were under way |
| `RevivedOnlyByItsTaskCorrect` | `Spec => RevivedOnlyByItsTask` | every other write of the status is `Finish` or `SetStatus`, which look |
| `VerdictKept` | `Spec => VerdictSpec` | `Release` is a `Tell` by `Heeds`, a cancel that came in time is a `Stop` by `Steps`, every other step stutters |

`WorkspaceProofs`: for any cards, terminals, bounds, and both kinds of base. The
invariant has a part for the folder (`FolderInv`: a card at work there has its
row or is `loose`, and of two cards past the question one is `raced`), for its
checkout (`HeadInv`), for copies and rows (`CopyInv`), for what a removal may
lose (`LossInv`) and for who was there when it looked (`TerminalInv`).

| Theorem | Statement |
|---|---|
| `TypeCorrect` | `Spec => []TypeOK` |
| `FolderAloneCorrect` | `Spec => []FolderAlone` |
| `OwnBranchCorrect` | `Spec => []OwnBranch` |
| `CopyHasRowCorrect` | `Spec => []CopyHasRow` |
| `WorkLostOnlyInWindowCorrect` | `Spec => WorkLostOnlyInWindow` |
| `TerminalKeepsCopyCorrect` | `Spec => TerminalKeepsCopy` |

`FlowRouteProofs`: for any route, any number of sessions and any bounds. The
invariant adds to `TypeOK` that a session which is gone is not named (`GoneInv`),
that one lives at a time, and none is being started beside it, while nothing was
rushed (`OneInv`), that an outcome on its way belongs to the stage the card says
it stands at unless the session was overtaken or mislaid (`TellInv`), who still
owes the board and the table a write (`StandInv`), and that the card and the
table agree unless the last record failed (`WrittenInv`).

| Theorem | Statement |
|---|---|
| `TypeCorrect` | `Spec => []TypeOK` |
| `OutcomeOfItsStageCorrect` | `Spec => []OutcomeOfItsStage` |
| `OneSessionAtATimeCorrect` | `Spec => []OneSessionAtATime` |
| `StandsWhereShownCorrect` | `Spec => []StandsWhereShown` |
| `VerdictHeard` | `Spec => VerdictSpec`: a step moves one session on or none (`SessionsOneByOne`); `Release` is a `Tell`, a cancel that was heeded and an end without an outcome are a `Stop`, every other step stutters |

`RegistriesProofs`: for any names, boards, edits, failures and restarts. The
first invariant, `IInv`, adds to `TypeOK` that what is still to be saved is in
memory (`LeftInv`), that what is still to be deleted is not (`GoneInv`), and that
every row is of an entry memory has or people removed (`Covered`). The second,
`SyncInv`, follows one save through the four tables. What it has written
(`Written`, all of memory between two saves) is in its table as it is in memory
(`WrittenInv`), and a table it is through with has nothing else (`PrunedInv`);
but for a folder whose modes are half written, folders a board was taken off,
and entries that share an id. Such entries come only of a failure: while nothing
failed the one entry without an id is the one being added, and the number it may
get, or the row it may adopt by name, is nobody's (`ApartInv`, `NewInv`,
`NamedInv`). An agent's proxy is there, in the table (`KeysInv`), in memory
(`RefsInv`), and, until the save is past the proxies, in memory for the table's
agents (`ReachInv`): that is why no proxy is deleted under an agent.

| Theorem | Statement | Rests on |
|---|---|---|
| `TypeCorrect` | `Spec => []TypeOK` | `IInv` |
| `KeptUnlessRemovedCorrect` | `Spec => KeptUnlessRemoved` | `Covered`, `GoneInv` |
| `StoredCorrect` | `Spec => []Stored` | `WrittenInv` and `PrunedInv` when all is written (`TableIsMemory`); `ApartInv` for the exception |
| `NetworkKeptCorrect` | `Spec => NetworkKept` | `SaveRowApart`: a row that is written over is its own entry's; `ReachInv`: a proxy's row that goes has no agent |

Only model-checked: the liveness properties (`Settles`,
`WaitingBehindWorkStarts`, `CaughtUp`, `SessionEnds`, `NothingLeftAsking`,
`MergedFolderFreed`, `OutcomeHeeded`, `MergeMovesOn`); they rest on fairness,
which is out of the prover's reach.

## 5. Not modelled

* **Deploys and tests** (`deploys.go`, `tests.go`, `internal/dokku`): two more
  kinds of column work. They start through `startSession` and end through
  `finishSession`, which are modelled; what is their own is reading a report.
* **Moves at the first start** (`boardseed.go`, `bindrefs.go`, `legacystore.go`,
  `setup.go`): references and automation written by older versions, carried once
  to where they are kept now. Carrying the registries out of the settings file is
  gone with the file's keys (`config.go:660-680`, `json:"-"`).
* **OAuth and secrets**: requests to a provider and their answers.
* **Board tools over MCP**: a request and a response; each call is one write of
  the board, and `finish_work`, the one that reaches into a session, is in
  `SessionLife`.
* **Board server** (`src/server`), **web, mobile, build**: the forked Focalboard.
  It is the board the modules read and write; its own handlers are requests over
  a database, its clients user interface. Most of the repository's lines are
  here, so most of them stand behind no definition.
* **Rules, templates, prompts, reports, logs, names of branches**: text. The
  modules keep the decision and leave out the wording.

Parts of modelled components that are left out are named in section 2.
