------------------------------ MODULE Workspace ------------------------------
(***************************************************************************)
(* Where a card's work lives in one repository folder: the claim that      *)
(* gives a card its copy or the folder itself (ClaimWorkspace, workspace.go*)
(* and worktree.go), what becomes of a copy when the session or terminal   *)
(* in it ends (cleanupWorktree in session.go, releaseTerminalWorktree in   *)
(* terminal.go), the checkout table (store.go), and the watcher that frees *)
(* a folder when its branch is merged (vcsloop.go, internal/vcs/git.go).   *)
(*                                                                         *)
(* A card is worked on by a session and, beside it, by a person's own      *)
(* terminal; both claim the card's workspace.  A claim is cut at every     *)
(* read of the table, the folder and git; git itself is behind a lock per  *)
(* repository (repoLock), which the removal of a copy holds from its look  *)
(* at the copy to its last command.  People use the folder meanwhile.      *)
(*                                                                         *)
(* A definition marked "Slip" is not the code: it is the definition below  *)
(* it with a mistake, there to see that a property would notice.           *)
(***************************************************************************)
EXTENDS Integers, Sequences

CONSTANTS
  Cards,
  Terminals,     \* the cards beside which a person may open a terminal
  Bases,         \* what a folder's base may be: named, or HEAD for no name
  MaxVisits,     \* bound on claims
  MaxChances,    \* bound on what people, the database and the machine do
  Trunk, None

ASSUME WorkspaceAssumption ==
  /\ Terminals \subseteq Cards
  /\ Bases \subseteq {"named", "HEAD"}
  /\ Trunk \notin Cards
  /\ None \notin Cards \cup (Cards \X {"session", "terminal"})
  /\ None \notin {"copy", "folder"}
  /\ MaxVisits \in Nat
  /\ MaxChances \in Nat

VARIABLES
  mode,      \* WorkMode of the folder: a copy per card, or a branch in it
  base,      \* BaseBranchFor the folder
  copies,    \* cards with a live row of mode worktree in the checkout table
  held,      \* cards with a live row of mode branch, by created_at
  branch,    \* each card's branch
  copy,      \* whether the card's copy is on disk
  dirty,     \* whether it has uncommitted work
  head,      \* what the folder has checked out
  unsaved,   \* whether the folder has uncommitted tracked work
  lock,      \* repoLock, where it is held between two steps
  act,       \* the session and the terminal of each card
  parked,    \* cards whose route waits for their branch to be merged
  latched,   \* branches whose merge is in vcs_seen
  news,      \* the merge the watcher is about to deliver
  raced,     \* history: two cards' claims of the folder have overlapped
  loose,     \* history: cards whose row was lost: not written, or overwritten
             \* or given back under them
  moved,     \* history: the folder's checkout was changed under a claim
  late,      \* history: cards worked on while their copy was being removed
  hurried,   \* history: cards that were joined while their copy was tidied up
  visits, chances   \* counted against the bounds

rows == <<copies, held>>
git == <<branch, copy, dirty>>
folder == <<head, unsaved>>
watch == <<parked, latched, news>>
history == <<raced, loose, moved, late, hurried>>
bounds == <<visits, chances>>
vars == <<mode, base, copies, held, branch, copy, dirty, head, unsaved, lock,
          act, parked, latched, news, raced, loose, moved, late, hurried,
          visits, chances>>

Modes == {"worktree", "branch"}
Actors == (Cards \X {"session"}) \cup (Terminals \X {"terminal"})
Of(a) == a[1]
IsSession(a) == a[2] = "session"

Act == [pc : {"idle", "remake", "make", "check", "clean", "switch",
              "record", "claimed", "work", "tidy", "fold", "probe", "remove",
              "free"},
        place : {"copy", "folder", None},
        mode : Modes,        \* the mode read before a copy is remade
        fresh : BOOLEAN,     \* Workspace.Fresh
        done : BOOLEAN]      \* whether the session ended as done
Idle == [pc |-> "idle", place |-> None, mode |-> "worktree",
         fresh |-> FALSE, done |-> FALSE]

Holding(c) == \E i \in 1 .. Len(held) : held[i] = c
Place(c) == CHOOSE i \in 1 .. Len(held) : held[i] = c
Without(c) ==
  IF Holding(c)
  THEN [i \in 1 .. Len(held) - 1 |-> held[IF i < Place(c) THEN i ELSE i + 1]]
  ELSE held
\* An actor of another card is past its question whether the folder is free.
Claiming(c) == \E a \in Actors : /\ Of(a) # c
                                 /\ act[a].pc \in {"clean", "switch", "record"}
                                 /\ act[a].place # "copy"
AtWork(a, p) == act[a].pc \in {"claimed", "work"} /\ act[a].place = p
TidyingUp(c) == \E a \in Actors : /\ Of(a) = c
                                 /\ act[a].pc \in {"fold", "probe", "remove"}

Init ==
  /\ mode \in Modes
  /\ base \in Bases
  /\ copies = {}
  /\ held = <<>>
  /\ branch = [c \in Cards |-> "none"]
  /\ copy = [c \in Cards |-> FALSE]
  /\ dirty = [c \in Cards |-> FALSE]
  /\ head = Trunk
  /\ unsaved = FALSE
  /\ lock = None
  /\ act = [a \in Actors |-> Idle]
  /\ parked = {}
  /\ latched = {}
  /\ news = None
  /\ raced = FALSE
  /\ loose = {}
  /\ moved = FALSE
  /\ late = {}
  /\ hurried = {}
  /\ visits = 0
  /\ chances = 0

\* One of the things that happen to the application and are not counted on.
Chance ==
  /\ chances < MaxChances
  /\ chances' = chances + 1
  /\ UNCHANGED visits

-----------------------------------------------------------------------------
(* ClaimWorkspace                                                          *)

Go(a, p) == act' = [act EXCEPT ![a].pc = p]
\* What a card with no workspace here does.
NewClaim(m) == IF m = "worktree" THEN "make" ELSE "check"

\* WorkModeFor, and heldWorkspace: the card's live row, whatever the mode is
\* now.  A folder that is held is not put on the card's branch again.
Look(a) ==
  /\ act[a].pc = "idle"
  /\ visits < MaxVisits
  /\ visits' = visits + 1
  /\ act' = [act EXCEPT ![a] =
               CASE Of(a) \in copies /\ copy[Of(a)] ->
                      [@ EXCEPT !.pc = "claimed", !.place = "copy"]
                 [] Of(a) \in copies /\ ~copy[Of(a)] ->
                      [@ EXCEPT !.pc = "remake", !.mode = mode]
                 [] Holding(Of(a)) ->
                      [@ EXCEPT !.pc = "claimed", !.place = "folder"]
                 [] OTHER -> [@ EXCEPT !.pc = NewClaim(mode)]]
  /\ UNCHANGED <<mode, base, rows, git, folder, lock, watch, history,
                 chances>>

\* CreateWorktree: git refuses a directory that is there and a branch that is
\* checked out elsewhere; a branch that exists is checked out, not made.
Cut(c) == [branch EXCEPT ![c] = IF @ = "none" THEN "fresh" ELSE @]
CanAdd(c) == ~copy[c] /\ head # c
\* A copy made between the removal of the last one and the release of its row
\* loses that row.
AddCopy(c) ==
  /\ loose' = loose \cup
               {d \in {c} : \E b \in Actors : Of(b) = d /\ act[b].pc = "free"}
  /\ copy' = [copy EXCEPT ![c] = TRUE]
  /\ branch' = Cut(c)
  /\ UNCHANGED dirty

Remake(a) ==
  /\ act[a].pc = "remake"
  /\ lock = None
  /\ IF CanAdd(Of(a))
     THEN /\ AddCopy(Of(a))
          /\ act' = [act EXCEPT ![a] = [Idle EXCEPT !.pc = "claimed",
                                                    !.place = "copy"]]
     ELSE /\ act' = [act EXCEPT ![a] =
                       [Idle EXCEPT !.pc = NewClaim(act[a].mode)]]
          /\ UNCHANGED <<git, loose>>
  /\ UNCHANGED <<mode, base, rows, folder, lock, watch, raced, moved, late,
                 hurried, bounds>>

Make(a) ==
  /\ act[a].pc = "make"
  /\ lock = None
  /\ IF CanAdd(Of(a))
     THEN /\ AddCopy(Of(a))
          /\ act' = [act EXCEPT ![a].pc = "record", ![a].place = "copy",
                                ![a].fresh = TRUE]
     ELSE act' = [act EXCEPT ![a] = Idle] /\ UNCHANGED <<git, loose>>
  /\ UNCHANGED <<mode, base, rows, folder, lock, watch, raced, moved, late,
                 hurried, bounds>>

\* Slip: nobody asks who holds the folder.
CheckNothing(a) ==
  /\ act[a].pc = "check"
  /\ Go(a, "clean")
  /\ raced' = (raced \/ Claiming(Of(a)))
  /\ UNCHANGED <<mode, base, rows, git, folder, lock, watch, loose, moved,
                 late, hurried, bounds>>

\* folderIsFree: the earliest live row of mode branch holds the folder.
Check(a) ==
  /\ act[a].pc = "check"
  /\ IF held = <<>> \/ Head(held) = Of(a)
     THEN Go(a, "clean") /\ raced' = (raced \/ Claiming(Of(a)))
     ELSE act' = [act EXCEPT ![a] = Idle] /\ UNCHANGED raced
  /\ UNCHANGED <<mode, base, rows, git, folder, lock, watch, loose, moved,
                 late, hurried, bounds>>

\* WorkdirIsClean
Clean(a) ==
  /\ act[a].pc = "clean"
  /\ act' = [act EXCEPT ![a] = IF unsaved THEN Idle
                               ELSE [@ EXCEPT !.pc = "switch"]]
  /\ UNCHANGED <<mode, base, rows, git, folder, lock, watch, history, bounds>>

Moves(a) == \E b \in Actors : Of(b) # Of(a) /\ AtWork(b, "folder")

\* Slip: a branch that exists is not checked out.
SwitchToNew(a) ==
  /\ act[a].pc = "switch"
  /\ lock = None
  /\ head' = IF branch[Of(a)] = "none" THEN Of(a) ELSE head
  /\ moved' = (moved \/ Moves(a))
  /\ branch' = Cut(Of(a))
  /\ act' = [act EXCEPT ![a].pc = "record", ![a].place = "folder",
                        ![a].fresh = TRUE]
  /\ UNCHANGED <<mode, base, rows, copy, dirty, unsaved, lock, watch, raced,
                 loose, late, hurried, bounds>>

\* SwitchToBranch: git carries work that came meanwhile along, or refuses.
Switch(a) ==
  /\ act[a].pc = "switch"
  /\ lock = None
  /\ \/ /\ ~copy[Of(a)]
        /\ head' = Of(a)
        /\ moved' = (moved \/ Moves(a))
        /\ branch' = Cut(Of(a))
        /\ act' = [act EXCEPT ![a].pc = "record", ![a].place = "folder",
                              ![a].fresh = TRUE]
     \/ /\ copy[Of(a)] \/ unsaved
        /\ act' = [act EXCEPT ![a] = Idle]
        /\ UNCHANGED <<head, moved, branch>>
  /\ UNCHANGED <<mode, base, rows, copy, dirty, unsaved, lock, watch, raced,
                 loose, late, hurried, bounds>>

\* Slip: a card that takes the folder keeps its row of a copy, and back.
RecordTwice(a) ==
  /\ act[a].pc = "record"
  /\ Go(a, "claimed")
  /\ IF act[a].place = "copy"
     THEN copies' = copies \cup {Of(a)} /\ UNCHANGED held
     ELSE held' = Append(held, Of(a)) /\ UNCHANGED copies
  /\ UNCHANGED <<mode, base, git, folder, lock, watch, history, bounds>>

\* SaveCheckout: the card's row is made or taken back, as of now.  The card's
\* other actor may have made one of the other mode since the question.
Record(a) ==
  /\ act[a].pc = "record"
  /\ Go(a, "claimed")
  /\ IF act[a].place = "copy"
     THEN /\ copies' = copies \cup {Of(a)}
          /\ held' = Without(Of(a))
          /\ loose' = loose \cup {c \in {Of(a)} : Holding(c)}
     ELSE /\ copies' = copies \ {Of(a)}
          /\ held' = Append(Without(Of(a)), Of(a))
          /\ loose' = loose \cup {c \in {Of(a)} : c \in copies}
  /\ UNCHANGED <<mode, base, git, folder, lock, watch, raced, moved, late,
                 hurried, bounds>>

\* The database refuses: that is logged and the work goes on.
RecordFails(a) ==
  /\ act[a].pc = "record"
  /\ Chance
  /\ Go(a, "claimed")
  /\ loose' = loose \cup {Of(a)}
  /\ UNCHANGED <<mode, base, rows, git, folder, lock, watch, raced, moved,
                 late, hurried>>

-----------------------------------------------------------------------------
(* The work, and its end                                                   *)

\* The agent is started; a terminal is in Manager.terminals from here on.
StartWork(a) ==
  /\ act[a].pc = "claimed"
  /\ act[a].place = "copy" => copy[Of(a)]
  /\ Go(a, "work")
  /\ hurried' = hurried \cup {c \in {Of(a)} : TidyingUp(c)}
  /\ UNCHANGED <<mode, base, rows, git, folder, lock, watch, raced, loose,
                 moved, late, bounds>>

StartFails(a) ==
  /\ act[a].pc = "claimed"
  /\ Go(a, "tidy")
  /\ UNCHANGED <<mode, base, rows, git, folder, lock, watch, history, bounds>>

Writing(c) == late' = late \cup {d \in {c} : lock # None /\ Of(lock) = d}

Write(a) ==
  /\ act[a].pc = "work"
  /\ IF act[a].place = "copy"
     THEN /\ copy[Of(a)]
          /\ dirty' = [dirty EXCEPT ![Of(a)] = TRUE]
          /\ Writing(Of(a))
          /\ UNCHANGED unsaved
     ELSE unsaved' = TRUE /\ UNCHANGED <<dirty, late>>
  /\ UNCHANGED <<mode, base, rows, branch, copy, head, lock, act, watch,
                 raced, loose, moved, hurried, bounds>>

\* In the folder a commit lands on whatever is checked out there.
Commit(a) ==
  /\ act[a].pc = "work"
  /\ IF act[a].place = "copy"
     THEN /\ copy[Of(a)] /\ dirty[Of(a)]
          /\ dirty' = [dirty EXCEPT ![Of(a)] = FALSE]
          /\ branch' = [branch EXCEPT ![Of(a)] = "ahead"]
          /\ Writing(Of(a))
          /\ UNCHANGED unsaved
     ELSE /\ unsaved
          /\ unsaved' = FALSE
          /\ branch' = [c \in Cards |->
                        IF c = head THEN "ahead" ELSE branch[c]]
          /\ UNCHANGED <<dirty, late>>
  /\ UNCHANGED <<mode, base, rows, copy, head, lock, act, watch, raced, loose,
                 moved, hurried, bounds>>

\* The session ends, or the terminal's CLI exits and is taken off the list.
EndWork(a, done) ==
  /\ act[a].pc = "work"
  /\ done => IsSession(a)
  /\ act' = [act EXCEPT ![a].pc = "tidy", ![a].done = done]
  /\ UNCHANGED <<mode, base, rows, git, folder, lock, watch, history, bounds>>

LivesIn(a) == act[a].pc = "work" /\ act[a].place = "copy"
TerminalLivesIn(c) == c \in Terminals /\ LivesIn(<<c, "terminal">>)

\* Slip: cleanupWorktree does not look who else is in the copy.
TidyAlone(a) ==
  /\ act[a].pc = "tidy"
  /\ LET p == IF act[a].place # "copy" THEN "idle"
              ELSE IF IsSession(a)
              THEN IF act[a].done THEN "fold" ELSE "probe"
              ELSE IF act[a].fresh THEN "probe" ELSE "idle"
     IN act' = [act EXCEPT ![a] =
                  IF p = "idle" THEN Idle ELSE [@ EXCEPT !.pc = p]]
  /\ UNCHANGED <<mode, base, rows, git, folder, lock, watch, history, bounds>>

\* cleanupWorktree leaves a copy somebody's terminal is in; a terminal puts
\* away the copy it made itself, and looks at nobody.
Tidy(a) ==
  /\ act[a].pc = "tidy"
  /\ LET p == IF act[a].place # "copy" THEN "idle"
              ELSE IF IsSession(a)
              THEN IF TerminalLivesIn(Of(a)) THEN "idle"
                   ELSE IF act[a].done THEN "fold" ELSE "probe"
              ELSE IF act[a].fresh THEN "probe" ELSE "idle"
     IN act' = [act EXCEPT ![a] =
                  IF p = "idle" THEN Idle ELSE [@ EXCEPT !.pc = p]]
  /\ UNCHANGED <<mode, base, rows, git, folder, lock, watch, history, bounds>>

\* FoldWorktree: the copy of a finished stage is put away, its branch stays.
Fold(a) ==
  /\ act[a].pc = "fold"
  /\ lock = None
  /\ act' = [act EXCEPT ![a] = Idle]
  /\ copy' = [copy EXCEPT ![Of(a)] = @ /\ dirty[Of(a)]]
  /\ UNCHANGED <<mode, base, rows, branch, dirty, folder, lock, watch,
                 history, bounds>>

\* The commits a removal counts: none where the base is the copy's own HEAD.
Ahead(c) == base = "named" /\ branch[c] = "ahead"
\* Slip: uncommitted work is not looked for.
WorthKeepingCommitted(c) == Ahead(c)
WorthKeeping(c) == dirty[c] \/ Ahead(c)

\* Slip: the row is given back whether the copy went or not.
ProbeFrees(a) ==
  /\ act[a].pc = "probe"
  /\ lock = None
  /\ IF ~copy[Of(a)] \/ WorthKeeping(Of(a))
     THEN Go(a, "free") /\ UNCHANGED lock
     ELSE Go(a, "remove") /\ lock' = a
  /\ UNCHANGED <<mode, base, rows, git, folder, watch, history, bounds>>

\* RemoveWorktreeIfClean looks, with the repository's lock taken.  A branch
\* that landed may still be ahead of the base the copy was cut from.
Probe(a) ==
  /\ act[a].pc = "probe"
  /\ lock = None
  /\ \/ /\ ~copy[Of(a)] \/ WorthKeeping(Of(a)) \/ branch[Of(a)] = "landed"
        /\ act' = [act EXCEPT ![a] = Idle]
        /\ UNCHANGED lock
     \/ /\ copy[Of(a)]
        /\ ~WorthKeeping(Of(a))
        /\ Go(a, "remove")
        /\ lock' = a
  /\ UNCHANGED <<mode, base, rows, git, folder, watch, history, bounds>>

\* ... and removes by force, with the branch.
Remove(a) ==
  /\ act[a].pc = "remove"
  /\ copy' = [copy EXCEPT ![Of(a)] = FALSE]
  /\ dirty' = [dirty EXCEPT ![Of(a)] = FALSE]
  /\ branch' = [branch EXCEPT ![Of(a)] = "none"]
  /\ lock' = None
  /\ act' = [act EXCEPT ![a] = IF IsSession(a) THEN [@ EXCEPT !.pc = "free"]
                               ELSE Idle]
  /\ UNCHANGED <<mode, base, rows, folder, watch, history, bounds>>

\* Somebody works by the row that is being given back.
InUse(c) == \E a \in Actors : /\ Of(a) = c
                             /\ act[a].pc \in {"remake", "claimed", "work"}

\* ReleaseWorkspace, after the copy is gone.
Free(a) ==
  /\ act[a].pc = "free"
  /\ copies' = copies \ {Of(a)}
  /\ held' = Without(Of(a))
  /\ loose' = loose \cup {c \in {Of(a)} : InUse(c)}
  /\ act' = [act EXCEPT ![a] = Idle]
  /\ UNCHANGED <<mode, base, git, folder, lock, watch, raced, moved, late,
                 hurried, bounds>>

-----------------------------------------------------------------------------
(* People and the remote                                                   *)

SetMode(m) ==
  /\ Chance
  /\ m # mode
  /\ mode' = m
  /\ UNCHANGED <<base, rows, git, folder, lock, act, watch, history>>

PersonEdits ==
  /\ Chance
  /\ ~unsaved
  /\ unsaved' = TRUE
  /\ UNCHANGED <<mode, base, rows, git, head, lock, act, watch, history>>

PersonPutsAway ==
  /\ Chance
  /\ unsaved
  /\ unsaved' = FALSE
  /\ UNCHANGED <<mode, base, rows, git, head, lock, act, watch, history>>

\* A person goes back to the trunk in the folder.
PersonSwitches ==
  /\ Chance
  /\ ~unsaved
  /\ head # Trunk
  /\ head' = Trunk
  /\ moved' = TRUE
  /\ UNCHANGED <<mode, base, rows, git, unsaved, lock, act, watch, raced,
                 loose, late, hurried>>

\* Somebody merges the card's branch into the remote's default branch.
Merge(c) ==
  /\ Chance
  /\ branch[c] = "ahead"
  /\ branch' = [branch EXCEPT ![c] = "landed"]
  /\ UNCHANGED <<mode, base, rows, copy, dirty, folder, lock, act, watch,
                 history>>

\* The card's route comes to a node that waits for the merge, or leaves it.
Park(c) ==
  /\ Chance
  /\ c \notin parked
  /\ branch[c] # "none"
  /\ parked' = parked \cup {c}
  /\ UNCHANGED <<mode, base, rows, git, folder, lock, act, latched, news,
                 history>>

Unpark(c) ==
  /\ Chance
  /\ c \in parked
  /\ parked' = parked \ {c}
  /\ UNCHANGED <<mode, base, rows, git, folder, lock, act, latched, news,
                 history>>

\* The tip of the branch is in the default branch, as it is of a branch nobody
\* has committed to.
IsMerged(c) == branch[c] \in {"fresh", "landed"}

\* Slip: a merge is latched for good before anybody sees it.
PollTwice(c) ==
  /\ c \in parked
  /\ news = None
  /\ IsMerged(c)
  /\ c \notin latched
  /\ latched' = latched \cup {c}
  /\ UNCHANGED <<mode, base, rows, git, folder, lock, act, parked, news,
                 history, bounds>>

\* PollVCS asks about the cards whose route waits; ClaimVCSEvent lets a merge
\* of a branch through once and for ever.
Poll(c) ==
  /\ c \in parked
  /\ news = None
  /\ IsMerged(c)
  /\ c \notin latched
  /\ latched' = latched \cup {c}
  /\ news' = c
  /\ UNCHANGED <<mode, base, rows, git, folder, lock, act, parked, history,
                 bounds>>

\* OnVCSEvent: ReleaseMergedBranch, and the card moves on if an edge lets it.
Deliver(c) ==
  /\ news = c
  /\ news' = None
  /\ copies' = copies \ {c}
  /\ held' = Without(c)
  /\ loose' = loose \cup {d \in {c} : InUse(d) \/ copy[d]}
  /\ \E p \in {parked, parked \ {c}} : parked' = p
  /\ UNCHANGED <<mode, base, git, folder, lock, act, latched, raced, moved,
                 late, hurried, bounds>>

\* The application goes down and comes up: everybody's CLI with it.
Restart ==
  /\ Chance
  /\ loose' = loose \cup {Of(a) : a \in {b \in Actors : act[b].pc = "record"}}
                    \cup {c \in Cards : news = c}
  /\ act' = [a \in Actors |-> Idle]
  /\ lock' = None
  /\ news' = None
  /\ UNCHANGED <<mode, base, rows, git, folder, parked, latched, raced, moved,
                 late, hurried>>

-----------------------------------------------------------------------------

ClaimStep(a) ==
  \/ Look(a) \/ Remake(a) \/ Make(a) \/ Check(a) \/ Clean(a) \/ Switch(a)
  \/ Record(a) \/ RecordFails(a) \/ StartWork(a) \/ StartFails(a)

EndStep(a) == Tidy(a) \/ Fold(a) \/ Probe(a) \/ Remove(a) \/ Free(a)

PeopleAct ==
  \/ \E m \in Modes : SetMode(m)
  \/ PersonEdits \/ PersonPutsAway \/ PersonSwitches
  \/ \E c \in Cards : Merge(c) \/ Park(c) \/ Unpark(c)

WatchStep == \E c \in Cards : Poll(c) \/ Deliver(c)

Next ==
  \/ \E a \in Actors :
       \/ ClaimStep(a) \/ EndStep(a)
       \/ Write(a) \/ Commit(a) \/ \E done \in BOOLEAN : EndWork(a, done)
  \/ PeopleAct
  \/ WatchStep
  \/ Restart

Spec == Init /\ [][Next]_vars

\* The watcher's loop polls for ever and delivers what it found.
FairSpec ==
  /\ Spec
  /\ \A c \in Cards : WF_vars(Poll(c)) /\ WF_vars(Deliver(c))

-----------------------------------------------------------------------------
(* Properties                                                              *)

\* The variables keep their types; the lock is held by the one that removes,
\* nobody has two rows, and whoever is at work knows where.
TypeOK ==
  /\ mode \in Modes
  /\ base \in Bases
  /\ copies \subseteq Cards
  /\ held \in Seq(Cards)
  /\ \A i, j \in 1 .. Len(held) : held[i] = held[j] => i = j
  /\ \A c \in copies : ~Holding(c)
  /\ branch \in [Cards -> {"none", "fresh", "ahead", "landed"}]
  /\ copy \in [Cards -> BOOLEAN]
  /\ dirty \in [Cards -> BOOLEAN]
  /\ head \in Cards \cup {Trunk}
  /\ unsaved \in BOOLEAN
  /\ lock \in Actors \cup {None}
  /\ act \in [Actors -> Act]
  /\ \A a \in Actors :
       /\ act[a].pc = "remove" <=> lock = a
       /\ act[a].pc \in {"claimed", "work"} => act[a].place # None
  /\ parked \subseteq Cards
  /\ latched \subseteq Cards
  /\ news \in Cards \cup {None}
  /\ raced \in BOOLEAN
  /\ loose \subseteq Cards
  /\ moved \in BOOLEAN
  /\ late \subseteq Cards
  /\ hurried \subseteq Cards
  /\ {visits, chances} \subseteq Nat

\* Two cards are at work in one folder only after their claims overlapped
\* between the question and the row (folderIsFree, recordClaim), or after one's
\* row was lost.
FolderAlone ==
  \A a, b \in Actors :
    Of(a) # Of(b) /\ AtWork(a, "folder") /\ AtWork(b, "folder")
      => raced \/ {Of(a), Of(b)} \cap loose # {}

\* A card's work in the folder is done on the card's branch, unless somebody
\* switched the folder: a card that holds the folder is sent back into it as it
\* stands (heldWorkspace), without a look at what is checked out.
OwnBranch ==
  \A a \in Actors : AtWork(a, "folder")
    => head = Of(a) \/ moved \/ raced \/ Of(a) \in loose

\* A copy that nobody is busy with has a row: without one the next claim would
\* try to make it again, and be refused for ever (CreateWorktree).
CopyHasRow ==
  \A c \in Cards : copy[c] /\ c \notin copies
    => c \in loose \/ \E a \in Actors : Of(a) = c /\ act[a].pc # "idle"

\* Work in a copy is lost only when it is written between git's look at the
\* copy and its removal (RemoveWorktreeIfClean), or when it is committed over a
\* base with no name, which counts no commits.
WorkLostOnlyInWindow ==
  [][\A c \in Cards :
       /\ copy[c] /\ dirty[c] /\ ~copy'[c] => c \in late
       /\ branch[c] = "ahead" /\ branch'[c] = "none"
            => c \in late \/ base = "HEAD"]_vars

\* A copy is not taken from under a terminal that was there when the session
\* that ends asked (terminalLivesIn, cleanupWorktree).
TerminalKeepsCopy ==
  [][\A c \in Cards :
       TerminalLivesIn(c) /\ copy[c] /\ ~copy'[c] => c \in hurried]_vars

\* docs/flows.md says a copy is kept when a CLI is still running in it.  A
\* terminal's exit does not look (releaseTerminalWorktree): it takes the copy
\* it made from under a session that was at work there all along.
CopyKept ==
  [][\A a \in Actors :
       LivesIn(a) /\ copy[Of(a)] /\ ~copy'[Of(a)] => Of(a) \in hurried]_vars

\* A folder whose card's branch is merged while its route waits for that is
\* given back (PollVCS, ReleaseMergedBranch), unless the merge was latched
\* before, or the event was lost in a restart.
MergedFolderFreed ==
  \A c \in Cards :
    (branch[c] = "landed" /\ c \in parked \ latched /\ Holding(c))
      ~> (~Holding(c) \/ c \notin parked \/ branch[c] # "landed"
            \/ c \in loose)
=============================================================================
