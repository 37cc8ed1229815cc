----------------------------- MODULE Registries -----------------------------
(***************************************************************************)
(* The four registries of the machine - proxies, agents, deploy targets    *)
(* and folders (registrymove.go, registrystore.go).  The dialogs edit the  *)
(* slices in memory under cfgMu, and every edit rewrites all four tables,  *)
(* row by row and in no transaction (persistRegistriesLocked); a start     *)
(* takes what the tables hold (loadRegistriesLocked).                      *)
(*                                                                         *)
(* Meanwhile cards are worked in folders, which leaves checkouts, and      *)
(* boards are deleted, and both have foreign keys into these tables.  Any  *)
(* read or write may fail and the application may go down between two.     *)
(*                                                                         *)
(* An entry is its id, its name, what it points at (an agent's proxy, a    *)
(* folder's board) and, for a folder, the boards it has a mode on.  Names  *)
(* are compared without their case, the order of a registry is left open.  *)
(*                                                                         *)
(* A definition marked "Slip" is not the code: it is the definition below  *)
(* it with a mistake, there to see that a property would notice.           *)
(***************************************************************************)
EXTENDS Integers

CONSTANTS
  Names,       \* names people give
  Boards,
  MaxEdits,    \* bound on edits
  MaxChances,  \* bound on restarts, deleted boards and failures together
  None

ASSUME RegistriesAssumption ==
  /\ MaxEdits \in Nat
  /\ MaxChances \in Nat
  /\ None \notin Nat \cup Boards
  /\ Boards \cap Nat = {}

VARIABLES
  memory,  \* Config's slices
  rows,    \* the tables
  boards,  \* the boards there are
  held,    \* folders, by id, that have a checkout
  saving,  \* where persistRegistriesLocked is
  known,   \* the names and ids it found when it began
  ok,      \* the last edit was answered without an error
  bereft,  \* a board was deleted under a row since the last edit began
  blind,   \* history: the application came up without reading the tables
  failed,  \* history: an edit was answered with an error
  removed, \* history: entries people removed
  edits, chances  \* counted against their bounds

world == <<boards, held>>
history == <<blind, removed>>
vars == <<memory, rows, boards, held, saving, known, ok, bereft, blind,
          failed, removed, edits, chances>>

\* In the order they are saved.
Kinds == {"proxy", "agent", "deploy_target", "workspace"}
After(k) == CASE k = "proxy" -> "agent"
              [] k = "agent" -> "deploy_target"
              [] k = "deploy_target" -> "workspace"

\* The n-th edit may make an entry; newID gives it the number n, which no other
\* entry gets.  An entry that was never saved has the id 0.
Makers == 1 .. MaxEdits
Ids == 0 .. MaxEdits
Entry == [id : Ids, name : Names, ref : Ids \cup Boards \cup {None},
          modes : SUBSET Boards, maker : Makers]
IdsOf(entries) == {e.id : e \in entries}
Known(k) == {<<r.name, r.id>> : r \in rows[k]}

Nothing == [k \in Kinds |-> {}]
Rest == [pc |-> "idle", kind |-> "proxy", left |-> {}, gone |-> {},
         folder |-> 0, modes |-> {}]
Saving == [pc : {"idle", "read", "save", "clear", "modes", "delete"},
           kind : Kinds,
           left : SUBSET Entry,      \* entries still to be saved
           gone : SUBSET Ids,        \* rows still to be deleted
           folder : Ids,             \* the folder whose modes are written
           modes : SUBSET Boards]    \* and those still to be written

Init ==
  /\ memory = Nothing
  /\ rows = Nothing
  /\ boards = Boards
  /\ held = {}
  /\ saving = Rest
  /\ known = Nothing
  /\ ok = TRUE
  /\ bereft = FALSE
  /\ blind = FALSE
  /\ failed = FALSE
  /\ removed = {}
  /\ edits = 0
  /\ chances = 0

Chance == chances < MaxChances /\ chances' = chances + 1

-----------------------------------------------------------------------------
(* The dialogs: each edit takes cfgMu, changes the slice and persists       *)

Edit(entries) ==
  /\ saving.pc = "idle"
  /\ edits < MaxEdits
  /\ edits' = edits + 1
  /\ memory' = entries
  /\ saving' = [Rest EXCEPT !.pc = "read"]
  /\ bereft' = FALSE
  /\ UNCHANGED <<rows, world, known, ok, blind, failed, chances>>

Taken(k, name) == \E e \in memory[k] : e.name = name
Refs(k) == {None} \cup
  CASE k = "agent" -> IdsOf(memory["proxy"]) \ {0}
    [] k = "workspace" -> boards
    [] OTHER -> {}

\* AddProxy, AddAgent, AddDeploy, AddWorkdir and registerWorkedFolder: a folder
\* gets its id at once.
Add(k, name, ref) ==
  /\ ~Taken(k, name)
  /\ ref \in Refs(k)
  /\ Edit([memory EXCEPT ![k] = @ \cup
             {[id |-> IF k = "workspace" THEN edits + 1 ELSE 0, name |-> name,
               ref |-> ref, modes |-> {}, maker |-> edits + 1]}])
  /\ UNCHANGED removed

Replace(k, e, f) == [memory EXCEPT ![k] = (@ \ {e}) \cup {f}]

\* Slip: a name may be taken over from another entry.
UpdateOver(k, e, name, ref) ==
  /\ k # "workspace"
  /\ ref \in Refs(k)
  /\ Edit(Replace(k, e, [e EXCEPT !.name = name, !.ref = ref]))
  /\ UNCHANGED removed

\* UpdateProxy, UpdateAgent, UpdateDeploy: the identity is the entry's.
Update(k, e, name, ref) ==
  /\ k # "workspace"
  /\ name = e.name \/ ~Taken(k, name)
  /\ ref \in Refs(k)
  /\ Edit(Replace(k, e, [e EXCEPT !.name = name, !.ref = ref]))
  /\ UNCHANGED removed

\* AttachWorkdir.
Attach(e, b) ==
  /\ e.ref = None
  /\ Edit(Replace("workspace", e, [e EXCEPT !.ref = b]))
  /\ UNCHANGED removed

\* SetWorkdirMode.
SetMode(e, b) ==
  /\ Edit(Replace("workspace", e, [e EXCEPT !.modes = @ \cup {b}]))
  /\ UNCHANGED removed

\* Everything else that persists the settings: a board that is opened
\* (adoptBoardAutomation), a prompt, a folder's base.
Touch ==
  /\ Edit(memory)
  /\ UNCHANGED removed

\* Slip: a proxy agents go through can be removed.
RemoveAny(k, e) ==
  /\ removed' = removed \cup {<<k, e.id>>}
  /\ Edit([memory EXCEPT ![k] = @ \ {e}])

\* RemoveProxy, RemoveAgent, RemoveDeploy, RemoveWorkdir.
Remove(k, e) ==
  /\ k = "proxy" => e.id = 0 \/ \A a \in memory["agent"] : a.ref # e.id
  /\ removed' = removed \cup {<<k, e.id>>}
  /\ Edit([memory EXCEPT ![k] = @ \ {e}])

Dialog ==
  \/ \E k \in Kinds, n \in Names : \E ref \in Refs(k) : Add(k, n, ref)
  \/ \E k \in Kinds, n \in Names :
       \E e \in memory[k], ref \in Refs(k) : Update(k, e, n, ref)
  \/ \E e \in memory["workspace"], b \in boards : Attach(e, b) \/ SetMode(e, b)
  \/ Touch
  \/ \E k \in Kinds : \E e \in memory[k] : Remove(k, e)

-----------------------------------------------------------------------------
(* persistRegistriesLocked                                                  *)

Answer(good) ==
  /\ saving' = Rest
  /\ known' = Nothing
  /\ ok' = good
  /\ failed' = (failed \/ ~good)

\* registryIDs.
ReadNames ==
  /\ saving.pc = "read"
  /\ known' = [k \in Kinds |-> Known(k)]
  /\ saving' = [saving EXCEPT !.pc = "save", !.left = memory["proxy"]]
  /\ UNCHANGED <<memory, rows, world, ok, bereft, failed, history, edits,
                 chances>>

\* adopt: an entry without an id takes the one its name had in the table.
Adopted(k, e) ==
  IF e.id # 0 THEN {e}
  ELSE {[e EXCEPT !.id = p[2]] : p \in {q \in known[k] : q[1] = e.name}}
Saved(k, e) == IF Adopted(k, e) # {} THEN Adopted(k, e)
               ELSE {[e EXCEPT !.id = e.maker]}

\* The unique name and the foreign keys of the tables.
Accepts(k, e) ==
  /\ \A r \in rows[k] : r.name = e.name => r.id = e.id
  /\ k = "agent" => e.ref \in IdsOf(rows["proxy"]) \cup {None}
  /\ k = "workspace" => e.ref \in boards \cup {None}

\* The upsert leaves a folder's modes to saveWorkspaceModes.
Upsert(k, e) ==
  [rows EXCEPT ![k] =
     {r \in @ : r.id # e.id} \cup
     {[e EXCEPT !.modes = UNION {r.modes : r \in {q \in rows[k] : q.id = e.id}}]}]

\* Slip: the entry keeps no id when its row is new.
SaveRowForgets(e) ==
  /\ saving.pc = "save" /\ e \in saving.left
  /\ \E f \in Saved(saving.kind, e) :
       /\ Accepts(saving.kind, f)
       /\ rows' = Upsert(saving.kind, f)
       /\ memory' = memory
       /\ saving' = IF saving.kind = "workspace"
                    THEN [saving EXCEPT !.pc = "clear", !.left = @ \ {e},
                                        !.folder = f.id, !.modes = f.modes]
                    ELSE [saving EXCEPT !.left = @ \ {e}]
  /\ UNCHANGED <<world, known, ok, bereft, failed, history, edits, chances>>

\* SaveProxy, SaveAgent, SaveDeployTarget, and SaveWorkspace up to its modes.
SaveRow(e) ==
  /\ saving.pc = "save" /\ e \in saving.left
  /\ \E f \in Saved(saving.kind, e) :
       /\ Accepts(saving.kind, f)
       /\ rows' = Upsert(saving.kind, f)
       /\ memory' = Replace(saving.kind, e, f)
       /\ saving' = IF saving.kind = "workspace"
                    THEN [saving EXCEPT !.pc = "clear", !.left = @ \ {e},
                                        !.folder = f.id, !.modes = f.modes]
                    ELSE [saving EXCEPT !.left = @ \ {e}]
  /\ UNCHANGED <<world, known, ok, bereft, failed, history, edits, chances>>

\* ... which fails, by the table's refusal or otherwise; an id that was adopted
\* stays with the entry.
SaveFails(e) ==
  /\ saving.pc = "save" /\ e \in saving.left
  /\ \/ /\ \E f \in Saved(saving.kind, e) : ~Accepts(saving.kind, f)
        /\ UNCHANGED chances
     \/ Chance
  /\ memory' \in {memory} \cup
                 {Replace(saving.kind, e, f) : f \in Adopted(saving.kind, e)}
  /\ Answer(FALSE)
  /\ UNCHANGED <<rows, world, bereft, history, edits>>

WithModes(i, modes) ==
  [rows EXCEPT !["workspace"] =
     {IF r.id = i THEN [r EXCEPT !.modes = modes] ELSE r : r \in @}]

\* saveWorkspaceModes: the old ones go, the entry's are written one by one.
ClearModes ==
  /\ saving.pc = "clear"
  /\ rows' = WithModes(saving.folder, {})
  /\ saving' = [saving EXCEPT !.pc = IF saving.modes = {} THEN "save"
                                     ELSE "modes"]
  /\ UNCHANGED <<memory, world, known, ok, bereft, failed, history, edits,
                 chances>>

WriteMode(b) ==
  /\ saving.pc = "modes" /\ b \in saving.modes
  /\ b \in boards
  /\ rows' = [rows EXCEPT !["workspace"] =
                {IF r.id = saving.folder THEN [r EXCEPT !.modes = @ \cup {b}]
                 ELSE r : r \in @}]
  /\ saving' = [saving EXCEPT !.modes = @ \ {b},
                              !.pc = IF saving.modes = {b} THEN "save"
                                     ELSE "modes"]
  /\ UNCHANGED <<memory, world, known, ok, bereft, failed, history, edits,
                 chances>>

\* pruneRegistry: the rows memory no longer has.
Prune ==
  /\ saving.pc = "save" /\ saving.left = {}
  /\ saving' = [saving EXCEPT !.pc = "delete",
                  !.gone = IdsOf(rows[saving.kind]) \ IdsOf(memory[saving.kind])]
  /\ UNCHANGED <<memory, rows, world, known, ok, bereft, failed, history, edits,
                 chances>>

\* The key of an agent's proxy is set to NULL with its row.
Without(k, i) ==
  [j \in Kinds |->
     IF j = k THEN {r \in rows[j] : r.id # i}
     ELSE IF k = "proxy" /\ j = "agent"
     THEN {IF r.ref = i THEN [r EXCEPT !.ref = None] ELSE r : r \in rows[j]}
     ELSE rows[j]]

\* Slip: nobody is told of a row that was refused.
DeleteRowQuietly(i) ==
  /\ saving.pc = "delete" /\ i \in saving.gone
  /\ rows' = IF saving.kind = "workspace" /\ i \in held THEN rows
             ELSE Without(saving.kind, i)
  /\ saving' = [saving EXCEPT !.gone = @ \ {i}]
  /\ UNCHANGED <<memory, world, known, ok, bereft, failed, history, edits,
                 chances>>

\* A folder with a checkout, released or not, is refused.
DeleteRow(i) ==
  /\ saving.pc = "delete" /\ i \in saving.gone
  /\ saving.kind = "workspace" => i \notin held
  /\ rows' = Without(saving.kind, i)
  /\ saving' = [saving EXCEPT !.gone = @ \ {i}]
  /\ UNCHANGED <<memory, world, known, ok, bereft, failed, history, edits,
                 chances>>

NextRegistry ==
  /\ saving.pc = "delete" /\ saving.gone = {}
  /\ saving.kind # "workspace"
  /\ saving' = [saving EXCEPT !.pc = "save", !.kind = After(saving.kind),
                              !.left = memory[After(saving.kind)]]
  /\ UNCHANGED <<memory, rows, world, known, ok, bereft, failed, history, edits,
                 chances>>

Finish ==
  /\ saving.pc = "delete" /\ saving.gone = {}
  /\ saving.kind = "workspace"
  /\ Answer(TRUE)
  /\ UNCHANGED <<memory, rows, world, bereft, history, edits, chances>>

\* A read or a write fails, or a foreign key refuses it: the edit ends there,
\* and memory keeps it.
Refused ==
  \/ saving.pc = "modes" /\ saving.modes \cap boards # saving.modes
  \/ saving.pc = "delete" /\ saving.kind = "workspace"
                          /\ saving.gone \cap held # {}
StepFails ==
  /\ \/ Refused /\ UNCHANGED chances
     \/ saving.pc \in {"read", "clear", "modes", "delete"} /\ Chance
     \/ saving.pc = "save" /\ saving.left = {} /\ Chance
  /\ Answer(FALSE)
  /\ UNCHANGED <<memory, rows, world, bereft, history, edits>>

Persist ==
  \/ ReadNames
  \/ \E e \in saving.left : SaveRow(e) \/ SaveFails(e)
  \/ ClearModes
  \/ \E b \in saving.modes : WriteMode(b)
  \/ Prune
  \/ \E i \in saving.gone : DeleteRow(i)
  \/ NextRegistry \/ Finish
  \/ StepFails

-----------------------------------------------------------------------------
(* Cards, boards and restarts                                               *)

\* A card is worked in a folder memory has: its checkout needs the row.
Claim(i) ==
  /\ i \in IdsOf(memory["workspace"]) \cap IdsOf(rows["workspace"])
  /\ held' = held \cup {i}
  /\ UNCHANGED <<memory, rows, boards, saving, known, ok, bereft, failed,
                 history, edits, chances>>

\* The last card that was worked there is deleted, its checkouts with it.
Forget(i) ==
  /\ i \in held
  /\ held' = held \ {i}
  /\ UNCHANGED <<memory, rows, boards, saving, known, ok, bereft, failed,
                 history, edits, chances>>

\* The keys take the board off its folders; nobody tells memory.
DeleteBoard(b) ==
  /\ Chance
  /\ b \in boards
  /\ boards' = boards \ {b}
  /\ rows' = [rows EXCEPT !["workspace"] =
                {[r EXCEPT !.ref = IF @ = b THEN None ELSE @,
                           !.modes = @ \ {b}] : r \in @}]
  /\ bereft' = TRUE
  /\ UNCHANGED <<memory, held, saving, known, ok, failed, history, edits>>

RestoreBoard(b) ==
  /\ b \in Boards \ boards
  /\ boards' = boards \cup {b}
  /\ UNCHANGED <<memory, rows, held, saving, known, ok, bereft, failed, history,
                 edits, chances>>

\* loadRegistriesLocked; what fails there is logged and no more.
Restart ==
  /\ Chance
  /\ memory' = rows
  /\ saving' = Rest /\ known' = Nothing
  /\ ok' = TRUE /\ bereft' = FALSE /\ blind' = FALSE
  /\ UNCHANGED <<rows, world, failed, removed, edits>>

RestartBlind ==
  /\ Chance
  /\ memory' = Nothing
  /\ saving' = Rest /\ known' = Nothing
  /\ ok' = FALSE /\ bereft' = FALSE /\ blind' = TRUE
  /\ UNCHANGED <<rows, world, failed, removed, edits>>

Next ==
  \/ Dialog
  \/ Persist
  \/ \E i \in Ids : Claim(i) \/ Forget(i)
  \/ \E b \in Boards : DeleteBoard(b) \/ RestoreBoard(b)
  \/ Restart \/ RestartBlind

Spec == Init /\ [][Next]_vars

-----------------------------------------------------------------------------
(* Properties                                                               *)

\* The variables keep their types, and a registry never has a name twice.
TypeOK ==
  /\ memory \in [Kinds -> SUBSET Entry]
  /\ rows \in [Kinds -> SUBSET Entry]
  /\ \A k \in Kinds : \A e, f \in memory[k] : e.name = f.name => e = f
  /\ \A k \in Kinds : \A r, q \in rows[k] :
       /\ r.id # 0
       /\ r.id = q.id \/ r.name = q.name => r = q
  /\ boards \subseteq Boards
  /\ held \subseteq Ids
  /\ saving \in Saving
  /\ known \in [Kinds -> SUBSET (Names \X Ids)]
  /\ ok \in BOOLEAN /\ bereft \in BOOLEAN
  /\ blind \in BOOLEAN /\ failed \in BOOLEAN
  /\ removed \subseteq Kinds \X Ids
  /\ edits \in 0 .. MaxEdits
  /\ chances \in 0 .. MaxChances

\* Two entries answer to one id.
Shared(k) == \E e, f \in memory[k] : e # f /\ e.id = f.id

\* An edit that was answered without an error is in the tables as it is in
\* memory, unless a board was deleted under it since, or an edit that had
\* failed before left two entries with one id (persistRegistriesLocked).
Stored ==
  saving.pc = "idle" /\ ok /\ ~bereft =>
    \A k \in Kinds : rows[k] = memory[k] \/ (failed /\ Shared(k))

\* A row leaves its table only because people removed the entry it is of,
\* unless the application came up without having read the tables: then the
\* first thing that is saved deletes them all (pruneRegistry).
KeptUnlessRemoved ==
  [][\A k \in Kinds : \A r \in rows[k] :
       r.id \in IdsOf(rows'[k]) \/ blind \/ <<k, r.id>> \in removed]_vars

\* An agent does not lose its proxy unless people took it from the agent: it
\* would talk past it without a word (RemoveProxy, the foreign key).  An edit
\* that failed, and a start that read nothing, are excepted.
NetworkKept ==
  [][\A r \in rows["agent"], q \in rows'["agent"] :
       q.id = r.id /\ r.ref # None /\ q.ref = None =>
         \/ failed \/ blind
         \/ \E e \in memory["agent"] : e.id = r.id /\ e.ref = None]_vars
=============================================================================
