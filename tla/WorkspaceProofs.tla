--------------------------- MODULE WorkspaceProofs ---------------------------
(***************************************************************************)
(* What holds of Workspace for every set of cards and terminals and every  *)
(* bound: the inductive invariant, and what follows from it.               *)
(***************************************************************************)
EXTENDS Workspace, SequenceTheorems, TLAPS

-----------------------------------------------------------------------------
(* The inductive invariant                                                 *)

\* An actor that has not claimed yet has no place, and one that is about to
\* record has.
PlaceInv ==
  \A a \in Actors :
    /\ act[a].pc = "idle" => act[a] = Idle
    /\ act[a].pc \in {"remake", "make", "check", "clean", "switch"} =>
         act[a].place = None
    /\ act[a].pc = "record" => act[a].place \in {"copy", "folder"}

\* The cards that hold the folder or have been told they may.
ClaimsFolder(a) == /\ act[a].pc \in {"clean", "switch", "record"}
                   /\ act[a].place # "copy"
Stands(c) == Holding(c) \/ \E a \in Actors : Of(a) = c /\ ClaimsFolder(a)
Alone == raced \/ \A c, d \in Cards : Stands(c) /\ Stands(d) => c = d

\* Who works in the folder holds it by a row.
HasRow ==
  \A a \in Actors : AtWork(a, "folder") => Holding(Of(a)) \/ Of(a) \in loose

\* The folder is on the branch of the card that holds it.
Switched(a) == act[a].pc = "record" /\ act[a].place = "folder"
HeadDue(c) == Holding(c) \/ \E a \in Actors : Of(a) = c /\ Switched(a)
HeadInv == moved \/ raced \/ \A c \in Cards : HeadDue(c) => head = c

\* A copy has a row or is about to get one.
Made(a) == act[a].pc = "record" /\ act[a].place = "copy"
RowKept ==
  \A c \in Cards : copy[c] /\ c \notin copies
    => c \in loose \/ \E a \in Actors : Of(a) = c /\ Made(a)
Remaking ==
  \A a \in Actors : act[a].pc = "remake" => Of(a) \in copies \cup loose
Freed ==
  \A a \in Actors : act[a].pc = "free" /\ copy[Of(a)] => Of(a) \in loose

\* A branch is checked out in one place.
HeadFree == \A c \in Cards : copy[c] => head # c

\* What a removal found still holds, but for what was written since.
Window ==
  \A a \in Actors : act[a].pc = "remove" =>
    /\ copy[Of(a)]
    /\ dirty[Of(a)] => Of(a) \in late
    /\ branch[Of(a)] = "ahead" => Of(a) \in late \/ base = "HEAD"

\* Nobody tidies up a copy with a terminal in it.
TerminalInv == \A c \in Cards : TerminalLivesIn(c) /\ TidyingUp(c) => c \in hurried

FolderInv == PlaceInv /\ Alone /\ HasRow /\ HeadInv
CopyInv == RowKept /\ Remaking /\ Freed
LossInv == HeadFree /\ Window
IInv == TypeOK /\ FolderInv /\ CopyInv /\ LossInv /\ TerminalInv

-----------------------------------------------------------------------------
(* Who acts, and what an action makes of him                               *)

LEMMA ActorFacts ==
  /\ \A a \in Actors : /\ Of(a) \in Cards
                       /\ ~IsSession(a) => /\ Of(a) \in Terminals
                                           /\ a = <<Of(a), "terminal">>
  /\ \A c \in Terminals : /\ c \in Cards
                          /\ <<c, "terminal">> \in Actors
                          /\ Of(<<c, "terminal">>) = c
  /\ None \notin Actors
  BY WorkspaceAssumption DEF Actors, Of, IsSession

LEMMA IdleIsAct == Idle \in Act /\ Idle.pc = "idle" /\ Idle.place = None
  BY DEF Idle, Act, Modes

\* The act of a becomes r, and nobody else's changes.
Becomes(a, r) == act' = [act EXCEPT ![a] = r]
Steps(a, p, q) ==
  /\ act' \in [Actors -> Act]
  /\ act'[a].pc = p
  /\ act'[a].place = q
  /\ p = "idle" => act'[a] = Idle
  /\ \A b \in Actors \ {a} : act'[b] = act[b]

LEMMA BecomesSteps ==
  ASSUME act \in [Actors -> Act], NEW a \in Actors, NEW r \in Act,
         Becomes(a, r), r.pc = "idle" => r = Idle
  PROVE  Steps(a, r.pc, r.place)
  BY DEF Becomes, Steps

LEMMA GoSteps ==
  ASSUME act \in [Actors -> Act], NEW a \in Actors,
         NEW p \in {"make", "check", "clean", "switch", "record", "claimed",
                    "work", "tidy", "fold", "probe", "remove", "free"},
         act' = [act EXCEPT ![a] = [act[a] EXCEPT !.pc = p]]
  PROVE  Steps(a, p, act[a].place)
<1> DEFINE r == [act[a] EXCEPT !.pc = p]
<1>1. r \in Act /\ r.pc = p /\ r.place = act[a].place
  BY DEF Act
<1>2. Becomes(a, r)
  BY DEF Becomes
<1> HIDE DEF r
<1> QED
  BY <1>1, <1>2, BecomesSteps

LEMMA IdleSteps ==
  ASSUME act \in [Actors -> Act], NEW a \in Actors,
         act' = [act EXCEPT ![a] = Idle]
  PROVE  Steps(a, "idle", None)
  BY IdleIsAct, BecomesSteps DEF Becomes

\* What each step of a claim makes of the one who takes it.
LEMMA LookSteps ==
  ASSUME TypeOK, PlaceInv, NEW a \in Actors, Look(a)
  PROVE  \/ Steps(a, "claimed", "copy") /\ Of(a) \in copies
         \/ Steps(a, "remake", None) /\ Of(a) \in copies
         \/ Steps(a, "claimed", "folder") /\ Holding(Of(a))
         \/ Steps(a, "make", None)
         \/ Steps(a, "check", None)
<1>1. /\ act[a] = Idle
      /\ act \in [Actors -> Act]
      /\ mode \in Modes
      /\ copy[Of(a)] \in BOOLEAN
      /\ Of(a) \in copies => ~Holding(Of(a))
  BY ActorFacts DEF TypeOK, PlaceInv, Look
<1>2. CASE Of(a) \in copies /\ copy[Of(a)]
  <2> DEFINE r == [Idle EXCEPT !.pc = "claimed", !.place = "copy"]
  <2>1. r \in Act /\ r.pc = "claimed" /\ r.place = "copy"
    BY DEF Act, Idle, Modes
  <2>2. Becomes(a, r)
    BY <1>1, <1>2 DEF Becomes, Look
  <2> HIDE DEF r
  <2> QED
    BY <1>1, <1>2, <2>1, <2>2, BecomesSteps
<1>3. CASE Of(a) \in copies /\ ~copy[Of(a)]
  <2> DEFINE r == [Idle EXCEPT !.pc = "remake", !.mode = mode]
  <2>1. r \in Act /\ r.pc = "remake" /\ r.place = None
    BY <1>1 DEF Act, Idle, Modes
  <2>2. Becomes(a, r)
    BY <1>1, <1>3 DEF Becomes, Look
  <2> HIDE DEF r
  <2> QED
    BY <1>1, <1>3, <2>1, <2>2, BecomesSteps
<1>4. CASE Of(a) \notin copies /\ Holding(Of(a))
  <2> DEFINE r == [Idle EXCEPT !.pc = "claimed", !.place = "folder"]
  <2>1. r \in Act /\ r.pc = "claimed" /\ r.place = "folder"
    BY DEF Act, Idle, Modes
  <2>2. Becomes(a, r)
    BY <1>1, <1>4 DEF Becomes, Look
  <2> HIDE DEF r
  <2> QED
    BY <1>1, <1>4, <2>1, <2>2, BecomesSteps
<1>5. CASE Of(a) \notin copies /\ ~Holding(Of(a))
  <2>1. act' = [act EXCEPT ![a] = [act[a] EXCEPT !.pc = NewClaim(mode)]]
    BY <1>5 DEF Look
  <2>2. NewClaim(mode) \in {"make", "check"}
    BY DEF NewClaim
  <2>3. Steps(a, NewClaim(mode), act[a].place)
    BY <1>1, <2>1, <2>2, GoSteps
  <2> QED
    BY <1>1, <2>2, <2>3, IdleIsAct
<1> QED
  BY <1>2, <1>3, <1>4, <1>5

LEMMA RemakeSteps ==
  ASSUME TypeOK, NEW a \in Actors, Remake(a)
  PROVE  \/ Steps(a, "claimed", "copy") /\ CanAdd(Of(a)) /\ AddCopy(Of(a))
         \/ /\ Steps(a, "make", None) \/ Steps(a, "check", None)
            /\ UNCHANGED <<git, loose>>
<1>1. act \in [Actors -> Act]
  BY DEF TypeOK
<1>2. CASE CanAdd(Of(a))
  <2> DEFINE r == [Idle EXCEPT !.pc = "claimed", !.place = "copy"]
  <2>1. r \in Act /\ r.pc = "claimed" /\ r.place = "copy"
    BY DEF Act, Idle, Modes
  <2>2. Becomes(a, r)
    BY <1>2 DEF Becomes, Remake
  <2> HIDE DEF r
  <2> QED
    BY <1>1, <1>2, <2>1, <2>2, BecomesSteps DEF Remake
<1>3. CASE ~CanAdd(Of(a))
  <2> DEFINE r == [Idle EXCEPT !.pc = NewClaim(act[a].mode)]
  <2>1. r \in Act /\ r.pc \in {"make", "check"} /\ r.place = None
    BY DEF Act, Idle, Modes, NewClaim
  <2>2. Becomes(a, r)
    BY <1>3 DEF Becomes, Remake
  <2> HIDE DEF r
  <2> QED
    BY <1>1, <1>3, <2>1, <2>2, BecomesSteps DEF Remake
<1> QED
  BY <1>2, <1>3

LEMMA MakeSteps ==
  ASSUME TypeOK, NEW a \in Actors, Make(a)
  PROVE  \/ Steps(a, "record", "copy") /\ CanAdd(Of(a)) /\ AddCopy(Of(a))
         \/ Steps(a, "idle", None) /\ UNCHANGED <<git, loose>>
<1>1. act \in [Actors -> Act]
  BY DEF TypeOK
<1>2. CASE CanAdd(Of(a))
  <2> DEFINE r == [act[a] EXCEPT !.pc = "record", !.place = "copy",
                                 !.fresh = TRUE]
  <2>1. r \in Act /\ r.pc = "record" /\ r.place = "copy"
    BY <1>1 DEF Act
  <2>2. Becomes(a, r)
    BY <1>1, <1>2 DEF Becomes, Make
  <2> HIDE DEF r
  <2> QED
    BY <1>1, <1>2, <2>1, <2>2, BecomesSteps DEF Make
<1>3. CASE ~CanAdd(Of(a))
  BY <1>1, <1>3, IdleSteps DEF Make
<1> QED
  BY <1>2, <1>3

LEMMA CheckSteps ==
  ASSUME TypeOK, NEW a \in Actors, Check(a)
  PROVE  \/ /\ Steps(a, "clean", act[a].place)
            /\ held = <<>> \/ Head(held) = Of(a)
            /\ raced' = (raced \/ Claiming(Of(a)))
         \/ Steps(a, "idle", None) /\ raced' = raced
  BY GoSteps, IdleSteps DEF TypeOK, Check, Go

LEMMA CleanSteps ==
  ASSUME TypeOK, NEW a \in Actors, Clean(a)
  PROVE  Steps(a, "switch", act[a].place) \/ Steps(a, "idle", None)
  BY GoSteps, IdleSteps DEF TypeOK, Clean

LEMMA SwitchSteps ==
  ASSUME TypeOK, NEW a \in Actors, Switch(a)
  PROVE  \/ /\ Steps(a, "record", "folder")
            /\ ~copy[Of(a)]
            /\ head' = Of(a)
            /\ moved' = (moved \/ Moves(a))
            /\ branch' = Cut(Of(a))
         \/ Steps(a, "idle", None) /\ UNCHANGED <<head, moved, branch>>
<1>1. act \in [Actors -> Act]
  BY DEF TypeOK
<1> DEFINE r == [act[a] EXCEPT !.pc = "record", !.place = "folder",
                               !.fresh = TRUE]
<1>2. r \in Act /\ r.pc = "record" /\ r.place = "folder"
  BY <1>1 DEF Act
<1>3. Becomes(a, r) \/ act' = [act EXCEPT ![a] = Idle]
  BY <1>1 DEF Becomes, Switch
<1>4. CASE act' = [act EXCEPT ![a].pc = "record", ![a].place = "folder",
                               ![a].fresh = TRUE]
  <2>1. Becomes(a, r)
    BY <1>1, <1>4 DEF Becomes
  <2>2. r.pc # "idle" /\ act'[a].pc = "record"
    BY <1>1, <1>2, <2>1 DEF Becomes
  <2> HIDE DEF r
  <2>3. Steps(a, "record", "folder")
    BY <1>1, <1>2, <2>1, BecomesSteps
  <2> QED
    BY <1>1, <2>2, <2>3, IdleIsAct DEF Switch
<1>5. CASE act' = [act EXCEPT ![a] = Idle]
  <2>1. Steps(a, "idle", None)
    BY <1>1, <1>5, IdleSteps
  <2>2. act'[a].pc # "record"
    BY <2>1 DEF Steps
  <2>3. ~Becomes(a, r)
    BY <1>1, <1>2, <2>2 DEF Becomes
  <2> HIDE DEF r
  <2>4. act' # [act EXCEPT ![a].pc = "record", ![a].place = "folder",
                           ![a].fresh = TRUE]
    BY <1>1, <2>3 DEF Becomes, r
  <2> QED
    BY <2>1, <2>4 DEF Switch
<1> QED
  BY <1>4, <1>5 DEF Switch

\* ... and each step of a claim's end.
LEMMA TidySteps ==
  ASSUME TypeOK, NEW a \in Actors, Tidy(a)
  PROVE  \/ Steps(a, "idle", None)
         \/ /\ Steps(a, "fold", act[a].place) \/ Steps(a, "probe", act[a].place)
            /\ IsSession(a) => ~TerminalLivesIn(Of(a))
  BY GoSteps, IdleSteps DEF TypeOK, Tidy

LEMMA ProbeSteps ==
  ASSUME TypeOK, NEW a \in Actors, Probe(a)
  PROVE  \/ Steps(a, "idle", None) /\ lock' = lock
         \/ /\ Steps(a, "remove", act[a].place)
            /\ copy[Of(a)]
            /\ ~WorthKeeping(Of(a))
            /\ lock' = a
  BY GoSteps, IdleSteps DEF TypeOK, Probe, Go

LEMMA RemoveSteps ==
  ASSUME TypeOK, NEW a \in Actors, Remove(a)
  PROVE  Steps(a, "free", act[a].place) \/ Steps(a, "idle", None)
  BY GoSteps, IdleSteps DEF TypeOK, Remove

LEMMA EndWorkSteps ==
  ASSUME TypeOK, NEW a \in Actors, NEW done \in BOOLEAN, EndWork(a, done)
  PROVE  Steps(a, "tidy", act[a].place)
<1>1. act \in [Actors -> Act]
  BY DEF TypeOK
<1> DEFINE r == [act[a] EXCEPT !.pc = "tidy", !.done = done]
<1>2. r \in Act /\ r.pc = "tidy" /\ r.place = act[a].place
  BY <1>1 DEF Act
<1>3. Becomes(a, r)
  BY <1>1 DEF Becomes, EndWork
<1> HIDE DEF r
<1> QED
  BY <1>1, <1>2, <1>3, BecomesSteps

LEMMA RestartSteps ==
  ASSUME Restart
  PROVE  act' \in [Actors -> Act] /\ \A a \in Actors : act'[a] = Idle
  BY IdleIsAct DEF Restart

-----------------------------------------------------------------------------
(* The rows of the folder                                                  *)

\* A row is taken out and the others keep their order.
LEMMA WithoutFacts ==
  ASSUME TypeOK, NEW c \in Cards
  PROVE  /\ Without(c) \in Seq(Cards)
         /\ \A i, j \in 1 .. Len(Without(c)) :
              Without(c)[i] = Without(c)[j] => i = j
         /\ \A d \in Cards :
              (\E i \in 1 .. Len(Without(c)) : Without(c)[i] = d)
                <=> Holding(d) /\ d # c
<1>1. /\ held \in Seq(Cards)
      /\ Len(held) \in Nat
      /\ \A i, j \in 1 .. Len(held) : held[i] = held[j] => i = j
      /\ \A i \in 1 .. Len(held) : held[i] \in Cards
  BY ElementOfSeq, LenProperties DEF TypeOK
<1>2. CASE ~Holding(c)
  BY <1>1, <1>2 DEF Without, Holding
<1>3. CASE Holding(c)
  <2> DEFINE n == Len(held)
             p == Place(c)
             t == [i \in 1 .. n - 1 |-> held[IF i < p THEN i ELSE i + 1]]
  <2>1. p \in 1 .. n /\ held[p] = c
    BY <1>3 DEF Holding, Place
  <2>2. Without(c) = t /\ n \in Nat \ {0}
    BY <1>1, <1>3, <2>1 DEF Without
  <2>3. \A i \in 1 .. n - 1 : /\ (IF i < p THEN i ELSE i + 1) \in 1 .. n
                             /\ (IF i < p THEN i ELSE i + 1) # p
    BY <2>1, <2>2
  <2>4. t \in Seq(Cards) /\ Len(t) = n - 1
    <3>1. \A i \in 1 .. n - 1 : held[IF i < p THEN i ELSE i + 1] \in Cards
      BY <1>1, <2>3
    <3>2. t \in [1 .. n - 1 -> Cards]
      BY <3>1
    <3> QED
      BY <2>2, <3>2
  <2>5. \A i, j \in 1 .. n - 1 : t[i] = t[j] => i = j
    <3> SUFFICES ASSUME NEW i \in 1 .. n - 1, NEW j \in 1 .. n - 1,
                        t[i] = t[j]
                 PROVE  i = j
      OBVIOUS
    <3>1. (IF i < p THEN i ELSE i + 1) = (IF j < p THEN j ELSE j + 1)
      BY <1>1, <2>3
    <3> QED
      BY <2>1, <2>2, <3>1
  <2>6. ASSUME NEW d \in Cards
        PROVE  (\E i \in 1 .. n - 1 : t[i] = d) <=> Holding(d) /\ d # c
    <3>1. ASSUME NEW i \in 1 .. n - 1, t[i] = d
          PROVE  Holding(d) /\ d # c
      BY <1>1, <2>1, <2>3, <3>1 DEF Holding
    <3>2. ASSUME Holding(d), d # c
          PROVE  \E i \in 1 .. n - 1 : t[i] = d
      <4>1. PICK k \in 1 .. n : held[k] = d
        BY <3>2 DEF Holding
      <4>2. k # p
        BY <2>1, <3>2, <4>1
      <4>3. CASE k < p
        <5>1. k \in 1 .. n - 1 /\ t[k] = d
          BY <2>1, <2>2, <4>1, <4>3
        <5> QED
          BY <5>1
      <4>4. CASE k > p
        <5>1. k - 1 \in 1 .. n - 1 /\ ~(k - 1 < p) /\ (k - 1) + 1 = k
          BY <2>1, <2>2, <4>4
        <5>2. t[k - 1] = d
          BY <4>1, <5>1
        <5> QED
          BY <5>1, <5>2
      <4> QED
        BY <2>1, <2>2, <4>2, <4>3, <4>4
    <3> QED
      BY <3>1, <3>2
  <2> HIDE DEF t, p
  <2> QED
    BY <2>2, <2>4, <2>5, <2>6
<1> QED
  BY <1>2, <1>3

\* Who has a row after each step that changes the rows.
LEMMA ReleaseRows ==
  ASSUME TypeOK, NEW c \in Cards, held' = Without(c)
  PROVE  /\ held' \in Seq(Cards)
         /\ \A i, j \in 1 .. Len(held') : held'[i] = held'[j] => i = j
         /\ \A d \in Cards : Holding(d)' <=> Holding(d) /\ d # c
<1> DEFINE w == Without(c)
<1>1. /\ w \in Seq(Cards)
      /\ \A i, j \in 1 .. Len(w) : w[i] = w[j] => i = j
      /\ \A d \in Cards :
           (\E i \in 1 .. Len(w) : w[i] = d) <=> Holding(d) /\ d # c
  BY WithoutFacts
<1>2. held' = w
  OBVIOUS
<1>3. \A d \in Cards : Holding(d)' <=> \E i \in 1 .. Len(held') : held'[i] = d
  BY DEF Holding
<1> HIDE DEF w
<1> QED
  BY <1>1, <1>2, <1>3

LEMMA KeepRows ==
  ASSUME held' = held
  PROVE  \A d \in Cards : Holding(d)' <=> Holding(d)
  BY DEF Holding

LEMMA TakeRows ==
  ASSUME TypeOK, NEW c \in Cards, held' = Append(Without(c), c)
  PROVE  /\ held' \in Seq(Cards)
         /\ \A i, j \in 1 .. Len(held') : held'[i] = held'[j] => i = j
         /\ \A d \in Cards : Holding(d)' <=> Holding(d) \/ d = c
<1> DEFINE w == Without(c)
           n == Len(w)
<1>1. /\ w \in Seq(Cards)
      /\ \A i, j \in 1 .. n : w[i] = w[j] => i = j
      /\ \A d \in Cards : (\E i \in 1 .. n : w[i] = d) <=> Holding(d) /\ d # c
      /\ \A i \in 1 .. n : w[i] \in Cards /\ w[i] # c
  <2>1. /\ w \in Seq(Cards)
        /\ \A i, j \in 1 .. n : w[i] = w[j] => i = j
        /\ \A d \in Cards : (\E i \in 1 .. n : w[i] = d) <=> Holding(d) /\ d # c
    BY WithoutFacts
  <2>2. \A i \in 1 .. n : w[i] \in Cards
    BY <2>1, ElementOfSeq
  <2> HIDE DEF w, n
  <2> QED
    BY <2>1, <2>2
<1>2. held' = Append(w, c)
  OBVIOUS
<1> HIDE DEF w
<1>3. /\ n \in Nat
      /\ held' \in Seq(Cards)
      /\ Len(held') = n + 1
      /\ \A i \in 1 .. n : held'[i] = w[i]
      /\ held'[n + 1] = c
  BY <1>1, <1>2, LenProperties, AppendProperties
<1> HIDE DEF n
<1>4. \A i, j \in 1 .. Len(held') : held'[i] = held'[j] => i = j
  <2> SUFFICES ASSUME NEW i \in 1 .. n + 1, NEW j \in 1 .. n + 1,
                      held'[i] = held'[j]
               PROVE  i = j
    BY <1>3
  <2>1. CASE i \in 1 .. n /\ j \in 1 .. n
    BY <1>1, <1>3, <2>1
  <2>2. CASE i = n + 1 /\ j \in 1 .. n
    BY <1>1, <1>3, <2>2
  <2>3. CASE j = n + 1 /\ i \in 1 .. n
    BY <1>1, <1>3, <2>3
  <2> QED
    BY <1>3, <2>1, <2>2, <2>3
<1>5. ASSUME NEW d \in Cards
      PROVE  Holding(d)' <=> Holding(d) \/ d = c
  <2>1. ASSUME NEW i \in 1 .. n + 1, held'[i] = d
        PROVE  Holding(d) \/ d = c
    <3>1. CASE i \in 1 .. n
      BY <1>1, <1>3, <2>1, <3>1
    <3>2. CASE i = n + 1
      BY <1>3, <2>1, <3>2
    <3> QED
      BY <1>3, <3>1, <3>2
  <2>2. ASSUME Holding(d), d # c
        PROVE  \E i \in 1 .. n + 1 : held'[i] = d
    <3>1. PICK i \in 1 .. n : w[i] = d
      BY <1>1, <2>2
    <3>2. i \in 1 .. n + 1 /\ held'[i] = d
      BY <1>3, <3>1
    <3> QED
      BY <3>2
  <2>3. n + 1 \in 1 .. n + 1 /\ held'[n + 1] = c
    BY <1>3
  <2> QED
    BY <1>3, <2>1, <2>2, <2>3 DEF Holding
<1> QED
  BY <1>3, <1>4, <1>5

\* The steps of Record, with the rows they leave.
LEMMA RecordRows ==
  ASSUME TypeOK, NEW a \in Actors, Record(a)
  PROVE  /\ Steps(a, "claimed", act[a].place)
         /\ held' \in Seq(Cards)
         /\ \A i, j \in 1 .. Len(held') : held'[i] = held'[j] => i = j
         /\ copies' \subseteq Cards
         /\ \/ /\ act[a].place = "copy"
               /\ copies' = copies \cup {Of(a)}
               /\ loose' = loose \cup {c \in {Of(a)} : Holding(c)}
               /\ \A d \in Cards : Holding(d)' <=> Holding(d) /\ d # Of(a)
            \/ /\ act[a].place # "copy"
               /\ copies' = copies \ {Of(a)}
               /\ loose' = loose \cup {c \in {Of(a)} : c \in copies}
               /\ \A d \in Cards : Holding(d)' <=> Holding(d) \/ d = Of(a)
<1>1. Of(a) \in Cards /\ act \in [Actors -> Act] /\ copies \subseteq Cards
  BY ActorFacts DEF TypeOK
<1>2. Steps(a, "claimed", act[a].place)
  BY <1>1, GoSteps DEF Record, Go
<1>3. CASE act[a].place = "copy"
  <2>1. held' = Without(Of(a)) /\ copies' = copies \cup {Of(a)}
    BY <1>3 DEF Record
  <2>2. /\ held' \in Seq(Cards)
        /\ \A i, j \in 1 .. Len(held') : held'[i] = held'[j] => i = j
        /\ \A d \in Cards : Holding(d)' <=> Holding(d) /\ d # Of(a)
    BY <1>1, <2>1, ReleaseRows
  <2> QED
    BY <1>1, <1>2, <1>3, <2>1, <2>2 DEF Record
<1>4. CASE act[a].place # "copy"
  <2>1. held' = Append(Without(Of(a)), Of(a)) /\ copies' = copies \ {Of(a)}
    BY <1>4 DEF Record
  <2>2. /\ held' \in Seq(Cards)
        /\ \A i, j \in 1 .. Len(held') : held'[i] = held'[j] => i = j
        /\ \A d \in Cards : Holding(d)' <=> Holding(d) \/ d = Of(a)
    BY <1>1, <2>1, TakeRows
  <2> QED
    BY <1>1, <1>2, <1>4, <2>1, <2>2 DEF Record
<1> QED
  BY <1>3, <1>4

-----------------------------------------------------------------------------
(* Types                                                                   *)

\* The part of TypeOK that is about who acts.
ActsOK ==
  /\ act \in [Actors -> Act]
  /\ \A a \in Actors :
       /\ act[a].pc = "remove" <=> lock = a
       /\ act[a].pc \in {"claimed", "work"} => act[a].place # None

\* A step that takes and gives back no lock keeps it.
LEMMA StepKeepsActs ==
  ASSUME TypeOK, PlaceInv, NEW a \in Actors, NEW p, NEW q, Steps(a, p, q),
         act[a].pc # "remove", p # "remove", lock' = lock,
         p \in {"claimed", "work"} => q # None,
         p \in {"remake", "make", "check", "clean", "switch"} => q = None,
         p = "record" => q \in {"copy", "folder"}
  PROVE  ActsOK' /\ PlaceInv'
  BY DEF TypeOK, PlaceInv, Steps, ActsOK

LEMMA KeepsActs ==
  ASSUME TypeOK, PlaceInv, UNCHANGED <<act, lock>>
  PROVE  ActsOK' /\ PlaceInv'
  BY DEF TypeOK, PlaceInv, ActsOK


\* Of every step: the acts and the lock.
LEMMA NextActs ==
  ASSUME TypeOK, PlaceInv, [Next]_vars
  PROVE  ActsOK' /\ PlaceInv'
<1> USE WorkspaceAssumption
<1>1. ASSUME NEW a \in Actors, Look(a)
      PROVE  ActsOK' /\ PlaceInv'
  BY <1>1, LookSteps, StepKeepsActs DEF Look
<1>2. ASSUME NEW a \in Actors, Remake(a)
      PROVE  ActsOK' /\ PlaceInv'
  BY <1>2, RemakeSteps, StepKeepsActs DEF Remake
<1>3. ASSUME NEW a \in Actors, Make(a)
      PROVE  ActsOK' /\ PlaceInv'
  BY <1>3, MakeSteps, StepKeepsActs DEF Make
<1>4. ASSUME NEW a \in Actors, Check(a)
      PROVE  ActsOK' /\ PlaceInv'
  <2>1. act[a].place = None /\ act[a].pc # "remove" /\ lock' = lock
    BY <1>4 DEF Check, PlaceInv
  <2> QED
    BY <1>4, <2>1, CheckSteps, StepKeepsActs
<1>5. ASSUME NEW a \in Actors, Clean(a)
      PROVE  ActsOK' /\ PlaceInv'
  <2>1. act[a].place = None /\ act[a].pc # "remove" /\ lock' = lock
    BY <1>5 DEF Clean, PlaceInv
  <2> QED
    BY <1>5, <2>1, CleanSteps, StepKeepsActs
<1>6. ASSUME NEW a \in Actors, Switch(a)
      PROVE  ActsOK' /\ PlaceInv'
  <2>1. act[a].pc # "remove" /\ lock' = lock
    BY <1>6 DEF Switch
  <2> QED
    BY <1>6, <2>1, SwitchSteps, StepKeepsActs
<1>7. ASSUME NEW a \in Actors, Record(a)
      PROVE  ActsOK' /\ PlaceInv'
  <2>1. act[a].pc = "record" /\ lock' = lock
    BY <1>7 DEF Record
  <2>2. act[a].place # None
    BY <2>1 DEF PlaceInv
  <2> QED
    BY <1>7, <2>1, <2>2, RecordRows, StepKeepsActs
<1>8. ASSUME NEW a \in Actors, RecordFails(a)
      PROVE  ActsOK' /\ PlaceInv'
  <2>1. act[a].pc = "record" /\ lock' = lock
    BY <1>8 DEF RecordFails
  <2>2. act[a].place # None
    BY <2>1 DEF PlaceInv
  <2>3. Steps(a, "claimed", act[a].place)
    BY <1>8, GoSteps DEF RecordFails, Go, TypeOK
  <2> QED
    BY <2>1, <2>2, <2>3, StepKeepsActs
<1>9. ASSUME NEW a \in Actors, StartWork(a)
      PROVE  ActsOK' /\ PlaceInv'
  <2>1. act[a].pc = "claimed" /\ lock' = lock /\ act[a].place # None
    BY <1>9 DEF StartWork, TypeOK
  <2>2. Steps(a, "work", act[a].place)
    BY <1>9, GoSteps DEF StartWork, Go, TypeOK
  <2> QED
    BY <2>1, <2>2, StepKeepsActs
<1>10. ASSUME NEW a \in Actors, StartFails(a)
       PROVE  ActsOK' /\ PlaceInv'
  <2>1. act[a].pc = "claimed" /\ lock' = lock
    BY <1>10 DEF StartFails
  <2>2. Steps(a, "tidy", act[a].place)
    BY <1>10, GoSteps DEF StartFails, Go, TypeOK
  <2> QED
    BY <2>1, <2>2, StepKeepsActs
<1>11. ASSUME NEW a \in Actors, Tidy(a)
       PROVE  ActsOK' /\ PlaceInv'
  <2>1. act[a].pc = "tidy" /\ lock' = lock
    BY <1>11 DEF Tidy
  <2> QED
    BY <1>11, <2>1, TidySteps, StepKeepsActs
<1>12. ASSUME NEW a \in Actors, Fold(a)
       PROVE  ActsOK' /\ PlaceInv'
  <2>1. act[a].pc = "fold" /\ lock' = lock
    BY <1>12 DEF Fold
  <2>2. Steps(a, "idle", None)
    BY <1>12, IdleSteps DEF Fold, TypeOK
  <2> QED
    BY <2>1, <2>2, StepKeepsActs
<1>13. ASSUME NEW a \in Actors, Probe(a)
       PROVE  ActsOK' /\ PlaceInv'
  <2>1. act[a].pc = "probe" /\ lock = None
    BY <1>13 DEF Probe
  <2>2. CASE Steps(a, "idle", None) /\ lock' = lock
    BY <2>1, <2>2, StepKeepsActs
  <2>3. CASE Steps(a, "remove", act[a].place) /\ lock' = a
    BY <2>1, <2>3, ActorFacts DEF TypeOK, PlaceInv, ActsOK, Steps
  <2> QED
    BY <1>13, <2>2, <2>3, ProbeSteps
<1>14. ASSUME NEW a \in Actors, Remove(a)
       PROVE  ActsOK' /\ PlaceInv'
  <2>1. act[a].pc = "remove" /\ lock' = None
    BY <1>14 DEF Remove
  <2>2. lock = a /\ \A b \in Actors : act[b].pc = "remove" => b = a
    BY <2>1 DEF TypeOK
  <2>3. Steps(a, "free", act[a].place) \/ Steps(a, "idle", None)
    BY <1>14, RemoveSteps
  <2> QED
    BY <2>1, <2>2, <2>3, ActorFacts DEF TypeOK, PlaceInv, ActsOK, Steps
<1>15. ASSUME NEW a \in Actors, Free(a)
       PROVE  ActsOK' /\ PlaceInv'
  <2>1. act[a].pc = "free" /\ lock' = lock
    BY <1>15 DEF Free
  <2>2. Steps(a, "idle", None)
    BY <1>15, IdleSteps DEF Free, TypeOK
  <2> QED
    BY <2>1, <2>2, StepKeepsActs
<1>16. ASSUME NEW a \in Actors, NEW done \in BOOLEAN, EndWork(a, done)
       PROVE  ActsOK' /\ PlaceInv'
  <2>1. act[a].pc = "work" /\ lock' = lock
    BY <1>16 DEF EndWork
  <2> QED
    BY <1>16, <2>1, EndWorkSteps, StepKeepsActs
<1>17. ASSUME NEW a \in Actors, Write(a) \/ Commit(a)
       PROVE  ActsOK' /\ PlaceInv'
  BY <1>17, KeepsActs DEF Write, Commit
<1>18. CASE PeopleAct
  BY <1>18, KeepsActs
     DEF PeopleAct, SetMode, PersonEdits, PersonPutsAway, PersonSwitches,
         Merge, Park, Unpark
<1>19. CASE WatchStep
  BY <1>19, KeepsActs DEF WatchStep, Poll, Deliver
<1>20. CASE Restart
  <2>1. act' \in [Actors -> Act] /\ \A a \in Actors : act'[a] = Idle
    BY <1>20, RestartSteps
  <2>2. lock' = None
    BY <1>20 DEF Restart
  <2> QED
    BY <2>1, <2>2, IdleIsAct, ActorFacts DEF ActsOK, PlaceInv
<1>21. CASE UNCHANGED vars
  BY <1>21, KeepsActs DEF vars
<1> QED
  BY <1>1, <1>2, <1>3, <1>4, <1>5, <1>6, <1>7, <1>8, <1>9, <1>10, <1>11,
     <1>12, <1>13, <1>14, <1>15, <1>16, <1>17, <1>18, <1>19, <1>20, <1>21
     DEF Next, ClaimStep, EndStep

LEMMA CutType ==
  ASSUME TypeOK, NEW c \in Cards
  PROVE  Cut(c) \in [Cards -> {"none", "fresh", "ahead", "landed"}]
  BY DEF TypeOK, Cut

\* The rows: a card has one at most.
RowsOK ==
  /\ copies \subseteq Cards
  /\ held \in Seq(Cards)
  /\ \A i, j \in 1 .. Len(held) : held[i] = held[j] => i = j
  /\ \A c \in copies : ~Holding(c)

LEMMA KeepsRowsOK ==
  ASSUME TypeOK, UNCHANGED rows
  PROVE  RowsOK'
  BY DEF TypeOK, RowsOK, rows, Holding

LEMMA GivesRowBack ==
  ASSUME TypeOK, NEW c \in Cards, held' = Without(c), copies' = copies \ {c}
  PROVE  RowsOK'
<1>1. /\ held' \in Seq(Cards)
      /\ \A i, j \in 1 .. Len(held') : held'[i] = held'[j] => i = j
      /\ \A d \in Cards : Holding(d)' <=> Holding(d) /\ d # c
  BY ReleaseRows
<1>2. copies \subseteq Cards /\ \A d \in copies : ~Holding(d)
  BY DEF TypeOK
<1>3. \A d \in copies' : ~Holding(d)'
  BY <1>1, <1>2
<1> QED
  BY <1>1, <1>2, <1>3 DEF RowsOK, Holding

LEMMA RecordRowsOK ==
  ASSUME TypeOK, NEW a \in Actors, Record(a)
  PROVE  RowsOK'
<1>1. copies \subseteq Cards /\ (\A d \in copies : ~Holding(d)) /\ Of(a) \in Cards
  BY ActorFacts DEF TypeOK
<1>2. \A d \in copies' : ~Holding(d)'
  BY <1>1, RecordRows
<1>3. /\ held' \in Seq(Cards)
      /\ \A i, j \in 1 .. Len(held') : held'[i] = held'[j] => i = j
      /\ copies' \subseteq Cards
  BY RecordRows
<1> QED
  BY <1>2, <1>3 DEF RowsOK, Holding

LEMMA NextRows ==
  ASSUME TypeOK, [Next]_vars
  PROVE  RowsOK'
<1>1. ASSUME NEW a \in Actors, Record(a)
      PROVE  RowsOK'
  BY <1>1, RecordRowsOK
<1>2. ASSUME NEW a \in Actors, Free(a)
      PROVE  RowsOK'
  BY <1>2, ActorFacts, GivesRowBack DEF Free
<1>3. ASSUME NEW c \in Cards, Deliver(c)
      PROVE  RowsOK'
  BY <1>3, GivesRowBack DEF Deliver
<1>4. CASE UNCHANGED rows
  BY <1>4, KeepsRowsOK
<1> QED
  BY <1>1, <1>2, <1>3, <1>4
     DEF Next, ClaimStep, EndStep, PeopleAct, WatchStep, rows, vars, Look,
         Remake, Make, Check, Clean, Switch, RecordFails, StartWork,
         StartFails, Tidy, Fold, Probe, Remove, EndWork, Write, Commit,
         SetMode, PersonEdits, PersonPutsAway, PersonSwitches, Merge, Park,
         Unpark, Poll, Restart

\* The copies, their branches and the folder.
GitOK ==
  /\ branch \in [Cards -> {"none", "fresh", "ahead", "landed"}]
  /\ copy \in [Cards -> BOOLEAN]
  /\ dirty \in [Cards -> BOOLEAN]
  /\ head \in Cards \cup {Trunk}
  /\ unsaved \in BOOLEAN

LEMMA NextGit ==
  ASSUME TypeOK, [Next]_vars
  PROVE  GitOK'
<1>0. GitOK
  BY DEF TypeOK, GitOK
<1>1. ASSUME NEW a \in Actors, Remake(a) \/ Make(a)
      PROVE  GitOK'
  <2>1. Of(a) \in Cards
    BY ActorFacts
  <2>2. UNCHANGED git \/ AddCopy(Of(a))
    BY <1>1 DEF Remake, Make
  <2>3. UNCHANGED folder
    BY <1>1 DEF Remake, Make
  <2> QED
    BY <1>0, <2>1, <2>2, <2>3, CutType DEF GitOK, git, folder, AddCopy
<1>2. ASSUME NEW a \in Actors, Switch(a)
      PROVE  GitOK'
  <2>1. Of(a) \in Cards
    BY ActorFacts
  <2>2. UNCHANGED <<copy, dirty, unsaved>>
    BY <1>2 DEF Switch
  <2> QED
    BY <1>0, <1>2, <2>1, <2>2, CutType, SwitchSteps DEF GitOK
<1>3. ASSUME NEW a \in Actors, Write(a) \/ Commit(a) \/ Fold(a) \/ Remove(a)
      PROVE  GitOK'
  <2>1. Of(a) \in Cards
    BY ActorFacts
  <2>2. CASE Write(a)
    BY <1>0, <2>1, <2>2 DEF GitOK, Write
  <2>3. CASE Commit(a)
    <3>1. [c \in Cards |-> IF c = head THEN "ahead" ELSE branch[c]]
            \in [Cards -> {"none", "fresh", "ahead", "landed"}]
      BY <1>0 DEF GitOK
    <3> QED
      BY <1>0, <2>1, <2>3, <3>1 DEF GitOK, Commit
  <2>4. CASE Fold(a)
    BY <1>0, <2>1, <2>4 DEF GitOK, Fold, folder
  <2>5. CASE Remove(a)
    BY <1>0, <2>1, <2>5 DEF GitOK, Remove, folder
  <2> QED
    BY <1>3, <2>2, <2>3, <2>4, <2>5
<1>4. CASE PeopleAct
  BY <1>0, <1>4
     DEF PeopleAct, SetMode, PersonEdits, PersonPutsAway, PersonSwitches,
         Merge, Park, Unpark, GitOK, git, folder
<1>5. CASE UNCHANGED <<git, folder>>
  BY <1>0, <1>5 DEF GitOK, git, folder
<1> QED
  BY <1>1, <1>2, <1>3, <1>4, <1>5
     DEF Next, ClaimStep, EndStep, WatchStep, git, folder, vars, Look, Check,
         Clean, Record, RecordFails, StartWork, StartFails, Tidy, Probe, Free,
         EndWork, Poll, Deliver, Restart

\* The rest: who waits for a merge, the histories and the bounds.
RestOK ==
  /\ mode \in Modes
  /\ base \in Bases
  /\ parked \subseteq Cards
  /\ latched \subseteq Cards
  /\ news \in Cards \cup {None}
  /\ raced \in BOOLEAN
  /\ loose \subseteq Cards
  /\ moved \in BOOLEAN
  /\ late \subseteq Cards
  /\ hurried \subseteq Cards

CountsOK == visits \in Nat /\ chances \in Nat

LEMMA NextCounts ==
  ASSUME TypeOK, [Next]_vars
  PROVE  CountsOK'
<1>1. CountsOK
  BY DEF TypeOK, CountsOK
<1>2. ASSUME NEW a \in Actors, ClaimStep(a)
      PROVE  \/ UNCHANGED bounds
             \/ visits' = visits + 1 /\ UNCHANGED chances
             \/ Chance
  BY <1>2 DEF ClaimStep, bounds, Look, Remake, Make, Check, Clean, Switch,
              Record, RecordFails, StartWork, StartFails
<1>3. ASSUME NEW a \in Actors, EndStep(a) \/ Write(a) \/ Commit(a)
      PROVE  UNCHANGED bounds
  BY <1>3 DEF EndStep, bounds, Tidy, Fold, Probe, Remove, Free, Write, Commit
<1>4. ASSUME NEW a \in Actors, NEW done \in BOOLEAN, EndWork(a, done)
      PROVE  UNCHANGED bounds
  BY <1>4 DEF EndWork, bounds
<1>5. PeopleAct \/ Restart => Chance
  BY DEF PeopleAct, SetMode, PersonEdits, PersonPutsAway, PersonSwitches,
         Merge, Park, Unpark, Restart
<1>6. WatchStep \/ UNCHANGED vars => UNCHANGED bounds
  BY DEF WatchStep, Poll, Deliver, vars, bounds
<1>7. \/ UNCHANGED bounds
      \/ visits' = visits + 1 /\ UNCHANGED chances
      \/ Chance
  BY <1>2, <1>3, <1>4, <1>5, <1>6 DEF Next
<1> QED
  BY <1>1, <1>7 DEF CountsOK, Chance, bounds

LEMMA NextRest ==
  ASSUME TypeOK, [Next]_vars
  PROVE  RestOK'
<1>0. RestOK /\ \A a \in Actors : Of(a) \in Cards
  BY ActorFacts DEF TypeOK, RestOK
<1> USE DEF RestOK, history, watch
<1>1. ASSUME NEW a \in Actors, ClaimStep(a)
      PROVE  RestOK'
  <2>1. Of(a) \in Cards
    BY <1>0
  <2>2. CASE Look(a) \/ Clean(a) \/ StartFails(a) \/ RecordFails(a)
    BY <1>0, <2>1, <2>2 DEF Look, Clean, StartFails, RecordFails
  <2>3. CASE Remake(a) \/ Make(a)
    BY <1>0, <2>1, <2>3 DEF Remake, Make, AddCopy
  <2>4. CASE Check(a)
    BY <1>0, <2>4 DEF Check
  <2>5. CASE Switch(a)
    BY <1>0, <2>5 DEF Switch
  <2>6. CASE Record(a)
    BY <1>0, <2>1, <2>6 DEF Record
  <2>7. CASE StartWork(a)
    BY <1>0, <2>1, <2>7 DEF StartWork
  <2> QED
    BY <1>1, <2>2, <2>3, <2>4, <2>5, <2>6, <2>7 DEF ClaimStep
<1>2. ASSUME NEW a \in Actors, EndStep(a)
      PROVE  RestOK'
  <2>1. Of(a) \in Cards
    BY <1>0
  <2> QED
    BY <1>0, <1>2, <2>1 DEF EndStep, Tidy, Fold, Probe, Remove, Free
<1>3. ASSUME NEW a \in Actors, Write(a) \/ Commit(a)
      PROVE  RestOK'
  <2>1. Of(a) \in Cards
    BY <1>0
  <2> QED
    BY <1>0, <1>3, <2>1 DEF Write, Commit, Writing
<1>4. ASSUME NEW a \in Actors, NEW done \in BOOLEAN, EndWork(a, done)
      PROVE  RestOK'
  BY <1>0, <1>4 DEF EndWork
<1>5. CASE PeopleAct
  BY <1>0, <1>5
     DEF PeopleAct, SetMode, PersonEdits, PersonPutsAway, PersonSwitches,
         Merge, Park, Unpark
<1>6. CASE WatchStep
  BY <1>0, <1>6 DEF WatchStep, Poll, Deliver
<1>7. CASE Restart
  <2>1. {Of(a) : a \in {b \in Actors : act[b].pc = "record"}} \subseteq Cards
    BY <1>0
  <2> QED
    BY <1>0, <1>7, <2>1 DEF Restart
<1>8. CASE UNCHANGED vars
  BY <1>0, <1>8 DEF vars
<1> QED
  BY <1>1, <1>2, <1>3, <1>4, <1>5, <1>6, <1>7, <1>8 DEF Next

LEMMA LockType ==
  ASSUME TypeOK, [Next]_vars
  PROVE  lock' \in Actors \cup {None}
<1>1. lock \in Actors \cup {None}
  BY DEF TypeOK
<1>2. lock' = lock \/ lock' = None \/ \E a \in Actors : lock' = a
  BY DEF Next, ClaimStep, EndStep, PeopleAct, WatchStep, vars, Look,
         Remake, Make, Check, Clean, Switch, Record, RecordFails, StartWork,
         StartFails, Tidy, Fold, Probe, Remove, Free, EndWork, Write, Commit,
         SetMode, PersonEdits, PersonPutsAway, PersonSwitches, Merge, Park,
         Unpark, Poll, Deliver, Restart
<1> QED
  BY <1>1, <1>2

LEMMA NextTypeOK ==
  ASSUME TypeOK, PlaceInv, [Next]_vars
  PROVE  TypeOK' /\ PlaceInv'
<1>1. ActsOK' /\ PlaceInv'
  BY NextActs
<1>2. RowsOK' /\ GitOK' /\ RestOK' /\ CountsOK' /\ lock' \in Actors \cup {None}
  BY NextRows, NextGit, NextRest, NextCounts, LockType
<1> QED
  BY <1>1, <1>2
     DEF TypeOK, ActsOK, RowsOK, GitOK, RestOK, CountsOK, Holding

LEMMA InitTypeOK == Init => TypeOK /\ PlaceInv
<1> SUFFICES ASSUME Init
             PROVE  TypeOK /\ PlaceInv
  OBVIOUS
<1>1. ActsOK /\ PlaceInv
  BY IdleIsAct, ActorFacts DEF Init, ActsOK, PlaceInv
<1>2. RowsOK
  BY EmptySeq DEF Init, RowsOK, Holding
<1>3. GitOK
  BY DEF Init, GitOK
<1>4. RestOK /\ CountsOK /\ lock \in Actors \cup {None}
  BY DEF Init, RestOK, CountsOK
<1> QED
  BY <1>1, <1>2, <1>3, <1>4
     DEF TypeOK, ActsOK, RowsOK, GitOK, RestOK, CountsOK

\* The variables keep their types, whoever does what to the folder.
THEOREM TypeCorrect == Spec => []TypeOK
<1>1. Init => TypeOK /\ PlaceInv
  BY InitTypeOK
<1>2. TypeOK /\ PlaceInv /\ [Next]_vars => TypeOK' /\ PlaceInv'
  BY NextTypeOK
<1> QED
  BY <1>1, <1>2, PTL DEF Spec

-----------------------------------------------------------------------------
(* The folder                                                              *)

\* A history is kept, or more is written to it.
HistoryGrows ==
  /\ raced => raced'
  /\ moved => moved'
  /\ loose \subseteq loose'

\* A step that changes neither the rows nor the folder.
LEMMA FolderKept ==
  ASSUME TypeOK, FolderInv, HistoryGrows, UNCHANGED <<held, head>>,
         NEW a \in Actors, NEW p, NEW q, Steps(a, p, q),
         p \in {"clean", "switch", "record"} /\ q # "copy" => ClaimsFolder(a),
         ~(p = "record" /\ q = "folder"),
         p \in {"claimed", "work"} /\ q = "folder" =>
           AtWork(a, "folder") \/ Holding(Of(a)) \/ Of(a) \in loose'
  PROVE  Alone' /\ HasRow' /\ HeadInv'
<1>1. \A d \in Cards : Holding(d)' <=> Holding(d)
  BY KeepRows
<1>2. \A b \in Actors : Of(b) \in Cards
  BY ActorFacts
<1>3. \A c \in Cards : Stands(c)' => Stands(c)
  BY <1>1 DEF Steps, Stands, ClaimsFolder
<1>4. \A c \in Cards : HeadDue(c)' => HeadDue(c)
  BY <1>1 DEF Steps, HeadDue, Switched
<1>5. Alone'
  BY <1>3 DEF FolderInv, Alone, HistoryGrows
<1>6. HeadInv'
  BY <1>4 DEF FolderInv, HeadInv, HistoryGrows
<1>7. ASSUME NEW b \in Actors, AtWork(b, "folder")'
      PROVE  Holding(Of(b))' \/ Of(b) \in loose'
  <2>1. AtWork(b, "folder") \/ Holding(Of(b)) \/ Of(b) \in loose'
    BY <1>7 DEF Steps, AtWork
  <2> QED
    BY <1>1, <1>2, <2>1 DEF FolderInv, HasRow, HistoryGrows
<1> QED
  BY <1>5, <1>6, <1>7 DEF HasRow

LEMMA FolderSame ==
  ASSUME TypeOK, FolderInv, HistoryGrows, UNCHANGED <<held, act>>,
         head' = head \/ moved'
  PROVE  Alone' /\ HasRow' /\ HeadInv'
<1>1. \A d \in Cards : Holding(d)' <=> Holding(d)
  BY KeepRows
<1>2. \A b \in Actors : Of(b) \in Cards
  BY ActorFacts
<1>3. \A c \in Cards : Stands(c)' => Stands(c)
  BY <1>1 DEF Stands, ClaimsFolder
<1>4. \A c \in Cards : HeadDue(c)' => HeadDue(c)
  BY <1>1 DEF HeadDue, Switched
<1>5. Alone'
  BY <1>3 DEF FolderInv, Alone, HistoryGrows
<1>6. HeadInv'
  BY <1>4 DEF FolderInv, HeadInv, HistoryGrows
<1>7. HasRow'
  BY <1>1, <1>2 DEF FolderInv, HasRow, HistoryGrows, AtWork
<1> QED
  BY <1>5, <1>6, <1>7

\* A row given back under somebody at work leaves its card loose.
LEMMA FolderGivenBack ==
  ASSUME TypeOK, FolderInv, HistoryGrows, NEW c \in Cards,
         held' = Without(c), head' = head, act' \in [Actors -> Act],
         InUse(c) => c \in loose',
         \A b \in Actors : act'[b] = act[b] \/ act'[b] = Idle
  PROVE  Alone' /\ HasRow' /\ HeadInv'
<1>1. \A d \in Cards : Holding(d)' <=> Holding(d) /\ d # c
  BY ReleaseRows
<1>2. \A b \in Actors : Of(b) \in Cards
  BY ActorFacts
<1>3. \A d \in Cards : Stands(d)' => Stands(d)
  BY <1>1, IdleIsAct DEF Stands, ClaimsFolder
<1>4. \A d \in Cards : HeadDue(d)' => HeadDue(d)
  BY <1>1, IdleIsAct DEF HeadDue, Switched
<1>5. Alone'
  BY <1>3 DEF FolderInv, Alone, HistoryGrows
<1>6. HeadInv'
  BY <1>4 DEF FolderInv, HeadInv, HistoryGrows
<1>7. ASSUME NEW b \in Actors, AtWork(b, "folder")'
      PROVE  Holding(Of(b))' \/ Of(b) \in loose'
  <2>1. AtWork(b, "folder") /\ act[b].pc \in {"claimed", "work"}
    BY <1>7, IdleIsAct DEF AtWork
  <2>2. Of(b) = c => c \in loose'
    BY <2>1 DEF InUse
  <2> QED
    BY <1>1, <1>2, <2>1, <2>2 DEF FolderInv, HasRow, HistoryGrows
<1> QED
  BY <1>5, <1>6, <1>7 DEF HasRow

\* The question whether the folder is free: whoever gets a yes stands alone,
\* unless somebody else was past the question.
LEMMA FolderChecked ==
  ASSUME TypeOK, FolderInv, NEW a \in Actors, Check(a)
  PROVE  Alone' /\ HasRow' /\ HeadInv'
<1>1. UNCHANGED <<held, head, moved, loose>> /\ HistoryGrows
  BY DEF Check, HistoryGrows, folder, rows, history
<1>2. act[a].place = None /\ act[a].pc = "check"
  BY DEF Check, FolderInv, PlaceInv
<1>3. \A b \in Actors : Of(b) \in Cards
  BY ActorFacts
<1>4. CASE Steps(a, "idle", None)
  BY <1>1, <1>4, FolderKept, WorkspaceAssumption
<1>5. CASE /\ Steps(a, "clean", act[a].place)
           /\ held = <<>> \/ Head(held) = Of(a)
           /\ raced' = (raced \/ Claiming(Of(a)))
  <2>1. \A d \in Cards : Holding(d)' <=> Holding(d)
    BY <1>1, KeepRows
  <2>2. ASSUME ~raced'
        PROVE  \A c \in Cards : Stands(c)' => Stands(c) \/ c = Of(a)
    BY <2>1, <1>5 DEF Steps, Stands, ClaimsFolder
  <2>3. ASSUME ~raced', NEW c \in Cards, Stands(c)
        PROVE  c = Of(a)
    <3>1. ~raced /\ ~Claiming(Of(a))
      BY <1>5, <2>3
    <3>2. CASE held = <<>>
      <4>1. ~Holding(c)
        BY <3>2 DEF Holding
      <4> QED
        BY <2>3, <3>1, <4>1 DEF Stands, Claiming, ClaimsFolder
    <3>3. CASE held # <<>> /\ Head(held) = Of(a)
      <4>1. held \in Seq(Cards) /\ Len(held) \in Nat \ {0} /\ held[1] = Of(a)
        BY <3>3, LenProperties, EmptySeq DEF TypeOK
      <4>2. Holding(Of(a))
        BY <4>1 DEF Holding
      <4>3. Stands(Of(a))
        BY <4>2 DEF Stands
      <4> QED
        BY <1>3, <2>3, <3>1, <4>3 DEF FolderInv, Alone
    <3> QED
      BY <1>5, <3>2, <3>3
  <2>4. Alone'
    BY <2>2, <2>3 DEF Alone
  <2>5. \A c \in Cards : HeadDue(c)' => HeadDue(c)
    BY <2>1, <1>5 DEF Steps, HeadDue, Switched
  <2>6. HeadInv'
    BY <1>1, <2>5 DEF FolderInv, HeadInv, HistoryGrows
  <2>7. ASSUME NEW b \in Actors, AtWork(b, "folder")'
        PROVE  AtWork(b, "folder")
    BY <1>5, <2>7 DEF Steps, AtWork
  <2>8. HasRow'
    BY <1>1, <1>3, <2>1, <2>7 DEF FolderInv, HasRow
  <2> QED
    BY <2>4, <2>6, <2>8
<1> QED
  BY <1>4, <1>5, CheckSteps

\* The folder is put on the branch of the one card that stands.
LEMMA FolderSwitched ==
  ASSUME TypeOK, FolderInv, NEW a \in Actors, Switch(a)
  PROVE  Alone' /\ HasRow' /\ HeadInv'
<1>1. UNCHANGED <<held, raced, loose>>
  BY DEF Switch, rows
<1>2. act[a].place = None /\ act[a].pc = "switch"
  BY DEF Switch, FolderInv, PlaceInv
<1>3. \A b \in Actors : Of(b) \in Cards
  BY ActorFacts
<1>4. CASE Steps(a, "idle", None) /\ UNCHANGED <<head, moved, branch>>
  BY <1>1, <1>4, FolderKept, WorkspaceAssumption DEF HistoryGrows
<1>5. CASE /\ Steps(a, "record", "folder")
           /\ head' = Of(a)
           /\ moved' = (moved \/ Moves(a))
  <2>1. \A d \in Cards : Holding(d)' <=> Holding(d)
    BY <1>1, KeepRows
  <2>2. ClaimsFolder(a) /\ Stands(Of(a))
    BY <1>2, WorkspaceAssumption DEF ClaimsFolder, Stands
  <2>3. \A c \in Cards : Stands(c)' => Stands(c)
    BY <1>5, <2>1, <2>2 DEF Steps, Stands, ClaimsFolder
  <2>4. Alone'
    BY <1>1, <2>3 DEF FolderInv, Alone
  <2>5. \A c \in Cards : HeadDue(c)' => Stands(c)'
    BY DEF HeadDue, Stands, Switched, ClaimsFolder
  <2>6. ~raced' => \A c \in Cards : HeadDue(c)' => c = Of(a)
    BY <1>1, <1>3, <2>2, <2>3, <2>5 DEF FolderInv, Alone
  <2>7. HeadInv'
    BY <1>5, <2>6 DEF HeadInv
  <2>8. ASSUME NEW b \in Actors, AtWork(b, "folder")'
        PROVE  AtWork(b, "folder")
    BY <1>5, <2>8 DEF Steps, AtWork
  <2>9. HasRow'
    BY <1>1, <1>3, <2>1, <2>8 DEF FolderInv, HasRow
  <2> QED
    BY <2>4, <2>7, <2>9
<1> QED
  BY <1>4, <1>5, SwitchSteps

LEMMA FolderRecorded ==
  ASSUME TypeOK, FolderInv, NEW a \in Actors, Record(a)
  PROVE  Alone' /\ HasRow' /\ HeadInv'
<1>1. UNCHANGED <<head, raced, moved>>
  BY DEF Record, folder
<1>2. act[a].pc = "record" /\ act[a].place \in {"copy", "folder"}
  BY DEF Record, FolderInv, PlaceInv
<1>3. \A b \in Actors : Of(b) \in Cards
  BY ActorFacts
<1>4. Steps(a, "claimed", act[a].place)
  BY RecordRows
<1>5. CASE act[a].place = "copy"
  <2>1. /\ \A d \in Cards : Holding(d)' <=> Holding(d) /\ d # Of(a)
        /\ loose' = loose \cup {c \in {Of(a)} : Holding(c)}
    BY <1>5, RecordRows
  <2>2. \A c \in Cards : Stands(c)' => Stands(c)
    BY <1>4, <2>1 DEF Steps, Stands, ClaimsFolder
  <2>3. \A c \in Cards : HeadDue(c)' => HeadDue(c)
    BY <1>4, <2>1 DEF Steps, HeadDue, Switched
  <2>4. Alone' /\ HeadInv'
    BY <1>1, <2>2, <2>3 DEF FolderInv, Alone, HeadInv
  <2>5. ASSUME NEW b \in Actors, AtWork(b, "folder")'
        PROVE  Holding(Of(b))' \/ Of(b) \in loose'
    <3>1. AtWork(b, "folder")
      BY <1>4, <1>5, <2>5 DEF Steps, AtWork
    <3>2. Holding(Of(b)) \/ Of(b) \in loose
      BY <3>1 DEF FolderInv, HasRow
    <3> QED
      BY <1>3, <2>1, <3>2
  <2> QED
    BY <2>4, <2>5 DEF HasRow
<1>6. CASE act[a].place = "folder"
  <2>1. /\ \A d \in Cards : Holding(d)' <=> Holding(d) \/ d = Of(a)
        /\ loose \subseteq loose'
    BY <1>6, RecordRows
  <2>2. Stands(Of(a)) /\ HeadDue(Of(a))
    BY <1>2, <1>6 DEF Stands, ClaimsFolder, HeadDue, Switched
  <2>3. \A c \in Cards : Stands(c)' => Stands(c)
    BY <1>4, <2>1, <2>2 DEF Steps, Stands, ClaimsFolder
  <2>4. \A c \in Cards : HeadDue(c)' => HeadDue(c)
    BY <1>4, <2>1, <2>2 DEF Steps, HeadDue, Switched
  <2>5. Alone' /\ HeadInv'
    BY <1>1, <2>3, <2>4 DEF FolderInv, Alone, HeadInv
  <2>6. ASSUME NEW b \in Actors, AtWork(b, "folder")'
        PROVE  Holding(Of(b))' \/ Of(b) \in loose'
    <3>1. AtWork(b, "folder") \/ b = a
      BY <1>4, <2>6 DEF Steps, AtWork
    <3> QED
      BY <1>3, <2>1, <3>1 DEF FolderInv, HasRow
  <2> QED
    BY <2>5, <2>6 DEF HasRow
<1> QED
  BY <1>2, <1>5, <1>6

LEMMA NextFolder ==
  ASSUME TypeOK, FolderInv, [Next]_vars
  PROVE  Alone' /\ HasRow' /\ HeadInv'
<1> DEFINE Goal == Alone' /\ HasRow' /\ HeadInv'
<1>0. PlaceInv /\ act \in [Actors -> Act]
  BY DEF TypeOK, FolderInv
<1> USE DEF folder, rows, history
<1>1. ASSUME NEW a \in Actors, Look(a)
      PROVE  Goal
  <2>1. HistoryGrows /\ UNCHANGED <<held, head>>
    BY <1>1 DEF Look, HistoryGrows
  <2> QED
    BY <1>0, <1>1, <2>1, LookSteps, FolderKept, WorkspaceAssumption
<1>2. ASSUME NEW a \in Actors, Remake(a)
      PROVE  Goal
  <2>1. HistoryGrows /\ UNCHANGED <<held, head>>
    BY <1>2 DEF Remake, HistoryGrows, AddCopy
  <2> QED
    BY <1>2, <2>1, RemakeSteps, FolderKept, WorkspaceAssumption
<1>3. ASSUME NEW a \in Actors, Make(a)
      PROVE  Goal
  <2>1. HistoryGrows /\ UNCHANGED <<held, head>>
    BY <1>3 DEF Make, HistoryGrows, AddCopy
  <2> QED
    BY <1>3, <2>1, MakeSteps, FolderKept, WorkspaceAssumption
<1>4. ASSUME NEW a \in Actors, Check(a) \/ Switch(a) \/ Record(a)
      PROVE  Goal
  BY <1>4, FolderChecked, FolderSwitched, FolderRecorded
<1>5. ASSUME NEW a \in Actors, Clean(a)
      PROVE  Goal
  <2>1. HistoryGrows /\ UNCHANGED <<held, head>> /\ act[a].pc = "clean"
    BY <1>5 DEF Clean, HistoryGrows
  <2>2. act[a].place = None /\ ClaimsFolder(a)
    BY <1>0, <2>1, WorkspaceAssumption DEF PlaceInv, ClaimsFolder
  <2> QED
    BY <1>5, <2>1, <2>2, CleanSteps, FolderKept, WorkspaceAssumption
<1>6. ASSUME NEW a \in Actors, RecordFails(a)
      PROVE  Goal
  <2>1. HistoryGrows /\ UNCHANGED <<held, head>> /\ Of(a) \in loose'
    BY <1>6 DEF RecordFails, HistoryGrows
  <2>2. Steps(a, "claimed", act[a].place)
    BY <1>0, <1>6, GoSteps DEF RecordFails, Go
  <2> QED
    BY <2>1, <2>2, FolderKept
<1>7. ASSUME NEW a \in Actors, StartWork(a)
      PROVE  Goal
  <2>1. HistoryGrows /\ UNCHANGED <<held, head>> /\ act[a].pc = "claimed"
    BY <1>7 DEF StartWork, HistoryGrows
  <2>2. Steps(a, "work", act[a].place)
    BY <1>0, <1>7, GoSteps DEF StartWork, Go
  <2>3. act[a].place = "folder" => AtWork(a, "folder")
    BY <2>1 DEF AtWork
  <2> QED
    BY <2>1, <2>2, <2>3, FolderKept
<1>8. ASSUME NEW a \in Actors,
             StartFails(a) \/ Tidy(a) \/ Fold(a) \/ Probe(a) \/ Remove(a)
      PROVE  Goal
  <2>1. HistoryGrows /\ UNCHANGED <<held, head>>
    BY <1>8 DEF StartFails, Tidy, Fold, Probe, Remove, HistoryGrows
  <2>2. StartFails(a) => Steps(a, "tidy", act[a].place)
    BY <1>0, GoSteps DEF StartFails, Go
  <2>3. Fold(a) => Steps(a, "idle", None)
    BY <1>0, IdleSteps DEF Fold
  <2>4. \E p \in {"idle", "tidy", "fold", "probe", "remove", "free"},
          q \in {None, act[a].place} : Steps(a, p, q)
    BY <1>8, <2>2, <2>3, TidySteps, ProbeSteps, RemoveSteps
  <2> QED
    BY <2>1, <2>4, FolderKept
<1>9. ASSUME NEW a \in Actors, Free(a)
      PROVE  Goal
  <2>1. /\ HistoryGrows
        /\ head' = head
        /\ held' = Without(Of(a))
        /\ act' = [act EXCEPT ![a] = Idle]
    BY <1>9 DEF Free, HistoryGrows
  <2>2. InUse(Of(a)) => Of(a) \in loose'
    BY <1>9 DEF Free
  <2> QED
    BY <1>0, <2>1, <2>2, IdleIsAct, ActorFacts, FolderGivenBack
<1>10. ASSUME NEW a \in Actors, NEW done \in BOOLEAN, EndWork(a, done)
       PROVE  Goal
  <2>1. HistoryGrows /\ UNCHANGED <<held, head>>
    BY <1>10 DEF EndWork, HistoryGrows
  <2> QED
    BY <1>10, <2>1, EndWorkSteps, FolderKept
<1>11. ASSUME NEW a \in Actors, Write(a) \/ Commit(a)
       PROVE  Goal
  BY <1>11, FolderSame DEF Write, Commit, HistoryGrows
<1>12. ASSUME PeopleAct
       PROVE  Goal
  BY <1>12, FolderSame
     DEF PeopleAct, SetMode, PersonEdits, PersonPutsAway, PersonSwitches,
         Merge, Park, Unpark, HistoryGrows
<1>13. ASSUME NEW c \in Cards, Poll(c)
       PROVE  Goal
  BY <1>13, FolderSame DEF Poll, HistoryGrows
<1>14. ASSUME NEW c \in Cards, Deliver(c)
       PROVE  Goal
  <2>1. /\ HistoryGrows
        /\ head' = head
        /\ held' = Without(c)
        /\ act' = act
        /\ InUse(c) => c \in loose'
    BY <1>14 DEF Deliver, HistoryGrows
  <2> QED
    BY <1>0, <2>1, FolderGivenBack
<1>15. ASSUME Restart
       PROVE  Goal
  <2>1. /\ HistoryGrows
        /\ UNCHANGED <<head, held>>
        /\ \A b \in Actors : act'[b] = Idle
    BY <1>15, RestartSteps DEF Restart, HistoryGrows
  <2>2. \A d \in Cards : Holding(d)' <=> Holding(d)
    BY <2>1, KeepRows
  <2>3. \A c \in Cards : Stands(c)' => Stands(c)
    BY <2>1, <2>2, IdleIsAct DEF Stands, ClaimsFolder
  <2>4. \A c \in Cards : HeadDue(c)' => HeadDue(c)
    BY <2>1, <2>2, IdleIsAct DEF HeadDue, Switched
  <2>5. Alone' /\ HeadInv'
    BY <2>1, <2>3, <2>4 DEF FolderInv, Alone, HeadInv, HistoryGrows
  <2>6. HasRow'
    BY <2>1, IdleIsAct DEF HasRow, AtWork
  <2> QED
    BY <2>5, <2>6
<1>16. ASSUME UNCHANGED vars
       PROVE  Goal
  BY <1>16, FolderSame DEF vars, HistoryGrows
<1> HIDE DEF Goal
<1>17. Goal
  BY <1>1, <1>2, <1>3, <1>4, <1>5, <1>6, <1>7, <1>8, <1>9, <1>10, <1>11,
     <1>12, <1>13, <1>14, <1>15, <1>16 DEF Next, ClaimStep, EndStep, WatchStep
<1> QED
  BY <1>17 DEF Goal

-----------------------------------------------------------------------------
(* Copies and their rows                                                   *)

\* A step that makes no copy and changes no row.
LEMMA CopiesKept ==
  ASSUME TypeOK, CopyInv, NEW a \in Actors, NEW p, NEW q, Steps(a, p, q),
         loose \subseteq loose', copies' = copies,
         \A c \in Cards : copy'[c] => copy[c],
         act[a].pc = "record" => Of(a) \in loose',
         p = "remake" => Of(a) \in copies,
         p = "free" => ~copy'[Of(a)]
  PROVE  CopyInv'
<1>1. \A b \in Actors : Of(b) \in Cards
  BY ActorFacts
<1>2. ASSUME NEW c \in Cards, copy'[c], c \notin copies'
      PROVE  c \in loose' \/ \E b \in Actors : Of(b) = c /\ Made(b)'
  <2>1. c \in loose \/ \E b \in Actors : Of(b) = c /\ Made(b)
    BY <1>2 DEF CopyInv, RowKept
  <2>2. ASSUME NEW b \in Actors, Of(b) = c, Made(b)
        PROVE  c \in loose' \/ Made(b)'
    BY <2>2 DEF Steps, Made
  <2> QED
    BY <2>1, <2>2
<1>3. Remaking'
  BY DEF CopyInv, Remaking, Steps
<1>4. Freed'
  BY <1>1 DEF CopyInv, Freed, Steps
<1> QED
  BY <1>2, <1>3, <1>4 DEF CopyInv, RowKept

LEMMA CopiesSame ==
  ASSUME CopyInv, UNCHANGED <<act, copies, copy, loose>>
  PROVE  CopyInv'
  BY DEF CopyInv, RowKept, Remaking, Freed, Made

\* A copy is made for a card that has a row, or whose row is about to be made.
LEMMA CopyAdded ==
  ASSUME TypeOK, CopyInv, NEW a \in Actors, AddCopy(Of(a)), copies' = copies,
         act[a].pc \in {"remake", "make"},
         \/ Steps(a, "claimed", "copy") /\ act[a].pc = "remake"
         \/ Steps(a, "record", "copy")
  PROVE  CopyInv'
<1>1. \A b \in Actors : Of(b) \in Cards
  BY ActorFacts
<1>2. \A c \in Cards : copy'[c] = IF c = Of(a) THEN TRUE ELSE copy[c]
  BY DEF TypeOK, AddCopy
<1>3. loose \subseteq loose'
  BY DEF AddCopy
<1>4. ASSUME NEW c \in Cards, copy'[c], c \notin copies'
      PROVE  c \in loose' \/ \E b \in Actors : Of(b) = c /\ Made(b)'
  <2>1. CASE c = Of(a)
    BY <1>3, <1>4, <2>1 DEF CopyInv, Remaking, Steps, Made
  <2>2. CASE c # Of(a)
    <3>1. c \in loose \/ \E b \in Actors : Of(b) = c /\ Made(b)
      BY <1>2, <1>4, <2>2 DEF CopyInv, RowKept
    <3> QED
      BY <1>3, <2>2, <3>1 DEF Steps, Made
  <2> QED
    BY <2>1, <2>2
<1>5. Remaking'
  BY <1>3 DEF CopyInv, Remaking, Steps
<1>6. ASSUME NEW b \in Actors, act'[b].pc = "free", copy'[Of(b)]
      PROVE  Of(b) \in loose'
  <2>1. act[b].pc = "free"
    BY <1>6 DEF Steps
  <2>2. Of(b) = Of(a) => Of(b) \in loose'
    BY <2>1 DEF AddCopy
  <2> QED
    BY <1>1, <1>2, <1>3, <1>6, <2>1, <2>2 DEF CopyInv, Freed
<1> QED
  BY <1>4, <1>5, <1>6 DEF CopyInv, RowKept, Freed

\* A row is given back of a card whose copy is gone, or which is loose.
LEMMA CopyGivenBack ==
  ASSUME TypeOK, CopyInv, NEW c \in Cards, copies' = copies \ {c},
         copy' = copy, loose \subseteq loose',
         InUse(c) \/ copy[c] => c \in loose',
         \A b \in Actors : \/ act'[b] = act[b]
                           \/ act'[b] = Idle /\ act[b].pc # "record"
  PROVE  CopyInv'
<1>1. ASSUME NEW d \in Cards, copy'[d], d \notin copies'
      PROVE  d \in loose' \/ \E b \in Actors : Of(b) = d /\ Made(b)'
  <2>1. CASE d = c
    BY <1>1, <2>1
  <2>2. CASE d # c
    <3>1. d \in loose \/ \E b \in Actors : Of(b) = d /\ Made(b)
      BY <1>1, <2>2 DEF CopyInv, RowKept
    <3> QED
      BY <3>1 DEF Made
  <2> QED
    BY <2>1, <2>2
<1>2. ASSUME NEW b \in Actors, act'[b].pc = "remake"
      PROVE  Of(b) \in copies' \cup loose'
  <2>1. act[b].pc = "remake"
    BY <1>2, IdleIsAct
  <2> QED
    BY <2>1 DEF CopyInv, Remaking, InUse
<1>3. Freed'
  BY IdleIsAct DEF CopyInv, Freed
<1> QED
  BY <1>1, <1>2, <1>3 DEF CopyInv, RowKept, Remaking

LEMMA CopyRecorded ==
  ASSUME TypeOK, FolderInv, CopyInv, NEW a \in Actors, Record(a)
  PROVE  CopyInv'
<1>1. copy' = copy /\ act[a].pc = "record"
  BY DEF Record, git
<1>2. Steps(a, "claimed", act[a].place) /\ loose \subseteq loose'
  BY RecordRows
<1>3. /\ \A d \in Cards : d \in copies /\ d \notin copies' => d \in loose'
      /\ act[a].place = "copy" => Of(a) \in copies'
  BY RecordRows
<1>4. ASSUME NEW c \in Cards, copy'[c], c \notin copies'
      PROVE  c \in loose' \/ \E b \in Actors : Of(b) = c /\ Made(b)'
  <2>1. \/ c \in copies \/ c \in loose
        \/ \E b \in Actors : Of(b) = c /\ Made(b)
    BY <1>1, <1>4 DEF CopyInv, RowKept
  <2>2. ASSUME NEW b \in Actors, Of(b) = c, Made(b)
        PROVE  Made(b)'
    <3>1. b # a
      BY <1>3, <1>4, <2>2 DEF Made
    <3> QED
      BY <1>2, <2>2, <3>1 DEF Steps, Made
  <2> QED
    BY <1>2, <1>3, <1>4, <2>1, <2>2
<1>5. ASSUME NEW b \in Actors, act'[b].pc = "remake"
      PROVE  Of(b) \in copies' \cup loose'
  <2>1. act[b].pc = "remake"
    BY <1>2, <1>5 DEF Steps
  <2> QED
    BY <1>2, <1>3, <2>1, ActorFacts DEF CopyInv, Remaking
<1>6. Freed'
  BY <1>1, <1>2 DEF CopyInv, Freed, Steps
<1> QED
  BY <1>4, <1>5, <1>6 DEF CopyInv, RowKept, Remaking

LEMMA NextCopy ==
  ASSUME TypeOK, FolderInv, CopyInv, [Next]_vars
  PROVE  CopyInv'
<1>0. /\ PlaceInv
      /\ act \in [Actors -> Act]
      /\ copy \in [Cards -> BOOLEAN]
      /\ \A a \in Actors : Of(a) \in Cards
  BY ActorFacts DEF TypeOK, FolderInv
<1> USE DEF rows, history, git
<1>1. ASSUME NEW a \in Actors, Look(a)
      PROVE  CopyInv'
  <2>1. UNCHANGED <<copies, copy, loose>> /\ act[a].pc = "idle"
    BY <1>1 DEF Look
  <2> QED
    BY <1>0, <1>1, <2>1, LookSteps, CopiesKept
<1>2. ASSUME NEW a \in Actors, Remake(a)
      PROVE  CopyInv'
  <2>1. copies' = copies /\ act[a].pc = "remake"
    BY <1>2 DEF Remake
  <2> QED
    BY <1>2, <2>1, RemakeSteps, CopyAdded, CopiesKept
<1>3. ASSUME NEW a \in Actors, Make(a)
      PROVE  CopyInv'
  <2>1. copies' = copies /\ act[a].pc = "make"
    BY <1>3 DEF Make
  <2> QED
    BY <1>3, <2>1, MakeSteps, CopyAdded, CopiesKept
<1>4. ASSUME NEW a \in Actors, Check(a) \/ Clean(a) \/ Switch(a)
      PROVE  CopyInv'
  <2>1. /\ UNCHANGED <<copies, copy, loose>>
        /\ act[a].pc \in {"check", "clean", "switch"}
    BY <1>4 DEF Check, Clean, Switch
  <2>2. \E p \in {"idle", "clean", "switch", "record"},
          q \in {None, act[a].place, "folder"} : Steps(a, p, q)
    BY <1>4, CheckSteps, CleanSteps, SwitchSteps
  <2> QED
    BY <2>1, <2>2, CopiesKept
<1>5. ASSUME NEW a \in Actors, Record(a)
      PROVE  CopyInv'
  BY <1>5, CopyRecorded
<1>6. ASSUME NEW a \in Actors, RecordFails(a) \/ StartWork(a) \/ StartFails(a)
      PROVE  CopyInv'
  <2>1. /\ UNCHANGED <<copies, copy>>
        /\ loose \subseteq loose'
        /\ act[a].pc = "record" => Of(a) \in loose'
    BY <1>6 DEF RecordFails, StartWork, StartFails
  <2>2. \E p \in {"claimed", "work", "tidy"} : Go(a, p)
    BY <1>6 DEF RecordFails, StartWork, StartFails
  <2>3. \E p \in {"claimed", "work", "tidy"} : Steps(a, p, act[a].place)
    BY <1>0, <2>2, GoSteps DEF Go
  <2> QED
    BY <2>1, <2>3, CopiesKept
<1>7. ASSUME NEW a \in Actors, Tidy(a) \/ Probe(a)
      PROVE  CopyInv'
  <2>1. UNCHANGED <<copies, copy, loose>> /\ act[a].pc \in {"tidy", "probe"}
    BY <1>7 DEF Tidy, Probe
  <2>2. \E p \in {"idle", "fold", "probe", "remove"}, q \in {None, act[a].place} :
          Steps(a, p, q)
    BY <1>7, TidySteps, ProbeSteps
  <2> QED
    BY <2>1, <2>2, CopiesKept
<1>8. ASSUME NEW a \in Actors, Fold(a)
      PROVE  CopyInv'
  <2>1. /\ UNCHANGED <<copies, loose>>
        /\ act[a].pc = "fold"
        /\ \A c \in Cards : copy'[c] => copy[c]
    BY <1>0, <1>8 DEF Fold
  <2>2. Steps(a, "idle", None)
    BY <1>0, <1>8, IdleSteps DEF Fold
  <2> QED
    BY <2>1, <2>2, CopiesKept
<1>9. ASSUME NEW a \in Actors, Remove(a)
      PROVE  CopyInv'
  <2>1. /\ UNCHANGED <<copies, loose>>
        /\ act[a].pc = "remove"
        /\ ~copy'[Of(a)]
        /\ \A c \in Cards : copy'[c] => copy[c]
    BY <1>0, <1>9 DEF Remove
  <2> QED
    BY <1>9, <2>1, RemoveSteps, CopiesKept
<1>10. ASSUME NEW a \in Actors, Free(a)
       PROVE  CopyInv'
  <2>1. /\ copies' = copies \ {Of(a)}
        /\ copy' = copy
        /\ loose \subseteq loose'
        /\ InUse(Of(a)) => Of(a) \in loose'
        /\ act' = [act EXCEPT ![a] = Idle]
        /\ act[a].pc = "free"
    BY <1>10 DEF Free
  <2>2. copy[Of(a)] => Of(a) \in loose'
    BY <2>1 DEF CopyInv, Freed
  <2> QED
    BY <1>0, <2>1, <2>2, CopyGivenBack
<1>11. ASSUME NEW a \in Actors, NEW done \in BOOLEAN, EndWork(a, done)
       PROVE  CopyInv'
  <2>1. UNCHANGED <<copies, copy, loose>> /\ act[a].pc = "work"
    BY <1>11 DEF EndWork
  <2> QED
    BY <1>11, <2>1, EndWorkSteps, CopiesKept
<1>12. ASSUME NEW a \in Actors, Write(a) \/ Commit(a)
       PROVE  CopyInv'
  BY <1>12, CopiesSame DEF Write, Commit
<1>13. CASE PeopleAct
  BY <1>13, CopiesSame
     DEF PeopleAct, SetMode, PersonEdits, PersonPutsAway, PersonSwitches,
         Merge, Park, Unpark
<1>14. ASSUME NEW c \in Cards, Poll(c)
       PROVE  CopyInv'
  BY <1>14, CopiesSame DEF Poll
<1>15. ASSUME NEW c \in Cards, Deliver(c)
       PROVE  CopyInv'
  <2>1. /\ copies' = copies \ {c}
        /\ UNCHANGED <<copy, act>>
        /\ loose \subseteq loose'
        /\ InUse(c) \/ copy[c] => c \in loose'
    BY <1>15 DEF Deliver
  <2> QED
    BY <2>1, CopyGivenBack
<1>16. CASE Restart
  <2>1. /\ UNCHANGED <<copies, copy>>
        /\ loose \subseteq loose'
        /\ \A a \in Actors : act[a].pc = "record" => Of(a) \in loose'
        /\ \A a \in Actors : act'[a] = Idle
    BY <1>16, RestartSteps DEF Restart
  <2>2. RowKept'
    BY <2>1 DEF CopyInv, RowKept, Made
  <2> QED
    BY <2>1, <2>2, IdleIsAct DEF CopyInv, Remaking, Freed
<1>17. CASE UNCHANGED vars
  BY <1>17, CopiesSame DEF vars
<1> QED
  BY <1>1, <1>2, <1>3, <1>4, <1>5, <1>6, <1>7, <1>8, <1>9, <1>10, <1>11,
     <1>12, <1>13, <1>14, <1>15, <1>16, <1>17
     DEF Next, ClaimStep, EndStep, WatchStep

-----------------------------------------------------------------------------
(* Work in a copy                                                          *)

\* A step that changes no copy, no branch and no folder, and removes nothing.
LEMMA LossKept ==
  ASSUME TypeOK, LossInv, NEW a \in Actors, NEW p, NEW q, Steps(a, p, q),
         p # "remove", late \subseteq late',
         UNCHANGED <<base, branch, copy, dirty, head>>
  PROVE  LossInv'
<1>1. HeadFree'
  BY DEF LossInv, HeadFree
<1>2. Window'
  BY DEF LossInv, Window, Steps
<1> QED
  BY <1>1, <1>2 DEF LossInv

LEMMA LossSame ==
  ASSUME LossInv, UNCHANGED <<act, base, branch, copy, dirty, late>>,
         head' = head \/ head' \notin Cards
  PROVE  LossInv'
  BY DEF LossInv, HeadFree, Window

\* While nobody has the repository's lock, nobody removes.
LEMMA NobodyRemoves ==
  ASSUME TypeOK, lock = None
  PROVE  \A b \in Actors : act[b].pc # "remove"
  BY ActorFacts DEF TypeOK

LEMMA LossUnlocked ==
  ASSUME TypeOK, LossInv, NEW a \in Actors, NEW p, NEW q, Steps(a, p, q),
         p # "remove", lock = None,
         HeadFree'
  PROVE  LossInv'
<1>1. \A b \in Actors : act'[b].pc # "remove"
  BY NobodyRemoves DEF Steps
<1> QED
  BY <1>1 DEF LossInv, Window

\* Writing and committing in a copy that is being removed is written down, and
\* a commit in the folder is on no copy's branch.
LEMMA LossWritten ==
  ASSUME TypeOK, LossInv, NEW a \in Actors, Write(a) \/ Commit(a)
  PROVE  LossInv'
<1>0. /\ branch \in [Cards -> {"none", "fresh", "ahead", "landed"}]
      /\ dirty \in [Cards -> BOOLEAN]
      /\ \A b \in Actors : Of(b) \in Cards
  BY ActorFacts DEF TypeOK
<1>1. UNCHANGED <<act, base, copy, head>>
  BY DEF Write, Commit
<1>2. HeadFree'
  BY <1>1 DEF LossInv, HeadFree
<1>3. ASSUME NEW b \in Actors, act[b].pc = "remove"
      PROVE  /\ lock = b
             /\ lock # None
             /\ copy[Of(b)]
             /\ head # Of(b)
             /\ dirty[Of(b)] => Of(b) \in late
             /\ branch[Of(b)] = "ahead" => Of(b) \in late \/ base = "HEAD"
  BY <1>0, <1>3, ActorFacts DEF TypeOK, LossInv, Window, HeadFree
<1>4. CASE act[a].place = "copy"
  <2>1. /\ late' = late \cup {d \in {Of(a)} : lock # None /\ Of(lock) = d}
        /\ \A c \in Cards : c # Of(a) => /\ dirty'[c] = dirty[c]
                                         /\ branch'[c] = branch[c]
    BY <1>0, <1>4 DEF Write, Commit, Writing
  <2>2. ASSUME NEW b \in Actors, act[b].pc = "remove"
        PROVE  /\ dirty'[Of(b)] => Of(b) \in late'
               /\ branch'[Of(b)] = "ahead" => Of(b) \in late' \/ base = "HEAD"
    <3>1. Of(b) = Of(a) => Of(b) \in late'
      BY <1>3, <2>1, <2>2
    <3> QED
      BY <1>0, <1>3, <2>1, <2>2, <3>1
  <2>3. Window'
    BY <1>1, <1>3, <2>2 DEF Window
  <2> QED
    BY <1>2, <2>3 DEF LossInv
<1>5. CASE act[a].place # "copy"
  <2>1. UNCHANGED <<late, dirty>>
    BY <1>5 DEF Write, Commit
  <2>2. \A c \in Cards : c # head => branch'[c] = branch[c]
    BY <1>0, <1>5 DEF Write, Commit
  <2>3. Window'
    BY <1>0, <1>1, <1>3, <2>1, <2>2 DEF Window
  <2> QED
    BY <1>2, <2>3 DEF LossInv
<1> QED
  BY <1>4, <1>5

LEMMA NextLoss ==
  ASSUME TypeOK, LossInv, [Next]_vars
  PROVE  LossInv'
<1>0. /\ act \in [Actors -> Act]
      /\ copy \in [Cards -> BOOLEAN]
      /\ branch \in [Cards -> {"none", "fresh", "ahead", "landed"}]
      /\ base \in {"named", "HEAD"}
      /\ \A a \in Actors : Of(a) \in Cards
      /\ \A c \in Cards : copy[c] => head # c
  BY ActorFacts, WorkspaceAssumption DEF TypeOK, LossInv, HeadFree
<1> USE DEF history, git, folder
<1>1. ASSUME NEW a \in Actors, Look(a)
      PROVE  LossInv'
  <2>1. UNCHANGED <<base, branch, copy, dirty, head, late>>
    BY <1>1 DEF Look
  <2>2. \E p \in {"claimed", "remake", "make", "check"},
          q \in {"copy", "folder", None} : act'[a].pc = p /\ Steps(a, p, q)
    <3>1. act[a].pc = "idle"
      BY <1>1 DEF Look
    <3>2. act' = [act EXCEPT ![a] = act'[a]]
      BY <1>0, <1>1 DEF Look
    <3>3. act'[a] \in Act /\ act'[a].pc \in {"claimed", "remake", "make", "check"}
      BY <1>0, <1>1, <3>1 DEF Look, Act, NewClaim, TypeOK
    <3>4. act'[a].place \in {"copy", "folder", None}
      BY <3>3 DEF Act
    <3> QED
      BY <1>0, <3>2, <3>3, <3>4, BecomesSteps DEF Becomes
  <2> QED
    BY <2>1, <2>2, LossKept
<1>2. ASSUME NEW a \in Actors, Remake(a) \/ Make(a)
      PROVE  LossInv'
  <2>1. lock = None /\ head' = head /\ late' = late /\ base' = base
    BY <1>2 DEF Remake, Make
  <2>2. \E p \in {"claimed", "make", "check", "record", "idle"},
          q \in {"copy", None} : Steps(a, p, q)
    BY <1>2, RemakeSteps, MakeSteps
  <2>3. UNCHANGED git \/ (CanAdd(Of(a)) /\ AddCopy(Of(a)))
    BY <1>2 DEF Remake, Make
  <2>4. HeadFree'
    BY <1>0, <2>1, <2>3 DEF HeadFree, CanAdd, AddCopy
  <2> QED
    BY <2>1, <2>2, <2>4, LossUnlocked
<1>3. ASSUME NEW a \in Actors, Check(a) \/ Clean(a)
      PROVE  LossInv'
  <2>1. UNCHANGED <<base, branch, copy, dirty, head, late>>
    BY <1>3 DEF Check, Clean
  <2>2. \E p \in {"clean", "switch", "idle"}, q \in {None, act[a].place} :
          Steps(a, p, q)
    BY <1>3, CheckSteps, CleanSteps
  <2> QED
    BY <2>1, <2>2, LossKept
<1>4. ASSUME NEW a \in Actors, Switch(a)
      PROVE  LossInv'
  <2>1. lock = None /\ copy' = copy
    BY <1>4 DEF Switch
  <2>2. head' = head \/ (head' = Of(a) /\ ~copy[Of(a)])
    BY <1>4 DEF Switch
  <2>3. HeadFree'
    BY <1>0, <2>1, <2>2 DEF HeadFree
  <2> QED
    BY <1>4, <2>1, <2>3, SwitchSteps, LossUnlocked
<1>5. ASSUME NEW a \in Actors,
             Record(a) \/ RecordFails(a) \/ StartWork(a) \/ StartFails(a)
      PROVE  LossInv'
  <2>1. UNCHANGED <<base, branch, copy, dirty, head, late>>
    BY <1>5 DEF Record, RecordFails, StartWork, StartFails
  <2>2. \E p \in {"claimed", "work", "tidy"} : Go(a, p)
    BY <1>5 DEF Record, RecordFails, StartWork, StartFails
  <2>3. \E p \in {"claimed", "work", "tidy"} : Steps(a, p, act[a].place)
    BY <1>0, <2>2, GoSteps DEF Go
  <2> QED
    BY <2>1, <2>3, LossKept
<1>6. ASSUME NEW a \in Actors, Tidy(a)
      PROVE  LossInv'
  <2>1. UNCHANGED <<base, branch, copy, dirty, head, late>>
    BY <1>6 DEF Tidy
  <2> QED
    BY <1>6, <2>1, TidySteps, LossKept
<1>7. ASSUME NEW a \in Actors, Fold(a)
      PROVE  LossInv'
  <2>1. lock = None /\ head' = head /\ \A c \in Cards : copy'[c] => copy[c]
    BY <1>0, <1>7 DEF Fold
  <2>2. Steps(a, "idle", None)
    BY <1>0, <1>7, IdleSteps DEF Fold
  <2>3. HeadFree'
    BY <1>0, <2>1 DEF HeadFree
  <2> QED
    BY <2>1, <2>2, <2>3, LossUnlocked
<1>8. ASSUME NEW a \in Actors, Probe(a)
      PROVE  LossInv'
  <2>1. UNCHANGED <<base, branch, copy, dirty, head, late>> /\ lock = None
    BY <1>8 DEF Probe
  <2>2. CASE Steps(a, "idle", None)
    BY <2>1, <2>2, LossKept
  <2>3. CASE /\ Steps(a, "remove", act[a].place)
             /\ copy[Of(a)]
             /\ ~WorthKeeping(Of(a))
    <3>1. \A b \in Actors : act'[b].pc = "remove" => b = a
      BY <2>1, <2>3, NobodyRemoves DEF Steps
    <3>2. Window'
      BY <1>0, <2>1, <2>3, <3>1 DEF Window, WorthKeeping, Ahead
    <3>3. HeadFree'
      BY <1>0, <2>1 DEF HeadFree
    <3> QED
      BY <3>2, <3>3 DEF LossInv
  <2> QED
    BY <1>8, <2>2, <2>3, ProbeSteps
<1>9. ASSUME NEW a \in Actors, Remove(a)
      PROVE  LossInv'
  <2>1. /\ act[a].pc = "remove"
        /\ head' = head
        /\ \A c \in Cards : copy'[c] => copy[c]
    BY <1>0, <1>9 DEF Remove
  <2>2. \A b \in Actors : act[b].pc = "remove" => b = a
    BY <2>1 DEF TypeOK
  <2>3. Steps(a, "free", act[a].place) \/ Steps(a, "idle", None)
    BY <1>9, RemoveSteps
  <2>4. \A b \in Actors : act'[b].pc # "remove"
    BY <2>2, <2>3 DEF Steps
  <2>5. HeadFree'
    BY <1>0, <2>1 DEF HeadFree
  <2> QED
    BY <2>4, <2>5 DEF LossInv, Window
<1>10. ASSUME NEW a \in Actors, Free(a)
       PROVE  LossInv'
  <2>1. UNCHANGED <<base, branch, copy, dirty, head, late>>
    BY <1>10 DEF Free
  <2>2. Steps(a, "idle", None)
    BY <1>0, <1>10, IdleSteps DEF Free
  <2> QED
    BY <2>1, <2>2, LossKept
<1>11. ASSUME NEW a \in Actors, NEW done \in BOOLEAN, EndWork(a, done)
       PROVE  LossInv'
  <2>1. UNCHANGED <<base, branch, copy, dirty, head, late>>
    BY <1>11 DEF EndWork
  <2> QED
    BY <1>11, <2>1, EndWorkSteps, LossKept
<1>12. ASSUME NEW a \in Actors, Write(a) \/ Commit(a)
       PROVE  LossInv'
  BY <1>12, LossWritten
<1>13. ASSUME NEW c \in Cards, Merge(c)
       PROVE  LossInv'
  <2>1. UNCHANGED <<act, base, copy, dirty, head, late>>
    BY <1>13 DEF Merge
  <2>2. \A d \in Cards : branch'[d] = "ahead" => branch[d] = "ahead"
    BY <1>0, <1>13 DEF Merge
  <2> QED
    BY <1>0, <2>1, <2>2 DEF LossInv, HeadFree, Window
<1>14. CASE PeopleAct /\ ~(\E c \in Cards : Merge(c))
  <2>1. UNCHANGED <<act, base, branch, copy, dirty, late>>
    BY <1>14
       DEF PeopleAct, SetMode, PersonEdits, PersonPutsAway, PersonSwitches,
           Park, Unpark
  <2>2. head' = head \/ head' = Trunk
    BY <1>14
       DEF PeopleAct, SetMode, PersonEdits, PersonPutsAway, PersonSwitches,
           Park, Unpark
  <2> QED
    BY <2>1, <2>2, LossSame, WorkspaceAssumption
<1>15. CASE WatchStep
  BY <1>15, LossSame DEF WatchStep, Poll, Deliver
<1>16. CASE Restart
  <2>1. UNCHANGED <<copy, head>> /\ \A a \in Actors : act'[a] = Idle
    BY <1>16, RestartSteps DEF Restart
  <2> QED
    BY <1>0, <2>1, IdleIsAct DEF LossInv, HeadFree, Window
<1>17. CASE UNCHANGED vars
  BY <1>17, LossSame DEF vars
<1> QED
  BY <1>1, <1>2, <1>3, <1>4, <1>5, <1>6, <1>7, <1>8, <1>9, <1>10, <1>11,
     <1>12, <1>13, <1>14, <1>15, <1>16, <1>17 DEF Next, ClaimStep, EndStep

-----------------------------------------------------------------------------
(* Terminals                                                               *)

TidiesUp(a) == act[a].pc \in {"fold", "probe", "remove"}

LEMMA TerminalKept ==
  ASSUME TypeOK, TerminalInv, NEW a \in Actors, NEW p, NEW q, Steps(a, p, q),
         hurried \subseteq hurried',
         p = "work" /\ q = "copy" /\ TidyingUp(Of(a)) => Of(a) \in hurried',
         p \in {"fold", "probe", "remove"} =>
           TidiesUp(a) \/ (IsSession(a) => ~TerminalLivesIn(Of(a)))
  PROVE  TerminalInv'
<1> SUFFICES ASSUME NEW c \in Cards, TerminalLivesIn(c)', TidyingUp(c)'
             PROVE  c \in hurried'
  BY DEF TerminalInv
<1> DEFINE t == <<c, "terminal">>
<1>1. c \in Terminals /\ t \in Actors /\ Of(t) = c
  BY ActorFacts DEF TerminalLivesIn
<1>2. LivesIn(t)'
  BY DEF TerminalLivesIn
<1>3. PICK b \in Actors : Of(b) = c /\ TidiesUp(b)'
  BY DEF TidyingUp, TidiesUp
<1>4. ~IsSession(a) => a = <<Of(a), "terminal">>
  BY ActorFacts
<1>5. b # t
  BY <1>2, <1>3 DEF LivesIn, TidiesUp
<1>6. TerminalLivesIn(c) <=> LivesIn(t)
  BY <1>1 DEF TerminalLivesIn
<1>7. (\E e \in Actors : Of(e) = c /\ TidiesUp(e)) => TidyingUp(c)
  BY DEF TidyingUp, TidiesUp
<1> HIDE DEF t
<1>8. TerminalLivesIn(c) /\ TidyingUp(c) => c \in hurried'
  BY DEF TerminalInv
<1>9. CASE a = t
  <2>1. p = "work" /\ q = "copy" /\ TidiesUp(b)
    BY <1>2, <1>3, <1>5, <1>9 DEF Steps, LivesIn, TidiesUp
  <2> QED
    BY <1>1, <1>3, <1>7, <1>9, <2>1
<1>10. CASE a # t
  <2>1. LivesIn(t)
    BY <1>1, <1>2, <1>10 DEF Steps, LivesIn
  <2>2. TidiesUp(b)
    <3>1. CASE b = a
      <4>1. p \in {"fold", "probe", "remove"}
        BY <1>3, <3>1 DEF Steps, TidiesUp
      <4>2. IsSession(a)
        BY <1>3, <1>4, <1>10, <3>1 DEF t
      <4> QED
        BY <1>3, <1>6, <2>1, <3>1, <4>1, <4>2
    <3>2. CASE b # a
      BY <1>3, <3>2 DEF Steps, TidiesUp
    <3> QED
      BY <3>1, <3>2
  <2> QED
    BY <1>3, <1>6, <1>7, <1>8, <2>1, <2>2
<1> QED
  BY <1>9, <1>10

LEMMA TerminalSame ==
  ASSUME TerminalInv, UNCHANGED <<act, hurried>>
  PROVE  TerminalInv'
  BY DEF TerminalInv, TerminalLivesIn, LivesIn, TidyingUp

LEMMA NextTerminal ==
  ASSUME TypeOK, PlaceInv, TerminalInv, [Next]_vars
  PROVE  TerminalInv'
<1>0. act \in [Actors -> Act] /\ \A a \in Actors : Of(a) \in Cards
  BY ActorFacts DEF TypeOK
<1> USE DEF history
<1>1. ASSUME NEW a \in Actors,
             Look(a) \/ Remake(a) \/ Make(a) \/ Check(a) \/ Clean(a)
               \/ Switch(a) \/ Record(a)
      PROVE  TerminalInv'
  <2>1. hurried' = hurried
    BY <1>1 DEF Look, Remake, Make, Check, Clean, Switch, Record
  <2>2. \E p \in {"claimed", "remake", "make", "check", "clean", "switch",
                  "record", "idle"},
          q \in {"copy", "folder", None, act[a].place} : Steps(a, p, q)
    BY <1>1, LookSteps, RemakeSteps, MakeSteps, CheckSteps, CleanSteps,
       SwitchSteps, RecordRows
  <2> QED
    BY <2>1, <2>2, TerminalKept
<1>2. ASSUME NEW a \in Actors, RecordFails(a) \/ StartFails(a)
      PROVE  TerminalInv'
  <2>1. hurried' = hurried /\ \E p \in {"claimed", "tidy"} : Go(a, p)
    BY <1>2 DEF RecordFails, StartFails
  <2>2. \E p \in {"claimed", "tidy"} : Steps(a, p, act[a].place)
    BY <1>0, <2>1, GoSteps DEF Go
  <2> QED
    BY <2>1, <2>2, TerminalKept
<1>3. ASSUME NEW a \in Actors, StartWork(a)
      PROVE  TerminalInv'
  <2>1. hurried' = hurried \cup {c \in {Of(a)} : TidyingUp(c)}
    BY <1>3 DEF StartWork
  <2>2. Steps(a, "work", act[a].place)
    BY <1>0, <1>3, GoSteps DEF StartWork, Go
  <2> QED
    BY <2>1, <2>2, TerminalKept
<1>4. ASSUME NEW a \in Actors, Tidy(a) \/ Probe(a) \/ Remove(a)
      PROVE  TerminalInv'
  <2>1. hurried' = hurried
    BY <1>4 DEF Tidy, Probe, Remove
  <2>2. CASE Tidy(a)
    BY <2>1, <2>2, TidySteps, TerminalKept
  <2>3. CASE Probe(a)
    <3>1. TidiesUp(a)
      BY <2>3 DEF Probe, TidiesUp
    <3> QED
      BY <2>1, <2>3, <3>1, ProbeSteps, TerminalKept
  <2>4. CASE Remove(a)
    BY <2>1, <2>4, RemoveSteps, TerminalKept
  <2> QED
    BY <1>4, <2>2, <2>3, <2>4
<1>5. ASSUME NEW a \in Actors, Fold(a) \/ Free(a)
      PROVE  TerminalInv'
  <2>1. hurried' = hurried /\ Steps(a, "idle", None)
    BY <1>0, <1>5, IdleSteps DEF Fold, Free
  <2> QED
    BY <2>1, TerminalKept
<1>6. ASSUME NEW a \in Actors, NEW done \in BOOLEAN, EndWork(a, done)
      PROVE  TerminalInv'
  <2>1. hurried' = hurried
    BY <1>6 DEF EndWork
  <2> QED
    BY <1>6, <2>1, EndWorkSteps, TerminalKept
<1>7. ASSUME NEW a \in Actors, Write(a) \/ Commit(a)
      PROVE  TerminalInv'
  BY <1>7, TerminalSame DEF Write, Commit
<1>8. CASE PeopleAct
  BY <1>8, TerminalSame
     DEF PeopleAct, SetMode, PersonEdits, PersonPutsAway, PersonSwitches,
         Merge, Park, Unpark
<1>9. CASE WatchStep
  BY <1>9, TerminalSame DEF WatchStep, Poll, Deliver
<1>10. CASE Restart
  <2>1. \A a \in Actors : act'[a].pc = "idle"
    BY <1>10, RestartSteps, IdleIsAct
  <2> QED
    BY <2>1 DEF TerminalInv, TidyingUp
<1>11. CASE UNCHANGED vars
  BY <1>11, TerminalSame DEF vars
<1> QED
  BY <1>1, <1>2, <1>3, <1>4, <1>5, <1>6, <1>7, <1>8, <1>9, <1>10, <1>11
     DEF Next, ClaimStep, EndStep

-----------------------------------------------------------------------------
(* What holds of every behaviour                                           *)

LEMMA InitIInv == Init => IInv
<1> SUFFICES ASSUME Init
             PROVE  IInv
  OBVIOUS
<1>1. \A a \in Actors : act[a] = Idle
  BY DEF Init
<1>2. \A c \in Cards : ~Holding(c) /\ ~copy[c]
  <2>1. /\ 1 .. Len(held) = {}
        /\ \A c \in Cards : ~copy[c]
    <3>1. held = <<>> /\ copy = [c \in Cards |-> FALSE]
      BY DEF Init
    <3> QED
      BY <3>1
  <2> QED
    BY <2>1 DEF Holding
<1>3. Alone /\ HasRow /\ HeadInv
  <2>1. \A c \in Cards : ~Stands(c) /\ ~HeadDue(c)
    BY <1>1, <1>2, IdleIsAct DEF Stands, ClaimsFolder, HeadDue, Switched
  <2>2. HasRow
    BY <1>1, IdleIsAct DEF HasRow, AtWork
  <2> QED
    BY <2>1, <2>2 DEF Alone, HeadInv
<1>4. CopyInv /\ LossInv /\ TerminalInv
  BY <1>1, <1>2, IdleIsAct
     DEF CopyInv, RowKept, Remaking, Freed, LossInv, HeadFree, Window,
         TerminalInv, TidyingUp
<1> QED
  BY <1>3, <1>4, InitTypeOK DEF IInv, FolderInv

LEMMA NextIInv == IInv /\ [Next]_vars => IInv'
<1> SUFFICES ASSUME IInv, [Next]_vars
             PROVE  IInv'
  OBVIOUS
<1>1. TypeOK' /\ PlaceInv'
  BY NextTypeOK DEF IInv, FolderInv
<1>2. Alone' /\ HasRow' /\ HeadInv'
  BY NextFolder DEF IInv
<1>3. CopyInv' /\ LossInv' /\ TerminalInv'
  BY NextCopy, NextLoss, NextTerminal DEF IInv, FolderInv
<1> QED
  BY <1>1, <1>2, <1>3 DEF IInv, FolderInv

LEMMA Invariant == Spec => []IInv
  BY InitIInv, NextIInv, PTL DEF Spec

\* Two cards work in one folder only after their claims overlapped or one of
\* them lost its row: of any number of cards, sessions and terminals.
THEOREM FolderAloneCorrect == Spec => []FolderAlone
<1>1. IInv => FolderAlone
  <2> SUFFICES ASSUME IInv, NEW a \in Actors, NEW b \in Actors,
                      Of(a) # Of(b), AtWork(a, "folder"), AtWork(b, "folder"),
                      {Of(a), Of(b)} \cap loose = {}
               PROVE  raced
    BY DEF FolderAlone
  <2>1. Holding(Of(a)) /\ Holding(Of(b))
    BY DEF IInv, FolderInv, HasRow
  <2> QED
    BY <2>1, ActorFacts DEF IInv, FolderInv, Alone, Stands
<1> QED
  BY <1>1, Invariant, PTL

\* A card's work in the folder is done on its branch.
THEOREM OwnBranchCorrect == Spec => []OwnBranch
<1>1. IInv => OwnBranch
  BY ActorFacts DEF IInv, FolderInv, HasRow, HeadInv, HeadDue, OwnBranch
<1> QED
  BY <1>1, Invariant, PTL

\* A copy that nobody is busy with has a row.
THEOREM CopyHasRowCorrect == Spec => []CopyHasRow
<1>1. IInv => CopyHasRow
  BY DEF IInv, CopyInv, RowKept, Made, CopyHasRow
<1> QED
  BY <1>1, Invariant, PTL

\* Work in a copy is lost in the removal's window or over a base without a
\* name, and nowhere else.
THEOREM WorkLostOnlyInWindowCorrect == Spec => WorkLostOnlyInWindow
<1> DEFINE Kept(c) == /\ copy[c] /\ dirty[c] /\ ~copy'[c] => c \in late
                      /\ branch[c] = "ahead" /\ branch'[c] = "none"
                           => c \in late \/ base = "HEAD"
<1>1. ASSUME IInv, [Next]_vars, NEW c \in Cards
      PROVE  Kept(c)
  <2>0. /\ branch \in [Cards -> {"none", "fresh", "ahead", "landed"}]
        /\ copy \in [Cards -> BOOLEAN]
        /\ dirty \in [Cards -> BOOLEAN]
        /\ \A a \in Actors : Of(a) \in Cards
    BY <1>1, ActorFacts DEF IInv, TypeOK
  <2> USE DEF git
  <2>1. ASSUME NEW a \in Actors, Fold(a)
        PROVE  Kept(c)
    BY <2>0, <2>1 DEF Fold
  <2>2. ASSUME NEW a \in Actors, Remove(a)
        PROVE  Kept(c)
    <3>1. c # Of(a) => copy'[c] = copy[c] /\ branch'[c] = branch[c]
      BY <2>0, <2>2 DEF Remove
    <3>2. /\ dirty[Of(a)] => Of(a) \in late
          /\ branch[Of(a)] = "ahead" => Of(a) \in late \/ base = "HEAD"
      BY <1>1, <2>2 DEF Remove, IInv, LossInv, Window
    <3> QED
      BY <3>1, <3>2
  <2>3. ASSUME NEW a \in Actors, Remake(a) \/ Make(a)
        PROVE  Kept(c)
    <3>1. UNCHANGED git \/ AddCopy(Of(a))
      BY <2>3 DEF Remake, Make
    <3> QED
      BY <2>0, <3>1 DEF AddCopy, Cut
  <2>4. ASSUME NEW a \in Actors, Switch(a) \/ Write(a) \/ Commit(a)
        PROVE  Kept(c)
    BY <2>0, <2>4 DEF Switch, Write, Commit, Cut
  <2>5. CASE PeopleAct
    BY <2>0, <2>5
       DEF PeopleAct, SetMode, PersonEdits, PersonPutsAway, PersonSwitches,
           Merge, Park, Unpark
  <2>6. CASE UNCHANGED git
    BY <2>0, <2>6
  <2> HIDE DEF Kept
  <2> QED
    BY <1>1, <2>1, <2>2, <2>3, <2>4, <2>5, <2>6
       DEF Next, ClaimStep, EndStep, WatchStep, Look, Check, Clean, Record,
           RecordFails, StartWork, StartFails, Tidy, Probe, Free, EndWork,
           Poll, Deliver, Restart, vars
<1>2. IInv /\ [Next]_vars => [\A c \in Cards : Kept(c)]_vars
  BY <1>1
<1> QED
  BY <1>2, Invariant, PTL DEF Spec, WorkLostOnlyInWindow

\* A terminal that was there when the session asked keeps its copy.
THEOREM TerminalKeepsCopyCorrect == Spec => TerminalKeepsCopy
<1> DEFINE Kept(c) == TerminalLivesIn(c) /\ copy[c] /\ ~copy'[c] => c \in hurried
<1>1. ASSUME IInv, [Next]_vars, NEW c \in Cards
      PROVE  Kept(c)
  <2>0. /\ copy \in [Cards -> BOOLEAN]
        /\ \A a \in Actors : Of(a) \in Cards
    BY <1>1, ActorFacts DEF IInv, TypeOK
  <2> USE DEF git
  <2>1. ASSUME NEW a \in Actors, Fold(a) \/ Remove(a)
        PROVE  Kept(c)
    <3>1. c # Of(a) => copy'[c] = copy[c]
      BY <2>0, <2>1 DEF Fold, Remove
    <3>2. TidyingUp(Of(a))
      BY <2>1 DEF Fold, Remove, TidyingUp
    <3> QED
      BY <1>1, <2>0, <3>1, <3>2 DEF IInv, TerminalInv
  <2>2. ASSUME NEW a \in Actors, Remake(a) \/ Make(a)
        PROVE  Kept(c)
    <3>1. UNCHANGED git \/ AddCopy(Of(a))
      BY <2>2 DEF Remake, Make
    <3> QED
      BY <2>0, <3>1 DEF AddCopy
  <2>3. CASE UNCHANGED copy
    BY <2>3
  <2> HIDE DEF Kept
  <2> QED
    BY <1>1, <2>1, <2>2, <2>3
       DEF Next, ClaimStep, EndStep, WatchStep, PeopleAct, Look, Check, Clean,
           Switch, Record, RecordFails, StartWork, StartFails, Tidy, Probe,
           Free, Write, Commit, EndWork, SetMode, PersonEdits, PersonPutsAway,
           PersonSwitches, Merge, Park, Unpark, Poll, Deliver, Restart, vars
<1>2. IInv /\ [Next]_vars => [\A c \in Cards : Kept(c)]_vars
  BY <1>1
<1> QED
  BY <1>2, Invariant, PTL DEF Spec, TerminalKeepsCopy
=============================================================================
