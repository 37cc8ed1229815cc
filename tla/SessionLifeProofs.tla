--------------------------- MODULE SessionLifeProofs ---------------------------
(***************************************************************************)
(* What holds of SessionLife for any number of sessions, questions, places *)
(* for turns and calls: the inductive invariant, what follows from it, and *)
(* that a session keeps what SessionVerdict promises.                      *)
(***************************************************************************)
EXTENDS SessionLife, FiniteSetTheorems, TLAPS

-----------------------------------------------------------------------------
(* The inductive invariant                                                 *)

\* An acp session before its turn has begun, and any before its end is decided.
Before == {"start", "prepare", "connect", "slot", "turn"}
Decided == {"conclude", "wind", "release", "over"}
Outcomes == {"done", "failed"}

\* The route is told last, the verdict comes before it, and only the shutdown
\* lets a turn go on without one.
Steps(s) ==
  /\ run[s].told # None => run[s].pc = "over"
  /\ run[s].pc \notin Decided => run[s].verdict = None
  /\ run[s].pc \in {"conclude", "wind"} /\ run[s].verdict = None =>
       down /\ kind[s] = "acp"
  /\ kind[s] = "terminal" /\ run[s].pc \notin Decided \cup {"picked"} =>
       run[s].result = None

\* The status follows the verdict.
Follows(s) ==
  /\ Open(s) => sess[s].status \notin Outcomes
  /\ run[s].pc = "wind" /\ run[s].verdict # None => sess[s].status \in Ended
  /\ run[s].pc \in {"release", "over"} => sess[s].status \in Ended

\* Before its task a session is neither at work nor asking nor watched.
Begins(s) ==
  /\ kind[s] = "acp" /\ run[s].pc \in Before =>
       sess[s].status \notin Live /\ sess[s].ctx = "none"
  /\ run[s].pc \in {"start", "prepare"} => sess[s].status \notin Live
  /\ run[s].pc = "began" \/ kind[s] = "terminal" => sess[s].ctx # "expired"
  /\ \A q \in Questions : ask[s][q] # "none" =>
       kind[s] = "acp" /\ run[s].pc \in Decided \cup {"prompt", "judge"}
  /\ cli[s].watch # "off" =>
       kind[s] = "terminal" /\ run[s].pc \in Decided \cup {"parked", "picked"}

\* A cancel leaves its mark on a session over ACP until the end is decided.
Marked(s) ==
  /\ call[s] = "interrupt" => sess[s].ctx # "none"
  /\ kind[s] = "acp" /\ Open(s) /\ (s \in heeded \/ call[s] # "idle") =>
       sess[s].sent /\ (run[s].pc \in Before => sess[s].pending)

\* A cancel that came in time keeps the session from being done or failed.
Heeds(s) ==
  s \in heeded =>
    /\ sess[s].status \notin Outcomes
    /\ kind[s] = "acp" =>
         /\ run[s].pc \in Before => sess[s].status = "cancelled"
         /\ run[s].pc = "conclude" => run[s].verdict \notin Outcomes
    /\ kind[s] = "terminal" =>
         /\ run[s].pc \in Decided \cup {"picked"}
         /\ run[s].pc = "picked" => /\ run[s].result = "ctx"
                                    /\ sess[s].ctx \in {"cancelled", "expired"}
         /\ run[s].pc = "conclude" => run[s].verdict = "cancelled"

\* Nobody but its own runner ends a stage that no cancel was called for.
Reports(s) ==
  kind[s] = "terminal" /\ calls[s] = 0 =>
    /\ call[s] = "idle"
    /\ Open(s) \/ run[s].pc = "conclude" => sess[s].status \notin Ended
    /\ run[s].pc = "conclude" /\ run[s].result \in Outcomes =>
         run[s].verdict = run[s].result
    /\ run[s].pc \in {"wind", "release", "over"}
         /\ run[s].result \in Outcomes => sess[s].status = run[s].result

\* Nobody stops the session: it says something before it is over.
Unstopped(s) == /\ calls[s] = 0 /\ ~down
                /\ sess[s].ctx # "expired" /\ s \notin stopped
Speaks(s) ==
  Unstopped(s) =>
    /\ call[s] = "idle" /\ ~sess[s].pending /\ ~sess[s].sent /\ ~run[s].early
    /\ sess[s].ctx \in {"none", "live"}
    /\ run[s].pc \in {"wind", "release", "over"} => run[s].said # None
    /\ run[s].pc = "conclude" =>
         IF kind[s] = "acp" THEN run[s].verdict \in Outcomes
         ELSE run[s].said # None

\* A question that was raised shows.
Shows(s) ==
  \A q \in Questions :
    ask[s][q] \in {"raised", "open"} /\ sess[s].status \notin Ended =>
      \/ sess[s].status = "waiting"
      \/ \E p \in Questions : ask[s][p] = "closed"

\* What is written or on its way to be is the status, but for the "running"
\* that is stored while the session is still queued.
Stores(s) ==
  s \notin early \cup crossed =>
    /\ \A g \in Writers : Busy(s, g) => writing[s][g] = sess[s].status
    /\ Quiet(s) => stored[s] = sess[s].status \/ sess[s].status = "queued"
    /\ run[s].pc \in {"start", "prepare", "connect"} =>
         sess[s].status = "queued"

Good(s) == /\ Steps(s) /\ Follows(s) /\ Begins(s) /\ Marked(s) /\ Heeds(s)
           /\ Reports(s) /\ Speaks(s) /\ Shows(s) /\ Stores(s)
IInv == TypeOK /\ \A s \in Sessions : Good(s)

-----------------------------------------------------------------------------
(* Types, and what a step makes of the one session it is about             *)

Pcs == {"start", "prepare", "conclude", "wind", "release", "over"}
         \cup AcpSteps \cup TerminalSteps
Results == {None, "done", "failed", "error", "ctx", "gone"}
Verdicts == {None} \cup Ended
Tolds == {None, "success", "failure", "nothing"}
Words == {None, "comment", "stall"}
Contexts == {"none", "live", "cancelled", "expired"}

\* TypeOK in two parts: the types, and what it says of each session.
Typed ==
  /\ down \in BOOLEAN
  /\ places \in 0 .. MaxTurns
  /\ kind \in [Sessions -> Kinds]
  /\ run \in [Sessions -> Run]
  /\ sess \in [Sessions -> Sess]
  /\ stored \in [Sessions -> Status]
  /\ writing \in [Sessions -> [Writers -> Status \cup {None}]]
  /\ call \in [Sessions -> {"idle", "interrupt", "finish"}]
  /\ ask \in [Sessions ->
               [Questions -> {"none", "raised", "open", "back", "closed"}]]
  /\ cli \in [Sessions -> Cli]
  /\ UNION {heeded, early, crossed, stopped} \subseteq Sessions
  /\ calls \in [Sessions -> Nat]
  /\ reports \in [Sessions -> Nat]
Sorted(s) ==
  /\ run[s].pc \in AcpSteps => kind[s] = "acp"
  /\ run[s].pc \in TerminalSteps => kind[s] = "terminal"
  /\ run[s].pc = "conclude" /\ kind[s] = "terminal" => run[s].verdict # None
  /\ Busy(s, "watcher") => kind[s] = "terminal"

LEMMA TypeParts == TypeOK <=> Typed /\ \A s \in Sessions : Sorted(s)
  BY DEF TypeOK, Typed, Sorted

LEMMA TypePartsNext == Typed' /\ (\A s \in Sessions : Sorted(s)') => TypeOK'
  BY DEF TypeOK, Typed, Sorted

LEMMA NoneApart ==
  /\ None \notin Status /\ None \notin Outcomes /\ None \notin {"error", "ctx", "gone"}
  /\ None \notin {"success", "failure", "nothing"} \cup {"comment", "stall"}
  BY SessionLifeAssumption DEF Status, Live, Ended, Outcomes

LEMMA Kinded ==
  ASSUME Typed, NEW s \in Sessions
  PROVE  kind[s] \in {"acp", "terminal"}
  BY SessionLifeAssumption DEF Typed

\* Session s is left as it is.
Untouched(s) ==
  /\ run'[s] = run[s] /\ sess'[s] = sess[s] /\ stored'[s] = stored[s]
  /\ writing'[s] = writing[s] /\ call'[s] = call[s] /\ ask'[s] = ask[s]
  /\ cli'[s] = cli[s] /\ calls'[s] = calls[s]
  /\ (s \in heeded' <=> s \in heeded) /\ (s \in early' <=> s \in early)
  /\ (s \in crossed' <=> s \in crossed) /\ (s \in stopped' <=> s \in stopped)

LEMMA GoodKept ==
  ASSUME NEW s \in Sessions, Good(s), Sorted(s), Untouched(s),
         kind' = kind, down' = down
  PROVE  Good(s)' /\ Sorted(s)'
<1> USE DEF Untouched
<1>1. Sorted(s)'
  BY DEF Sorted, Busy
<1>2. Steps(s)' /\ Follows(s)' /\ Begins(s)' /\ Marked(s)' /\ Heeds(s)'
  BY DEF Good, Steps, Follows, Begins, Marked, Heeds, Open
<1>3. Reports(s)' /\ Speaks(s)' /\ Shows(s)'
  BY DEF Good, Reports, Speaks, Shows, Open, Unstopped
<1>4. Stores(s)'
  BY DEF Good, Stores, Busy, Quiet
<1> QED
  BY <1>1, <1>2, <1>3, <1>4 DEF Good

\* A step of one session is good when it is good for that one.
Alone(s) ==
  /\ kind' = kind /\ down' = down
  /\ \A u \in Sessions \ {s} : Untouched(u)

LEMMA OnlyOne ==
  ASSUME IInv, NEW s \in Sessions, Alone(s), Typed', Sorted(s)', Good(s)'
  PROVE  IInv'
<1>1. \A u \in Sessions \ {s} : Good(u)' /\ Sorted(u)'
  BY GoodKept, TypeParts DEF IInv, Alone
<1> QED
  BY <1>1, TypePartsNext DEF IInv

\* What becomes of the runner: where it stands and what it has learned.
RunIs(s, p, e, x, v, t, w) ==
  /\ run' \in [Sessions -> Run]
  /\ run'[s].pc = p /\ run'[s].early = e /\ run'[s].result = x
  /\ run'[s].verdict = v /\ run'[s].told = t /\ run'[s].said = w
  /\ \A u \in Sessions \ {s} : run'[u] = run[u]

LEMMA RunBecomes ==
  ASSUME Typed, NEW s \in Sessions, NEW r \in Run, run' = [run EXCEPT ![s] = r]
  PROVE  RunIs(s, r.pc, r.early, r.result, r.verdict, r.told, r.said)
  BY DEF Typed, RunIs

LEMMA RunGoes ==
  ASSUME Typed, NEW s \in Sessions, NEW p \in Pcs, Go(s, p)
  PROVE  RunIs(s, p, run[s].early, run[s].result, run[s].verdict, run[s].told,
               run[s].said)
<1> DEFINE r == [run[s] EXCEPT !.pc = p]
<1>1. run[s] \in Run
  BY DEF Typed
<1>2. /\ r \in Run /\ r.pc = p /\ r.early = run[s].early
      /\ r.result = run[s].result /\ r.verdict = run[s].verdict
      /\ r.told = run[s].told /\ r.said = run[s].said
  BY <1>1 DEF Run, Pcs
<1>3. run' = [run EXCEPT ![s] = r]
  BY DEF Go
<1> HIDE DEF r
<1> QED
  BY <1>2, <1>3, RunBecomes

LEMMA RunEnds ==
  ASSUME Typed, NEW s \in Sessions, NEW p \in Pcs, NEW v \in Verdicts,
         NEW w \in Words,
         run' = [run EXCEPT ![s].pc = p, ![s].verdict = v, ![s].said = w]
  PROVE  RunIs(s, p, run[s].early, run[s].result, v, run[s].told, w)
<1> DEFINE r == [run[s] EXCEPT !.pc = p, !.verdict = v, !.said = w]
<1>1. run[s] \in Run
  BY DEF Typed
<1>2. /\ r \in Run /\ r.pc = p /\ r.early = run[s].early
      /\ r.result = run[s].result /\ r.verdict = v
      /\ r.told = run[s].told /\ r.said = w
  BY <1>1 DEF Run, Pcs, Verdicts, Words
<1>3. run' = [run EXCEPT ![s] = r]
  OBVIOUS
<1> HIDE DEF r
<1> QED
  BY <1>2, <1>3, RunBecomes

LEMMA RunLearns ==
  ASSUME Typed, NEW s \in Sessions, NEW p \in Pcs, NEW x \in Results,
         run' = [run EXCEPT ![s].pc = p, ![s].result = x]
  PROVE  RunIs(s, p, run[s].early, x, run[s].verdict, run[s].told, run[s].said)
<1> DEFINE r == [run[s] EXCEPT !.pc = p, !.result = x]
<1>1. run[s] \in Run
  BY DEF Typed
<1>2. /\ r \in Run /\ r.pc = p /\ r.early = run[s].early
      /\ r.result = x /\ r.verdict = run[s].verdict
      /\ r.told = run[s].told /\ r.said = run[s].said
  BY <1>1 DEF Run, Pcs, Results
<1>3. run' = [run EXCEPT ![s] = r]
  OBVIOUS
<1> HIDE DEF r
<1> QED
  BY <1>2, <1>3, RunBecomes

\* What becomes of the Session under its lock.
SessIs(s, status, sent, pending, ctx) ==
  /\ sess' \in [Sessions -> Sess]
  /\ sess'[s].status = status /\ sess'[s].sent = sent
  /\ sess'[s].pending = pending /\ sess'[s].ctx = ctx
  /\ \A u \in Sessions \ {s} : sess'[u] = sess[u]

LEMMA SessBecomes ==
  ASSUME Typed, NEW s \in Sessions, NEW r \in Sess, sess' = [sess EXCEPT ![s] = r]
  PROVE  SessIs(s, r.status, r.sent, r.pending, r.ctx)
  BY DEF Typed, SessIs

\* The status g is about to write, and whether anybody else is about to.
WritesOne(s, g, v) ==
  /\ writing' \in [Sessions -> [Writers -> Status \cup {None}]]
  /\ writing'[s][g] = v
  /\ \A h \in Writers \ {g} : writing'[s][h] = writing[s][h]
  /\ \A u \in Sessions \ {s} : writing'[u] = writing[u]
  /\ crossed' \subseteq Sessions
  /\ \A u \in Sessions \ {s} : u \in crossed' <=> u \in crossed
  /\ s \in crossed' <=> s \in crossed \/ ~Quiet(s)

LEMMA WritesFacts ==
  ASSUME Typed, NEW s \in Sessions, NEW g \in Writers, NEW v \in Status,
         Writes(s, g, v)
  PROVE  WritesOne(s, g, v)
<1>1. writing \in [Sessions -> [Writers -> Status \cup {None}]]
      /\ crossed \subseteq Sessions
  BY DEF Typed
<1> DEFINE f == [writing[s] EXCEPT ![g] = v]
<1>2. /\ f \in [Writers -> Status \cup {None}] /\ f[g] = v
      /\ \A h \in Writers \ {g} : f[h] = writing[s][h]
  BY <1>1
<1>3. writing' = [writing EXCEPT ![s] = f]
  BY <1>1 DEF Writes
<1> HIDE DEF f
<1>4. /\ writing' \in [Sessions -> [Writers -> Status \cup {None}]]
      /\ writing'[s] = f
      /\ \A u \in Sessions \ {s} : writing'[u] = writing[u]
  BY <1>1, <1>2, <1>3
<1>5. crossed' = crossed \cup {x \in {s} : ~Quiet(x)}
  BY DEF Writes
<1> QED
  BY <1>1, <1>2, <1>4, <1>5 DEF WritesOne

\* The status becomes v, by g, unless the session has ended.
StatusIs(s, g, v) ==
  /\ SessIs(s, IF sess[s].status \in Ended THEN sess[s].status ELSE v,
            sess[s].sent, sess[s].pending, sess[s].ctx)
  /\ writing' \in [Sessions -> [Writers -> Status \cup {None}]]
  /\ crossed' \subseteq Sessions
  /\ \A u \in Sessions \ {s} :
       writing'[u] = writing[u] /\ (u \in crossed' <=> u \in crossed)
  /\ IF sess[s].status \in Ended
     THEN writing'[s] = writing[s] /\ (s \in crossed' <=> s \in crossed)
     ELSE WritesOne(s, g, v)

LEMMA FinishFacts ==
  ASSUME Typed, NEW s \in Sessions, NEW g \in Writers, NEW v \in Status,
         Finish(s, g, v) \/ SetStatus(s, g, v)
  PROVE  StatusIs(s, g, v)
<1>1. sess \in [Sessions -> Sess] /\ sess[s] \in Sess
      /\ writing \in [Sessions -> [Writers -> Status \cup {None}]]
      /\ crossed \subseteq Sessions
  BY DEF Typed
<1>2. CASE sess[s].status \in Ended
  <2>1. sess' = sess /\ writing' = writing /\ crossed' = crossed
    BY <1>2 DEF Finish, SetStatus, KeepsStatus
  <2> QED
    BY <1>1, <1>2, <2>1 DEF StatusIs, SessIs
<1>3. CASE sess[s].status \notin Ended
  <2> DEFINE r == [sess[s] EXCEPT !.status = v]
  <2>1. /\ r \in Sess /\ r.status = v /\ r.sent = sess[s].sent
        /\ r.pending = sess[s].pending /\ r.ctx = sess[s].ctx
    BY <1>1 DEF Sess
  <2>2. sess' = [sess EXCEPT ![s] = r] /\ Writes(s, g, v)
    BY <1>3 DEF Finish, SetStatus
  <2> HIDE DEF r
  <2>3. SessIs(s, v, sess[s].sent, sess[s].pending, sess[s].ctx)
    BY <2>1, <2>2, SessBecomes
  <2>4. WritesOne(s, g, v)
    BY <2>2, WritesFacts
  <2> QED
    BY <1>3, <2>3, <2>4 DEF StatusIs, WritesOne
<1> QED
  BY <1>2, <1>3

LEMMA EndsFacts ==
  ASSUME Typed, NEW s \in Sessions, NEW p \in Pcs, NEW v \in Ended, NEW w \in Words,
         Ends(s, p, v, w)
  PROVE  /\ RunIs(s, p, run[s].early, run[s].result, v, run[s].told, w)
         /\ StatusIs(s, "runner", v)
  BY RunEnds, FinishFacts DEF Ends, Verdicts, Writers, Status

\* Whoever changes the status writes it too.
LEMMA StoresKept ==
  ASSUME Typed, NEW s \in Sessions, Stores(s), NEW g \in Writers, NEW v \in Status,
         StatusIs(s, g, v), stored'[s] = stored[s],
         s \in early => s \in early',
         run'[s].pc \in {"start", "prepare", "connect"} =>
           /\ run[s].pc \in {"start", "prepare", "connect"}
           /\ sess[s].status \in Ended \/ s \in early'
  PROVE  Stores(s)'
<1>1. CASE s \in early'
  BY <1>1 DEF Stores
<1>2. CASE s \notin early' /\ sess[s].status \in Ended
  BY <1>2 DEF Stores, StatusIs, SessIs, Busy, Quiet
<1>3. CASE s \notin early' /\ sess[s].status \notin Ended
  <2>1. SUFFICES ASSUME s \notin crossed'
                 PROVE  Stores(s)'
    BY DEF Stores
  <2>2. /\ \A h \in Writers : ~Busy(s, h)
        /\ writing'[s][g] = v /\ sess'[s].status = v
        /\ \A h \in Writers \ {g} : writing'[s][h] = writing[s][h]
    BY <1>3, <2>1 DEF StatusIs, SessIs, WritesOne, Quiet
  <2>3. \A h \in Writers : Busy(s, h)' => h = g
    BY <2>2 DEF Busy
  <2>4. ~Quiet(s)'
    BY <2>2, NoneApart DEF Quiet, Busy
  <2> QED
    BY <1>3, <2>2, <2>3, <2>4 DEF Stores
<1> QED
  BY <1>1, <1>2, <1>3

LEMMA RunJudged ==
  ASSUME Typed, NEW s \in Sessions, NEW v \in Verdicts,
         run' = [run EXCEPT ![s].pc = "conclude", ![s].verdict = v]
  PROVE  RunIs(s, "conclude", run[s].early, run[s].result, v, run[s].told,
               run[s].said)
<1> DEFINE r == [run[s] EXCEPT !.pc = "conclude", !.verdict = v]
<1>1. run[s] \in Run
  BY DEF Typed
<1>2. /\ r \in Run /\ r.pc = "conclude" /\ r.early = run[s].early
      /\ r.result = run[s].result /\ r.verdict = v
      /\ r.told = run[s].told /\ r.said = run[s].said
  BY <1>1 DEF Run, Verdicts
<1>3. run' = [run EXCEPT ![s] = r]
  OBVIOUS
<1> HIDE DEF r
<1> QED
  BY <1>2, <1>3, RunBecomes

-----------------------------------------------------------------------------
(* Every action keeps the invariant.  A step is told by what it makes of   *)
(* its session (<1>1); then it is typed, leaves the others alone, and      *)
(* keeps the parts of Good one by one.                                     *)

LEMMA FolderTakenKeeps ==
  ASSUME IInv, NEW s \in Sessions, FolderTaken(s)
  PROVE  IInv'
<1>0. Typed /\ Sorted(s) /\ Good(s) /\ kind[s] \in {"acp", "terminal"}
  BY TypeParts, Kinded DEF IInv
<1>1. /\ RunIs(s, "release", run[s].early, run[s].result,
         "cancelled", run[s].told, "stall")
      /\ StatusIs(s, "runner", "cancelled")
  BY <1>0, EndsFacts DEF FolderTaken, Pcs, Ended, Words
<1>2. Typed'
  BY <1>0, <1>1
     DEF FolderTaken, Typed, RunIs, StatusIs, SessIs, WritesOne, outside,
         bounds, marks, Status, Live
<1>3. Alone(s)
  BY <1>0, <1>1
     DEF FolderTaken, Alone, Untouched, RunIs, StatusIs, SessIs, WritesOne,
         outside, bounds, marks
<1>4. Sorted(s)'
  BY <1>0, <1>1, NoneApart
     DEF Good, FolderTaken, At, RunIs, StatusIs, SessIs, WritesOne, outside,
         bounds, marks, Sorted, Busy, AcpSteps, TerminalSteps, Writers
<1>5. Steps(s)' /\ Follows(s)' /\ Begins(s)'
  BY <1>0, <1>1, NoneApart
     DEF Good, FolderTaken, At, RunIs, StatusIs, SessIs, WritesOne, outside,
         bounds, marks, Steps, Decided, Follows, Open, Outcomes, Ended,
         Begins, Before, Live, Sorted, AcpSteps, TerminalSteps
<1>6. Marked(s)' /\ Heeds(s)'
  BY <1>0, <1>1, NoneApart
     DEF Good, FolderTaken, At, RunIs, StatusIs, SessIs, WritesOne, outside,
         bounds, marks, Marked, Open, Before, Heeds, Decided, Outcomes,
         Ended, Begins, Live, Sorted, AcpSteps, TerminalSteps
<1>7. Reports(s)' /\ Shows(s)'
  BY <1>0, <1>1, NoneApart
     DEF Good, FolderTaken, At, RunIs, StatusIs, SessIs, WritesOne, outside,
         bounds, marks, Reports, Open, Outcomes, Ended, Shows, Steps,
         Decided, Follows, Begins, Before, Live, Sorted, AcpSteps,
         TerminalSteps
<1>8. Speaks(s)'
  BY <1>0, <1>1, NoneApart
     DEF Good, FolderTaken, At, RunIs, StatusIs, SessIs, WritesOne, outside,
         bounds, marks, Speaks, Unstopped, Outcomes, Steps, Decided, Begins,
         Before, Live, Sorted, AcpSteps, TerminalSteps
<1>9. Stores(s)'
  BY <1>0, <1>1, StoresKept
     DEF Good, FolderTaken, At, RunIs, StatusIs, SessIs, WritesOne, outside,
         bounds, marks, Writers, Status, Ended, Live
<1> QED
  BY <1>2, <1>3, <1>4, <1>5, <1>6, <1>7, <1>8, <1>9, OnlyOne DEF Good

LEMMA PrepareFailsKeeps ==
  ASSUME IInv, NEW s \in Sessions, PrepareFails(s)
  PROVE  IInv'
<1>0. Typed /\ Sorted(s) /\ Good(s) /\ kind[s] \in {"acp", "terminal"}
  BY TypeParts, Kinded DEF IInv
<1>1. /\ RunIs(s, "release", run[s].early, run[s].result,
         "failed", run[s].told, "comment")
      /\ StatusIs(s, "runner", "failed")
  BY <1>0, EndsFacts DEF PrepareFails, Pcs, Ended, Words
<1>2. Typed'
  BY <1>0, <1>1
     DEF PrepareFails, Typed, RunIs, StatusIs, SessIs, WritesOne, outside,
         bounds, marks, Status, Live
<1>3. Alone(s)
  BY <1>0, <1>1
     DEF PrepareFails, Alone, Untouched, RunIs, StatusIs, SessIs, WritesOne,
         outside, bounds, marks
<1>4. Sorted(s)'
  BY <1>0, <1>1, NoneApart
     DEF Good, PrepareFails, At, RunIs, StatusIs, SessIs, WritesOne,
         outside, bounds, marks, Sorted, Busy, AcpSteps, TerminalSteps,
         Writers
<1>5. Steps(s)' /\ Follows(s)' /\ Begins(s)'
  BY <1>0, <1>1, NoneApart
     DEF Good, PrepareFails, At, RunIs, StatusIs, SessIs, WritesOne,
         outside, bounds, marks, Steps, Decided, Follows, Open, Outcomes,
         Ended, Begins, Before, Live, Sorted, AcpSteps, TerminalSteps
<1>6. Marked(s)' /\ Heeds(s)'
  BY <1>0, <1>1, NoneApart
     DEF Good, PrepareFails, At, RunIs, StatusIs, SessIs, WritesOne,
         outside, bounds, marks, Marked, Open, Before, Heeds, Decided,
         Outcomes, Ended, Begins, Live, Sorted, AcpSteps, TerminalSteps
<1>7. Reports(s)' /\ Shows(s)'
  BY <1>0, <1>1, NoneApart
     DEF Good, PrepareFails, At, RunIs, StatusIs, SessIs, WritesOne,
         outside, bounds, marks, Reports, Open, Outcomes, Ended, Shows,
         Steps, Decided, Follows, Begins, Before, Live, Sorted, AcpSteps,
         TerminalSteps
<1>8. Speaks(s)'
  BY <1>0, <1>1, NoneApart
     DEF Good, PrepareFails, At, RunIs, StatusIs, SessIs, WritesOne,
         outside, bounds, marks, Speaks, Unstopped, Outcomes, Steps,
         Decided, Begins, Before, Live, Sorted, AcpSteps, TerminalSteps
<1>9. Stores(s)'
  BY <1>0, <1>1, StoresKept
     DEF Good, PrepareFails, At, RunIs, StatusIs, SessIs, WritesOne,
         outside, bounds, marks, Writers, Status, Ended, Live
<1> QED
  BY <1>2, <1>3, <1>4, <1>5, <1>6, <1>7, <1>8, <1>9, OnlyOne DEF Good

LEMMA ConnectFailsKeeps ==
  ASSUME IInv, NEW s \in Sessions, ConnectFails(s)
  PROVE  IInv'
<1>0. Typed /\ Sorted(s) /\ Good(s) /\ kind[s] \in {"acp", "terminal"}
  BY TypeParts, Kinded DEF IInv
<1>1. /\ RunIs(s, "release", run[s].early, run[s].result,
         "failed", run[s].told, "comment")
      /\ StatusIs(s, "runner", "failed")
  BY <1>0, EndsFacts DEF ConnectFails, Pcs, Ended, Words
<1>2. Typed'
  BY <1>0, <1>1
     DEF ConnectFails, Typed, RunIs, StatusIs, SessIs, WritesOne, outside,
         bounds, marks, Status, Live
<1>3. Alone(s)
  BY <1>0, <1>1
     DEF ConnectFails, Alone, Untouched, RunIs, StatusIs, SessIs, WritesOne,
         outside, bounds, marks
<1>4. Sorted(s)'
  BY <1>0, <1>1, NoneApart
     DEF Good, ConnectFails, At, RunIs, StatusIs, SessIs, WritesOne,
         outside, bounds, marks, Sorted, Busy, AcpSteps, TerminalSteps,
         Writers
<1>5. Steps(s)' /\ Follows(s)' /\ Begins(s)'
  BY <1>0, <1>1, NoneApart
     DEF Good, ConnectFails, At, RunIs, StatusIs, SessIs, WritesOne,
         outside, bounds, marks, Steps, Decided, Follows, Open, Outcomes,
         Ended, Begins, Before, Live, Sorted, AcpSteps, TerminalSteps
<1>6. Marked(s)' /\ Heeds(s)'
  BY <1>0, <1>1, NoneApart
     DEF Good, ConnectFails, At, RunIs, StatusIs, SessIs, WritesOne,
         outside, bounds, marks, Marked, Open, Before, Heeds, Decided,
         Outcomes, Ended, Begins, Live, Sorted, AcpSteps, TerminalSteps
<1>7. Reports(s)' /\ Shows(s)'
  BY <1>0, <1>1, NoneApart
     DEF Good, ConnectFails, At, RunIs, StatusIs, SessIs, WritesOne,
         outside, bounds, marks, Reports, Open, Outcomes, Ended, Shows,
         Steps, Decided, Follows, Begins, Before, Live, Sorted, AcpSteps,
         TerminalSteps
<1>8. Speaks(s)'
  BY <1>0, <1>1, NoneApart
     DEF Good, ConnectFails, At, RunIs, StatusIs, SessIs, WritesOne,
         outside, bounds, marks, Speaks, Unstopped, Outcomes, Steps,
         Decided, Begins, Before, Live, Sorted, AcpSteps, TerminalSteps
<1>9. Stores(s)'
  BY <1>0, <1>1, StoresKept
     DEF Good, ConnectFails, At, RunIs, StatusIs, SessIs, WritesOne,
         outside, bounds, marks, Writers, Status, Ended, Live
<1> QED
  BY <1>2, <1>3, <1>4, <1>5, <1>6, <1>7, <1>8, <1>9, OnlyOne DEF Good

LEMMA OpenFailsKeeps ==
  ASSUME IInv, NEW s \in Sessions, OpenFails(s)
  PROVE  IInv'
<1>0. Typed /\ Sorted(s) /\ Good(s) /\ kind[s] \in {"acp", "terminal"}
  BY TypeParts, Kinded DEF IInv
<1>1. /\ RunIs(s, "release", run[s].early, run[s].result,
         "failed", run[s].told, "comment")
      /\ StatusIs(s, "runner", "failed")
  BY <1>0, EndsFacts DEF OpenFails, Pcs, Ended, Words
<1>2. Typed'
  BY <1>0, <1>1
     DEF OpenFails, Typed, RunIs, StatusIs, SessIs, WritesOne, outside,
         bounds, marks, Status, Live
<1>3. Alone(s)
  BY <1>0, <1>1
     DEF OpenFails, Alone, Untouched, RunIs, StatusIs, SessIs, WritesOne,
         outside, bounds, marks
<1>4. Sorted(s)'
  BY <1>0, <1>1, NoneApart
     DEF Good, OpenFails, At, RunIs, StatusIs, SessIs, WritesOne, outside,
         bounds, marks, Sorted, Busy, AcpSteps, TerminalSteps, Writers
<1>5. Steps(s)' /\ Follows(s)' /\ Begins(s)'
  BY <1>0, <1>1, NoneApart
     DEF Good, OpenFails, At, RunIs, StatusIs, SessIs, WritesOne, outside,
         bounds, marks, Steps, Decided, Follows, Open, Outcomes, Ended,
         Begins, Before, Live, Sorted, AcpSteps, TerminalSteps
<1>6. Marked(s)' /\ Heeds(s)'
  BY <1>0, <1>1, NoneApart
     DEF Good, OpenFails, At, RunIs, StatusIs, SessIs, WritesOne, outside,
         bounds, marks, Marked, Open, Before, Heeds, Decided, Outcomes,
         Ended, Begins, Live, Sorted, AcpSteps, TerminalSteps
<1>7. Reports(s)' /\ Shows(s)'
  BY <1>0, <1>1, NoneApart
     DEF Good, OpenFails, At, RunIs, StatusIs, SessIs, WritesOne, outside,
         bounds, marks, Reports, Open, Outcomes, Ended, Shows, Steps,
         Decided, Follows, Begins, Before, Live, Sorted, AcpSteps,
         TerminalSteps
<1>8. Speaks(s)'
  BY <1>0, <1>1, NoneApart
     DEF Good, OpenFails, At, RunIs, StatusIs, SessIs, WritesOne, outside,
         bounds, marks, Speaks, Unstopped, Outcomes, Steps, Decided, Begins,
         Before, Live, Sorted, AcpSteps, TerminalSteps
<1>9. Stores(s)'
  BY <1>0, <1>1, StoresKept
     DEF Good, OpenFails, At, RunIs, StatusIs, SessIs, WritesOne, outside,
         bounds, marks, Writers, Status, Ended, Live
<1> QED
  BY <1>2, <1>3, <1>4, <1>5, <1>6, <1>7, <1>8, <1>9, OnlyOne DEF Good

LEMMA TakeSlotKeeps ==
  ASSUME IInv, NEW s \in Sessions, TakeSlot(s)
  PROVE  IInv'
<1>0. Typed /\ Sorted(s) /\ Good(s) /\ kind[s] \in {"acp", "terminal"}
  BY TypeParts, Kinded DEF IInv
<1>1. RunIs(s, "turn", run[s].early, run[s].result,
      run[s].verdict, run[s].told, run[s].said)
  BY <1>0, RunGoes DEF TakeSlot, Pcs, AcpSteps, TerminalSteps
<1>2. Typed'
  BY <1>0, <1>1
     DEF TakeSlot, Typed, RunIs, outside, history, bounds, Status, Live
<1>3. Alone(s)
  BY <1>0, <1>1
     DEF TakeSlot, Alone, Untouched, RunIs, outside, history, bounds
<1>4. Sorted(s)'
  BY <1>0, <1>1, NoneApart
     DEF Good, TakeSlot, At, RunIs, outside, history, bounds, Sorted, Busy,
         AcpSteps, TerminalSteps, Writers
<1>5. Steps(s)' /\ Follows(s)' /\ Begins(s)'
  BY <1>0, <1>1, NoneApart
     DEF Good, TakeSlot, At, RunIs, outside, history, bounds, Steps,
         Decided, Follows, Open, Outcomes, Ended, Begins, Before, Live,
         Sorted, AcpSteps, TerminalSteps
<1>6. Marked(s)' /\ Heeds(s)'
  BY <1>0, <1>1, NoneApart
     DEF Good, TakeSlot, At, RunIs, outside, history, bounds, Marked, Open,
         Before, Heeds, Decided, Outcomes, Ended, Begins, Live, Sorted,
         AcpSteps, TerminalSteps
<1>7. Reports(s)' /\ Shows(s)'
  BY <1>0, <1>1, NoneApart
     DEF Good, TakeSlot, At, RunIs, outside, history, bounds, Reports, Open,
         Outcomes, Ended, Shows, Steps, Decided, Follows, Begins, Before,
         Live, Sorted, AcpSteps, TerminalSteps
<1>8. Speaks(s)'
  BY <1>0, <1>1, NoneApart
     DEF Good, TakeSlot, At, RunIs, outside, history, bounds, Speaks,
         Unstopped, Outcomes, Steps, Decided, Begins, Before, Live, Sorted,
         AcpSteps, TerminalSteps
<1>9. Stores(s)'
  BY <1>0, <1>1, NoneApart
     DEF Good, TakeSlot, At, RunIs, outside, history, bounds, Stores, Busy,
         Quiet, Live, Begins, Ended, Status, Before, Decided
<1> QED
  BY <1>2, <1>3, <1>4, <1>5, <1>6, <1>7, <1>8, <1>9, OnlyOne DEF Good

LEMMA ConnectKeeps ==
  ASSUME IInv, NEW s \in Sessions, Connect(s)
  PROVE  IInv'
<1>0. Typed /\ Sorted(s) /\ Good(s) /\ kind[s] \in {"acp", "terminal"}
  BY TypeParts, Kinded DEF IInv
<1>1. RunIs(s, "slot", run[s].early, run[s].result,
      run[s].verdict, run[s].told, run[s].said)
  BY <1>0, RunGoes DEF Connect, Pcs, AcpSteps, TerminalSteps
<1>2. Typed'
  BY <1>0, <1>1
     DEF Connect, Typed, RunIs, outside, history, bounds, Status, Live
<1>3. Alone(s)
  BY <1>0, <1>1
     DEF Connect, Alone, Untouched, RunIs, outside, history, bounds
<1>4. Sorted(s)'
  BY <1>0, <1>1, NoneApart
     DEF Good, Connect, At, RunIs, outside, history, bounds, Sorted, Busy,
         AcpSteps, TerminalSteps, Writers
<1>5. Steps(s)' /\ Follows(s)' /\ Begins(s)'
  BY <1>0, <1>1, NoneApart
     DEF Good, Connect, At, RunIs, outside, history, bounds, Steps, Decided,
         Follows, Open, Outcomes, Ended, Begins, Before, Live, Sorted,
         AcpSteps, TerminalSteps
<1>6. Marked(s)' /\ Heeds(s)'
  BY <1>0, <1>1, NoneApart
     DEF Good, Connect, At, RunIs, outside, history, bounds, Marked, Open,
         Before, Heeds, Decided, Outcomes, Ended, Begins, Live, Sorted,
         AcpSteps, TerminalSteps
<1>7. Reports(s)' /\ Shows(s)'
  BY <1>0, <1>1, NoneApart
     DEF Good, Connect, At, RunIs, outside, history, bounds, Reports, Open,
         Outcomes, Ended, Shows, Steps, Decided, Follows, Begins, Before,
         Live, Sorted, AcpSteps, TerminalSteps
<1>8. Speaks(s)'
  BY <1>0, <1>1, NoneApart
     DEF Good, Connect, At, RunIs, outside, history, bounds, Speaks,
         Unstopped, Outcomes, Steps, Decided, Begins, Before, Live, Sorted,
         AcpSteps, TerminalSteps
<1>9. Stores(s)'
  BY <1>0, <1>1, NoneApart
     DEF Good, Connect, At, RunIs, outside, history, bounds, Stores, Busy,
         Quiet, Live, Begins, Ended, Status, Before, Decided
<1> QED
  BY <1>2, <1>3, <1>4, <1>5, <1>6, <1>7, <1>8, <1>9, OnlyOne DEF Good

LEMMA JudgeKeeps ==
  ASSUME IInv, NEW s \in Sessions, Judge(s)
  PROVE  IInv'
<1>0. Typed /\ Sorted(s) /\ Good(s) /\ kind[s] \in {"acp", "terminal"}
  BY TypeParts, Kinded DEF IInv
<1>1a. PICK v \in Verdicts :
       /\ v = (IF down THEN None ELSE IF sess[s].sent THEN "cancelled"
               ELSE IF run[s].result = "error" THEN "failed" ELSE "done")
       /\ RunIs(s, "conclude", run[s].early, run[s].result,
                v, run[s].told, run[s].said)
  BY <1>0, RunJudged DEF Judge, Verdicts, Ended
<1>1b. (v = None => down) /\ (v \in Outcomes => ~sess[s].sent)
      /\ (~down /\ ~sess[s].sent => v \in Outcomes)
  BY <1>1a, NoneApart DEF Outcomes, Status, Ended
<1>2. Typed'
  BY <1>0, <1>1a, <1>1b
     DEF Judge, Typed, RunIs, outside, history, bounds, Status, Live
<1>3. Alone(s)
  BY <1>0, <1>1a, <1>1b
     DEF Judge, Alone, Untouched, RunIs, outside, history, bounds
<1>4. Sorted(s)'
  BY <1>0, <1>1a, <1>1b, NoneApart
     DEF Good, Judge, At, RunIs, outside, history, bounds, Sorted, Busy,
         AcpSteps, TerminalSteps, Writers
<1>5. Steps(s)' /\ Follows(s)' /\ Begins(s)'
  BY <1>0, <1>1a, <1>1b, NoneApart
     DEF Good, Judge, At, RunIs, outside, history, bounds, Steps, Decided,
         Follows, Open, Outcomes, Ended, Begins, Before, Live, Sorted,
         AcpSteps, TerminalSteps
<1>6. Marked(s)' /\ Heeds(s)'
  <2>1. /\ UNCHANGED <<kind, sess, call, heeded, down>>
        /\ run[s].pc = "judge" /\ kind[s] = "acp"
    BY <1>0 DEF Judge, At, Sorted, history, outside, AcpSteps
  <2> QED
    BY <1>0, <1>1a, <1>1b, <2>1, NoneApart
       DEF Good, RunIs, Marked, Open, Before, Heeds, Decided, Outcomes,
           Steps
<1>7. Reports(s)' /\ Shows(s)'
  BY <1>0, <1>1a, <1>1b, NoneApart
     DEF Good, Judge, At, RunIs, outside, history, bounds, Reports, Open,
         Outcomes, Ended, Shows, Steps, Decided, Follows, Begins, Before,
         Live, Sorted, AcpSteps, TerminalSteps
<1>8. Speaks(s)'
  BY <1>0, <1>1a, <1>1b, NoneApart
     DEF Good, Judge, At, RunIs, outside, history, bounds, Speaks,
         Unstopped, Outcomes, Steps, Decided, Begins, Before, Live, Sorted,
         AcpSteps, TerminalSteps
<1>9. Stores(s)'
  BY <1>0, <1>1a, <1>1b, NoneApart
     DEF Good, Judge, At, RunIs, outside, history, bounds, Stores, Busy,
         Quiet, Live, Begins, Ended, Status, Before, Decided
<1> QED
  BY <1>2, <1>3, <1>4, <1>5, <1>6, <1>7, <1>8, <1>9, OnlyOne DEF Good

\* Nobody's step: nothing of a session changes.
LEMMA NoOnes ==
  ASSUME IInv, Typed', kind' = kind, down' = down,
         \A u \in Sessions : Untouched(u)
  PROVE  IInv'
<1>1. \A u \in Sessions : Good(u)' /\ Sorted(u)'
  BY GoodKept, TypeParts DEF IInv
<1> QED
  BY <1>1, TypePartsNext DEF IInv

LEMMA StartDownKeeps ==
  ASSUME IInv, NEW s \in Sessions, down, Start(s)
  PROVE  IInv'
<1>0. Typed /\ Sorted(s) /\ Good(s) /\ kind[s] \in {"acp", "terminal"}
  BY TypeParts, Kinded DEF IInv
<1>1. /\ RunIs(s, "release", run[s].early, run[s].result,
         "cancelled", run[s].told, None)
      /\ StatusIs(s, "runner", "cancelled")
  BY <1>0, EndsFacts DEF Start, Pcs, Ended, Words
<1>2. Typed'
  BY <1>0, <1>1
     DEF Start, Typed, RunIs, StatusIs, SessIs, WritesOne, outside, bounds,
         marks, Status, Live
<1>3. Alone(s)
  BY <1>0, <1>1
     DEF Start, Alone, Untouched, RunIs, StatusIs, SessIs, WritesOne,
         outside, bounds, marks
<1>4. Sorted(s)'
  BY <1>0, <1>1, NoneApart
     DEF Good, Start, At, RunIs, StatusIs, SessIs, WritesOne, outside,
         bounds, marks, Sorted, Busy, AcpSteps, TerminalSteps, Writers
<1>5. Steps(s)' /\ Follows(s)' /\ Begins(s)'
  BY <1>0, <1>1, NoneApart
     DEF Good, Start, At, RunIs, StatusIs, SessIs, WritesOne, outside,
         bounds, marks, Steps, Decided, Follows, Open, Outcomes, Ended,
         Begins, Before, Live, Sorted, AcpSteps, TerminalSteps
<1>6. Marked(s)' /\ Heeds(s)'
  BY <1>0, <1>1, NoneApart
     DEF Good, Start, At, RunIs, StatusIs, SessIs, WritesOne, outside,
         bounds, marks, Marked, Open, Before, Heeds, Decided, Outcomes,
         Ended, Begins, Live, Sorted, AcpSteps, TerminalSteps
<1>7. Reports(s)' /\ Shows(s)'
  BY <1>0, <1>1, NoneApart
     DEF Good, Start, At, RunIs, StatusIs, SessIs, WritesOne, outside,
         bounds, marks, Reports, Open, Outcomes, Ended, Shows, Steps,
         Decided, Follows, Begins, Before, Live, Sorted, AcpSteps,
         TerminalSteps
<1>8. Speaks(s)'
  BY <1>0, <1>1, NoneApart
     DEF Good, Start, At, RunIs, StatusIs, SessIs, WritesOne, outside,
         bounds, marks, Speaks, Unstopped, Outcomes, Steps, Decided, Begins,
         Before, Live, Sorted, AcpSteps, TerminalSteps
<1>9. Stores(s)'
  BY <1>0, <1>1, StoresKept
     DEF Good, Start, At, RunIs, StatusIs, SessIs, WritesOne, outside,
         bounds, marks, Writers, Status, Ended, Live
<1> QED
  BY <1>2, <1>3, <1>4, <1>5, <1>6, <1>7, <1>8, <1>9, OnlyOne DEF Good

LEMMA StartUpKeeps ==
  ASSUME IInv, NEW s \in Sessions, ~down, Start(s)
  PROVE  IInv'
<1>0. Typed /\ Sorted(s) /\ Good(s) /\ kind[s] \in {"acp", "terminal"}
  BY TypeParts, Kinded DEF IInv
<1>1a. RunIs(s, "prepare", run[s].early, run[s].result,
      run[s].verdict, run[s].told, run[s].said)
  BY <1>0, RunGoes DEF Start, Pcs
<1>1b. UNCHANGED <<sess, writing, crossed>>
  BY <1>0 DEF Start, KeepsStatus
<1>2. Typed'
  BY <1>0, <1>1a, <1>1b
     DEF Start, Typed, RunIs, outside, bounds, marks, Status, Live
<1>3. Alone(s)
  BY <1>0, <1>1a, <1>1b
     DEF Start, Alone, Untouched, RunIs, outside, bounds, marks
<1>4. Sorted(s)'
  BY <1>0, <1>1a, <1>1b, NoneApart
     DEF Good, Start, At, RunIs, outside, bounds, marks, Sorted, Busy,
         AcpSteps, TerminalSteps, Writers
<1>5. Steps(s)' /\ Follows(s)' /\ Begins(s)'
  BY <1>0, <1>1a, <1>1b, NoneApart
     DEF Good, Start, At, RunIs, outside, bounds, marks, Steps, Decided,
         Follows, Open, Outcomes, Ended, Begins, Before, Live, Sorted,
         AcpSteps, TerminalSteps
<1>6. Marked(s)' /\ Heeds(s)'
  BY <1>0, <1>1a, <1>1b, NoneApart
     DEF Good, Start, At, RunIs, outside, bounds, marks, Marked, Open,
         Before, Heeds, Decided, Outcomes, Ended, Begins, Live, Sorted,
         AcpSteps, TerminalSteps
<1>7. Reports(s)' /\ Shows(s)'
  BY <1>0, <1>1a, <1>1b, NoneApart
     DEF Good, Start, At, RunIs, outside, bounds, marks, Reports, Open,
         Outcomes, Ended, Shows, Steps, Decided, Follows, Begins, Before,
         Live, Sorted, AcpSteps, TerminalSteps
<1>8. Speaks(s)'
  BY <1>0, <1>1a, <1>1b, NoneApart
     DEF Good, Start, At, RunIs, outside, bounds, marks, Speaks, Unstopped,
         Outcomes, Steps, Decided, Begins, Before, Live, Sorted, AcpSteps,
         TerminalSteps
<1>9. Stores(s)'
  BY <1>0, <1>1a, <1>1b, NoneApart
     DEF Good, Start, At, RunIs, outside, bounds, marks, Stores, Busy,
         Quiet, Live, Begins, Ended, Status, Before, Decided
<1> QED
  BY <1>2, <1>3, <1>4, <1>5, <1>6, <1>7, <1>8, <1>9, OnlyOne DEF Good

LEMMA PrepareKeeps ==
  ASSUME IInv, NEW s \in Sessions, Prepare(s)
  PROVE  IInv'
<1>0. Typed /\ Sorted(s) /\ Good(s) /\ kind[s] \in {"acp", "terminal"}
  BY TypeParts, Kinded DEF IInv
<1>1a. PICK p \in {"connect", "open"} :
       /\ p = (IF kind[s] = "acp" THEN "connect" ELSE "open")
       /\ RunIs(s, p, run[s].early, run[s].result,
                run[s].verdict, run[s].told, run[s].said)
  BY <1>0, RunGoes DEF Prepare, Pcs, AcpSteps, TerminalSteps
<1>1b. stored' \in [Sessions -> Status] /\ stored'[s] = "running"
      /\ \A u \in Sessions \ {s} : stored'[u] = stored[u]
  BY <1>0 DEF Prepare, Typed, Status, Live
<1>2. Typed'
  BY <1>0, <1>1a, <1>1b
     DEF Prepare, Typed, RunIs, outside, history, bounds, Status, Live
<1>3. Alone(s)
  BY <1>0, <1>1a, <1>1b
     DEF Prepare, Alone, Untouched, RunIs, outside, history, bounds
<1>4. Sorted(s)'
  BY <1>0, <1>1a, <1>1b, NoneApart
     DEF Good, Prepare, At, RunIs, outside, history, bounds, Sorted, Busy,
         AcpSteps, TerminalSteps, Writers
<1>5. Steps(s)' /\ Follows(s)' /\ Begins(s)'
  BY <1>0, <1>1a, <1>1b, NoneApart
     DEF Good, Prepare, At, RunIs, outside, history, bounds, Steps, Decided,
         Follows, Open, Outcomes, Ended, Begins, Before, Live, Sorted,
         AcpSteps, TerminalSteps
<1>6. Marked(s)' /\ Heeds(s)'
  BY <1>0, <1>1a, <1>1b, NoneApart
     DEF Good, Prepare, At, RunIs, outside, history, bounds, Marked, Open,
         Before, Heeds, Decided, Outcomes, Ended, Begins, Live, Sorted,
         AcpSteps, TerminalSteps
<1>7. Reports(s)' /\ Shows(s)'
  BY <1>0, <1>1a, <1>1b, NoneApart
     DEF Good, Prepare, At, RunIs, outside, history, bounds, Reports, Open,
         Outcomes, Ended, Shows, Steps, Decided, Follows, Begins, Before,
         Live, Sorted, AcpSteps, TerminalSteps
<1>8. Speaks(s)'
  BY <1>0, <1>1a, <1>1b, NoneApart
     DEF Good, Prepare, At, RunIs, outside, history, bounds, Speaks,
         Unstopped, Outcomes, Steps, Decided, Begins, Before, Live, Sorted,
         AcpSteps, TerminalSteps
<1>9. Stores(s)'
  BY <1>0, <1>1a, <1>1b, NoneApart
     DEF Good, Prepare, At, RunIs, outside, history, bounds, Stores, Busy,
         Quiet, Live, Begins, Ended, Status, Before, Decided
<1> QED
  BY <1>2, <1>3, <1>4, <1>5, <1>6, <1>7, <1>8, <1>9, OnlyOne DEF Good

LEMMA SlotWaitEndsKeeps ==
  ASSUME IInv, NEW s \in Sessions, SlotWaitEnds(s)
  PROVE  IInv'
<1>0. Typed /\ Sorted(s) /\ Good(s) /\ kind[s] \in {"acp", "terminal"}
  BY TypeParts, Kinded DEF IInv
<1>1. RunIs(s, "judge", run[s].early, "error",
      run[s].verdict, run[s].told, run[s].said)
  BY <1>0, RunLearns DEF SlotWaitEnds, Pcs, AcpSteps, TerminalSteps, Results
<1>2. Typed'
  BY <1>0, <1>1
     DEF SlotWaitEnds, Typed, RunIs, outside, history, bounds, Status, Live
<1>3. Alone(s)
  BY <1>0, <1>1
     DEF SlotWaitEnds, Alone, Untouched, RunIs, outside, history, bounds
<1>4. Sorted(s)'
  BY <1>0, <1>1, NoneApart
     DEF Good, SlotWaitEnds, At, RunIs, outside, history, bounds, Sorted,
         Busy, AcpSteps, TerminalSteps, Writers
<1>5. Steps(s)' /\ Follows(s)' /\ Begins(s)'
  BY <1>0, <1>1, NoneApart
     DEF Good, SlotWaitEnds, At, RunIs, outside, history, bounds, Steps,
         Decided, Follows, Open, Outcomes, Ended, Begins, Before, Live,
         Sorted, AcpSteps, TerminalSteps
<1>6. Marked(s)' /\ Heeds(s)'
  BY <1>0, <1>1, NoneApart
     DEF Good, SlotWaitEnds, At, RunIs, outside, history, bounds, Marked,
         Open, Before, Heeds, Decided, Outcomes, Ended, Begins, Live,
         Sorted, AcpSteps, TerminalSteps
<1>7. Reports(s)' /\ Shows(s)'
  BY <1>0, <1>1, NoneApart
     DEF Good, SlotWaitEnds, At, RunIs, outside, history, bounds, Reports,
         Open, Outcomes, Ended, Shows, Steps, Decided, Follows, Begins,
         Before, Live, Sorted, AcpSteps, TerminalSteps
<1>8. Speaks(s)'
  BY <1>0, <1>1, NoneApart
     DEF Good, SlotWaitEnds, At, RunIs, outside, history, bounds, Speaks,
         Unstopped, Outcomes, Steps, Decided, Begins, Before, Live, Sorted,
         AcpSteps, TerminalSteps
<1>9. Stores(s)'
  BY <1>0, <1>1, NoneApart
     DEF Good, SlotWaitEnds, At, RunIs, outside, history, bounds, Stores,
         Busy, Quiet, Live, Begins, Ended, Status, Before, Decided
<1> QED
  BY <1>2, <1>3, <1>4, <1>5, <1>6, <1>7, <1>8, <1>9, OnlyOne DEF Good

LEMMA OthersKeep ==
  ASSUME IInv, OtherTakes \/ OtherLeaves
  PROVE  IInv'
<1>1. Typed
  BY TypeParts DEF IInv
<1>2. Cardinality(Holding) \in Nat
  BY SessionLifeAssumption, FS_Subset, FS_CardinalityType DEF Holding
<1>3. Typed'
  BY <1>1, <1>2, SessionLifeAssumption
     DEF OtherTakes, OtherLeaves, Typed, history, bounds
<1>4. kind' = kind /\ down' = down /\ \A u \in Sessions : Untouched(u)
  BY DEF OtherTakes, OtherLeaves, Untouched, history, bounds
<1> QED
  BY <1>3, <1>4, NoOnes

LEMMA StoresWritten ==
  ASSUME NEW s \in Sessions, NEW g \in Writers, NEW v \in Status,
         WritesOne(s, g, v), sess'[s].status = v,
         run'[s].pc \notin {"start", "prepare", "connect"}
  PROVE  Stores(s)'
<1>1. SUFFICES ASSUME s \notin crossed'
               PROVE  Stores(s)'
  BY DEF Stores
<1>2. \A h \in Writers : ~Busy(s, h)
  BY <1>1 DEF WritesOne, Quiet
<1>3. \A h \in Writers : Busy(s, h)' => h = g
  BY <1>2 DEF WritesOne, Busy
<1>4. ~Quiet(s)' /\ writing'[s][g] = v
  BY NoneApart DEF WritesOne, Quiet, Busy
<1> QED
  BY <1>3, <1>4 DEF Stores

LEMMA RunTold ==
  ASSUME Typed, NEW s \in Sessions, NEW o \in Tolds,
         run' = [run EXCEPT ![s].pc = "over", ![s].told = o]
  PROVE  RunIs(s, "over", run[s].early, run[s].result, run[s].verdict,
               o, run[s].said)
<1> DEFINE r == [run[s] EXCEPT !.pc = "over", !.told = o]
<1>1. run[s] \in Run
  BY DEF Typed
<1>2. /\ r \in Run /\ r.pc = "over" /\ r.early = run[s].early
      /\ r.result = run[s].result /\ r.verdict = run[s].verdict
      /\ r.told = o /\ r.said = run[s].said
  BY <1>1 DEF Run, Pcs, Verdicts, Words, Results, Tolds
<1>3. run' = [run EXCEPT ![s] = r]
  OBVIOUS
<1> HIDE DEF r
<1> QED
  BY <1>2, <1>3, RunBecomes

LEMMA RunBegan ==
  ASSUME Typed, NEW s \in Sessions, NEW e \in BOOLEAN,
         run' = [run EXCEPT ![s].pc = "began", ![s].early = e]
  PROVE  RunIs(s, "began", e, run[s].result, run[s].verdict,
               run[s].told, run[s].said)
<1> DEFINE r == [run[s] EXCEPT !.pc = "began", !.early = e]
<1>1. run[s] \in Run
  BY DEF Typed
<1>2. /\ r \in Run /\ r.pc = "began" /\ r.early = e
      /\ r.result = run[s].result /\ r.verdict = run[s].verdict
      /\ r.told = run[s].told /\ r.said = run[s].said
  BY <1>1 DEF Run, Pcs, AcpSteps, Verdicts, Words, Results, Tolds
<1>3. run' = [run EXCEPT ![s] = r]
  OBVIOUS
<1> HIDE DEF r
<1> QED
  BY <1>2, <1>3, RunBecomes

LEMMA RunSays ==
  ASSUME Typed, NEW s \in Sessions, NEW w \in Words,
         run' = [run EXCEPT ![s].pc = "wind", ![s].said = w]
  PROVE  RunIs(s, "wind", run[s].early, run[s].result, run[s].verdict,
               run[s].told, w)
<1> DEFINE r == [run[s] EXCEPT !.pc = "wind", !.said = w]
<1>1. run[s] \in Run
  BY DEF Typed
<1>2. /\ r \in Run /\ r.pc = "wind" /\ r.early = run[s].early
      /\ r.result = run[s].result /\ r.verdict = run[s].verdict
      /\ r.told = run[s].told /\ r.said = w
  BY <1>1 DEF Run, Pcs, Verdicts, Words, Results, Tolds
<1>3. run' = [run EXCEPT ![s] = r]
  OBVIOUS
<1> HIDE DEF r
<1> QED
  BY <1>2, <1>3, RunBecomes

LEMMA ReleaseKeeps ==
  ASSUME IInv, NEW s \in Sessions, Release(s)
  PROVE  IInv'
<1>0. Typed /\ Sorted(s) /\ Good(s) /\ kind[s] \in {"acp", "terminal"}
  BY TypeParts, Kinded DEF IInv
<1>1. PICK o \in Tolds \ {None} :
       RunIs(s, "over", run[s].early, run[s].result,
             run[s].verdict, o, run[s].said)
  <2> DEFINE o == CASE sess[s].status = "done" -> "success"
                    [] sess[s].status = "failed" -> "failure"
                    [] OTHER -> "nothing"
  <2>1. o \in Tolds \ {None}
    BY NoneApart DEF Tolds
  <2>2. run' = [run EXCEPT ![s].pc = "over", ![s].told = o]
    BY DEF Release
  <2> HIDE DEF o
  <2> QED
    BY <1>0, <2>1, <2>2, RunTold
<1>2. Typed'
  BY <1>0, <1>1
     DEF Release, Typed, RunIs, outside, history, bounds, Status, Live
<1>3. Alone(s)
  BY <1>0, <1>1
     DEF Release, Alone, Untouched, RunIs, outside, history, bounds
<1>4. Sorted(s)'
  BY <1>0, <1>1, NoneApart
     DEF Good, Release, At, RunIs, outside, history, bounds, Sorted, Busy,
         AcpSteps, TerminalSteps, Writers
<1>5. Steps(s)' /\ Follows(s)' /\ Begins(s)'
  BY <1>0, <1>1, NoneApart
     DEF Good, Release, At, RunIs, outside, history, bounds, Steps, Decided,
         Follows, Open, Outcomes, Ended, Begins, Before, Live, Sorted,
         AcpSteps, TerminalSteps
<1>6. Marked(s)' /\ Heeds(s)'
  BY <1>0, <1>1, NoneApart
     DEF Good, Release, At, RunIs, outside, history, bounds, Marked, Open,
         Before, Heeds, Decided, Outcomes, Ended, Begins, Live, Sorted,
         AcpSteps, TerminalSteps
<1>7. Reports(s)' /\ Shows(s)'
  BY <1>0, <1>1, NoneApart
     DEF Good, Release, At, RunIs, outside, history, bounds, Reports, Open,
         Outcomes, Ended, Shows, Steps, Decided, Follows, Begins, Before,
         Live, Sorted, AcpSteps, TerminalSteps
<1>8. Speaks(s)'
  BY <1>0, <1>1, NoneApart
     DEF Good, Release, At, RunIs, outside, history, bounds, Speaks,
         Unstopped, Outcomes, Steps, Decided, Begins, Before, Live, Sorted,
         AcpSteps, TerminalSteps
<1>9. Stores(s)'
  BY <1>0, <1>1, NoneApart
     DEF Good, Release, At, RunIs, outside, history, bounds, Stores, Busy,
         Quiet, Live, Begins, Ended, Status, Before, Decided
<1> QED
  BY <1>2, <1>3, <1>4, <1>5, <1>6, <1>7, <1>8, <1>9, OnlyOne DEF Good

LEMMA TurnKeeps ==
  ASSUME IInv, NEW s \in Sessions, Turn(s)
  PROVE  IInv'
<1>0. Typed /\ Sorted(s) /\ Good(s) /\ kind[s] \in {"acp", "terminal"}
  BY TypeParts, Kinded DEF IInv
<1>1a. sess[s] \in Sess
  BY <1>0 DEF Typed
<1>1b. RunIs(s, "began", sess[s].pending, run[s].result,
      run[s].verdict, run[s].told, run[s].said)
  BY <1>0, <1>1a, RunBegan DEF Turn, Sess
<1>1c. SessIs(s, "running", sess[s].pending, FALSE, "live")
  <2> DEFINE r == [sess[s] EXCEPT !.ctx = "live", !.pending = FALSE,
                                  !.sent = sess[s].pending,
                                  !.status = "running"]
  <2>1. sess[s] \in Sess
    BY <1>0 DEF Typed
  <2>2. /\ r \in Sess /\ r.status = "running"
        /\ r.sent = sess[s].pending /\ r.pending = FALSE
        /\ r.ctx = "live"
    BY <2>1 DEF Sess, Status, Live, Contexts
  <2>3. sess' = [sess EXCEPT ![s] = r]
    BY <1>0 DEF Turn
  <2> HIDE DEF r
  <2> QED
    BY <1>0, <2>2, <2>3, SessBecomes
<1>1d. WritesOne(s, "runner", "running")
  BY <1>0, WritesFacts DEF Turn, Writers, Status, Live
<1>2. Typed'
  BY <1>0, <1>1a, <1>1b, <1>1c, <1>1d
     DEF Turn, Typed, RunIs, SessIs, WritesOne, outside, bounds, marks,
         Status, Live
<1>3. Alone(s)
  BY <1>0, <1>1a, <1>1b, <1>1c, <1>1d
     DEF Turn, Alone, Untouched, RunIs, SessIs, WritesOne, outside, bounds,
         marks
<1>4. Sorted(s)'
  BY <1>0, <1>1a, <1>1b, <1>1c, <1>1d, NoneApart
     DEF Good, Turn, At, RunIs, SessIs, WritesOne, outside, bounds, marks,
         Sorted, Busy, AcpSteps, TerminalSteps, Writers
<1>5. Steps(s)' /\ Follows(s)' /\ Begins(s)'
  BY <1>0, <1>1a, <1>1b, <1>1c, <1>1d, NoneApart
     DEF Good, Turn, At, RunIs, SessIs, WritesOne, outside, bounds, marks,
         Steps, Decided, Follows, Open, Outcomes, Ended, Begins, Before,
         Live, Sorted, AcpSteps, TerminalSteps
<1>6. Marked(s)' /\ Heeds(s)'
  BY <1>0, <1>1a, <1>1b, <1>1c, <1>1d, NoneApart
     DEF Good, Turn, At, RunIs, SessIs, WritesOne, outside, bounds, marks,
         Marked, Open, Before, Heeds, Decided, Outcomes, Ended, Begins,
         Live, Sorted, AcpSteps, TerminalSteps
<1>7. Reports(s)' /\ Shows(s)'
  BY <1>0, <1>1a, <1>1b, <1>1c, <1>1d, NoneApart
     DEF Good, Turn, At, RunIs, SessIs, WritesOne, outside, bounds, marks,
         Reports, Open, Outcomes, Ended, Shows, Steps, Decided, Follows,
         Begins, Before, Live, Sorted, AcpSteps, TerminalSteps
<1>8. Speaks(s)'
  BY <1>0, <1>1a, <1>1b, <1>1c, <1>1d, NoneApart
     DEF Good, Turn, At, RunIs, SessIs, WritesOne, outside, bounds, marks,
         Speaks, Unstopped, Outcomes, Steps, Decided, Begins, Before, Live,
         Sorted, AcpSteps, TerminalSteps
<1>9. Stores(s)'
  BY <1>0, <1>1b, <1>1c, <1>1d, StoresWritten
     DEF RunIs, SessIs, Writers, Status, Live
<1> QED
  BY <1>2, <1>3, <1>4, <1>5, <1>6, <1>7, <1>8, <1>9, OnlyOne DEF Good

LEMMA PromptKeeps ==
  ASSUME IInv, NEW s \in Sessions, Prompt(s)
  PROVE  IInv'
<1>0. Typed /\ Sorted(s) /\ Good(s) /\ kind[s] \in {"acp", "terminal"}
  BY TypeParts, Kinded DEF IInv
<1>1a. sess[s] \in Sess /\ run[s] \in Run
  BY <1>0 DEF Typed
<1>1b. RunIs(s, "prompt", run[s].early, run[s].result,
      run[s].verdict, run[s].told, run[s].said)
  BY <1>0, RunGoes DEF Prompt, Pcs, AcpSteps
<1>1c. PICK c \in Contexts :
       /\ c = "cancelled" \/ c = sess[s].ctx
       /\ ~run[s].early => c = sess[s].ctx
       /\ SessIs(s, sess[s].status, sess[s].sent, sess[s].pending, c)
  <2> DEFINE c == IF run[s].early THEN "cancelled" ELSE sess[s].ctx
             r == [sess[s] EXCEPT !.hook = "armed", !.ctx = c]
  <2>1. c \in Contexts
    BY <1>1a DEF Contexts, Sess
  <2>2. sess' = [sess EXCEPT ![s] = r]
    BY <1>0, <1>1a DEF Prompt, Typed, Sess
  <2> HIDE DEF c
  <2>3. /\ r \in Sess /\ r.status = sess[s].status /\ r.sent = sess[s].sent
        /\ r.pending = sess[s].pending /\ r.ctx = c
    BY <1>1a, <2>1 DEF Sess, Contexts
  <2> HIDE DEF r
  <2>4. SessIs(s, sess[s].status, sess[s].sent, sess[s].pending, c)
    BY <1>0, <2>2, <2>3, SessBecomes
  <2> QED
    BY <2>1, <2>4 DEF c
<1>2. Typed'
  BY <1>0, <1>1a, <1>1b, <1>1c
     DEF Prompt, Typed, RunIs, SessIs, outside, history, bounds, Status,
         Live
<1>3. Alone(s)
  BY <1>0, <1>1a, <1>1b, <1>1c
     DEF Prompt, Alone, Untouched, RunIs, SessIs, outside, history, bounds
<1>4. Sorted(s)'
  BY <1>0, <1>1a, <1>1b, <1>1c, NoneApart
     DEF Good, Prompt, At, RunIs, SessIs, outside, history, bounds, Sorted,
         Busy, AcpSteps, TerminalSteps, Writers
<1>5. Steps(s)' /\ Follows(s)' /\ Begins(s)'
  BY <1>0, <1>1a, <1>1b, <1>1c, NoneApart
     DEF Good, Prompt, At, RunIs, SessIs, outside, history, bounds, Steps,
         Decided, Follows, Open, Outcomes, Ended, Begins, Before, Live,
         Sorted, AcpSteps, TerminalSteps
<1>6. Marked(s)' /\ Heeds(s)'
  BY <1>0, <1>1a, <1>1b, <1>1c, NoneApart
     DEF Good, Prompt, At, RunIs, SessIs, outside, history, bounds, Marked,
         Open, Before, Heeds, Decided, Outcomes, Ended, Begins, Live,
         Sorted, AcpSteps, TerminalSteps
<1>7. Reports(s)' /\ Shows(s)'
  BY <1>0, <1>1a, <1>1b, <1>1c, NoneApart
     DEF Good, Prompt, At, RunIs, SessIs, outside, history, bounds, Reports,
         Open, Outcomes, Ended, Shows, Steps, Decided, Follows, Begins,
         Before, Live, Sorted, AcpSteps, TerminalSteps
<1>8. Speaks(s)'
  BY <1>0, <1>1a, <1>1b, <1>1c, NoneApart
     DEF Good, Prompt, At, RunIs, SessIs, outside, history, bounds, Speaks,
         Unstopped, Outcomes, Steps, Decided, Begins, Before, Live, Sorted,
         AcpSteps, TerminalSteps
<1>9. Stores(s)'
  BY <1>0, <1>1a, <1>1b, <1>1c, NoneApart
     DEF Good, Prompt, At, RunIs, SessIs, outside, history, bounds, Stores,
         Busy, Quiet, Live, Begins, Ended, Status, Before, Decided
<1> QED
  BY <1>2, <1>3, <1>4, <1>5, <1>6, <1>7, <1>8, <1>9, OnlyOne DEF Good

LEMMA ExpireKeeps ==
  ASSUME IInv, NEW s \in Sessions, Expire(s)
  PROVE  IInv'
<1>0. Typed /\ Sorted(s) /\ Good(s) /\ kind[s] \in {"acp", "terminal"}
  BY TypeParts, Kinded DEF IInv
<1>1. SessIs(s, sess[s].status, sess[s].sent, sess[s].pending, "expired")
  <2> DEFINE r == [sess[s] EXCEPT !.ctx = "expired"]
  <2>1. sess[s] \in Sess
    BY <1>0 DEF Typed
  <2>2. /\ r \in Sess /\ r.status = sess[s].status
        /\ r.sent = sess[s].sent /\ r.pending = sess[s].pending
        /\ r.ctx = "expired"
    BY <2>1 DEF Sess, Status, Live, Contexts
  <2>3. sess' = [sess EXCEPT ![s] = r]
    BY <1>0 DEF Expire
  <2> HIDE DEF r
  <2> QED
    BY <1>0, <2>2, <2>3, SessBecomes
<1>2. Typed'
  BY <1>0, <1>1
     DEF Expire, Typed, SessIs, outside, history, bounds, Status, Live
<1>3. Alone(s)
  BY <1>0, <1>1
     DEF Expire, Alone, Untouched, SessIs, outside, history, bounds
<1>4. Sorted(s)'
  BY <1>0, <1>1, NoneApart
     DEF Good, Expire, SessIs, outside, history, bounds, Sorted, Busy,
         AcpSteps, TerminalSteps, Writers
<1>5. Steps(s)' /\ Follows(s)' /\ Begins(s)'
  BY <1>0, <1>1, NoneApart
     DEF Good, Expire, SessIs, outside, history, bounds, Steps, Decided,
         Follows, Open, Outcomes, Ended, Begins, Before, Live, Sorted,
         AcpSteps, TerminalSteps
<1>6. Marked(s)' /\ Heeds(s)'
  BY <1>0, <1>1, NoneApart
     DEF Good, Expire, SessIs, outside, history, bounds, Marked, Open,
         Before, Heeds, Decided, Outcomes, Ended, Begins, Live, Sorted,
         AcpSteps, TerminalSteps
<1>7. Reports(s)' /\ Shows(s)'
  BY <1>0, <1>1, NoneApart
     DEF Good, Expire, SessIs, outside, history, bounds, Reports, Open,
         Outcomes, Ended, Shows, Steps, Decided, Follows, Begins, Before,
         Live, Sorted, AcpSteps, TerminalSteps
<1>8. Speaks(s)'
  BY <1>0, <1>1, NoneApart
     DEF Good, Expire, SessIs, outside, history, bounds, Speaks, Unstopped,
         Outcomes, Steps, Decided, Begins, Before, Live, Sorted, AcpSteps,
         TerminalSteps
<1>9. Stores(s)'
  BY <1>0, <1>1, NoneApart
     DEF Good, Expire, SessIs, outside, history, bounds, Stores, Busy,
         Quiet, Live, Begins, Ended, Status, Before, Decided
<1> QED
  BY <1>2, <1>3, <1>4, <1>5, <1>6, <1>7, <1>8, <1>9, OnlyOne DEF Good

LEMMA HookKeeps ==
  ASSUME IInv, NEW s \in Sessions, Hook(s)
  PROVE  IInv'
<1>0. Typed /\ Sorted(s) /\ Good(s) /\ kind[s] \in {"acp", "terminal"}
  BY TypeParts, Kinded DEF IInv
<1>1. SessIs(s, sess[s].status, TRUE, sess[s].pending, sess[s].ctx)
  <2> DEFINE r == [sess[s] EXCEPT !.hook = "off", !.sent = TRUE]
  <2>1. sess[s] \in Sess
    BY <1>0 DEF Typed
  <2>2. /\ r \in Sess /\ r.status = sess[s].status
        /\ r.sent = TRUE /\ r.pending = sess[s].pending
        /\ r.ctx = sess[s].ctx
    BY <2>1 DEF Sess, Status, Live, Contexts
  <2>3. sess' = [sess EXCEPT ![s] = r]
    BY <1>0 DEF Hook
  <2> HIDE DEF r
  <2> QED
    BY <1>0, <2>2, <2>3, SessBecomes
<1>2. Typed'
  BY <1>0, <1>1
     DEF Hook, Typed, CtxDone, SessIs, outside, history, bounds, Status,
         Live
<1>3. Alone(s)
  BY <1>0, <1>1
     DEF Hook, Alone, Untouched, CtxDone, SessIs, outside, history, bounds
<1>4. Sorted(s)'
  BY <1>0, <1>1, NoneApart
     DEF Good, Hook, CtxDone, SessIs, outside, history, bounds, Sorted,
         Busy, AcpSteps, TerminalSteps, Writers
<1>5. Steps(s)' /\ Follows(s)' /\ Begins(s)'
  BY <1>0, <1>1, NoneApart
     DEF Good, Hook, CtxDone, SessIs, outside, history, bounds, Steps,
         Decided, Follows, Open, Outcomes, Ended, Begins, Before, Live,
         Sorted, AcpSteps, TerminalSteps
<1>6. Marked(s)' /\ Heeds(s)'
  BY <1>0, <1>1, NoneApart
     DEF Good, Hook, CtxDone, SessIs, outside, history, bounds, Marked,
         Open, Before, Heeds, Decided, Outcomes, Ended, Begins, Live,
         Sorted, AcpSteps, TerminalSteps
<1>7. Reports(s)' /\ Shows(s)'
  BY <1>0, <1>1, NoneApart
     DEF Good, Hook, CtxDone, SessIs, outside, history, bounds, Reports,
         Open, Outcomes, Ended, Shows, Steps, Decided, Follows, Begins,
         Before, Live, Sorted, AcpSteps, TerminalSteps
<1>8. Speaks(s)'
  BY <1>0, <1>1, NoneApart
     DEF Good, Hook, CtxDone, SessIs, outside, history, bounds, Speaks,
         Unstopped, Outcomes, Steps, Decided, Begins, Before, Live, Sorted,
         AcpSteps, TerminalSteps
<1>9. Stores(s)'
  BY <1>0, <1>1, NoneApart
     DEF Good, Hook, CtxDone, SessIs, outside, history, bounds, Stores,
         Busy, Quiet, Live, Begins, Ended, Status, Before, Decided
<1> QED
  BY <1>2, <1>3, <1>4, <1>5, <1>6, <1>7, <1>8, <1>9, OnlyOne DEF Good

\* What becomes of the terminal: its watcher.
CliIs(s, w) ==
  /\ cli' \in [Sessions -> Cli]
  /\ cli'[s].watch = w
  /\ \A u \in Sessions \ {s} : cli'[u] = cli[u]

LEMMA CliBecomes ==
  ASSUME Typed, NEW s \in Sessions, NEW c \in Cli, cli' = [cli EXCEPT ![s] = c]
  PROVE  CliIs(s, c.watch)
  BY DEF Typed, CliIs

LEMMA PersistKeeps ==
  ASSUME IInv, NEW s \in Sessions, NEW g \in Writers, Persist(s, g)
  PROVE  IInv'
<1>0. Typed /\ Sorted(s) /\ Good(s) /\ kind[s] \in {"acp", "terminal"}
  BY TypeParts, Kinded DEF IInv
<1>1a. /\ stored' \in [Sessions -> Status] /\ stored'[s] = writing[s][g]
       /\ \A u \in Sessions \ {s} : stored'[u] = stored[u]
  BY <1>0 DEF Persist, Typed, Busy
<1>1b. /\ writing' \in [Sessions -> [Writers -> Status \cup {None}]]
       /\ writing'[s][g] = None
       /\ \A h \in Writers \ {g} : writing'[s][h] = writing[s][h]
       /\ \A u \in Sessions \ {s} : writing'[u] = writing[u]
  BY <1>0 DEF Persist, Typed
<1>2. Typed'
  BY <1>0, <1>1a, <1>1b
     DEF Persist, Typed, Busy, outside, history, bounds, Status, Live
<1>3. Alone(s)
  BY <1>0, <1>1a, <1>1b
     DEF Persist, Alone, Untouched, Busy, outside, history, bounds
<1>4. Sorted(s)'
  BY <1>0, <1>1a, <1>1b, NoneApart
     DEF Good, Persist, Busy, outside, history, bounds, Sorted, AcpSteps,
         TerminalSteps, Writers
<1>5. Steps(s)' /\ Follows(s)' /\ Begins(s)'
  BY <1>0, <1>1a, <1>1b, NoneApart
     DEF Good, Persist, Busy, outside, history, bounds, Steps, Decided,
         Follows, Open, Outcomes, Ended, Begins, Before, Live, Sorted,
         AcpSteps, TerminalSteps
<1>6. Marked(s)' /\ Heeds(s)'
  BY <1>0, <1>1a, <1>1b, NoneApart
     DEF Good, Persist, Busy, outside, history, bounds, Marked, Open,
         Before, Heeds, Decided, Outcomes, Ended, Begins, Live, Sorted,
         AcpSteps, TerminalSteps
<1>7. Reports(s)' /\ Shows(s)'
  BY <1>0, <1>1a, <1>1b, NoneApart
     DEF Good, Persist, Busy, outside, history, bounds, Reports, Open,
         Outcomes, Ended, Shows, Steps, Decided, Follows, Begins, Before,
         Live, Sorted, AcpSteps, TerminalSteps
<1>8. Speaks(s)'
  BY <1>0, <1>1a, <1>1b, NoneApart
     DEF Good, Persist, Busy, outside, history, bounds, Speaks, Unstopped,
         Outcomes, Steps, Decided, Begins, Before, Live, Sorted, AcpSteps,
         TerminalSteps
<1>9. Stores(s)'
  BY <1>0, <1>1a, <1>1b, NoneApart
     DEF Good, Persist, Busy, outside, history, bounds, Stores, Quiet, Live,
         Begins, Ended, Status, Before, Decided
<1> QED
  BY <1>2, <1>3, <1>4, <1>5, <1>6, <1>7, <1>8, <1>9, OnlyOne DEF Good

LEMMA PromptReturnsKeeps ==
  ASSUME IInv, NEW s \in Sessions, NEW r \in {"done", "error"},
         NEW mark \in BOOLEAN, PromptReturns(s, r, mark)
  PROVE  IInv'
<1>0. Typed /\ Sorted(s) /\ Good(s) /\ kind[s] \in {"acp", "terminal"}
  BY TypeParts, Kinded DEF IInv
<1>1a. RunIs(s, "judge", run[s].early, r, run[s].verdict, run[s].told,
             run[s].said)
  BY <1>0, RunLearns DEF PromptReturns, Pcs, AcpSteps, Results
<1>1b. SessIs(s, sess[s].status, sess[s].sent \/ mark, sess[s].pending,
              sess[s].ctx)
  <2>1. sess[s] \in Sess
    BY <1>0 DEF Typed
  <2>2. PICK h \in {"off"} \cup IF CtxDone(s) THEN {sess[s].hook} ELSE {} :
          sess' = [sess EXCEPT ![s].hook = h, ![s].sent = @ \/ mark]
    BY DEF PromptReturns
  <2> DEFINE r0 == [sess[s] EXCEPT !.hook = h, !.sent = sess[s].sent \/ mark]
  <2>3. /\ r0 \in Sess /\ r0.status = sess[s].status
        /\ r0.sent = (sess[s].sent \/ mark)
        /\ r0.pending = sess[s].pending /\ r0.ctx = sess[s].ctx
    BY <2>1, <2>2 DEF Sess
  <2>4. sess' = [sess EXCEPT ![s] = r0]
    BY <1>0, <2>2 DEF Typed
  <2> HIDE DEF r0
  <2> QED
    BY <1>0, <2>3, <2>4, SessBecomes
<1>1c. /\ stopped' \subseteq Sessions
       /\ (s \in stopped' <=> s \in stopped \/ mark)
       /\ \A u \in Sessions \ {s} : u \in stopped' <=> u \in stopped
  BY <1>0 DEF PromptReturns, Typed
<1>2. Typed'
  BY <1>0, <1>1a, <1>1b, <1>1c
     DEF PromptReturns, Typed, RunIs, SessIs, outside, bounds, Status, Live
<1>3. Alone(s)
  BY <1>0, <1>1a, <1>1b, <1>1c
     DEF PromptReturns, Alone, Untouched, RunIs, SessIs, outside, bounds
<1>4. Sorted(s)'
  BY <1>0, <1>1a, <1>1b, <1>1c, NoneApart
     DEF Good, PromptReturns, At, RunIs, SessIs, outside, bounds, Sorted,
         Busy, AcpSteps, TerminalSteps, Writers
<1>5. Steps(s)' /\ Follows(s)' /\ Begins(s)'
  BY <1>0, <1>1a, <1>1b, <1>1c, NoneApart
     DEF Good, PromptReturns, At, RunIs, SessIs, outside, bounds, Steps,
         Decided, Follows, Open, Outcomes, Ended, Begins, Before, Live,
         Sorted, AcpSteps, TerminalSteps
<1>6. Marked(s)' /\ Heeds(s)'
  BY <1>0, <1>1a, <1>1b, <1>1c, NoneApart
     DEF Good, PromptReturns, At, RunIs, SessIs, outside, bounds, Marked,
         Open, Before, Heeds, Decided, Outcomes, Ended, Begins, Live,
         Sorted, AcpSteps, TerminalSteps
<1>7. Reports(s)' /\ Shows(s)'
  BY <1>0, <1>1a, <1>1b, <1>1c, NoneApart
     DEF Good, PromptReturns, At, RunIs, SessIs, outside, bounds, Reports,
         Open, Outcomes, Ended, Shows, Steps, Decided, Follows, Begins,
         Before, Live, Sorted, AcpSteps, TerminalSteps
<1>8. Speaks(s)'
  BY <1>0, <1>1a, <1>1b, <1>1c, NoneApart
     DEF Good, PromptReturns, At, RunIs, SessIs, outside, bounds, Speaks,
         Unstopped, Outcomes, Steps, Decided, Begins, Before, Live, Sorted,
         AcpSteps, TerminalSteps
<1>9. Stores(s)'
  BY <1>0, <1>1a, <1>1b, <1>1c, NoneApart
     DEF Good, PromptReturns, At, RunIs, SessIs, outside, bounds, Stores,
         Busy, Quiet, Live, Begins, Ended, Status, Before, Decided
<1> QED
  BY <1>2, <1>3, <1>4, <1>5, <1>6, <1>7, <1>8, <1>9, OnlyOne DEF Good

LEMMA ConcludeDownKeeps ==
  ASSUME IInv, NEW s \in Sessions, run[s].verdict = None, Conclude(s)
  PROVE  IInv'
<1>0. Typed /\ Sorted(s) /\ Good(s) /\ kind[s] \in {"acp", "terminal"}
  BY TypeParts, Kinded DEF IInv
<1>1a. RunIs(s, "wind", run[s].early, run[s].result,
      run[s].verdict, run[s].told, run[s].said)
  BY <1>0, RunGoes DEF Conclude, Pcs
<1>1b. UNCHANGED <<sess, writing, crossed>>
  BY <1>0 DEF Conclude, KeepsStatus
<1>2. Typed'
  BY <1>0, <1>1a, <1>1b
     DEF Conclude, Typed, RunIs, outside, bounds, marks, Status, Live
<1>3. Alone(s)
  BY <1>0, <1>1a, <1>1b
     DEF Conclude, Alone, Untouched, RunIs, outside, bounds, marks
<1>4. Sorted(s)'
  BY <1>0, <1>1a, <1>1b, NoneApart
     DEF Good, Conclude, At, RunIs, outside, bounds, marks, Sorted, Busy,
         AcpSteps, TerminalSteps, Writers
<1>5. Steps(s)' /\ Follows(s)' /\ Begins(s)'
  BY <1>0, <1>1a, <1>1b, NoneApart
     DEF Good, Conclude, At, RunIs, outside, bounds, marks, Steps, Decided,
         Follows, Open, Outcomes, Ended, Begins, Before, Live, Sorted,
         AcpSteps, TerminalSteps
<1>6. Marked(s)' /\ Heeds(s)'
  BY <1>0, <1>1a, <1>1b, NoneApart
     DEF Good, Conclude, At, RunIs, outside, bounds, marks, Marked, Open,
         Before, Heeds, Decided, Outcomes, Ended, Begins, Live, Sorted,
         AcpSteps, TerminalSteps
<1>7. Reports(s)' /\ Shows(s)'
  BY <1>0, <1>1a, <1>1b, NoneApart
     DEF Good, Conclude, At, RunIs, outside, bounds, marks, Reports, Open,
         Outcomes, Ended, Shows, Steps, Decided, Follows, Begins, Before,
         Live, Sorted, AcpSteps, TerminalSteps
<1>8. Speaks(s)'
  BY <1>0, <1>1a, <1>1b, NoneApart
     DEF Good, Conclude, At, RunIs, outside, bounds, marks, Speaks,
         Unstopped, Outcomes, Steps, Decided, Begins, Before, Live, Sorted,
         AcpSteps, TerminalSteps
<1>9. Stores(s)'
  BY <1>0, <1>1a, <1>1b, NoneApart
     DEF Good, Conclude, At, RunIs, outside, bounds, marks, Stores, Busy,
         Quiet, Live, Begins, Ended, Status, Before, Decided
<1> QED
  BY <1>2, <1>3, <1>4, <1>5, <1>6, <1>7, <1>8, <1>9, OnlyOne DEF Good

LEMMA ConcludeEndsKeeps ==
  ASSUME IInv, NEW s \in Sessions, run[s].verdict # None, Conclude(s)
  PROVE  IInv'
<1>0. Typed /\ Sorted(s) /\ Good(s) /\ kind[s] \in {"acp", "terminal"}
  BY TypeParts, Kinded DEF IInv
<1>1a. run[s] \in Run /\ run[s].verdict \in Ended
  BY <1>0 DEF Typed, Run, Ended
<1>1b. PICK w \in Words :
       /\ w = (IF run[s].verdict = "cancelled" THEN run[s].said ELSE "comment")
       /\ RunIs(s, "wind", run[s].early, run[s].result,
                run[s].verdict, run[s].told, w)
  BY <1>0, <1>1a, RunSays DEF Conclude, Words, Run
<1>1c. StatusIs(s, "runner", run[s].verdict)
  BY <1>0, <1>1a, FinishFacts DEF Conclude, Writers, Status
<1>2. Typed'
  BY <1>0, <1>1a, <1>1b, <1>1c
     DEF Conclude, Typed, RunIs, StatusIs, SessIs, WritesOne, outside,
         bounds, marks, Status, Live
<1>3. Alone(s)
  BY <1>0, <1>1a, <1>1b, <1>1c
     DEF Conclude, Alone, Untouched, RunIs, StatusIs, SessIs, WritesOne,
         outside, bounds, marks
<1>4. Sorted(s)'
  BY <1>0, <1>1a, <1>1b, <1>1c, NoneApart
     DEF Good, Conclude, At, RunIs, StatusIs, SessIs, WritesOne, outside,
         bounds, marks, Sorted, Busy, AcpSteps, TerminalSteps, Writers
<1>5. Steps(s)' /\ Follows(s)' /\ Begins(s)'
  BY <1>0, <1>1a, <1>1b, <1>1c, NoneApart
     DEF Good, Conclude, At, RunIs, StatusIs, SessIs, WritesOne, outside,
         bounds, marks, Steps, Decided, Follows, Open, Outcomes, Ended,
         Begins, Before, Live, Sorted, AcpSteps, TerminalSteps
<1>6. Marked(s)' /\ Heeds(s)'
  BY <1>0, <1>1a, <1>1b, <1>1c, NoneApart
     DEF Good, Conclude, At, RunIs, StatusIs, SessIs, WritesOne, outside,
         bounds, marks, Marked, Open, Before, Heeds, Decided, Outcomes,
         Ended, Begins, Live, Sorted, AcpSteps, TerminalSteps
<1>7. Reports(s)' /\ Shows(s)'
  BY <1>0, <1>1a, <1>1b, <1>1c, NoneApart
     DEF Good, Conclude, At, RunIs, StatusIs, SessIs, WritesOne, outside,
         bounds, marks, Reports, Open, Outcomes, Ended, Shows, Steps,
         Decided, Follows, Begins, Before, Live, Sorted, AcpSteps,
         TerminalSteps
<1>8. Speaks(s)'
  BY <1>0, <1>1a, <1>1b, <1>1c, NoneApart
     DEF Good, Conclude, At, RunIs, StatusIs, SessIs, WritesOne, outside,
         bounds, marks, Speaks, Unstopped, Outcomes, Steps, Decided, Begins,
         Before, Live, Sorted, AcpSteps, TerminalSteps
<1>9. Stores(s)'
  BY <1>0, <1>1a, <1>1b, <1>1c, StoresKept
     DEF Good, Conclude, At, RunIs, StatusIs, SessIs, WritesOne, outside,
         bounds, marks, Writers, Status, Ended, Live
<1> QED
  BY <1>2, <1>3, <1>4, <1>5, <1>6, <1>7, <1>8, <1>9, OnlyOne DEF Good

LEMMA WindUpKeeps ==
  ASSUME IInv, NEW s \in Sessions, ~down, Wind(s)
  PROVE  IInv'
<1>0. Typed /\ Sorted(s) /\ Good(s) /\ kind[s] \in {"acp", "terminal"}
  BY TypeParts, Kinded DEF IInv
<1>1a. RunIs(s, "release", run[s].early, run[s].result,
      run[s].verdict, run[s].told, run[s].said)
  BY <1>0, RunGoes DEF Wind, Pcs
<1>1b. UNCHANGED <<sess, writing, crossed>>
  BY <1>0 DEF Wind, KeepsStatus
<1>2. Typed'
  BY <1>0, <1>1a, <1>1b
     DEF Wind, Typed, RunIs, outside, bounds, marks, Status, Live
<1>3. Alone(s)
  BY <1>0, <1>1a, <1>1b
     DEF Wind, Alone, Untouched, RunIs, outside, bounds, marks
<1>4. Sorted(s)'
  BY <1>0, <1>1a, <1>1b, NoneApart
     DEF Good, Wind, At, RunIs, outside, bounds, marks, Sorted, Busy,
         AcpSteps, TerminalSteps, Writers
<1>5. Steps(s)' /\ Follows(s)' /\ Begins(s)'
  BY <1>0, <1>1a, <1>1b, NoneApart
     DEF Good, Wind, At, RunIs, outside, bounds, marks, Steps, Decided,
         Follows, Open, Outcomes, Ended, Begins, Before, Live, Sorted,
         AcpSteps, TerminalSteps
<1>6. Marked(s)' /\ Heeds(s)'
  BY <1>0, <1>1a, <1>1b, NoneApart
     DEF Good, Wind, At, RunIs, outside, bounds, marks, Marked, Open,
         Before, Heeds, Decided, Outcomes, Ended, Begins, Live, Sorted,
         AcpSteps, TerminalSteps
<1>7. Reports(s)' /\ Shows(s)'
  BY <1>0, <1>1a, <1>1b, NoneApart
     DEF Good, Wind, At, RunIs, outside, bounds, marks, Reports, Open,
         Outcomes, Ended, Shows, Steps, Decided, Follows, Begins, Before,
         Live, Sorted, AcpSteps, TerminalSteps
<1>8. Speaks(s)'
  BY <1>0, <1>1a, <1>1b, NoneApart
     DEF Good, Wind, At, RunIs, outside, bounds, marks, Speaks, Unstopped,
         Outcomes, Steps, Decided, Begins, Before, Live, Sorted, AcpSteps,
         TerminalSteps
<1>9. Stores(s)'
  BY <1>0, <1>1a, <1>1b, NoneApart
     DEF Good, Wind, At, RunIs, outside, bounds, marks, Stores, Busy, Quiet,
         Live, Begins, Ended, Status, Before, Decided
<1> QED
  BY <1>2, <1>3, <1>4, <1>5, <1>6, <1>7, <1>8, <1>9, OnlyOne DEF Good

LEMMA WindDownKeeps ==
  ASSUME IInv, NEW s \in Sessions, down, Wind(s)
  PROVE  IInv'
<1>0. Typed /\ Sorted(s) /\ Good(s) /\ kind[s] \in {"acp", "terminal"}
  BY TypeParts, Kinded DEF IInv
<1>1a. RunIs(s, "release", run[s].early, run[s].result,
      run[s].verdict, run[s].told, run[s].said)
  BY <1>0, RunGoes DEF Wind, Pcs
<1>1b. StatusIs(s, "runner", "cancelled")
  BY <1>0, FinishFacts DEF Wind, Writers, Status, Ended
<1>2. Typed'
  BY <1>0, <1>1a, <1>1b
     DEF Wind, Typed, RunIs, StatusIs, SessIs, WritesOne, outside, bounds,
         marks, Status, Live
<1>3. Alone(s)
  BY <1>0, <1>1a, <1>1b
     DEF Wind, Alone, Untouched, RunIs, StatusIs, SessIs, WritesOne,
         outside, bounds, marks
<1>4. Sorted(s)'
  BY <1>0, <1>1a, <1>1b, NoneApart
     DEF Good, Wind, At, RunIs, StatusIs, SessIs, WritesOne, outside,
         bounds, marks, Sorted, Busy, AcpSteps, TerminalSteps, Writers
<1>5. Steps(s)' /\ Follows(s)' /\ Begins(s)'
  BY <1>0, <1>1a, <1>1b, NoneApart
     DEF Good, Wind, At, RunIs, StatusIs, SessIs, WritesOne, outside,
         bounds, marks, Steps, Decided, Follows, Open, Outcomes, Ended,
         Begins, Before, Live, Sorted, AcpSteps, TerminalSteps
<1>6. Marked(s)' /\ Heeds(s)'
  BY <1>0, <1>1a, <1>1b, NoneApart
     DEF Good, Wind, At, RunIs, StatusIs, SessIs, WritesOne, outside,
         bounds, marks, Marked, Open, Before, Heeds, Decided, Outcomes,
         Ended, Begins, Live, Sorted, AcpSteps, TerminalSteps
<1>7. Reports(s)' /\ Shows(s)'
  BY <1>0, <1>1a, <1>1b, NoneApart
     DEF Good, Wind, At, RunIs, StatusIs, SessIs, WritesOne, outside,
         bounds, marks, Reports, Open, Outcomes, Ended, Shows, Steps,
         Decided, Follows, Begins, Before, Live, Sorted, AcpSteps,
         TerminalSteps
<1>8. Speaks(s)'
  BY <1>0, <1>1a, <1>1b, NoneApart
     DEF Good, Wind, At, RunIs, StatusIs, SessIs, WritesOne, outside,
         bounds, marks, Speaks, Unstopped, Outcomes, Steps, Decided, Begins,
         Before, Live, Sorted, AcpSteps, TerminalSteps
<1>9. Stores(s)'
  BY <1>0, <1>1a, <1>1b, StoresKept
     DEF Good, Wind, At, RunIs, StatusIs, SessIs, WritesOne, outside,
         bounds, marks, Writers, Status, Ended, Live
<1> QED
  BY <1>2, <1>3, <1>4, <1>5, <1>6, <1>7, <1>8, <1>9, OnlyOne DEF Good

LEMMA OpenTerminalKeeps ==
  ASSUME IInv, NEW s \in Sessions, OpenTerminal(s)
  PROVE  IInv'
<1>0. Typed /\ Sorted(s) /\ Good(s) /\ kind[s] \in {"acp", "terminal"}
  BY TypeParts, Kinded DEF IInv
<1>1a. RunIs(s, "await", run[s].early, run[s].result,
      run[s].verdict, run[s].told, run[s].said)
  BY <1>0, RunGoes DEF OpenTerminal, Pcs, AcpSteps, TerminalSteps
<1>1b. CliIs(s, cli[s].watch)
  <2> DEFINE c == [cli[s] EXCEPT !.state = "up"]
  <2>1. cli[s] \in Cli
    BY <1>0 DEF Typed
  <2>2. c \in Cli /\ c.watch = cli[s].watch
    BY <2>1 DEF Cli
  <2>3. cli' = [cli EXCEPT ![s] = c]
    BY <1>0 DEF OpenTerminal
  <2> HIDE DEF c
  <2> QED
    BY <1>0, <2>2, <2>3, CliBecomes
<1>2. Typed'
  BY <1>0, <1>1a, <1>1b
     DEF OpenTerminal, Typed, RunIs, CliIs, outside, history, bounds,
         Status, Live
<1>3. Alone(s)
  BY <1>0, <1>1a, <1>1b
     DEF OpenTerminal, Alone, Untouched, RunIs, CliIs, outside, history,
         bounds
<1>4. Sorted(s)'
  BY <1>0, <1>1a, <1>1b, NoneApart
     DEF Good, OpenTerminal, At, RunIs, CliIs, outside, history, bounds,
         Sorted, Busy, AcpSteps, TerminalSteps, Writers
<1>5. Steps(s)' /\ Follows(s)' /\ Begins(s)'
  BY <1>0, <1>1a, <1>1b, NoneApart
     DEF Good, OpenTerminal, At, RunIs, CliIs, outside, history, bounds,
         Steps, Decided, Follows, Open, Outcomes, Ended, Begins, Before,
         Live, Sorted, AcpSteps, TerminalSteps
<1>6. Marked(s)' /\ Heeds(s)'
  BY <1>0, <1>1a, <1>1b, NoneApart
     DEF Good, OpenTerminal, At, RunIs, CliIs, outside, history, bounds,
         Marked, Open, Before, Heeds, Decided, Outcomes, Ended, Begins,
         Live, Sorted, AcpSteps, TerminalSteps
<1>7. Reports(s)' /\ Shows(s)'
  BY <1>0, <1>1a, <1>1b, NoneApart
     DEF Good, OpenTerminal, At, RunIs, CliIs, outside, history, bounds,
         Reports, Open, Outcomes, Ended, Shows, Steps, Decided, Follows,
         Begins, Before, Live, Sorted, AcpSteps, TerminalSteps
<1>8. Speaks(s)'
  BY <1>0, <1>1a, <1>1b, NoneApart
     DEF Good, OpenTerminal, At, RunIs, CliIs, outside, history, bounds,
         Speaks, Unstopped, Outcomes, Steps, Decided, Begins, Before, Live,
         Sorted, AcpSteps, TerminalSteps
<1>9. Stores(s)'
  BY <1>0, <1>1a, <1>1b, NoneApart
     DEF Good, OpenTerminal, At, RunIs, CliIs, outside, history, bounds,
         Stores, Busy, Quiet, Live, Begins, Ended, Status, Before, Decided
<1> QED
  BY <1>2, <1>3, <1>4, <1>5, <1>6, <1>7, <1>8, <1>9, OnlyOne DEF Good

LEMMA AwaitStageKeeps ==
  ASSUME IInv, NEW s \in Sessions, AwaitStage(s)
  PROVE  IInv'
<1>0. Typed /\ Sorted(s) /\ Good(s) /\ kind[s] \in {"acp", "terminal"}
  BY TypeParts, Kinded DEF IInv
<1>1a. RunIs(s, "hold", run[s].early, run[s].result,
      run[s].verdict, run[s].told, run[s].said)
  BY <1>0, RunGoes DEF AwaitStage, Pcs, AcpSteps, TerminalSteps
<1>1b. CliIs(s, cli[s].watch)
  <2> DEFINE c == [cli[s] EXCEPT !.waits = TRUE]
  <2>1. cli[s] \in Cli
    BY <1>0 DEF Typed
  <2>2. c \in Cli /\ c.watch = cli[s].watch
    BY <2>1 DEF Cli
  <2>3. cli' = [cli EXCEPT ![s] = c]
    BY <1>0 DEF AwaitStage
  <2> HIDE DEF c
  <2> QED
    BY <1>0, <2>2, <2>3, CliBecomes
<1>2. Typed'
  BY <1>0, <1>1a, <1>1b
     DEF AwaitStage, Typed, RunIs, CliIs, outside, history, bounds, Status,
         Live
<1>3. Alone(s)
  BY <1>0, <1>1a, <1>1b
     DEF AwaitStage, Alone, Untouched, RunIs, CliIs, outside, history,
         bounds
<1>4. Sorted(s)'
  BY <1>0, <1>1a, <1>1b, NoneApart
     DEF Good, AwaitStage, At, RunIs, CliIs, outside, history, bounds,
         Sorted, Busy, AcpSteps, TerminalSteps, Writers
<1>5. Steps(s)' /\ Follows(s)' /\ Begins(s)'
  BY <1>0, <1>1a, <1>1b, NoneApart
     DEF Good, AwaitStage, At, RunIs, CliIs, outside, history, bounds,
         Steps, Decided, Follows, Open, Outcomes, Ended, Begins, Before,
         Live, Sorted, AcpSteps, TerminalSteps
<1>6. Marked(s)' /\ Heeds(s)'
  BY <1>0, <1>1a, <1>1b, NoneApart
     DEF Good, AwaitStage, At, RunIs, CliIs, outside, history, bounds,
         Marked, Open, Before, Heeds, Decided, Outcomes, Ended, Begins,
         Live, Sorted, AcpSteps, TerminalSteps
<1>7. Reports(s)' /\ Shows(s)'
  BY <1>0, <1>1a, <1>1b, NoneApart
     DEF Good, AwaitStage, At, RunIs, CliIs, outside, history, bounds,
         Reports, Open, Outcomes, Ended, Shows, Steps, Decided, Follows,
         Begins, Before, Live, Sorted, AcpSteps, TerminalSteps
<1>8. Speaks(s)'
  BY <1>0, <1>1a, <1>1b, NoneApart
     DEF Good, AwaitStage, At, RunIs, CliIs, outside, history, bounds,
         Speaks, Unstopped, Outcomes, Steps, Decided, Begins, Before, Live,
         Sorted, AcpSteps, TerminalSteps
<1>9. Stores(s)'
  BY <1>0, <1>1a, <1>1b, NoneApart
     DEF Good, AwaitStage, At, RunIs, CliIs, outside, history, bounds,
         Stores, Busy, Quiet, Live, Begins, Ended, Status, Before, Decided
<1> QED
  BY <1>2, <1>3, <1>4, <1>5, <1>6, <1>7, <1>8, <1>9, OnlyOne DEF Good

LEMMA HoldKeeps ==
  ASSUME IInv, NEW s \in Sessions, Hold(s)
  PROVE  IInv'
<1>0. Typed /\ Sorted(s) /\ Good(s) /\ kind[s] \in {"acp", "terminal"}
  BY TypeParts, Kinded DEF IInv
<1>1a. sess[s] \in Sess
  BY <1>0 DEF Typed
<1>1b. RunIs(s, "held", run[s].early, run[s].result,
      run[s].verdict, run[s].told, run[s].said)
  BY <1>0, RunGoes DEF Hold, Pcs, AcpSteps, TerminalSteps
<1>1c. PICK c \in {"live", "cancelled"} :
       /\ ~sess[s].pending => c = "live"
       /\ SessIs(s, "running", sess[s].sent, FALSE, c)
  <2> DEFINE c == IF sess[s].pending THEN "cancelled" ELSE "live"
             r == [sess[s] EXCEPT !.pending = FALSE, !.status = "running",
                                  !.ctx = c]
  <2>1. c \in {"live", "cancelled"}
    OBVIOUS
  <2>2. sess' = [sess EXCEPT ![s] = r]
    BY <1>0, <1>1a DEF Hold, Typed, Sess
  <2> HIDE DEF c
  <2>3. /\ r \in Sess /\ r.status = "running" /\ r.sent = sess[s].sent
        /\ r.pending = FALSE /\ r.ctx = c
    BY <1>1a, <2>1 DEF Sess, Status, Live
  <2> HIDE DEF r
  <2>4. SessIs(s, "running", sess[s].sent, FALSE, c)
    BY <1>0, <2>2, <2>3, SessBecomes
  <2> QED
    BY <2>1, <2>4 DEF c
<1>1d. WritesOne(s, "runner", "running")
  BY <1>0, WritesFacts DEF Hold, Writers, Status, Live
<1>2. Typed'
  BY <1>0, <1>1a, <1>1b, <1>1c, <1>1d
     DEF Hold, Typed, RunIs, SessIs, WritesOne, outside, bounds, marks,
         Status, Live
<1>3. Alone(s)
  BY <1>0, <1>1a, <1>1b, <1>1c, <1>1d
     DEF Hold, Alone, Untouched, RunIs, SessIs, WritesOne, outside, bounds,
         marks
<1>4. Sorted(s)'
  BY <1>0, <1>1a, <1>1b, <1>1c, <1>1d, NoneApart
     DEF Good, Hold, At, RunIs, SessIs, WritesOne, outside, bounds, marks,
         Sorted, Busy, AcpSteps, TerminalSteps, Writers
<1>5. Steps(s)' /\ Follows(s)' /\ Begins(s)'
  BY <1>0, <1>1a, <1>1b, <1>1c, <1>1d, NoneApart
     DEF Good, Hold, At, RunIs, SessIs, WritesOne, outside, bounds, marks,
         Steps, Decided, Follows, Open, Outcomes, Ended, Begins, Before,
         Live, Sorted, AcpSteps, TerminalSteps
<1>6. Marked(s)' /\ Heeds(s)'
  BY <1>0, <1>1a, <1>1b, <1>1c, <1>1d, NoneApart
     DEF Good, Hold, At, RunIs, SessIs, WritesOne, outside, bounds, marks,
         Marked, Open, Before, Heeds, Decided, Outcomes, Ended, Begins,
         Live, Sorted, AcpSteps, TerminalSteps
<1>7. Reports(s)' /\ Shows(s)'
  BY <1>0, <1>1a, <1>1b, <1>1c, <1>1d, NoneApart
     DEF Good, Hold, At, RunIs, SessIs, WritesOne, outside, bounds, marks,
         Reports, Open, Outcomes, Ended, Shows, Steps, Decided, Follows,
         Begins, Before, Live, Sorted, AcpSteps, TerminalSteps
<1>8. Speaks(s)'
  BY <1>0, <1>1a, <1>1b, <1>1c, <1>1d, NoneApart
     DEF Good, Hold, At, RunIs, SessIs, WritesOne, outside, bounds, marks,
         Speaks, Unstopped, Outcomes, Steps, Decided, Begins, Before, Live,
         Sorted, AcpSteps, TerminalSteps
<1>9. Stores(s)'
  BY <1>0, <1>1b, <1>1c, <1>1d, StoresWritten
     DEF RunIs, SessIs, Writers, Status, Live
<1> QED
  BY <1>2, <1>3, <1>4, <1>5, <1>6, <1>7, <1>8, <1>9, OnlyOne DEF Good

LEMMA SelectKeeps ==
  ASSUME IInv, NEW s \in Sessions, Select(s)
  PROVE  IInv'
<1>0. Typed /\ Sorted(s) /\ Good(s) /\ kind[s] \in {"acp", "terminal"}
  BY TypeParts, Kinded DEF IInv
<1>1a. PICK p \in {"parked", "picked"},
            x \in {None, "done", "failed", "gone", "ctx"} :
       /\ RunIs(s, p, run[s].early, x,
                run[s].verdict, run[s].told, run[s].said)
       /\ p = "parked" => x = run[s].result
  <2>1. cli[s] \in Cli
    BY <1>0 DEF Typed
  <2>2. CASE Go(s, "parked")
    <3>1. RunIs(s, "parked", run[s].early, run[s].result,
                run[s].verdict, run[s].told, run[s].said)
      BY <1>0, <2>2, RunGoes DEF Pcs, TerminalSteps
    <3>2. run[s].result = None
      BY <1>0 DEF Select, At, Good, Steps, Sorted, TerminalSteps, Decided
    <3> QED
      BY <3>1, <3>2
  <2>3. CASE \E r \in Ready(s) :
               run' = [run EXCEPT ![s].pc = "picked", ![s].result = r]
    <3>1. PICK r \in Ready(s) :
            run' = [run EXCEPT ![s].pc = "picked", ![s].result = r]
      BY <2>3
    <3>2. r \in {"done", "failed", "gone", "ctx"}
      BY <2>1 DEF Ready, Cli
    <3>3. RunIs(s, "picked", run[s].early, r,
                run[s].verdict, run[s].told, run[s].said)
      BY <1>0, <3>1, <3>2, RunLearns DEF Pcs, TerminalSteps, Results
    <3> QED
      BY <3>2, <3>3
  <2> QED
    BY <2>2, <2>3 DEF Select
<1>1b. CliIs(s, "on")
  <2>1. cli[s] \in Cli
    BY <1>0 DEF Typed
  <2>2. PICK report \in {None, "done", "failed"} :
          cli' = [cli EXCEPT ![s] = [@ EXCEPT !.watch = "on",
                                              !.report = report]]
    <3>1. CASE cli' = [cli EXCEPT ![s].watch = "on"]
      BY <1>0, <2>1, <3>1 DEF Typed, Cli
    <3>2. CASE \E r \in Ready(s) :
                 cli' = [cli EXCEPT ![s].watch = "on",
                                    ![s].report = IF r = @ THEN None ELSE @]
      BY <1>0, <2>1, <3>2 DEF Typed, Cli
    <3> QED
      BY <3>1, <3>2 DEF Select
  <2> DEFINE c == [cli[s] EXCEPT !.watch = "on", !.report = report]
  <2>3. c \in Cli /\ c.watch = "on"
    BY <2>1 DEF Cli
  <2>4. cli' = [cli EXCEPT ![s] = c]
    BY <2>2
  <2> HIDE DEF c
  <2> QED
    BY <1>0, <2>3, <2>4, CliBecomes
<1>2. Typed'
  BY <1>0, <1>1a, <1>1b
     DEF Select, Typed, RunIs, CliIs, outside, history, bounds, Status, Live
<1>3. Alone(s)
  BY <1>0, <1>1a, <1>1b
     DEF Select, Alone, Untouched, RunIs, CliIs, outside, history, bounds
<1>4. Sorted(s)'
  BY <1>0, <1>1a, <1>1b, NoneApart
     DEF Good, Select, At, RunIs, CliIs, outside, history, bounds, Sorted,
         Busy, AcpSteps, TerminalSteps, Writers
<1>5. Steps(s)' /\ Follows(s)' /\ Begins(s)'
  BY <1>0, <1>1a, <1>1b, NoneApart
     DEF Good, Select, At, RunIs, CliIs, outside, history, bounds, Steps,
         Decided, Follows, Open, Outcomes, Ended, Begins, Before, Live,
         Sorted, AcpSteps, TerminalSteps
<1>6. Marked(s)' /\ Heeds(s)'
  BY <1>0, <1>1a, <1>1b, NoneApart
     DEF Good, Select, At, RunIs, CliIs, outside, history, bounds, Marked,
         Open, Before, Heeds, Decided, Outcomes, Ended, Begins, Live,
         Sorted, AcpSteps, TerminalSteps
<1>7. Reports(s)' /\ Shows(s)'
  BY <1>0, <1>1a, <1>1b, NoneApart
     DEF Good, Select, At, RunIs, CliIs, outside, history, bounds, Reports,
         Open, Outcomes, Ended, Shows, Steps, Decided, Follows, Begins,
         Before, Live, Sorted, AcpSteps, TerminalSteps
<1>8. Speaks(s)'
  BY <1>0, <1>1a, <1>1b, NoneApart
     DEF Good, Select, At, RunIs, CliIs, outside, history, bounds, Speaks,
         Unstopped, Outcomes, Steps, Decided, Begins, Before, Live, Sorted,
         AcpSteps, TerminalSteps
<1>9. Stores(s)'
  BY <1>0, <1>1a, <1>1b, NoneApart
     DEF Good, Select, At, RunIs, CliIs, outside, history, bounds, Stores,
         Busy, Quiet, Live, Begins, Ended, Status, Before, Decided
<1> QED
  BY <1>2, <1>3, <1>4, <1>5, <1>6, <1>7, <1>8, <1>9, OnlyOne DEF Good

LEMMA ForgetStageKeeps ==
  ASSUME IInv, NEW s \in Sessions, ForgetStage(s)
  PROVE  IInv'
<1>0. Typed /\ Sorted(s) /\ Good(s) /\ kind[s] \in {"acp", "terminal"}
  BY TypeParts, Kinded DEF IInv
<1>1a. RunIs(s, "release", run[s].early, run[s].result,
      run[s].verdict, run[s].told, run[s].said)
  BY <1>0, RunGoes DEF ForgetStage, Pcs
<1>1b. CliIs(s, cli[s].watch)
  <2> DEFINE c == [cli[s] EXCEPT !.waits = FALSE, !.attention = FALSE]
  <2>1. cli[s] \in Cli
    BY <1>0 DEF Typed
  <2>2. c \in Cli /\ c.watch = cli[s].watch
    BY <2>1 DEF Cli
  <2>3. cli' = [cli EXCEPT ![s] = c]
    BY <1>0 DEF ForgetStage
  <2> HIDE DEF c
  <2> QED
    BY <1>0, <2>2, <2>3, CliBecomes
<1>2. Typed'
  BY <1>0, <1>1a, <1>1b
     DEF ForgetStage, Typed, RunIs, CliIs, outside, history, bounds, Status,
         Live
<1>3. Alone(s)
  BY <1>0, <1>1a, <1>1b
     DEF ForgetStage, Alone, Untouched, RunIs, CliIs, outside, history,
         bounds
<1>4. Sorted(s)'
  BY <1>0, <1>1a, <1>1b, NoneApart
     DEF Good, ForgetStage, At, RunIs, CliIs, outside, history, bounds,
         Sorted, Busy, AcpSteps, TerminalSteps, Writers
<1>5. Steps(s)' /\ Follows(s)' /\ Begins(s)'
  BY <1>0, <1>1a, <1>1b, NoneApart
     DEF Good, ForgetStage, At, RunIs, CliIs, outside, history, bounds,
         Steps, Decided, Follows, Open, Outcomes, Ended, Begins, Before,
         Live, Sorted, AcpSteps, TerminalSteps
<1>6. Marked(s)' /\ Heeds(s)'
  BY <1>0, <1>1a, <1>1b, NoneApart
     DEF Good, ForgetStage, At, RunIs, CliIs, outside, history, bounds,
         Marked, Open, Before, Heeds, Decided, Outcomes, Ended, Begins,
         Live, Sorted, AcpSteps, TerminalSteps
<1>7. Reports(s)' /\ Shows(s)'
  BY <1>0, <1>1a, <1>1b, NoneApart
     DEF Good, ForgetStage, At, RunIs, CliIs, outside, history, bounds,
         Reports, Open, Outcomes, Ended, Shows, Steps, Decided, Follows,
         Begins, Before, Live, Sorted, AcpSteps, TerminalSteps
<1>8. Speaks(s)'
  BY <1>0, <1>1a, <1>1b, NoneApart
     DEF Good, ForgetStage, At, RunIs, CliIs, outside, history, bounds,
         Speaks, Unstopped, Outcomes, Steps, Decided, Begins, Before, Live,
         Sorted, AcpSteps, TerminalSteps
<1>9. Stores(s)'
  BY <1>0, <1>1a, <1>1b, NoneApart
     DEF Good, ForgetStage, At, RunIs, CliIs, outside, history, bounds,
         Stores, Busy, Quiet, Live, Begins, Ended, Status, Before, Decided
<1> QED
  BY <1>2, <1>3, <1>4, <1>5, <1>6, <1>7, <1>8, <1>9, OnlyOne DEF Good

LEMMA FindStageKeeps ==
  ASSUME IInv, NEW s \in Sessions, FindStage(s)
  PROVE  IInv'
<1>0. Typed /\ Sorted(s) /\ Good(s) /\ kind[s] \in {"acp", "terminal"}
  BY TypeParts, Kinded DEF IInv
<1>1a. CliIs(s, cli[s].watch)
  <2> DEFINE c == [cli[s] EXCEPT !.tool = TRUE]
  <2>1. cli[s] \in Cli
    BY <1>0 DEF Typed
  <2>2. c \in Cli /\ c.watch = cli[s].watch
    BY <2>1 DEF Cli
  <2>3. cli' = [cli EXCEPT ![s] = c]
    BY <1>0 DEF FindStage
  <2> HIDE DEF c
  <2> QED
    BY <1>0, <2>2, <2>3, CliBecomes
<1>1b. reports' \in [Sessions -> Nat]
  BY <1>0 DEF FindStage, Typed
<1>2. Typed'
  BY <1>0, <1>1a, <1>1b
     DEF FindStage, Typed, CliIs, outside, history, Status, Live
<1>3. Alone(s)
  BY <1>0, <1>1a, <1>1b
     DEF FindStage, Alone, Untouched, CliIs, outside, history
<1>4. Sorted(s)'
  BY <1>0, <1>1a, <1>1b, NoneApart
     DEF Good, FindStage, CliIs, outside, history, Sorted, Busy, AcpSteps,
         TerminalSteps, Writers
<1>5. Steps(s)' /\ Follows(s)' /\ Begins(s)'
  BY <1>0, <1>1a, <1>1b, NoneApart
     DEF Good, FindStage, CliIs, outside, history, Steps, Decided, Follows,
         Open, Outcomes, Ended, Begins, Before, Live, Sorted, AcpSteps,
         TerminalSteps
<1>6. Marked(s)' /\ Heeds(s)'
  BY <1>0, <1>1a, <1>1b, NoneApart
     DEF Good, FindStage, CliIs, outside, history, Marked, Open, Before,
         Heeds, Decided, Outcomes, Ended, Begins, Live, Sorted, AcpSteps,
         TerminalSteps
<1>7. Reports(s)' /\ Shows(s)'
  BY <1>0, <1>1a, <1>1b, NoneApart
     DEF Good, FindStage, CliIs, outside, history, Reports, Open, Outcomes,
         Ended, Shows, Steps, Decided, Follows, Begins, Before, Live,
         Sorted, AcpSteps, TerminalSteps
<1>8. Speaks(s)'
  BY <1>0, <1>1a, <1>1b, NoneApart
     DEF Good, FindStage, CliIs, outside, history, Speaks, Unstopped,
         Outcomes, Steps, Decided, Begins, Before, Live, Sorted, AcpSteps,
         TerminalSteps
<1>9. Stores(s)'
  BY <1>0, <1>1a, <1>1b, NoneApart
     DEF Good, FindStage, CliIs, outside, history, Stores, Busy, Quiet,
         Live, Begins, Ended, Status, Before, Decided
<1> QED
  BY <1>2, <1>3, <1>4, <1>5, <1>6, <1>7, <1>8, <1>9, OnlyOne DEF Good

LEMMA WatchEndsKeeps ==
  ASSUME IInv, NEW s \in Sessions, WatchEnds(s)
  PROVE  IInv'
<1>0. Typed /\ Sorted(s) /\ Good(s) /\ kind[s] \in {"acp", "terminal"}
  BY TypeParts, Kinded DEF IInv
<1>1. CliIs(s, "off")
  <2> DEFINE c == [cli[s] EXCEPT !.watch = "off", !.attention = FALSE]
  <2>1. cli[s] \in Cli
    BY <1>0 DEF Typed
  <2>2. c \in Cli /\ c.watch = "off"
    BY <2>1 DEF Cli
  <2>3. cli' = [cli EXCEPT ![s] = c]
    BY <1>0 DEF WatchEnds
  <2> HIDE DEF c
  <2> QED
    BY <1>0, <2>2, <2>3, CliBecomes
<1>2. Typed'
  BY <1>0, <1>1
     DEF WatchEnds, Typed, CliIs, outside, history, bounds, Status, Live
<1>3. Alone(s)
  BY <1>0, <1>1
     DEF WatchEnds, Alone, Untouched, CliIs, outside, history, bounds
<1>4. Sorted(s)'
  BY <1>0, <1>1, NoneApart
     DEF Good, WatchEnds, CliIs, outside, history, bounds, Sorted, Busy,
         AcpSteps, TerminalSteps, Writers
<1>5. Steps(s)' /\ Follows(s)' /\ Begins(s)'
  BY <1>0, <1>1, NoneApart
     DEF Good, WatchEnds, CliIs, outside, history, bounds, Steps, Decided,
         Follows, Open, Outcomes, Ended, Begins, Before, Live, Sorted,
         AcpSteps, TerminalSteps
<1>6. Marked(s)' /\ Heeds(s)'
  BY <1>0, <1>1, NoneApart
     DEF Good, WatchEnds, CliIs, outside, history, bounds, Marked, Open,
         Before, Heeds, Decided, Outcomes, Ended, Begins, Live, Sorted,
         AcpSteps, TerminalSteps
<1>7. Reports(s)' /\ Shows(s)'
  BY <1>0, <1>1, NoneApart
     DEF Good, WatchEnds, CliIs, outside, history, bounds, Reports, Open,
         Outcomes, Ended, Shows, Steps, Decided, Follows, Begins, Before,
         Live, Sorted, AcpSteps, TerminalSteps
<1>8. Speaks(s)'
  BY <1>0, <1>1, NoneApart
     DEF Good, WatchEnds, CliIs, outside, history, bounds, Speaks,
         Unstopped, Outcomes, Steps, Decided, Begins, Before, Live, Sorted,
         AcpSteps, TerminalSteps
<1>9. Stores(s)'
  BY <1>0, <1>1, NoneApart
     DEF Good, WatchEnds, CliIs, outside, history, bounds, Stores, Busy,
         Quiet, Live, Begins, Ended, Status, Before, Decided
<1> QED
  BY <1>2, <1>3, <1>4, <1>5, <1>6, <1>7, <1>8, <1>9, OnlyOne DEF Good

LEMMA WatchTickKeeps ==
  ASSUME IInv, NEW s \in Sessions, WatchTick(s)
  PROVE  IInv'
<1>0. Typed /\ Sorted(s) /\ Good(s) /\ kind[s] \in {"acp", "terminal"}
  BY TypeParts, Kinded DEF IInv
<1>1a. CliIs(s, cli[s].watch)
  <2> DEFINE c == [cli[s] EXCEPT !.attention = ~cli[s].attention]
  <2>1. cli[s] \in Cli
    BY <1>0 DEF Typed
  <2>2. c \in Cli /\ c.watch = cli[s].watch
    BY <2>1 DEF Cli
  <2>3. cli' = [cli EXCEPT ![s] = c]
    BY <1>0 DEF WatchTick
  <2> HIDE DEF c
  <2> QED
    BY <1>0, <2>2, <2>3, CliBecomes
<1>1b. PICK v \in Live : StatusIs(s, "watcher", v)
  <2> DEFINE v == IF cli[s].attention THEN "running" ELSE "waiting"
  <2>1. v \in Live /\ SetStatus(s, "watcher", v)
    BY DEF WatchTick, Live
  <2> HIDE DEF v
  <2> QED
    BY <1>0, <2>1, FinishFacts DEF Writers, Status
<1>2. Typed'
  BY <1>0, <1>1a, <1>1b
     DEF WatchTick, Typed, StatusIs, SessIs, WritesOne, CliIs, outside,
         bounds, marks, Status, Live
<1>3. Alone(s)
  BY <1>0, <1>1a, <1>1b
     DEF WatchTick, Alone, Untouched, StatusIs, SessIs, WritesOne, CliIs,
         outside, bounds, marks
<1>4. Sorted(s)'
  BY <1>0, <1>1a, <1>1b, NoneApart
     DEF Good, WatchTick, StatusIs, WritesOne, Begins, Sorted, Busy,
         AcpSteps, TerminalSteps, outside, marks, bounds, Writers
<1>5. Steps(s)' /\ Follows(s)' /\ Begins(s)'
  BY <1>0, <1>1a, <1>1b, NoneApart
     DEF Good, WatchTick, StatusIs, SessIs, WritesOne, CliIs, outside,
         bounds, marks, Steps, Decided, Follows, Open, Outcomes, Ended,
         Begins, Before, Live, Sorted, AcpSteps, TerminalSteps
<1>6. Marked(s)' /\ Heeds(s)'
  BY <1>0, <1>1a, <1>1b, NoneApart
     DEF Good, WatchTick, StatusIs, SessIs, WritesOne, CliIs, outside,
         bounds, marks, Marked, Open, Before, Heeds, Decided, Outcomes,
         Ended, Begins, Live, Sorted, AcpSteps, TerminalSteps
<1>7. Reports(s)' /\ Shows(s)'
  BY <1>0, <1>1a, <1>1b, NoneApart
     DEF Good, WatchTick, StatusIs, SessIs, WritesOne, CliIs, outside,
         bounds, marks, Reports, Open, Outcomes, Ended, Shows, Steps,
         Decided, Follows, Begins, Before, Live, Sorted, AcpSteps,
         TerminalSteps
<1>8. Speaks(s)'
  BY <1>0, <1>1a, <1>1b, NoneApart
     DEF Good, WatchTick, StatusIs, SessIs, WritesOne, CliIs, outside,
         bounds, marks, Speaks, Unstopped, Outcomes, Steps, Decided, Begins,
         Before, Live, Sorted, AcpSteps, TerminalSteps
<1>9. Stores(s)'
  <2>1. run' = run /\ stored' = stored /\ early' = early
        /\ run[s].pc \notin {"start", "prepare", "connect"}
    BY <1>0 DEF WatchTick, Good, Begins, Decided, marks
  <2> QED
    BY <1>0, <1>1b, <2>1, StoresKept DEF Good, Writers, Status
<1> QED
  BY <1>2, <1>3, <1>4, <1>5, <1>6, <1>7, <1>8, <1>9, OnlyOne DEF Good

\* A parked stage is woken, another is not.
LEMMA WakeFacts ==
  ASSUME Typed, NEW s \in Sessions, NEW r \in {"ctx", "gone", "done", "failed"},
         Wake(s, r)
  PROVE  RunIs(s, IF run[s].pc = "parked" THEN "picked" ELSE run[s].pc,
               run[s].early,
               IF run[s].pc = "parked" THEN r ELSE run[s].result,
               run[s].verdict, run[s].told, run[s].said)
<1> DEFINE w == IF run[s].pc = "parked"
                THEN [run[s] EXCEPT !.pc = "picked", !.result = r] ELSE run[s]
<1>1. run[s] \in Run
  BY DEF Typed
<1>2. /\ w \in Run
      /\ w.pc = (IF run[s].pc = "parked" THEN "picked" ELSE run[s].pc)
      /\ w.early = run[s].early
      /\ w.result = (IF run[s].pc = "parked" THEN r ELSE run[s].result)
      /\ w.verdict = run[s].verdict
      /\ w.told = run[s].told /\ w.said = run[s].said
  <2>1. CASE run[s].pc = "parked"
    <3>1. w = [run[s] EXCEPT !.pc = "picked", !.result = r]
      BY <2>1
    <3> HIDE DEF w
    <3> QED
      BY <1>1, <2>1, <3>1 DEF Run, TerminalSteps
  <2>2. CASE run[s].pc # "parked"
    BY <1>1, <2>2
  <2> QED
    BY <2>1, <2>2
<1>3. run' = [run EXCEPT ![s] = w]
  BY DEF Wake, Wakes
<1> HIDE DEF w
<1> QED
  BY <1>2, <1>3, RunBecomes

LEMMA ReportTakenKeeps ==
  ASSUME IInv, NEW s \in Sessions, NEW r \in {"done", "failed"},
         run[s].pc = "parked", Report(s, r)
  PROVE  IInv'
<1>0. Typed /\ Sorted(s) /\ Good(s) /\ kind[s] \in {"acp", "terminal"}
  BY TypeParts, Kinded DEF IInv
<1>1a. RunIs(s, IF run[s].pc = "parked" THEN "picked" ELSE run[s].pc,
            run[s].early, IF run[s].pc = "parked" THEN r ELSE run[s].result,
            run[s].verdict, run[s].told, run[s].said)
  BY <1>0, WakeFacts DEF Report
<1>1b. CliIs(s, cli[s].watch)
  <2> DEFINE c == [cli[s] EXCEPT !.tool = FALSE]
  <2>1. cli[s] \in Cli
    BY <1>0 DEF Typed
  <2>2. c \in Cli /\ c.watch = cli[s].watch
    BY <2>1 DEF Cli
  <2>3. cli' = [cli EXCEPT ![s] = c]
    BY <1>0 DEF Report
  <2> HIDE DEF c
  <2> QED
    BY <1>0, <2>2, <2>3, CliBecomes
<1>2. Typed'
  BY <1>0, <1>1a, <1>1b
     DEF Report, Typed, RunIs, CliIs, outside, history, bounds, Status, Live
<1>3. Alone(s)
  BY <1>0, <1>1a, <1>1b
     DEF Report, Alone, Untouched, RunIs, CliIs, outside, history, bounds
<1>4. Sorted(s)'
  BY <1>0, <1>1a, <1>1b, NoneApart
     DEF Good, Report, RunIs, CliIs, outside, history, bounds, Sorted, Busy,
         AcpSteps, TerminalSteps, Writers
<1>5. Steps(s)' /\ Follows(s)' /\ Begins(s)'
  BY <1>0, <1>1a, <1>1b, NoneApart
     DEF Good, Report, RunIs, CliIs, outside, history, bounds, Steps,
         Decided, Follows, Open, Outcomes, Ended, Begins, Before, Live,
         Sorted, AcpSteps, TerminalSteps
<1>6. Marked(s)' /\ Heeds(s)'
  BY <1>0, <1>1a, <1>1b, NoneApart
     DEF Good, Report, RunIs, CliIs, outside, history, bounds, Marked, Open,
         Before, Heeds, Decided, Outcomes, Ended, Begins, Live, Sorted,
         AcpSteps, TerminalSteps
<1>7. Reports(s)' /\ Shows(s)'
  BY <1>0, <1>1a, <1>1b, NoneApart
     DEF Good, Report, RunIs, CliIs, outside, history, bounds, Reports,
         Open, Outcomes, Ended, Shows, Steps, Decided, Follows, Begins,
         Before, Live, Sorted, AcpSteps, TerminalSteps
<1>8. Speaks(s)'
  BY <1>0, <1>1a, <1>1b, NoneApart
     DEF Good, Report, RunIs, CliIs, outside, history, bounds, Speaks,
         Unstopped, Outcomes, Steps, Decided, Begins, Before, Live, Sorted,
         AcpSteps, TerminalSteps
<1>9. Stores(s)'
  BY <1>0, <1>1a, <1>1b, NoneApart
     DEF Good, Report, RunIs, CliIs, outside, history, bounds, Stores, Busy,
         Quiet, Live, Begins, Ended, Status, Before, Decided
<1> QED
  BY <1>2, <1>3, <1>4, <1>5, <1>6, <1>7, <1>8, <1>9, OnlyOne DEF Good

LEMMA ReportLeftKeeps ==
  ASSUME IInv, NEW s \in Sessions, NEW r \in {"done", "failed"},
         run[s].pc # "parked", Report(s, r)
  PROVE  IInv'
<1>0. Typed /\ Sorted(s) /\ Good(s) /\ kind[s] \in {"acp", "terminal"}
  BY TypeParts, Kinded DEF IInv
<1>1a. run' = run
  BY <1>0 DEF Report
<1>1b. PICK report \in {None, "done", "failed"} :
       cli' = [cli EXCEPT ![s] = [@ EXCEPT !.tool = FALSE,
                                           !.report = report]]
  BY <1>0 DEF Report, Typed, Cli
<1>1c. CliIs(s, cli[s].watch)
  <2> DEFINE c == [cli[s] EXCEPT !.tool = FALSE, !.report = report]
  <2>1. cli[s] \in Cli
    BY <1>0 DEF Typed
  <2>2. c \in Cli /\ c.watch = cli[s].watch
    BY <2>1 DEF Cli
  <2>3. cli' = [cli EXCEPT ![s] = c]
    BY <1>1b
  <2> HIDE DEF c
  <2> QED
    BY <1>0, <2>2, <2>3, CliBecomes
<1>2. Typed'
  BY <1>0, <1>1a, <1>1b, <1>1c
     DEF Report, Typed, CliIs, outside, history, bounds, Status, Live
<1>3. Alone(s)
  BY <1>0, <1>1a, <1>1b, <1>1c
     DEF Report, Alone, Untouched, CliIs, outside, history, bounds
<1>4. Sorted(s)'
  BY <1>0, <1>1a, <1>1b, <1>1c, NoneApart
     DEF Good, Report, CliIs, outside, history, bounds, Sorted, Busy,
         AcpSteps, TerminalSteps, Writers
<1>5. Steps(s)' /\ Follows(s)' /\ Begins(s)'
  BY <1>0, <1>1a, <1>1b, <1>1c, NoneApart
     DEF Good, Report, CliIs, outside, history, bounds, Steps, Decided,
         Follows, Open, Outcomes, Ended, Begins, Before, Live, Sorted,
         AcpSteps, TerminalSteps
<1>6. Marked(s)' /\ Heeds(s)'
  BY <1>0, <1>1a, <1>1b, <1>1c, NoneApart
     DEF Good, Report, CliIs, outside, history, bounds, Marked, Open,
         Before, Heeds, Decided, Outcomes, Ended, Begins, Live, Sorted,
         AcpSteps, TerminalSteps
<1>7. Reports(s)' /\ Shows(s)'
  BY <1>0, <1>1a, <1>1b, <1>1c, NoneApart
     DEF Good, Report, CliIs, outside, history, bounds, Reports, Open,
         Outcomes, Ended, Shows, Steps, Decided, Follows, Begins, Before,
         Live, Sorted, AcpSteps, TerminalSteps
<1>8. Speaks(s)'
  BY <1>0, <1>1a, <1>1b, <1>1c, NoneApart
     DEF Good, Report, CliIs, outside, history, bounds, Speaks, Unstopped,
         Outcomes, Steps, Decided, Begins, Before, Live, Sorted, AcpSteps,
         TerminalSteps
<1>9. Stores(s)'
  BY <1>0, <1>1a, <1>1b, <1>1c, NoneApart
     DEF Good, Report, CliIs, outside, history, bounds, Stores, Busy, Quiet,
         Live, Begins, Ended, Status, Before, Decided
<1> QED
  BY <1>2, <1>3, <1>4, <1>5, <1>6, <1>7, <1>8, <1>9, OnlyOne DEF Good

LEMMA CliEndsKeeps ==
  ASSUME IInv, NEW s \in Sessions, NEW state \in {"gone", "broken"},
         CliEnds(s, state)
  PROVE  IInv'
<1>0. Typed /\ Sorted(s) /\ Good(s) /\ kind[s] \in {"acp", "terminal"}
  BY TypeParts, Kinded DEF IInv
<1>1a. RunIs(s, IF run[s].pc = "parked" THEN "picked" ELSE run[s].pc,
            run[s].early, IF run[s].pc = "parked" THEN "gone" ELSE run[s].result,
            run[s].verdict, run[s].told, run[s].said)
  BY <1>0, WakeFacts DEF CliEnds
<1>1b. CliIs(s, cli[s].watch)
  <2> DEFINE c == [cli[s] EXCEPT !.state = state]
  <2>1. cli[s] \in Cli
    BY <1>0 DEF Typed
  <2>2. c \in Cli /\ c.watch = cli[s].watch
    BY <2>1 DEF Cli
  <2>3. cli' = [cli EXCEPT ![s] = c]
    BY <1>0 DEF CliEnds
  <2> HIDE DEF c
  <2> QED
    BY <1>0, <2>2, <2>3, CliBecomes
<1>2. Typed'
  BY <1>0, <1>1a, <1>1b
     DEF CliEnds, Typed, RunIs, CliIs, outside, history, bounds, Status,
         Live
<1>3. Alone(s)
  BY <1>0, <1>1a, <1>1b
     DEF CliEnds, Alone, Untouched, RunIs, CliIs, outside, history, bounds
<1>4. Sorted(s)'
  BY <1>0, <1>1a, <1>1b, NoneApart
     DEF Good, CliEnds, RunIs, CliIs, outside, history, bounds, Sorted,
         Busy, AcpSteps, TerminalSteps, Writers
<1>5. Steps(s)' /\ Follows(s)' /\ Begins(s)'
  BY <1>0, <1>1a, <1>1b, NoneApart
     DEF Good, CliEnds, RunIs, CliIs, outside, history, bounds, Steps,
         Decided, Follows, Open, Outcomes, Ended, Begins, Before, Live,
         Sorted, AcpSteps, TerminalSteps
<1>6. Marked(s)' /\ Heeds(s)'
  BY <1>0, <1>1a, <1>1b, NoneApart
     DEF Good, CliEnds, RunIs, CliIs, outside, history, bounds, Marked,
         Open, Before, Heeds, Decided, Outcomes, Ended, Begins, Live,
         Sorted, AcpSteps, TerminalSteps
<1>7. Reports(s)' /\ Shows(s)'
  BY <1>0, <1>1a, <1>1b, NoneApart
     DEF Good, CliEnds, RunIs, CliIs, outside, history, bounds, Reports,
         Open, Outcomes, Ended, Shows, Steps, Decided, Follows, Begins,
         Before, Live, Sorted, AcpSteps, TerminalSteps
<1>8. Speaks(s)'
  BY <1>0, <1>1a, <1>1b, NoneApart
     DEF Good, CliEnds, RunIs, CliIs, outside, history, bounds, Speaks,
         Unstopped, Outcomes, Steps, Decided, Begins, Before, Live, Sorted,
         AcpSteps, TerminalSteps
<1>9. Stores(s)'
  BY <1>0, <1>1a, <1>1b, NoneApart
     DEF Good, CliEnds, RunIs, CliIs, outside, history, bounds, Stores,
         Busy, Quiet, Live, Begins, Ended, Status, Before, Decided
<1> QED
  BY <1>2, <1>3, <1>4, <1>5, <1>6, <1>7, <1>8, <1>9, OnlyOne DEF Good

LEMMA CancelKeeps ==
  ASSUME IInv, NEW s \in Sessions, Cancel(s)
  PROVE  IInv'
<1>0. Typed /\ Sorted(s) /\ Good(s) /\ kind[s] \in {"acp", "terminal"}
  BY TypeParts, Kinded DEF IInv
<1>1a. PICK p \in BOOLEAN :
       /\ sess[s].status \notin Live => p = TRUE
       /\ SessIs(s, sess[s].status, TRUE, p, sess[s].ctx)
  <2> DEFINE p == sess[s].status \notin Live
             r == [sess[s] EXCEPT !.sent = TRUE, !.pending = p]
  <2>1. sess[s] \in Sess
    BY <1>0 DEF Typed
  <2>2. sess' = [sess EXCEPT ![s] = r]
    BY <1>0, <2>1 DEF Cancel, Typed, Sess
  <2>3. p \in BOOLEAN
    OBVIOUS
  <2> HIDE DEF p
  <2>4. /\ r \in Sess /\ r.status = sess[s].status /\ r.sent = TRUE
        /\ r.pending = p /\ r.ctx = sess[s].ctx
    BY <2>1, <2>3 DEF Sess
  <2> HIDE DEF r
  <2>5. SessIs(s, sess[s].status, TRUE, p, sess[s].ctx)
    BY <1>0, <2>2, <2>4, SessBecomes
  <2> QED
    BY <2>3, <2>5 DEF p
<1>1b. /\ call' \in [Sessions -> {"idle", "interrupt", "finish"}]
       /\ call[s] = "idle" /\ call'[s] # "idle"
       /\ call'[s] = "interrupt" => sess[s].ctx # "none"
       /\ \A u \in Sessions \ {s} : call'[u] = call[u]
  BY <1>0 DEF Cancel, Typed
<1>1c. /\ calls' \in [Sessions -> Nat] /\ calls'[s] > 0
       /\ \A u \in Sessions \ {s} : calls'[u] = calls[u]
  BY <1>0 DEF Cancel, Typed
<1>2. Typed'
  BY <1>0, <1>1a, <1>1b, <1>1c
     DEF Cancel, Typed, SessIs, outside, history, Status, Live
<1>3. Alone(s)
  BY <1>0, <1>1a, <1>1b, <1>1c
     DEF Cancel, Alone, Untouched, SessIs, outside, history
<1>4. Sorted(s)'
  BY <1>0, <1>1a, <1>1b, <1>1c, NoneApart
     DEF Good, Cancel, SessIs, outside, history, Sorted, Busy, AcpSteps,
         TerminalSteps, Writers
<1>5. Steps(s)' /\ Follows(s)' /\ Begins(s)'
  BY <1>0, <1>1a, <1>1b, <1>1c, NoneApart
     DEF Good, Cancel, SessIs, outside, history, Steps, Decided, Follows,
         Open, Outcomes, Ended, Begins, Before, Live, Sorted, AcpSteps,
         TerminalSteps
<1>6. Marked(s)' /\ Heeds(s)'
  BY <1>0, <1>1a, <1>1b, <1>1c, NoneApart
     DEF Good, Cancel, SessIs, outside, history, Marked, Open, Before,
         Heeds, Decided, Outcomes, Ended, Begins, Live, Sorted, AcpSteps,
         TerminalSteps
<1>7. Reports(s)' /\ Shows(s)'
  BY <1>0, <1>1a, <1>1b, <1>1c, NoneApart
     DEF Good, Cancel, SessIs, outside, history, Reports, Open, Outcomes,
         Ended, Shows, Steps, Decided, Follows, Begins, Before, Live,
         Sorted, AcpSteps, TerminalSteps
<1>8. Speaks(s)'
  BY <1>0, <1>1a, <1>1b, <1>1c, NoneApart
     DEF Good, Cancel, SessIs, outside, history, Speaks, Unstopped,
         Outcomes, Steps, Decided, Begins, Before, Live, Sorted, AcpSteps,
         TerminalSteps
<1>9. Stores(s)'
  BY <1>0, <1>1a, <1>1b, <1>1c, NoneApart
     DEF Good, Cancel, SessIs, outside, history, Stores, Busy, Quiet, Live,
         Begins, Ended, Status, Before, Decided
<1> QED
  BY <1>2, <1>3, <1>4, <1>5, <1>6, <1>7, <1>8, <1>9, OnlyOne DEF Good

LEMMA InterruptKeeps ==
  ASSUME IInv, NEW s \in Sessions, Interrupt(s)
  PROVE  IInv'
<1>0. Typed /\ Sorted(s) /\ Good(s) /\ kind[s] \in {"acp", "terminal"}
  BY TypeParts, Kinded DEF IInv
<1>1a. RunIs(s, IF run[s].pc = "parked" THEN "picked" ELSE run[s].pc,
            run[s].early, IF run[s].pc = "parked" THEN "ctx" ELSE run[s].result,
            run[s].verdict, run[s].told, run[s].said)
  BY <1>0, WakeFacts DEF Interrupt
<1>1b. PICK c \in Contexts :
       /\ c = (IF sess[s].ctx = "live" THEN "cancelled" ELSE sess[s].ctx)
       /\ SessIs(s, sess[s].status, sess[s].sent, sess[s].pending, c)
  <2> DEFINE c == IF sess[s].ctx = "live" THEN "cancelled" ELSE sess[s].ctx
             r == [sess[s] EXCEPT !.ctx = c]
  <2>1. sess[s] \in Sess
    BY <1>0 DEF Typed
  <2>2. c \in Contexts /\ sess' = [sess EXCEPT ![s] = r]
    BY <1>0, <2>1 DEF Interrupt, Typed, Sess, Contexts
  <2> HIDE DEF c
  <2>3. /\ r \in Sess /\ r.status = sess[s].status /\ r.sent = sess[s].sent
        /\ r.pending = sess[s].pending /\ r.ctx = c
    BY <2>1, <2>2 DEF Sess, Contexts
  <2> HIDE DEF r
  <2>4. SessIs(s, sess[s].status, sess[s].sent, sess[s].pending, c)
    BY <1>0, <2>2, <2>3, SessBecomes
  <2> QED
    BY <2>2, <2>4 DEF c
<1>1c. /\ call' \in [Sessions -> {"idle", "interrupt", "finish"}]
       /\ call'[s] = "idle" /\ \A u \in Sessions \ {s} : call'[u] = call[u]
  BY <1>0 DEF Interrupt, Typed
<1>1d. /\ heeded' \subseteq Sessions
       /\ s \in heeded' <=>
            \/ s \in heeded
            \/ kind[s] = "acp" /\ Open(s)
            \/ kind[s] = "terminal" /\ run[s].pc = "parked"
       /\ \A u \in Sessions \ {s} : u \in heeded' <=> u \in heeded
  BY <1>0 DEF Interrupt, Typed
<1>2. Typed'
  BY <1>0, <1>1a, <1>1b, <1>1c, <1>1d
     DEF Interrupt, Typed, RunIs, SessIs, outside, bounds, Status, Live
<1>3. Alone(s)
  BY <1>0, <1>1a, <1>1b, <1>1c, <1>1d
     DEF Interrupt, Alone, Untouched, RunIs, SessIs, outside, bounds
<1>4. Sorted(s)'
  BY <1>0, <1>1a, <1>1b, <1>1c, <1>1d, NoneApart
     DEF Good, Interrupt, RunIs, SessIs, outside, bounds, Sorted, Busy,
         AcpSteps, TerminalSteps, Writers
<1>5. Steps(s)' /\ Follows(s)' /\ Begins(s)'
  BY <1>0, <1>1a, <1>1b, <1>1c, <1>1d, NoneApart
     DEF Good, Interrupt, RunIs, SessIs, outside, bounds, Steps, Decided,
         Follows, Open, Outcomes, Ended, Begins, Before, Live, Sorted,
         AcpSteps, TerminalSteps
<1>6. Marked(s)' /\ Heeds(s)'
  BY <1>0, <1>1a, <1>1b, <1>1c, <1>1d, NoneApart
     DEF Good, Interrupt, RunIs, SessIs, Marked, Open, Before, Heeds,
         Decided, Outcomes, Ended, Begins, Live, Follows, Steps, Sorted,
         AcpSteps, TerminalSteps, Contexts, outside, bounds
<1>7. Reports(s)' /\ Shows(s)'
  BY <1>0, <1>1a, <1>1b, <1>1c, <1>1d, NoneApart
     DEF Good, Interrupt, RunIs, SessIs, outside, bounds, Reports, Open,
         Outcomes, Ended, Shows, Steps, Decided, Follows, Begins, Before,
         Live, Sorted, AcpSteps, TerminalSteps
<1>8. Speaks(s)'
  BY <1>0, <1>1a, <1>1b, <1>1c, <1>1d, NoneApart
     DEF Good, Interrupt, RunIs, SessIs, outside, bounds, Speaks, Unstopped,
         Outcomes, Steps, Decided, Begins, Before, Live, Sorted, AcpSteps,
         TerminalSteps
<1>9. Stores(s)'
  BY <1>0, <1>1a, <1>1b, <1>1c, <1>1d, NoneApart
     DEF Good, Interrupt, RunIs, SessIs, outside, bounds, Stores, Busy,
         Quiet, Live, Begins, Ended, Status, Before, Decided
<1> QED
  BY <1>2, <1>3, <1>4, <1>5, <1>6, <1>7, <1>8, <1>9, OnlyOne DEF Good

LEMMA FinishByCancelKeeps ==
  ASSUME IInv, NEW s \in Sessions, FinishByCancel(s)
  PROVE  IInv'
<1>0. Typed /\ Sorted(s) /\ Good(s) /\ kind[s] \in {"acp", "terminal"}
  BY TypeParts, Kinded DEF IInv
<1>1a. StatusIs(s, "canceller", "cancelled")
  BY <1>0, FinishFacts DEF FinishByCancel, Writers, Status, Ended
<1>1b. /\ call' \in [Sessions -> {"idle", "interrupt", "finish"}]
       /\ call'[s] = "idle" /\ \A u \in Sessions \ {s} : call'[u] = call[u]
  BY <1>0 DEF FinishByCancel, Typed
<1>1c. /\ heeded' \subseteq Sessions
       /\ s \in heeded' <=> (s \in heeded \/ (kind[s] = "acp" /\ Open(s)))
       /\ \A u \in Sessions \ {s} : u \in heeded' <=> u \in heeded
  BY <1>0 DEF FinishByCancel, Typed
<1>1d. /\ early' \subseteq Sessions
       /\ s \in early' <=> (s \in early \/ sess[s].status \notin Ended)
       /\ \A u \in Sessions \ {s} : u \in early' <=> u \in early
  BY <1>0 DEF FinishByCancel, Typed
<1>2. Typed'
  BY <1>0, <1>1a, <1>1b, <1>1c, <1>1d
     DEF FinishByCancel, Typed, StatusIs, SessIs, WritesOne, outside,
         bounds, Status, Live
<1>3. Alone(s)
  BY <1>0, <1>1a, <1>1b, <1>1c, <1>1d
     DEF FinishByCancel, Alone, Untouched, StatusIs, SessIs, WritesOne,
         outside, bounds
<1>4. Sorted(s)'
  BY <1>0, <1>1a, <1>1b, <1>1c, <1>1d, NoneApart
     DEF Good, FinishByCancel, StatusIs, SessIs, WritesOne, outside, bounds,
         Sorted, Busy, AcpSteps, TerminalSteps, Writers
<1>5. Steps(s)' /\ Follows(s)' /\ Begins(s)'
  BY <1>0, <1>1a, <1>1b, <1>1c, <1>1d, NoneApart
     DEF Good, FinishByCancel, StatusIs, SessIs, WritesOne, outside, bounds,
         Steps, Decided, Follows, Open, Outcomes, Ended, Begins, Before,
         Live, Sorted, AcpSteps, TerminalSteps
<1>6. Marked(s)' /\ Heeds(s)'
  BY <1>0, <1>1a, <1>1b, <1>1c, <1>1d, NoneApart
     DEF Good, FinishByCancel, SessIs, StatusIs, Marked, Open, Before,
         Heeds, Decided, Outcomes, Ended, Begins, Live, Follows, Steps,
         Sorted, AcpSteps, TerminalSteps, Contexts, outside, bounds
<1>7. Reports(s)' /\ Shows(s)'
  BY <1>0, <1>1a, <1>1b, <1>1c, <1>1d, NoneApart
     DEF Good, FinishByCancel, StatusIs, SessIs, WritesOne, outside, bounds,
         Reports, Open, Outcomes, Ended, Shows, Steps, Decided, Follows,
         Begins, Before, Live, Sorted, AcpSteps, TerminalSteps
<1>8. Speaks(s)'
  BY <1>0, <1>1a, <1>1b, <1>1c, <1>1d, NoneApart
     DEF Good, FinishByCancel, StatusIs, SessIs, WritesOne, outside, bounds,
         Speaks, Unstopped, Outcomes, Steps, Decided, Begins, Before, Live,
         Sorted, AcpSteps, TerminalSteps
<1>9. Stores(s)'
  BY <1>0, <1>1a, <1>1b, <1>1c, <1>1d, StoresKept
     DEF Good, FinishByCancel, StatusIs, SessIs, WritesOne, outside, bounds,
         Writers, Status, Ended, Live
<1> QED
  BY <1>2, <1>3, <1>4, <1>5, <1>6, <1>7, <1>8, <1>9, OnlyOne DEF Good

LEMMA AskKeeps ==
  ASSUME IInv, NEW s \in Sessions, NEW q \in Questions, Ask(s, q)
  PROVE  IInv'
<1>0. Typed /\ Sorted(s) /\ Good(s) /\ kind[s] \in {"acp", "terminal"}
  BY TypeParts, Kinded DEF IInv
<1>1a. /\ ask' \in [Sessions ->
                    [Questions -> {"none", "raised", "open", "back", "closed"}]]
       /\ ask'[s][q] = "raised"
       /\ \A p \in Questions \ {q} : ask'[s][p] = ask[s][p]
       /\ \A u \in Sessions \ {s} : ask'[u] = ask[u]
  BY <1>0 DEF Ask, Typed
<1>1b. q \in Writers /\ q # "watcher"
  BY SessionLifeAssumption DEF Writers
<1>1c. StatusIs(s, q, "waiting")
  BY <1>0, <1>1b, FinishFacts DEF Ask, Status, Live
<1>2. Typed'
  BY <1>0, <1>1a, <1>1b, <1>1c
     DEF Ask, Typed, StatusIs, SessIs, WritesOne, outside, bounds, marks,
         Status, Live
<1>3. Alone(s)
  BY <1>0, <1>1a, <1>1b, <1>1c
     DEF Ask, Alone, Untouched, StatusIs, SessIs, WritesOne, outside,
         bounds, marks
<1>4. Sorted(s)'
  BY <1>0, <1>1a, <1>1b, <1>1c, NoneApart
     DEF Good, Ask, StatusIs, WritesOne, Sorted, Busy, AcpSteps,
         TerminalSteps, outside, marks, bounds, Writers
<1>5. Steps(s)' /\ Follows(s)' /\ Begins(s)'
  BY <1>0, <1>1a, <1>1b, <1>1c, NoneApart
     DEF Good, Ask, StatusIs, SessIs, WritesOne, outside, bounds, marks,
         Steps, Decided, Follows, Open, Outcomes, Ended, Begins, Before,
         Live, Sorted, AcpSteps, TerminalSteps
<1>6. Marked(s)' /\ Heeds(s)'
  BY <1>0, <1>1a, <1>1b, <1>1c, NoneApart
     DEF Good, Ask, StatusIs, SessIs, WritesOne, outside, bounds, marks,
         Marked, Open, Before, Heeds, Decided, Outcomes, Ended, Begins,
         Live, Sorted, AcpSteps, TerminalSteps
<1>7. Reports(s)' /\ Shows(s)'
  BY <1>0, <1>1a, <1>1b, <1>1c, NoneApart
     DEF Good, Ask, StatusIs, SessIs, WritesOne, outside, bounds, marks,
         Reports, Open, Outcomes, Ended, Shows, Steps, Decided, Follows,
         Begins, Before, Live, Sorted, AcpSteps, TerminalSteps
<1>8. Speaks(s)'
  BY <1>0, <1>1a, <1>1b, <1>1c, NoneApart
     DEF Good, Ask, StatusIs, SessIs, WritesOne, outside, bounds, marks,
         Speaks, Unstopped, Outcomes, Steps, Decided, Begins, Before, Live,
         Sorted, AcpSteps, TerminalSteps
<1>9. Stores(s)'
  <2>1. run' = run /\ stored' = stored /\ early' = early
        /\ run[s].pc \notin {"start", "prepare", "connect"}
    BY <1>0 DEF Ask, marks
  <2> QED
    BY <1>0, <1>1b, <1>1c, <2>1, StoresKept DEF Good, Status, Live
<1> QED
  BY <1>2, <1>3, <1>4, <1>5, <1>6, <1>7, <1>8, <1>9, OnlyOne DEF Good

LEMMA RegisterKeeps ==
  ASSUME IInv, NEW s \in Sessions, NEW q \in Questions, Register(s, q)
  PROVE  IInv'
<1>0. Typed /\ Sorted(s) /\ Good(s) /\ kind[s] \in {"acp", "terminal"}
  BY TypeParts, Kinded DEF IInv
<1>1. /\ ask' \in [Sessions ->
                   [Questions -> {"none", "raised", "open", "back", "closed"}]]
      /\ ask'[s][q] = "open" /\ ask[s][q] = "raised"
      /\ \A p \in Questions \ {q} : ask'[s][p] = ask[s][p]
      /\ \A u \in Sessions \ {s} : ask'[u] = ask[u]
  BY <1>0 DEF Register, Typed
<1>2. Typed'
  BY <1>0, <1>1 DEF Register, Typed, outside, history, bounds, Status, Live
<1>3. Alone(s)
  BY <1>0, <1>1 DEF Register, Alone, Untouched, outside, history, bounds
<1>4. Sorted(s)'
  BY <1>0, <1>1, NoneApart
     DEF Good, Register, outside, history, bounds, Sorted, Busy, AcpSteps,
         TerminalSteps, Writers
<1>5. Steps(s)' /\ Follows(s)' /\ Begins(s)'
  BY <1>0, <1>1, NoneApart
     DEF Good, Register, outside, history, bounds, Steps, Decided, Follows,
         Open, Outcomes, Ended, Begins, Before, Live, Sorted, AcpSteps,
         TerminalSteps
<1>6. Marked(s)' /\ Heeds(s)'
  BY <1>0, <1>1, NoneApart
     DEF Good, Register, outside, history, bounds, Marked, Open, Before,
         Heeds, Decided, Outcomes, Ended, Begins, Live, Sorted, AcpSteps,
         TerminalSteps
<1>7. Reports(s)' /\ Shows(s)'
  BY <1>0, <1>1, NoneApart
     DEF Good, Register, outside, history, bounds, Reports, Open, Outcomes,
         Ended, Shows, Steps, Decided, Follows, Begins, Before, Live,
         Sorted, AcpSteps, TerminalSteps
<1>8. Speaks(s)'
  BY <1>0, <1>1, NoneApart
     DEF Good, Register, outside, history, bounds, Speaks, Unstopped,
         Outcomes, Steps, Decided, Begins, Before, Live, Sorted, AcpSteps,
         TerminalSteps
<1>9. Stores(s)'
  BY <1>0, <1>1, NoneApart
     DEF Good, Register, outside, history, bounds, Stores, Busy, Quiet,
         Live, Begins, Ended, Status, Before, Decided
<1> QED
  BY <1>2, <1>3, <1>4, <1>5, <1>6, <1>7, <1>8, <1>9, OnlyOne DEF Good

LEMMA AnsweredKeeps ==
  ASSUME IInv, NEW s \in Sessions, NEW q \in Questions, Answered(s, q)
  PROVE  IInv'
<1>0. Typed /\ Sorted(s) /\ Good(s) /\ kind[s] \in {"acp", "terminal"}
  BY TypeParts, Kinded DEF IInv
<1>1. /\ ask' \in [Sessions ->
                   [Questions -> {"none", "raised", "open", "back", "closed"}]]
      /\ ask'[s][q] = "back"
      /\ \A p \in Questions \ {q} : ask'[s][p] = ask[s][p]
      /\ \A u \in Sessions \ {s} : ask'[u] = ask[u]
  BY <1>0 DEF Answered, Typed
<1>2. Typed'
  BY <1>0, <1>1 DEF Answered, Typed, outside, history, bounds, Status, Live
<1>3. Alone(s)
  BY <1>0, <1>1 DEF Answered, Alone, Untouched, outside, history, bounds
<1>4. Sorted(s)'
  BY <1>0, <1>1, NoneApart
     DEF Good, Answered, outside, history, bounds, Sorted, Busy, AcpSteps,
         TerminalSteps, Writers
<1>5. Steps(s)' /\ Follows(s)' /\ Begins(s)'
  BY <1>0, <1>1, NoneApart
     DEF Good, Answered, outside, history, bounds, Steps, Decided, Follows,
         Open, Outcomes, Ended, Begins, Before, Live, Sorted, AcpSteps,
         TerminalSteps
<1>6. Marked(s)' /\ Heeds(s)'
  BY <1>0, <1>1, NoneApart
     DEF Good, Answered, outside, history, bounds, Marked, Open, Before,
         Heeds, Decided, Outcomes, Ended, Begins, Live, Sorted, AcpSteps,
         TerminalSteps
<1>7. Reports(s)' /\ Shows(s)'
  BY <1>0, <1>1, NoneApart
     DEF Good, Answered, outside, history, bounds, Reports, Open, Outcomes,
         Ended, Shows, Steps, Decided, Follows, Begins, Before, Live,
         Sorted, AcpSteps, TerminalSteps
<1>8. Speaks(s)'
  BY <1>0, <1>1, NoneApart
     DEF Good, Answered, outside, history, bounds, Speaks, Unstopped,
         Outcomes, Steps, Decided, Begins, Before, Live, Sorted, AcpSteps,
         TerminalSteps
<1>9. Stores(s)'
  BY <1>0, <1>1, NoneApart
     DEF Good, Answered, outside, history, bounds, Stores, Busy, Quiet,
         Live, Begins, Ended, Status, Before, Decided
<1> QED
  BY <1>2, <1>3, <1>4, <1>5, <1>6, <1>7, <1>8, <1>9, OnlyOne DEF Good

LEMMA AskBackKeeps ==
  ASSUME IInv, NEW s \in Sessions, NEW q \in Questions, AskBack(s, q)
  PROVE  IInv'
<1>0. Typed /\ Sorted(s) /\ Good(s) /\ kind[s] \in {"acp", "terminal"}
  BY TypeParts, Kinded DEF IInv
<1>1a. /\ ask' \in [Sessions ->
                    [Questions -> {"none", "raised", "open", "back", "closed"}]]
       /\ ask'[s][q] = "closed" /\ ask[s][q] = "back"
       /\ \A p \in Questions \ {q} : ask'[s][p] = ask[s][p]
       /\ \A u \in Sessions \ {s} : ask'[u] = ask[u]
  BY <1>0 DEF AskBack, Typed
<1>1b. q \in Writers /\ q # "watcher"
  BY SessionLifeAssumption DEF Writers
<1>1c. StatusIs(s, q, "running")
  BY <1>0, <1>1b, FinishFacts DEF AskBack, Status, Live
<1>2. Typed'
  BY <1>0, <1>1a, <1>1b, <1>1c
     DEF AskBack, Typed, StatusIs, SessIs, WritesOne, outside, bounds,
         marks, Status, Live
<1>3. Alone(s)
  BY <1>0, <1>1a, <1>1b, <1>1c
     DEF AskBack, Alone, Untouched, StatusIs, SessIs, WritesOne, outside,
         bounds, marks
<1>4. Sorted(s)'
  BY <1>0, <1>1a, <1>1b, <1>1c, NoneApart
     DEF Good, AskBack, StatusIs, WritesOne, Sorted, Busy, AcpSteps,
         TerminalSteps, outside, marks, bounds, Writers
<1>5. Steps(s)' /\ Follows(s)' /\ Begins(s)'
  BY <1>0, <1>1a, <1>1b, <1>1c, NoneApart
     DEF Good, AskBack, StatusIs, SessIs, WritesOne, outside, bounds, marks,
         Steps, Decided, Follows, Open, Outcomes, Ended, Begins, Before,
         Live, Sorted, AcpSteps, TerminalSteps
<1>6. Marked(s)' /\ Heeds(s)'
  BY <1>0, <1>1a, <1>1b, <1>1c, NoneApart
     DEF Good, AskBack, StatusIs, SessIs, WritesOne, outside, bounds, marks,
         Marked, Open, Before, Heeds, Decided, Outcomes, Ended, Begins,
         Live, Sorted, AcpSteps, TerminalSteps
<1>7. Reports(s)' /\ Shows(s)'
  BY <1>0, <1>1a, <1>1b, <1>1c, NoneApart
     DEF Good, AskBack, StatusIs, SessIs, WritesOne, outside, bounds, marks,
         Reports, Open, Outcomes, Ended, Shows, Steps, Decided, Follows,
         Begins, Before, Live, Sorted, AcpSteps, TerminalSteps
<1>8. Speaks(s)'
  BY <1>0, <1>1a, <1>1b, <1>1c, NoneApart
     DEF Good, AskBack, StatusIs, SessIs, WritesOne, outside, bounds, marks,
         Speaks, Unstopped, Outcomes, Steps, Decided, Begins, Before, Live,
         Sorted, AcpSteps, TerminalSteps
<1>9. Stores(s)'
  <2>1. run' = run /\ stored' = stored /\ early' = early
        /\ run[s].pc \notin {"start", "prepare", "connect"}
    BY <1>0, <1>1a DEF AskBack, marks, Good, Begins, Decided
  <2> QED
    BY <1>0, <1>1b, <1>1c, <2>1, StoresKept DEF Good, Status, Live
<1> QED
  BY <1>2, <1>3, <1>4, <1>5, <1>6, <1>7, <1>8, <1>9, OnlyOne DEF Good

LEMMA RunStageEnds ==
  ASSUME Typed, NEW s \in Sessions, NEW v \in Verdicts, NEW w \in Words,
         run' = [run EXCEPT ![s].pc = "conclude", ![s].verdict = v,
                            ![s].said = w]
  PROVE  RunIs(s, "conclude", run[s].early, run[s].result, v, run[s].told, w)
  BY RunEnds DEF Pcs

LEMMA StageOverKeeps ==
  ASSUME IInv, NEW s \in Sessions, StageOver(s)
  PROVE  IInv'
<1>0. Typed /\ Sorted(s) /\ Good(s) /\ kind[s] \in {"acp", "terminal"}
  BY TypeParts, Kinded DEF IInv
<1>1a. PICK v \in Ended, w \in Words :
       /\ v = StageVerdict(s) /\ w = StageWord(s)
       /\ run[s].result \in Outcomes => v = run[s].result
       /\ run[s].result \notin Outcomes /\ CtxDone(s) => v = "cancelled"
       /\ ~CtxDone(s) => w # None
  <2>1. CASE run[s].result \in Outcomes
    <3>1. StageVerdict(s) = run[s].result
      BY <2>1 DEF StageVerdict, Outcomes
    <3>2. StageWord(s) = "comment"
      BY <2>1, <3>1 DEF StageWord, Outcomes
    <3> QED
      BY <2>1, <3>1, <3>2, NoneApart DEF Ended, Outcomes, Words
  <2>2. CASE run[s].result \notin Outcomes
    <3>1. StageVerdict(s) = IF ~CtxDone(s) /\ cli[s].state = "broken"
                            THEN "failed" ELSE "cancelled"
      BY <2>2 DEF StageVerdict, Outcomes
    <3> QED
      BY <2>2, <3>1, NoneApart DEF StageWord, Ended, Words
  <2> QED
    BY <2>1, <2>2
<1>1b. RunIs(s, "conclude", run[s].early, run[s].result, v, run[s].told, w)
  BY <1>0, <1>1a, RunStageEnds DEF StageOver, Verdicts
<1>1c. PICK x \in {"off", "on", "stop"} :
       (cli[s].watch = "off" => x = "off") /\ CliIs(s, x)
  <2>1. cli[s] \in Cli
    BY <1>0 DEF Typed
  <2>2. PICK state \in {"up", "gone"} :
          cli' = [cli EXCEPT ![s].watch = IF @ = "on" THEN "stop" ELSE @,
                             ![s].state = IF @ = "up" THEN state ELSE @]
    BY DEF StageOver
  <2> DEFINE y == IF cli[s].watch = "on" THEN "stop" ELSE cli[s].watch
             x == IF cli[s].state = "up" THEN state ELSE cli[s].state
             c == [cli[s] EXCEPT !.watch = y, !.state = x]
  <2>3. cli' = [cli EXCEPT ![s] = c]
    BY <1>0, <2>1, <2>2 DEF Typed, Cli
  <2>4. /\ y \in {"off", "on", "stop"} /\ (cli[s].watch = "off" => y = "off")
        /\ x \in {"none", "up", "broken", "gone"}
    BY <2>1 DEF Cli
  <2> HIDE DEF y, x
  <2>5. c \in Cli /\ c.watch = y
    BY <2>1, <2>4 DEF Cli
  <2> HIDE DEF c
  <2>6. CliIs(s, y)
    BY <1>0, <2>3, <2>5, CliBecomes
  <2> QED
    BY <2>4, <2>6
<1>1d. s \in heeded => run[s].result \notin Outcomes /\ CtxDone(s)
  BY <1>0
     DEF StageOver, At, Sorted, TerminalSteps, Good, Heeds, Outcomes,
         CtxDone
<1>1e. Unstopped(s) => ~CtxDone(s)
  BY <1>0 DEF Good, Speaks, Unstopped, CtxDone
<1>2. Typed'
  BY <1>0, <1>1a, <1>1b, <1>1c, <1>1d, <1>1e
     DEF StageOver, Typed, RunIs, CliIs, outside, history, bounds, Status,
         Live
<1>3. Alone(s)
  BY <1>0, <1>1a, <1>1b, <1>1c, <1>1d, <1>1e
     DEF StageOver, Alone, Untouched, RunIs, CliIs, outside, history, bounds
<1>4. Sorted(s)'
  <2>1. UNCHANGED <<kind, writing>> /\ kind[s] = "terminal"
    BY <1>0 DEF StageOver, At, Sorted, TerminalSteps
  <2> QED
    BY <1>0, <1>1a, <1>1b, <2>1, NoneApart
       DEF Sorted, Busy, RunIs, AcpSteps, TerminalSteps, Ended, Status
<1>5. Steps(s)' /\ Follows(s)' /\ Begins(s)'
  <2>1. /\ UNCHANGED <<down, kind, sess, ask>>
        /\ kind[s] = "terminal" /\ run[s].pc = "picked"
    BY <1>0 DEF StageOver, At, Sorted, TerminalSteps, outside
  <2>2. Steps(s)'
    BY <1>0, <1>1a, <1>1b, <2>1, NoneApart
       DEF Good, RunIs, Steps, Decided, Ended, Status
  <2>3. Follows(s)' /\ Begins(s)'
    BY <1>0, <1>1b, <1>1c, <2>1
       DEF Good, RunIs, CliIs, Steps, Follows, Open, Decided, Begins, Before
  <2> QED
    BY <2>2, <2>3
<1>6. Marked(s)' /\ Heeds(s)'
  BY <1>0, <1>1a, <1>1b, <1>1c, <1>1d, <1>1e, NoneApart
     DEF Good, StageOver, At, RunIs, CliIs, outside, history, bounds,
         Marked, Open, Before, Heeds, Decided, Outcomes, Ended, Begins,
         Live, Sorted, AcpSteps, TerminalSteps
<1>7. Reports(s)' /\ Shows(s)'
  BY <1>0, <1>1a, <1>1b, <1>1c, <1>1d, <1>1e, NoneApart
     DEF Good, StageOver, At, RunIs, CliIs, outside, history, bounds,
         Reports, Open, Outcomes, Ended, Shows, Steps, Decided, Follows,
         Begins, Before, Live, Sorted, AcpSteps, TerminalSteps
<1>8. Speaks(s)'
  BY <1>0, <1>1a, <1>1b, <1>1c, <1>1d, <1>1e, NoneApart
     DEF Good, StageOver, At, RunIs, CliIs, outside, history, bounds,
         Speaks, Unstopped, Outcomes, Steps, Decided, Begins, Before, Live,
         Sorted, AcpSteps, TerminalSteps
<1>9. Stores(s)'
  BY <1>0, <1>1a, <1>1b, <1>1c, <1>1d, <1>1e, NoneApart
     DEF Good, StageOver, At, RunIs, CliIs, outside, history, bounds,
         Stores, Busy, Quiet, Live, Begins, Ended, Status, Before, Decided
<1> QED
  BY <1>2, <1>3, <1>4, <1>5, <1>6, <1>7, <1>8, <1>9, OnlyOne DEF Good

LEMMA ShutdownKeeps ==
  ASSUME IInv, Shutdown
  PROVE  IInv'
<1>0. Typed /\ \A s \in Sessions : Sorted(s) /\ Good(s)
  BY TypeParts DEF IInv
<1>1. ASSUME NEW s \in Sessions
      PROVE  /\ run'[s] \in Run
             /\ run'[s].pc = (IF run[s].pc = "parked" THEN "picked"
                             ELSE run[s].pc)
             /\ run'[s].result = (IF run[s].pc = "parked" THEN "ctx"
                                 ELSE run[s].result)
             /\ run'[s].verdict = run[s].verdict /\ run'[s].told = run[s].told
             /\ run'[s].early = run[s].early
  <2>1. run[s] \in Run
    BY <1>0 DEF Typed
  <2>2. CASE run[s].pc = "parked"
    <3>1. run'[s] = [run[s] EXCEPT !.pc = "picked", !.result = "ctx"]
      BY <2>2 DEF Shutdown, Wakes
    <3> QED
      BY <2>1, <2>2, <3>1 DEF Run, TerminalSteps
  <2>3. CASE run[s].pc # "parked"
    BY <2>1, <2>3 DEF Shutdown, Wakes
  <2> QED
    BY <2>2, <2>3
<1>2. Typed'
  <2>1. run' = [s \in Sessions |-> run'[s]]
    BY DEF Shutdown, Wakes
  <2>2. run' \in [Sessions -> Run]
    BY <1>1, <2>1
  <2> QED
    BY <1>0, <2>2 DEF Shutdown, Typed, history, bounds
<1>3. ASSUME NEW s \in Sessions
      PROVE  Sorted(s)' /\ Good(s)'
  <2>0. Sorted(s) /\ Good(s)
    BY <1>0
  <2>1. UNCHANGED <<kind, sess, stored, writing, call, ask, cli, heeded, early,
                    crossed, stopped, calls>> /\ down'
    BY DEF Shutdown, history, bounds
  <2>2. Sorted(s)'
    BY <1>1, <2>0, <2>1 DEF Sorted, Busy, AcpSteps, TerminalSteps
  <2>3. Steps(s)' /\ Follows(s)' /\ Begins(s)'
    BY <1>1, <2>0, <2>1
       DEF Good, Steps, Follows, Begins, Open, Decided, Before
  <2>4. Marked(s)' /\ Heeds(s)'
    BY <1>1, <2>0, <2>1
       DEF Good, Marked, Heeds, Open, Decided, Before, Sorted, TerminalSteps
  <2>5. Reports(s)' /\ Speaks(s)' /\ Shows(s)' /\ Stores(s)'
    BY <1>1, <2>0, <2>1
       DEF Good, Reports, Speaks, Unstopped, Shows, Stores, Open, Busy, Quiet
  <2> QED
    BY <2>2, <2>3, <2>4, <2>5 DEF Good
<1> QED
  BY <1>2, <1>3, TypePartsNext DEF IInv

-----------------------------------------------------------------------------
(* The invariant holds                                                     *)

LEMMA InitIInv == Init => IInv
<1> SUFFICES ASSUME Init
             PROVE  IInv
  OBVIOUS
<1>1. Typed
  <2>1. /\ MaxTurns \in Nat /\ 0 \in 0 .. MaxTurns
    BY SessionLifeAssumption
  <2>2. /\ run \in [Sessions -> Run] /\ sess \in [Sessions -> Sess]
        /\ cli \in [Sessions -> Cli]
    BY DEF Init, Run, Sess, Cli, Status
  <2>3. /\ writing \in [Sessions -> [Writers -> Status \cup {None}]]
        /\ stored \in [Sessions -> Status]
    BY DEF Init, Status
  <2> QED
    BY <2>1, <2>2, <2>3 DEF Init, Typed
<1>2. ASSUME NEW s \in Sessions
      PROVE  Sorted(s) /\ Good(s)
  <2>1. /\ run[s].pc = "start" /\ run[s].verdict = None /\ run[s].told = None
        /\ run[s].result = None /\ run[s].early = FALSE
        /\ sess[s].status = "queued" /\ sess[s].sent = FALSE
        /\ sess[s].pending = FALSE /\ sess[s].ctx = "none"
        /\ call[s] = "idle" /\ cli[s].watch = "off" /\ stored[s] = "queued"
        /\ \A g \in Writers : writing[s][g] = None
        /\ \A q \in Questions : ask[s][q] = "none"
        /\ s \notin heeded
    BY DEF Init
  <2>2. Sorted(s)
    BY <2>1 DEF Sorted, Busy, AcpSteps, TerminalSteps, Writers
  <2>3. Steps(s) /\ Follows(s) /\ Begins(s) /\ Marked(s) /\ Heeds(s)
    BY <2>1 DEF Steps, Follows, Begins, Marked, Heeds, Open, Decided, Before,
                Live, Ended, Outcomes
  <2>4. Reports(s) /\ Speaks(s) /\ Shows(s) /\ Stores(s)
    BY <2>1 DEF Reports, Speaks, Shows, Stores, Open, Ended, Busy, Quiet
  <2> QED
    BY <2>2, <2>3, <2>4 DEF Good
<1> QED
  BY <1>1, <1>2, TypeParts DEF IInv

LEMMA RunKeeps ==
  ASSUME IInv, NEW s \in Sessions, RunStep(s)
  PROVE  IInv'
<1>1. CASE Start(s) \/ Prepare(s) \/ FolderTaken(s) \/ PrepareFails(s)
  BY <1>1, StartDownKeeps, StartUpKeeps, PrepareKeeps, FolderTakenKeeps,
     PrepareFailsKeeps
<1>2. CASE Connect(s) \/ ConnectFails(s) \/ TakeSlot(s) \/ SlotWaitEnds(s)
  BY <1>2, ConnectKeeps, ConnectFailsKeeps, TakeSlotKeeps, SlotWaitEndsKeeps
<1>3. CASE Turn(s) \/ Prompt(s) \/ Judge(s) \/ Release(s)
  BY <1>3, TurnKeeps, PromptKeeps, JudgeKeeps, ReleaseKeeps
<1>4. CASE Interrupted(s)
  BY <1>4, PromptReturnsKeeps DEF Interrupted
<1>5. CASE Conclude(s) \/ Wind(s)
  BY <1>5, ConcludeDownKeeps, ConcludeEndsKeeps, WindUpKeeps, WindDownKeeps
<1>6. CASE OpenTerminal(s) \/ OpenFails(s) \/ AwaitStage(s) \/ Hold(s)
  BY <1>6, OpenTerminalKeeps, OpenFailsKeeps, AwaitStageKeeps, HoldKeeps
<1>7. CASE Select(s) \/ StageOver(s) \/ ForgetStage(s)
  BY <1>7, SelectKeeps, StageOverKeeps, ForgetStageKeeps
<1> QED
  BY <1>1, <1>2, <1>3, <1>4, <1>5, <1>6, <1>7 DEF RunStep

LEMMA AgentKeeps ==
  ASSUME IInv, NEW s \in Sessions, AgentStep(s)
  PROVE  IInv'
<1>1. CASE AgentAnswers(s) \/ AgentBreaks(s) \/ AgentStops(s)
  BY <1>1, PromptReturnsKeeps DEF AgentAnswers, AgentBreaks, AgentStops
<1>2. CASE FindStage(s)
  BY <1>2, FindStageKeeps
<1>3. CASE \E r \in {"done", "failed"} : Report(s, r)
  BY <1>3, ReportTakenKeeps, ReportLeftKeeps
<1>4. CASE \E state \in {"gone", "broken"} : CliEnds(s, state)
  BY <1>4, CliEndsKeeps
<1> QED
  BY <1>1, <1>2, <1>3, <1>4 DEF AgentStep

LEMMA StuttersKeep == IInv /\ UNCHANGED vars => IInv'
<1> SUFFICES ASSUME IInv, UNCHANGED vars
             PROVE  IInv'
  OBVIOUS
<1>1. Typed
  BY TypeParts DEF IInv
<1>2. Typed'
  BY <1>1 DEF Typed, vars
<1>3. kind' = kind /\ down' = down /\ \A u \in Sessions : Untouched(u)
  BY DEF vars, Untouched
<1> QED
  BY <1>2, <1>3, NoOnes

LEMMA NextIInv == IInv /\ [Next]_vars => IInv'
<1> SUFFICES ASSUME IInv, [Next]_vars
             PROVE  IInv'
  OBVIOUS
<1>1. CASE UNCHANGED vars
  BY <1>1, StuttersKeep
<1>2. CASE OtherTakes \/ OtherLeaves \/ Shutdown
  BY <1>2, OthersKeep, ShutdownKeeps
<1>3. ASSUME NEW s \in Sessions, RunStep(s) \/ AgentStep(s)
      PROVE  IInv'
  BY <1>3, RunKeeps, AgentKeeps
<1>4. ASSUME NEW s \in Sessions,
             \/ Expire(s) \/ Hook(s) \/ WatchTick(s) \/ WatchEnds(s)
             \/ Cancel(s) \/ CallStep(s)
      PROVE  IInv'
  BY <1>4, ExpireKeeps, HookKeeps, WatchTickKeeps, WatchEndsKeeps, CancelKeeps,
     InterruptKeeps, FinishByCancelKeeps DEF CallStep
<1>5. ASSUME NEW s \in Sessions, \E g \in Writers : Persist(s, g)
      PROVE  IInv'
  BY <1>5, PersistKeeps
<1>6. ASSUME NEW s \in Sessions, NEW q \in Questions,
             Ask(s, q) \/ AskStep(s, q) \/ Answered(s, q)
      PROVE  IInv'
  BY <1>6, AskKeeps, RegisterKeeps, AnsweredKeeps, AskBackKeeps
     DEF AskStep, Withdrawn
<1> QED
  BY <1>1, <1>2, <1>3, <1>4, <1>5, <1>6 DEF Next

\* The inductive invariant holds of every reachable state.
THEOREM Invariant == Spec => []IInv
  BY InitIInv, NextIInv, PTL DEF Spec

-----------------------------------------------------------------------------
(* What the project's runs check, for every value of the constants         *)

\* The variables keep their types and a session stays with the steps of its kind.
THEOREM TypeCorrect == Spec => []TypeOK
<1>1. IInv => TypeOK
  BY DEF IInv
<1> QED
  BY <1>1, Invariant, PTL

\* A report the stage was waiting for is how it ends, unless somebody was
\* cancelling the session.
THEOREM ReportCountsCorrect == Spec => []ReportCounts
<1>1. IInv => ReportCounts
  BY DEF IInv, Good, Reports, ReportCounts, Outcomes
<1> QED
  BY <1>1, Invariant, PTL

\* A session nobody stopped does not end without a word.
THEOREM SilentOnlyIfStoppedCorrect == Spec => []SilentOnlyIfStopped
<1>1. IInv => SilentOnlyIfStopped
  <2> SUFFICES ASSUME IInv, NEW s \in Sessions, run[s].pc = "over",
                      run[s].said = None, calls[s] = 0, ~down,
                      sess[s].ctx # "expired", s \notin stopped
               PROVE  FALSE
    BY TypeParts DEF SilentOnlyIfStopped, IInv, Typed
  <2>1. Unstopped(s) /\ Speaks(s)
    BY DEF IInv, Good, Unstopped
  <2> QED
    BY <2>1 DEF Speaks
<1> QED
  BY <1>1, Invariant, PTL

\* A question that stands shows on the card.
THEOREM AskShownCorrect == Spec => []AskShown
<1>1. IInv => AskShown
  BY DEF IInv, Good, Shows, AskShown
<1> QED
  BY <1>1, Invariant, PTL

\* The database ends with what memory says, but for the two races that are known.
THEOREM StoredAsEndedCorrect == Spec => []StoredAsEnded
<1>1. IInv => StoredAsEnded
  BY DEF IInv, Good, Follows, Stores, StoredAsEnded, Ended
<1> QED
  BY <1>1, Invariant, PTL

LEMMA ReturnKeepsStatus ==
  ASSUME sess \in [Sessions -> Sess], NEW s \in Sessions, NEW r, NEW mark,
         PromptReturns(s, r, mark), NEW u \in Sessions
  PROVE  sess'[u].status = sess[u].status
<1>1. \E h, b : sess' = [sess EXCEPT ![s].hook = h, ![s].sent = b]
  BY DEF PromptReturns
<1> QED
  BY <1>1 DEF Sess

\* The status of a session, once terminal, moves only when its task starts.
THEOREM RevivedOnlyByItsTaskCorrect == Spec => RevivedOnlyByItsTask
<1> DEFINE Kept == \A s \in Sessions :
              sess[s].status \in Ended /\ sess'[s].status # sess[s].status =>
                run[s].pc \in {"turn", "hold"}
<1>1. IInv /\ [Next]_vars => [Kept]_vars
  <2> SUFFICES ASSUME IInv, Next, NEW u \in Sessions, sess[u].status \in Ended,
                      run[u].pc \notin {"turn", "hold"}
               PROVE  sess'[u].status = sess[u].status
    BY DEF vars
  <2>0. sess \in [Sessions -> Sess] /\ \A x \in Sessions : sess[x] \in Sess
    BY DEF IInv, TypeOK
  <2>1. CASE sess' = sess
    BY <2>1
  <2>2. ASSUME NEW s \in Sessions, NEW g, NEW v,
               Finish(s, g, v) \/ SetStatus(s, g, v)
        PROVE  sess'[u].status = sess[u].status
    BY <2>0, <2>2 DEF Finish, SetStatus, KeepsStatus, Sess
  <2>3. ASSUME NEW s \in Sessions, RunStep(s)
        PROVE  sess'[u].status = sess[u].status
    <3>1. CASE \/ Prepare(s) \/ Connect(s) \/ TakeSlot(s) \/ SlotWaitEnds(s)
               \/ Judge(s) \/ OpenTerminal(s) \/ AwaitStage(s) \/ Select(s)
               \/ StageOver(s) \/ ForgetStage(s) \/ Release(s)
      BY <3>1 DEF Prepare, Connect, TakeSlot, SlotWaitEnds, Judge,
                  OpenTerminal, AwaitStage, Select, StageOver, ForgetStage,
                  Release
    <3>2. CASE \/ Start(s) \/ FolderTaken(s) \/ PrepareFails(s)
               \/ ConnectFails(s) \/ OpenFails(s) \/ Conclude(s) \/ Wind(s)
      <4>1. sess' = sess \/ \E v : Finish(s, "runner", v)
        BY <3>2 DEF Start, FolderTaken, PrepareFails, ConnectFails, OpenFails,
                    Conclude, Wind, Ends, KeepsStatus
      <4> QED
        BY <2>1, <2>2, <4>1
    <3>3. CASE Turn(s) \/ Hold(s)
      <4>1. u # s
        BY <3>3 DEF Turn, Hold, At
      <4> QED
        BY <2>0, <3>3, <4>1 DEF Turn, Hold, Sess
    <3>4. CASE Prompt(s)
      <4>1. \E h, c : sess' = [sess EXCEPT ![s].hook = h, ![s].ctx = c]
        BY <3>4 DEF Prompt
      <4> QED
        BY <2>0, <4>1 DEF Sess
    <3>5. CASE Interrupted(s)
      BY <2>0, <3>5, ReturnKeepsStatus DEF Interrupted
    <3> QED
      BY <2>3, <3>1, <3>2, <3>3, <3>4, <3>5 DEF RunStep
  <2>4. ASSUME NEW s \in Sessions, AgentStep(s)
        PROVE  sess'[u].status = sess[u].status
    <3>1. CASE AgentAnswers(s) \/ AgentBreaks(s) \/ AgentStops(s)
      BY <2>0, <3>1, ReturnKeepsStatus DEF AgentAnswers, AgentBreaks, AgentStops
    <3>2. CASE \/ FindStage(s) \/ \E r \in {"done", "failed"} : Report(s, r)
               \/ \E state \in {"gone", "broken"} : CliEnds(s, state)
      BY <3>2 DEF FindStage, Report, CliEnds
    <3> QED
      BY <2>4, <3>1, <3>2 DEF AgentStep
  <2>5. ASSUME NEW s \in Sessions,
               \/ Expire(s) \/ Hook(s) \/ Cancel(s) \/ Interrupt(s)
        PROVE  sess'[u].status = sess[u].status
    BY <2>0, <2>5 DEF Expire, Hook, Cancel, Interrupt, Sess
  <2>6. ASSUME NEW s \in Sessions,
               \/ WatchTick(s) \/ WatchEnds(s) \/ FinishByCancel(s)
               \/ \E g \in Writers : Persist(s, g)
        PROVE  sess'[u].status = sess[u].status
    <3>1. sess' = sess \/ \E g, v : Finish(s, g, v) \/ SetStatus(s, g, v)
      BY <2>6 DEF WatchTick, WatchEnds, FinishByCancel, Persist
    <3> QED
      BY <2>1, <2>2, <3>1
  <2>7. ASSUME NEW s \in Sessions, NEW q \in Questions,
               Ask(s, q) \/ AskStep(s, q) \/ Answered(s, q)
        PROVE  sess'[u].status = sess[u].status
    <3>1. sess' = sess \/ \E v : SetStatus(s, q, v)
      BY <2>7 DEF Ask, AskStep, Register, Withdrawn, Answered, AskBack
    <3> QED
      BY <2>1, <2>2, <3>1
  <2>8. CASE OtherTakes \/ OtherLeaves \/ Shutdown
    BY <2>8 DEF OtherTakes, OtherLeaves, Shutdown
  <2> QED
    BY <2>3, <2>4, <2>5, <2>6, <2>7, <2>8 DEF Next, CallStep
<1> QED
  BY <1>1, Invariant, PTL DEF Spec, RevivedOnlyByItsTask

-----------------------------------------------------------------------------
(* A session keeps what SessionVerdict promises                            *)

\* Nothing is told, and nobody is stopped: the promise does not move.
LEMMA Unmoved ==
  ASSUME \A x \in Sessions : run'[x].told = run[x].told, heeded' = heeded
  PROVE  UNCHANGED Verdict!vars
  BY DEF Verdict!vars

LEMMA RunTellsNobody ==
  ASSUME Typed, NEW s \in Sessions, RunStep(s), ~Release(s)
  PROVE  (\A x \in Sessions : run'[x].told = run[x].told) /\ heeded' = heeded
<1>0. run \in [Sessions -> Run] /\ \A x \in Sessions : run[x] \in Run
  BY DEF Typed
<1>1. CASE \/ Start(s) \/ FolderTaken(s) \/ PrepareFails(s)
           \/ ConnectFails(s) \/ OpenFails(s) \/ Conclude(s) \/ Wind(s)
  BY <1>0, <1>1 DEF Start, FolderTaken, PrepareFails, ConnectFails, OpenFails,
                    Conclude, Wind, Ends, Go, Run, marks
<1>2. CASE \/ Prepare(s) \/ Connect(s) \/ TakeSlot(s) \/ SlotWaitEnds(s)
           \/ Judge(s) \/ OpenTerminal(s) \/ AwaitStage(s) \/ ForgetStage(s)
  BY <1>0, <1>2 DEF Prepare, Connect, TakeSlot, SlotWaitEnds, Judge,
                    OpenTerminal, AwaitStage, ForgetStage, Go, Run, history
<1>3. CASE Turn(s) \/ Prompt(s) \/ Hold(s) \/ Interrupted(s)
  BY <1>0, <1>3 DEF Turn, Prompt, Hold, Interrupted, PromptReturns, Go, Run,
                    history, marks
<1>4. CASE Select(s) \/ StageOver(s)
  BY <1>0, <1>4 DEF Select, StageOver, Go, Run, history
<1> QED
  BY <1>1, <1>2, <1>3, <1>4 DEF RunStep

LEMMA WakeTellsNobody ==
  ASSUME Typed, NEW s \in Sessions, NEW r, Wake(s, r)
  PROVE  \A x \in Sessions : run'[x].told = run[x].told
  BY DEF Typed, Wake, Wakes, Run

LEMMA ReleaseTells ==
  ASSUME IInv, NEW s \in Sessions, Release(s)
  PROVE  Verdict!Next
<1>1. Typed /\ Good(s)
  BY TypeParts DEF IInv
<1>2. run[s].told = None /\ heeded' = heeded
  BY <1>1 DEF Release, At, Good, Steps, history
<1>3. PICK o \in {"success", "failure", "nothing"} :
        /\ s \in heeded => o = "nothing"
        /\ run' = [run EXCEPT ![s].pc = "over", ![s].told = o]
  <2> DEFINE p == CASE sess[s].status = "done" -> "success"
                    [] sess[s].status = "failed" -> "failure"
                    [] OTHER -> "nothing"
  <2>1. p \in {"success", "failure", "nothing"}
    OBVIOUS
  <2>2. s \in heeded => p = "nothing"
    BY <1>1 DEF Good, Heeds, Outcomes
  <2>3. run' = [run EXCEPT ![s].pc = "over", ![s].told = p]
    BY DEF Release
  <2> HIDE DEF p
  <2> QED
    BY <2>1, <2>2, <2>3
<1>4. [x \in Sessions |-> run'[x].told] =
         [[x \in Sessions |-> run[x].told] EXCEPT ![s] = o]
  BY <1>1, <1>3 DEF Typed, Run
<1>5. Verdict!Tell(s, o)
  BY <1>2, <1>3, <1>4 DEF Verdict!Tell
<1> QED
  BY <1>5 DEF Verdict!Next

LEMMA CallStops ==
  ASSUME IInv, NEW s \in Sessions, CallStep(s)
  PROVE  Verdict!Next \/ UNCHANGED Verdict!vars
<1>1. Typed /\ Good(s)
  BY TypeParts DEF IInv
<1>2. \A x \in Sessions : run'[x].told = run[x].told
  BY <1>1, WakeTellsNobody DEF CallStep, Interrupt, FinishByCancel
<1>3. CASE heeded' = heeded
  BY <1>2, <1>3, Unmoved
<1>4. CASE heeded' # heeded
  <2>1. /\ heeded' = heeded \cup {s}
        /\ Open(s) \/ run[s].pc = "parked"
    BY <1>4 DEF CallStep, Interrupt, FinishByCancel
  <2>2. run[s].told = None
    BY <1>1, <2>1 DEF Good, Steps, Open
  <2>3. Verdict!Stop(s)
    BY <1>2, <2>1, <2>2 DEF Verdict!Stop
  <2> QED
    BY <2>3 DEF Verdict!Next
<1> QED
  BY <1>3, <1>4

LEMMA StepKeepsVerdict ==
  IInv /\ [Next]_vars => [Verdict!Next]_(Verdict!vars)
<1> SUFFICES ASSUME IInv, [Next]_vars
             PROVE  Verdict!Next \/ UNCHANGED Verdict!vars
  OBVIOUS
<1>0. Typed /\ run \in [Sessions -> Run] /\ \A x \in Sessions : run[x] \in Run
  BY TypeParts DEF IInv, Typed
<1>1. CASE UNCHANGED vars
  BY <1>1, Unmoved DEF vars
<1>2. CASE OtherTakes \/ OtherLeaves
  BY <1>2, Unmoved DEF OtherTakes, OtherLeaves, history
<1>3. CASE Shutdown
  BY <1>0, <1>3, Unmoved DEF Shutdown, Wakes, Run, history
<1>4. ASSUME NEW s \in Sessions, RunStep(s)
      PROVE  Verdict!Next \/ UNCHANGED Verdict!vars
  BY <1>0, <1>4, RunTellsNobody, ReleaseTells, Unmoved
<1>5. ASSUME NEW s \in Sessions, AgentStep(s)
      PROVE  Verdict!Next \/ UNCHANGED Verdict!vars
  <2>1. heeded' = heeded
    BY <1>5 DEF AgentStep, AgentAnswers, AgentBreaks, AgentStops,
                PromptReturns, FindStage, Report, CliEnds, history
  <2>2. CASE AgentAnswers(s) \/ AgentBreaks(s) \/ AgentStops(s)
    BY <1>0, <2>1, <2>2, Unmoved
       DEF AgentAnswers, AgentBreaks, AgentStops, PromptReturns, Run
  <2>3. CASE \/ FindStage(s) \/ \E r \in {"done", "failed"} : Report(s, r)
             \/ \E state \in {"gone", "broken"} : CliEnds(s, state)
    BY <1>0, <2>1, <2>3, WakeTellsNobody, Unmoved
       DEF FindStage, Report, CliEnds
  <2> QED
    BY <1>5, <2>2, <2>3 DEF AgentStep
<1>6. ASSUME NEW s \in Sessions,
             \/ Expire(s) \/ Hook(s) \/ WatchTick(s) \/ WatchEnds(s)
             \/ Cancel(s) \/ \E g \in Writers : Persist(s, g)
             \/ \E q \in Questions : Ask(s, q) \/ AskStep(s, q) \/ Answered(s, q)
      PROVE  UNCHANGED Verdict!vars
  <2>1. run' = run /\ heeded' = heeded
    BY <1>6 DEF Expire, Hook, WatchTick, WatchEnds, Cancel, Persist, Ask,
                AskStep, Register, Withdrawn, Answered, AskBack, history, marks
  <2> QED
    BY <2>1, Unmoved
<1>7. ASSUME NEW s \in Sessions, CallStep(s)
      PROVE  Verdict!Next \/ UNCHANGED Verdict!vars
  BY <1>7, CallStops
<1> QED
  BY <1>1, <1>2, <1>3, <1>4, <1>5, <1>6, <1>7 DEF Next

\* A session's route hears of it once, and of one that was stopped in time it
\* hears nothing: SessionLife implements SessionVerdict.
THEOREM VerdictKept == Spec => VerdictSpec
<1>1. Init => Verdict!Init
  BY DEF Init, Verdict!Init
<1> QED
  BY <1>1, StepKeepsVerdict, Invariant, PTL DEF Spec, VerdictSpec, Verdict!Spec
=============================================================================
