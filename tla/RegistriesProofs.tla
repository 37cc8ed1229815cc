-------------------------- MODULE RegistriesProofs --------------------------
(***************************************************************************)
(* What holds of Registries for any names, boards and bounds: the          *)
(* inductive invariant, and what follows from it.                          *)
(***************************************************************************)
EXTENDS Registries, TLAPS

-----------------------------------------------------------------------------
(* The inductive invariant                                                  *)

\* What is still to be saved is in memory.
LeftInv == saving.left \subseteq memory[saving.kind]

\* A save begins with the proxies.
ReadInv == saving.pc = "read" => saving.kind = "proxy"

\* What is still to be deleted is not.
GoneInv ==
  saving.pc = "delete" =>
    \A i \in saving.gone : i \notin IdsOf(memory[saving.kind])

\* A row is of an entry memory has, or one that people removed.
CoveredIn(k, r) == \/ r.id \in IdsOf(memory[k])
                   \/ blind
                   \/ <<k, r.id>> \in removed
Covered == \A k \in Kinds : \A r \in rows[k] : CoveredIn(k, r)

\* A row that was found has an id.
KnownInv == \A k \in Kinds : \A p \in known[k] : p[2] # 0

KeptInv == LeftInv /\ ReadInv /\ GoneInv /\ Covered /\ KnownInv
IInv == TypeOK /\ KeptInv

\* No row goes unless its entry does.
RowsKept == \A k \in Kinds : \A r \in rows[k] :
              r.id \in IdsOf(rows'[k]) \/ blind \/ <<k, r.id>> \in removed

-----------------------------------------------------------------------------
(* Entries                                                                  *)

Named(entries) == \A e, f \in entries : e.name = f.name => e = f

\* Numbers and empty registries have their types.
LEMMA Empty ==
  /\ Nothing \in [Kinds -> SUBSET Entry]
  /\ Nothing \in [Kinds -> SUBSET (Names \X Ids)]
  /\ Rest \in Saving
  /\ 0 \in Ids
BY RegistriesAssumption DEF Nothing, Rest, Saving, Ids, Kinds

\* An entry put in another's place keeps the types, and the names apart if its
\* name is its own.
LEMMA Replaced ==
  ASSUME TypeOK, NEW k \in Kinds, NEW e \in memory[k], NEW f \in Entry,
         \A g \in memory[k] : g.name = f.name => g = e
  PROVE  /\ Replace(k, e, f) \in [Kinds -> SUBSET Entry]
         /\ \A j \in Kinds : Named(Replace(k, e, f)[j])
         /\ \A j \in Kinds : j # k => Replace(k, e, f)[j] = memory[j]
         /\ Replace(k, e, f)[k] = (memory[k] \ {e}) \cup {f}
<1>1. memory \in [Kinds -> SUBSET Entry]
  BY DEF TypeOK
<1>2. /\ \A j \in Kinds : j # k => Replace(k, e, f)[j] = memory[j]
      /\ Replace(k, e, f)[k] = (memory[k] \ {e}) \cup {f}
      /\ Replace(k, e, f) \in [Kinds -> SUBSET Entry]
  BY <1>1 DEF Replace
<1>3. Named((memory[k] \ {e}) \cup {f})
  BY DEF TypeOK, Named
<1>4. \A j \in Kinds : Named(Replace(k, e, f)[j])
  <2> SUFFICES ASSUME NEW j \in Kinds PROVE Named(Replace(k, e, f)[j])
    OBVIOUS
  <2>1. CASE j = k
    BY <2>1, <1>2, <1>3
  <2>2. CASE j # k
    BY <2>2, <1>2 DEF TypeOK, Named
  <2> QED BY <2>1, <2>2
<1> QED BY <1>2, <1>4

\* An id that is given to an entry, or adopted by it, is one; the entry keeps
\* its name.
LEMMA SavedOK ==
  ASSUME TypeOK, KnownInv, NEW k \in Kinds, NEW e \in Entry
  PROVE  /\ \A f \in Adopted(k, e) : f \in Entry /\ f.name = e.name
                                     /\ (e.id # 0 => f = e)
         /\ \A f \in Saved(k, e) : /\ f \in Entry /\ f.name = e.name
                                   /\ (e.id # 0 => f = e)
                                   /\ f.id # 0
<1>1. known[k] \in SUBSET (Names \X Ids)
  BY DEF TypeOK
<1>2. \A f \in Adopted(k, e) : f \in Entry /\ f.name = e.name /\ (e.id # 0 => f = e)
  <2>1. CASE e.id # 0
    BY <2>1 DEF Adopted
  <2>2. CASE e.id = 0
    <3> SUFFICES ASSUME NEW p \in known[k], p[1] = e.name
                 PROVE  [e EXCEPT !.id = p[2]] \in Entry
                        /\ [e EXCEPT !.id = p[2]].name = e.name
      BY <2>2 DEF Adopted
    <3>1. p[2] \in Ids
      BY <1>1
    <3> QED BY <3>1 DEF Entry
  <2> QED BY <2>1, <2>2
<1>3. [e EXCEPT !.id = e.maker] \in Entry /\ [e EXCEPT !.id = e.maker].name = e.name
  BY RegistriesAssumption DEF Entry, Makers, Ids
<1>4. e.id # 0 => Adopted(k, e) = {e}
  BY DEF Adopted
<1>5. \A f \in Adopted(k, e) : f.id # 0
  <2>1. CASE e.id # 0
    BY <2>1 DEF Adopted
  <2>2. CASE e.id = 0
    <3> SUFFICES ASSUME NEW p \in known[k]
                 PROVE  [e EXCEPT !.id = p[2]].id # 0
      BY <2>2 DEF Adopted
    <3>1. p[2] # 0
      BY DEF KnownInv
    <3> QED BY <3>1 DEF Entry
  <2> QED BY <2>1, <2>2
<1>6. [e EXCEPT !.id = e.maker].id # 0
  BY RegistriesAssumption DEF Entry, Makers
<1> QED BY <1>2, <1>3, <1>4, <1>5, <1>6 DEF Saved

-----------------------------------------------------------------------------
(* The dialogs                                                              *)

\* An edit keeps the invariant when it keeps the types, the names apart and the
\* ids that people did not remove.
LEMMA Edited ==
  ASSUME IInv, NEW entries \in [Kinds -> SUBSET Entry], Edit(entries),
         \A k \in Kinds : Named(entries[k]),
         removed \subseteq removed', removed' \subseteq Kinds \X Ids,
         \A k \in Kinds : \A e \in memory[k] :
           e.id = 0 \/ e.id \in IdsOf(entries[k]) \/ <<k, e.id>> \in removed'
  PROVE  IInv' /\ RowsKept
<1> USE DEF IInv
<1>1. TypeOK'
  <2>1. saving' \in Saving
    BY Empty DEF Edit, Saving, Rest
  <2>2. edits' \in 0 .. MaxEdits
    BY RegistriesAssumption DEF Edit, TypeOK
  <2>3. \A k \in Kinds : \A e, f \in memory'[k] : e.name = f.name => e = f
    BY DEF Edit, Named
  <2>4. bereft' \in BOOLEAN /\ memory' = entries
    BY DEF Edit
  <2>5. UNCHANGED <<rows, boards, held, known, ok, blind, failed, chances>>
    BY DEF Edit, world
  <2> QED
    BY <2>1, <2>2, <2>3, <2>4, <2>5 DEF TypeOK
<1>2. LeftInv' /\ ReadInv' /\ GoneInv'
  BY DEF Edit, Rest, LeftInv, ReadInv, GoneInv
<1>2a. KnownInv'
  BY DEF Edit, KeptInv, KnownInv
<1>3. Covered'
  <2>1. UNCHANGED <<rows, blind>> /\ memory' = entries
    BY DEF Edit
  <2> SUFFICES ASSUME NEW k \in Kinds, NEW r \in rows[k]
               PROVE  CoveredIn(k, r)'
    BY <2>1 DEF Covered
  <2>2. CoveredIn(k, r) /\ r.id # 0
    BY DEF KeptInv, Covered, TypeOK
  <2>3. CASE blind \/ <<k, r.id>> \in removed
    BY <2>1, <2>3 DEF CoveredIn
  <2>4. CASE r.id \in IdsOf(memory[k])
    <3>1. PICK e \in memory[k] : e.id = r.id
      BY <2>4 DEF IdsOf
    <3>2. r.id \in IdsOf(entries[k]) \/ <<k, r.id>> \in removed'
      BY <3>1, <2>2
    <3> QED BY <3>2, <2>1 DEF CoveredIn
  <2> QED BY <2>2, <2>3, <2>4 DEF CoveredIn
<1>4. RowsKept
  BY DEF Edit, RowsKept, IdsOf
<1> QED BY <1>1, <1>2, <1>2a, <1>3, <1>4 DEF KeptInv

\* An edit that puts one entry in another's place.
LEMMA ReplacedKept ==
  ASSUME IInv, NEW k \in Kinds, NEW e \in memory[k], NEW f \in Entry,
         f.id = e.id, \A g \in memory[k] : g.name = f.name => g = e,
         Edit(Replace(k, e, f)), UNCHANGED removed
  PROVE  IInv' /\ RowsKept
<1>1. /\ Replace(k, e, f) \in [Kinds -> SUBSET Entry]
      /\ \A j \in Kinds : Named(Replace(k, e, f)[j])
      /\ \A j \in Kinds : j # k => Replace(k, e, f)[j] = memory[j]
      /\ Replace(k, e, f)[k] = (memory[k] \ {e}) \cup {f}
  BY Replaced DEF IInv
<1>2. \A j \in Kinds : \A g \in memory[j] : g.id \in IdsOf(Replace(k, e, f)[j])
  <2> SUFFICES ASSUME NEW j \in Kinds, NEW g \in memory[j]
               PROVE  g.id \in IdsOf(Replace(k, e, f)[j])
    OBVIOUS
  <2>1. CASE j # k
    BY <1>1, <2>1 DEF IdsOf
  <2>2. CASE j = k /\ g # e
    BY <1>1, <2>2 DEF IdsOf
  <2>3. CASE j = k /\ g = e
    BY <1>1, <2>3 DEF IdsOf
  <2> QED BY <2>1, <2>2, <2>3
<1>3. removed' \subseteq Kinds \X Ids
  BY DEF IInv, TypeOK
<1> QED BY <1>1, <1>2, <1>3, Edited

\* The five dialogs and the other saves.
LEMMA DialogKept ==
  ASSUME IInv, Dialog
  PROVE  IInv' /\ RowsKept
<1> USE DEF IInv
<1>0. memory \in [Kinds -> SUBSET Entry] /\ removed \subseteq Kinds \X Ids
  BY DEF TypeOK
<1>1. ASSUME NEW k \in Kinds, NEW n \in Names, NEW ref \in Refs(k), Add(k, n, ref)
      PROVE  IInv' /\ RowsKept
  <2> DEFINE e == [id |-> IF k = "workspace" THEN edits + 1 ELSE 0, name |-> n,
                   ref |-> ref, modes |-> {}, maker |-> edits + 1]
             M == [memory EXCEPT ![k] = @ \cup {e}]
  <2>1. Edit(M) /\ UNCHANGED removed /\ ~Taken(k, n)
    BY <1>1 DEF Add
  <2>2. edits + 1 \in Makers /\ edits + 1 \in Ids
    <3>1. edits < MaxEdits
      BY <2>1 DEF Edit
    <3>2. edits \in 0 .. MaxEdits
      BY DEF TypeOK
    <3> QED BY <3>1, <3>2, RegistriesAssumption DEF Makers, Ids
  <2>3. ref \in Ids \cup Boards \cup {None}
    <3>1. boards \subseteq Boards
      BY DEF TypeOK
    <3>2. k = "agent" => IdsOf(memory["proxy"]) \subseteq Ids
      BY <1>0 DEF IdsOf, Entry, Kinds
    <3> QED BY <3>1, <3>2 DEF Refs
  <2>4. e \in Entry
    BY <2>2, <2>3, Empty DEF Entry
  <2>5. M \in [Kinds -> SUBSET Entry] /\ M[k] = memory[k] \cup {e}
        /\ \A j \in Kinds : j # k => M[j] = memory[j]
    BY <1>0, <2>4
  <2>6. \A j \in Kinds : Named(M[j])
    <3> HIDE DEF M
    <3> SUFFICES ASSUME NEW j \in Kinds PROVE Named(M[j])
      OBVIOUS
    <3>1. CASE j # k
      BY <3>1, <2>5 DEF TypeOK, Named
    <3>2. CASE j = k
      <4>1. \A g \in memory[k] : g.name # n
        BY <2>1 DEF Taken
      <4>2. e.name = n
        OBVIOUS
      <4> HIDE DEF e
      <4> QED BY <3>2, <2>5, <4>1, <4>2 DEF TypeOK, Named
    <3> QED BY <3>1, <3>2
  <2>7. \A j \in Kinds : \A g \in memory[j] : g.id \in IdsOf(M[j])
    BY <2>5 DEF IdsOf
  <2> HIDE DEF M
  <2> QED BY <2>1, <2>5, <2>6, <2>7, <1>0, Edited
<1>2. ASSUME NEW k \in Kinds, NEW n \in Names, NEW e \in memory[k],
             NEW ref \in Refs(k), Update(k, e, n, ref)
      PROVE  IInv' /\ RowsKept
  <2> DEFINE f == [e EXCEPT !.name = n, !.ref = ref]
  <2>1. Edit(Replace(k, e, f)) /\ UNCHANGED removed
        /\ (n = e.name \/ ~Taken(k, n))
    BY <1>2 DEF Update
  <2>2. ref \in Ids \cup Boards \cup {None}
    <3>1. boards \subseteq Boards
      BY DEF TypeOK
    <3>2. k = "agent" => IdsOf(memory["proxy"]) \subseteq Ids
      BY <1>0 DEF IdsOf, Entry, Kinds
    <3> QED BY <3>1, <3>2 DEF Refs
  <2>3. f \in Entry /\ f.id = e.id /\ f.name = n
    <3>1. e \in Entry
      BY <1>0
    <3> QED BY <3>1, <2>2 DEF Entry
  <2>4. \A g \in memory[k] : g.name = n => g = e
    BY <2>1 DEF Taken, TypeOK
  <2> HIDE DEF f
  <2> QED BY <2>1, <2>3, <2>4, ReplacedKept
<1>3. ASSUME NEW e \in memory["workspace"], NEW b \in boards,
             Attach(e, b) \/ SetMode(e, b)
      PROVE  IInv' /\ RowsKept
  <2>1. b \in Boards /\ "workspace" \in Kinds /\ e \in Entry
    BY <1>0 DEF TypeOK, Kinds
  <2>2. PICK f \in Entry : /\ f.id = e.id /\ f.name = e.name
                           /\ Edit(Replace("workspace", e, f))
                           /\ UNCHANGED removed
    <3>1. CASE Attach(e, b)
      <4>1. [e EXCEPT !.ref = b] \in Entry /\ [e EXCEPT !.ref = b].id = e.id
            /\ [e EXCEPT !.ref = b].name = e.name
        BY <2>1 DEF Entry
      <4> QED BY <3>1, <4>1 DEF Attach
    <3>2. CASE SetMode(e, b)
      <4> DEFINE f == [e EXCEPT !.modes = @ \cup {b}]
      <4>1. f \in Entry /\ f.id = e.id /\ f.name = e.name
        BY <2>1 DEF Entry
      <4>2. Edit(Replace("workspace", e, f)) /\ UNCHANGED removed
        BY <3>2 DEF SetMode
      <4> QED BY <4>1, <4>2
    <3> QED BY <1>3, <3>1, <3>2
  <2>3. \A g \in memory["workspace"] : g.name = f.name => g = e
    BY <2>1, <2>2 DEF TypeOK
  <2> QED BY <2>1, <2>2, <2>3, ReplacedKept
<1>4. ASSUME Touch
      PROVE  IInv' /\ RowsKept
  <2>1. \A k \in Kinds : Named(memory[k])
    BY DEF TypeOK, Named
  <2> QED BY <1>4, <1>0, <2>1, Edited DEF Touch, IdsOf
<1>5. ASSUME NEW k \in Kinds, NEW e \in memory[k], Remove(k, e)
      PROVE  IInv' /\ RowsKept
  <2> DEFINE M == [memory EXCEPT ![k] = @ \ {e}]
  <2>1. Edit(M) /\ removed' = removed \cup {<<k, e.id>>}
    BY <1>5 DEF Remove
  <2>2. e.id \in Ids
    BY <1>0 DEF Entry
  <2>3. M \in [Kinds -> SUBSET Entry] /\ M[k] = memory[k] \ {e}
        /\ \A j \in Kinds : j # k => M[j] = memory[j]
    BY <1>0
  <2> HIDE DEF M
  <2>4. \A j \in Kinds : Named(M[j])
    <3> SUFFICES ASSUME NEW j \in Kinds PROVE Named(M[j])
      OBVIOUS
    <3>1. M[j] \subseteq memory[j]
      BY <2>3
    <3> QED BY <3>1 DEF TypeOK, Named
  <2>5. \A j \in Kinds : \A g \in memory[j] :
          g.id \in IdsOf(M[j]) \/ <<j, g.id>> \in removed'
    <3> SUFFICES ASSUME NEW j \in Kinds, NEW g \in memory[j]
                 PROVE  g.id \in IdsOf(M[j]) \/ <<j, g.id>> \in removed'
      OBVIOUS
    <3>1. CASE j = k /\ g = e
      BY <3>1, <2>1
    <3>2. CASE ~(j = k /\ g = e)
      BY <3>2, <2>3 DEF IdsOf
    <3> QED BY <3>1, <3>2
  <2> QED BY <2>1, <2>2, <2>3, <2>4, <2>5, <1>0, Edited
<1> QED BY <1>1, <1>2, <1>3, <1>4, <1>5 DEF Dialog

-----------------------------------------------------------------------------
(* persistRegistriesLocked                                                  *)

\* Ids that rows gain are of entries in memory, and memory loses none.
LEMMA CoveredKept ==
  ASSUME IInv, UNCHANGED <<blind, removed>>,
         \A k \in Kinds : IdsOf(rows'[k]) \subseteq
                            IdsOf(rows[k]) \cup IdsOf(memory'[k]),
         \A k \in Kinds : \A e \in memory[k] :
           e.id = 0 \/ e.id \in IdsOf(memory'[k])
  PROVE  Covered'
<1> SUFFICES ASSUME NEW k \in Kinds, NEW r \in rows'[k]
             PROVE  CoveredIn(k, r)'
  BY DEF Covered
<1>1. CASE r.id \in IdsOf(memory'[k])
  BY <1>1 DEF CoveredIn
<1>2. CASE r.id \in IdsOf(rows[k])
  <2>1. PICK q \in rows[k] : q.id = r.id
    BY <1>2 DEF IdsOf
  <2>2. CoveredIn(k, q) /\ q.id # 0
    BY DEF IInv, KeptInv, Covered, TypeOK
  <2>3. CASE q.id \in IdsOf(memory[k])
    <3>1. PICK e \in memory[k] : e.id = q.id
      BY <2>3 DEF IdsOf
    <3> QED BY <3>1, <2>1, <2>2 DEF CoveredIn
  <2> QED BY <2>1, <2>2, <2>3 DEF CoveredIn
<1>3. r.id \in IdsOf(rows'[k])
  BY DEF IdsOf
<1> QED BY <1>1, <1>2, <1>3

\* What the upsert of an entry that the table accepts makes of it.
Upserted(k, f) ==
  [f EXCEPT !.modes = UNION {r.modes : r \in {q \in rows[k] : q.id = f.id}}]

LEMMA UpsertOK ==
  ASSUME TypeOK, NEW k \in Kinds, NEW f \in Entry, f.id # 0, Accepts(k, f)
  PROVE  /\ Upsert(k, f) \in [Kinds -> SUBSET Entry]
         /\ \A j \in Kinds : \A r, q \in Upsert(k, f)[j] :
              /\ r.id # 0
              /\ r.id = q.id \/ r.name = q.name => r = q
         /\ Upsert(k, f)[k] = {r \in rows[k] : r.id # f.id} \cup {Upserted(k, f)}
         /\ \A j \in Kinds : j # k => Upsert(k, f)[j] = rows[j]
         /\ Upserted(k, f) \in Entry
         /\ Upserted(k, f).id = f.id /\ Upserted(k, f).name = f.name
<1>1. rows \in [Kinds -> SUBSET Entry]
  BY DEF TypeOK
<1>2. UNION {r.modes : r \in {q \in rows[k] : q.id = f.id}} \in SUBSET Boards
  BY <1>1 DEF Entry
<1>3. /\ Upserted(k, f) \in Entry
      /\ Upserted(k, f).id = f.id /\ Upserted(k, f).name = f.name
  BY <1>2 DEF Entry, Upserted
<1>4. /\ Upsert(k, f)[k] = {r \in rows[k] : r.id # f.id} \cup {Upserted(k, f)}
      /\ \A j \in Kinds : j # k => Upsert(k, f)[j] = rows[j]
      /\ Upsert(k, f) = [rows EXCEPT ![k] = {r \in rows[k] : r.id # f.id}
                                            \cup {Upserted(k, f)}]
  BY <1>1 DEF Upsert, Upserted
<1>5. Upsert(k, f) \in [Kinds -> SUBSET Entry]
  BY <1>1, <1>3, <1>4
<1>6. ASSUME NEW r \in Upsert(k, f)[k], NEW q \in Upsert(k, f)[k]
      PROVE  r.id # 0 /\ (r.id = q.id \/ r.name = q.name => r = q)
  <2>1. \A p \in rows[k] : p.id # f.id => p.name # f.name
    BY DEF Accepts
  <2>2. r = Upserted(k, f) \/ (r \in rows[k] /\ r.id # f.id)
    BY <1>4
  <2>3. q = Upserted(k, f) \/ (q \in rows[k] /\ q.id # f.id)
    BY <1>4
  <2>4. CASE r \in rows[k] /\ q \in rows[k]
    BY <2>4 DEF TypeOK
  <2>5. r.id # 0
    BY <2>2, <1>3 DEF TypeOK
  <2> QED BY <2>1, <2>2, <2>3, <2>4, <2>5, <1>3
<1>7. ASSUME NEW j \in Kinds, NEW r \in Upsert(k, f)[j], NEW q \in Upsert(k, f)[j]
      PROVE  r.id # 0 /\ (r.id = q.id \/ r.name = q.name => r = q)
  <2>1. CASE j = k
    BY <2>1, <1>6
  <2>2. CASE j # k
    BY <2>2, <1>4 DEF TypeOK
  <2> QED BY <2>1, <2>2
<1> QED BY <1>3, <1>4, <1>5, <1>7

\* An entry takes its id in memory.
LEMMA AdoptedKept ==
  ASSUME IInv, NEW k \in Kinds, NEW e \in memory[k],
         NEW f \in Saved(k, e) \cup Adopted(k, e), memory' = Replace(k, e, f)
  PROVE  /\ memory' \in [Kinds -> SUBSET Entry]
         /\ \A j \in Kinds : \A g, h \in memory'[j] : g.name = h.name => g = h
         /\ \A j \in Kinds : \A g \in memory[j] :
              g.id = 0 \/ g.id \in IdsOf(memory'[j])
         /\ memory'[k] = (memory[k] \ {e}) \cup {f}
         /\ \A j \in Kinds : j # k => memory'[j] = memory[j]
<1>1. e \in Entry
  BY DEF IInv, TypeOK
<1>2. f \in Entry /\ f.name = e.name /\ (e.id # 0 => f = e)
  BY <1>1, SavedOK DEF IInv, KeptInv
<1>3. \A g \in memory[k] : g.name = f.name => g = e
  BY <1>2 DEF IInv, TypeOK
<1>4. /\ Replace(k, e, f) \in [Kinds -> SUBSET Entry]
      /\ \A j \in Kinds : Named(Replace(k, e, f)[j])
      /\ \A j \in Kinds : j # k => Replace(k, e, f)[j] = memory[j]
      /\ Replace(k, e, f)[k] = (memory[k] \ {e}) \cup {f}
  BY <1>2, <1>3, Replaced DEF IInv
<1>5. \A j \in Kinds : \A g \in memory[j] :
        g.id = 0 \/ g.id \in IdsOf(memory'[j])
  <2> SUFFICES ASSUME NEW j \in Kinds, NEW g \in memory[j], g.id # 0
               PROVE  \E h \in memory'[j] : h.id = g.id
    BY DEF IdsOf
  <2>1. CASE j = k /\ g = e
    BY <2>1, <1>2, <1>4
  <2>2. CASE ~(j = k /\ g = e)
    BY <2>2, <1>4
  <2> QED BY <2>1, <2>2
<1> QED BY <1>4, <1>5 DEF Named

\* An entry is saved.
LEMMA SaveRowKept ==
  ASSUME IInv, NEW e \in saving.left, SaveRow(e)
  PROVE  IInv' /\ RowsKept
<1> DEFINE k == saving.kind
<1>0. k \in Kinds /\ saving \in Saving
  BY DEF IInv, TypeOK, Saving
<1>1. PICK f \in Saved(k, e) :
        /\ Accepts(k, f)
        /\ rows' = Upsert(k, f)
        /\ memory' = Replace(k, e, f)
        /\ saving' = IF saving.kind = "workspace"
                     THEN [saving EXCEPT !.pc = "clear", !.left = @ \ {e},
                                         !.folder = f.id, !.modes = f.modes]
                     ELSE [saving EXCEPT !.left = @ \ {e}]
  BY DEF SaveRow
<1>2. e \in memory[k] /\ e \in Entry
  BY <1>0 DEF IInv, KeptInv, LeftInv, TypeOK
<1>3. f \in Entry /\ f.id # 0
  BY <1>0, <1>2, SavedOK DEF IInv, KeptInv
<1>4. /\ memory' \in [Kinds -> SUBSET Entry]
      /\ \A j \in Kinds : \A g, h \in memory'[j] : g.name = h.name => g = h
      /\ \A j \in Kinds : \A g \in memory[j] :
           g.id = 0 \/ g.id \in IdsOf(memory'[j])
      /\ memory'[k] = (memory[k] \ {e}) \cup {f}
  BY <1>0, <1>1, <1>2, AdoptedKept
<1>5. /\ rows' \in [Kinds -> SUBSET Entry]
      /\ \A j \in Kinds : \A r, q \in rows'[j] :
           /\ r.id # 0
           /\ r.id = q.id \/ r.name = q.name => r = q
      /\ rows'[k] = {r \in rows[k] : r.id # f.id} \cup {Upserted(k, f)}
      /\ \A j \in Kinds : j # k => rows'[j] = rows[j]
      /\ Upserted(k, f).id = f.id
  BY <1>0, <1>1, <1>3, UpsertOK DEF IInv
<1>6. saving' \in Saving /\ saving'.kind = k /\ saving'.left = saving.left \ {e}
      /\ saving'.pc \notin {"read", "delete"}
  <2>1. saving.pc = "save"
    BY DEF SaveRow
  <2>2. f.id \in Ids /\ f.modes \in SUBSET Boards
    BY <1>3 DEF Entry
  <2> QED BY <1>0, <1>1, <2>1, <2>2 DEF Saving
<1>7. UNCHANGED <<boards, held, known, ok, bereft, failed, blind, removed, edits,
                  chances>>
  BY DEF SaveRow, world, history
<1>8. TypeOK'
  BY <1>4, <1>5, <1>6, <1>7 DEF IInv, TypeOK
<1>9. \A j \in Kinds : /\ IdsOf(rows'[j]) \subseteq
                            IdsOf(rows[j]) \cup IdsOf(memory'[j])
                       /\ IdsOf(rows[j]) \subseteq IdsOf(rows'[j])
  <2> SUFFICES ASSUME NEW j \in Kinds
               PROVE  /\ IdsOf(rows'[j]) \subseteq
                            IdsOf(rows[j]) \cup IdsOf(memory'[j])
                      /\ IdsOf(rows[j]) \subseteq IdsOf(rows'[j])
    OBVIOUS
  <2>1. CASE j # k
    BY <2>1, <1>5
  <2>2. CASE j = k
    BY <2>2, <1>4, <1>5 DEF IdsOf
  <2> QED BY <2>1, <2>2
<1>10. Covered'
  BY <1>4, <1>7, <1>9, CoveredKept
<1>11. LeftInv' /\ ReadInv' /\ GoneInv' /\ KnownInv'
  BY <1>4, <1>6, <1>7 DEF IInv, KeptInv, LeftInv, ReadInv, GoneInv, KnownInv
<1>12. RowsKept
  BY <1>9 DEF RowsKept, IdsOf
<1> QED BY <1>8, <1>10, <1>11, <1>12 DEF IInv, KeptInv

\* A step that ends the edit.
LEMMA AnsweredKept ==
  ASSUME IInv, NEW good \in BOOLEAN, Answer(good),
         memory' \in [Kinds -> SUBSET Entry],
         \A j \in Kinds : \A g, h \in memory'[j] : g.name = h.name => g = h,
         \A j \in Kinds : \A g \in memory[j] :
           g.id = 0 \/ g.id \in IdsOf(memory'[j]),
         UNCHANGED <<rows, world, bereft, history, edits>>,
         chances' \in 0 .. MaxChances
  PROVE  IInv' /\ RowsKept
<1>1. /\ saving' = Rest /\ known' = Nothing
      /\ ok' \in BOOLEAN /\ failed' \in BOOLEAN
  BY DEF Answer, IInv, TypeOK
<1>2. UNCHANGED <<rows, boards, held, bereft, blind, removed, edits>>
  BY DEF world, history
<1>3. TypeOK'
  BY <1>1, <1>2, Empty DEF IInv, TypeOK
<1>4. LeftInv' /\ ReadInv' /\ GoneInv' /\ KnownInv'
  BY <1>1 DEF Rest, Nothing, LeftInv, ReadInv, GoneInv, KnownInv
<1>5. Covered'
  BY <1>2, CoveredKept
<1>6. RowsKept
  BY <1>2 DEF RowsKept, IdsOf
<1> QED BY <1>3, <1>4, <1>5, <1>6 DEF IInv, KeptInv

\* A chance is one of those allowed.
LEMMA ChanceOK ==
  ASSUME TypeOK, Chance \/ UNCHANGED chances
  PROVE  chances' \in 0 .. MaxChances
BY RegistriesAssumption DEF TypeOK, Chance

LEMMA SaveFailsKept ==
  ASSUME IInv, NEW e \in saving.left, SaveFails(e)
  PROVE  IInv' /\ RowsKept
<1> DEFINE k == saving.kind
<1>0. k \in Kinds
  BY DEF IInv, TypeOK, Saving
<1>1. e \in memory[k]
  BY DEF IInv, KeptInv, LeftInv
<1>2. /\ memory' \in [Kinds -> SUBSET Entry]
      /\ \A j \in Kinds : \A g, h \in memory'[j] : g.name = h.name => g = h
      /\ \A j \in Kinds : \A g \in memory[j] :
           g.id = 0 \/ g.id \in IdsOf(memory'[j])
  <2>1. CASE memory' = memory
    BY <2>1 DEF IInv, TypeOK, IdsOf
  <2>2. CASE memory' # memory
    <3>1. PICK f \in Adopted(k, e) : memory' = Replace(k, e, f)
      BY <2>2 DEF SaveFails
    <3> QED BY <1>0, <1>1, <3>1, AdoptedKept
  <2> QED BY <2>1, <2>2
<1>3. /\ Answer(FALSE)
      /\ UNCHANGED <<rows, world, bereft, history, edits>>
      /\ chances' \in 0 .. MaxChances
  BY ChanceOK DEF SaveFails, IInv
<1> QED BY <1>2, <1>3, AnsweredKept

\* A step of a save that rewrites rows in place, or none, and leaves memory.
LEMMA RowsRewritten ==
  ASSUME IInv, UNCHANGED <<memory, world, ok, bereft, failed, history, edits,
                           chances>>,
         saving' \in Saving, LeftInv', ReadInv', GoneInv',
         known' \in [Kinds -> SUBSET (Names \X Ids)], KnownInv',
         rows' \in [Kinds -> SUBSET Entry],
         \A j \in Kinds : \A r, q \in rows'[j] :
           /\ r.id # 0
           /\ r.id = q.id \/ r.name = q.name => r = q,
         \A j \in Kinds : IdsOf(rows'[j]) \subseteq IdsOf(rows[j])
  PROVE  IInv'
<1>1. UNCHANGED <<memory, boards, held, ok, bereft, failed, blind, removed,
                  edits, chances>>
  BY DEF world, history
<1>2. TypeOK'
  BY <1>1 DEF IInv, TypeOK
<1>3. Covered'
  BY <1>1, CoveredKept DEF IdsOf
<1> QED BY <1>2, <1>3 DEF IInv, KeptInv

\* Rows that are rewritten keep their ids and their names.
Rewritten(k, G) == [rows EXCEPT ![k] = {G[r] : r \in rows[k]}]

LEMMA InPlace ==
  ASSUME TypeOK, NEW k \in Kinds, NEW G \in [rows[k] -> Entry],
         \A r \in rows[k] : G[r].id = r.id /\ G[r].name = r.name
  PROVE  LET R == Rewritten(k, G) IN
         /\ R \in [Kinds -> SUBSET Entry]
         /\ \A j \in Kinds : \A r, q \in R[j] :
              /\ r.id # 0
              /\ r.id = q.id \/ r.name = q.name => r = q
         /\ \A j \in Kinds : IdsOf(R[j]) = IdsOf(rows[j])
<1> DEFINE R == Rewritten(k, G)
<1>1. /\ R \in [Kinds -> SUBSET Entry]
      /\ R[k] = {G[r] : r \in rows[k]}
      /\ \A j \in Kinds : j # k => R[j] = rows[j]
  BY DEF TypeOK, Rewritten
<1>2. ASSUME NEW r \in R[k], NEW q \in R[k]
      PROVE  r.id # 0 /\ (r.id = q.id \/ r.name = q.name => r = q)
  <2>1. PICK a \in rows[k] : r = G[a]
    BY <1>1
  <2>2. PICK b \in rows[k] : q = G[b]
    BY <1>1
  <2>3. a.id # 0 /\ (a.id = b.id \/ a.name = b.name => a = b)
    BY DEF TypeOK
  <2> QED BY <2>1, <2>2, <2>3
<1>3. ASSUME NEW j \in Kinds, NEW r \in R[j], NEW q \in R[j]
      PROVE  r.id # 0 /\ (r.id = q.id \/ r.name = q.name => r = q)
  <2>1. CASE j = k
    BY <2>1, <1>2
  <2>2. CASE j # k
    BY <2>2, <1>1 DEF TypeOK
  <2> QED BY <2>1, <2>2
<1>4. IdsOf(R[k]) = IdsOf(rows[k])
  BY <1>1 DEF IdsOf
<1>5. \A j \in Kinds : IdsOf(R[j]) = IdsOf(rows[j])
  BY <1>1, <1>4
<1> QED BY <1>1, <1>3, <1>5

\* A folder's modes are rewritten.
LEMMA ModesKept ==
  ASSUME IInv, ClearModes \/ \E b \in saving.modes : WriteMode(b)
  PROVE  IInv' /\ RowsKept
<1>0. rows["workspace"] \subseteq Entry /\ "workspace" \in Kinds
      /\ saving \in Saving /\ boards \subseteq Boards
  BY DEF IInv, TypeOK, Kinds
<1>1. PICK m \in SUBSET Boards, fresh \in BOOLEAN :
        rows' = [rows EXCEPT !["workspace"] =
                   {IF r.id = saving.folder
                    THEN [r EXCEPT !.modes = IF fresh THEN m ELSE @ \cup m]
                    ELSE r : r \in rows["workspace"]}]
  <2>1. CASE ClearModes
    <3>1. rows' = [rows EXCEPT !["workspace"] =
                     {IF r.id = saving.folder
                      THEN [r EXCEPT !.modes = IF TRUE THEN {} ELSE @ \cup {}]
                      ELSE r : r \in rows["workspace"]}]
      BY <2>1, <1>0 DEF ClearModes, WithModes, IInv, TypeOK
    <3> QED BY <3>1
  <2>2. ASSUME NEW b \in saving.modes, WriteMode(b)
        PROVE  rows' = [rows EXCEPT !["workspace"] =
                   {IF r.id = saving.folder
                    THEN [r EXCEPT !.modes = IF FALSE THEN {b} ELSE @ \cup {b}]
                    ELSE r : r \in rows["workspace"]}]
    <3>1. /\ rows' = [rows EXCEPT !["workspace"] =
                        {IF r.id = saving.folder
                         THEN [r EXCEPT !.modes = @ \cup {b}]
                         ELSE r : r \in rows["workspace"]}]
      BY <2>2 DEF WriteMode
    <3>2. \A r \in rows["workspace"] :
            [r EXCEPT !.modes = IF FALSE THEN {b} ELSE @ \cup {b}]
              = [r EXCEPT !.modes = @ \cup {b}]
      OBVIOUS
    <3> QED BY <3>1, <3>2
  <2>3. \A b \in saving.modes : {b} \in SUBSET Boards
    BY <1>0 DEF Saving
  <2> QED BY <2>1, <2>2, <2>3
<1> DEFINE G == [r \in rows["workspace"] |->
                   IF r.id = saving.folder
                   THEN [r EXCEPT !.modes = IF fresh THEN m ELSE @ \cup m]
                   ELSE r]
<1>2. \A r \in rows["workspace"] :
        G[r] \in Entry /\ G[r].id = r.id /\ G[r].name = r.name
  <2> SUFFICES ASSUME NEW r \in Entry
               PROVE  LET s == [r EXCEPT !.modes = IF fresh THEN m ELSE @ \cup m]
                      IN  s \in Entry /\ s.id = r.id /\ s.name = r.name
    BY <1>0
  <2> QED BY DEF Entry
<1>3. rows' = Rewritten("workspace", G)
  BY <1>1 DEF Rewritten
<1>4. G \in [rows["workspace"] -> Entry]
  BY <1>2
<1> HIDE DEF G
<1>5. /\ rows' \in [Kinds -> SUBSET Entry]
      /\ \A j \in Kinds : \A r, q \in rows'[j] :
           /\ r.id # 0
           /\ r.id = q.id \/ r.name = q.name => r = q
      /\ \A j \in Kinds : IdsOf(rows'[j]) = IdsOf(rows[j])
  BY <1>0, <1>2, <1>3, <1>4, InPlace DEF IInv
<1>6. UNCHANGED <<memory, world, known, ok, bereft, failed, history, edits,
                  chances>>
  BY DEF ClearModes, WriteMode
<1>7. /\ saving' \in Saving /\ saving'.left = saving.left
      /\ saving'.kind = saving.kind
      /\ saving'.pc \notin {"read", "delete"}
  <2>1. CASE ClearModes
    BY <2>1, <1>0 DEF ClearModes, Saving
  <2>2. ASSUME NEW b \in saving.modes, WriteMode(b)
        PROVE  <1>7!1 /\ <1>7!2 /\ <1>7!3
    BY <2>2, <1>0 DEF WriteMode, Saving
  <2> QED BY <2>1, <2>2
<1>8. LeftInv' /\ ReadInv' /\ GoneInv' /\ KnownInv'
  BY <1>6, <1>7 DEF IInv, KeptInv, LeftInv, ReadInv, GoneInv, KnownInv
<1>9. known' \in [Kinds -> SUBSET (Names \X Ids)]
  BY <1>6 DEF IInv, TypeOK
<1>10. IInv'
  BY <1>5, <1>6, <1>7, <1>8, <1>9, RowsRewritten
<1>11. RowsKept
  BY <1>5 DEF RowsKept, IdsOf
<1> QED BY <1>10, <1>11

\* The save goes on without a write.
LEMMA OnwardKept ==
  ASSUME IInv, ReadNames \/ Prune \/ NextRegistry
  PROVE  IInv' /\ RowsKept
<1>0. /\ rows \in [Kinds -> SUBSET Entry] /\ memory \in [Kinds -> SUBSET Entry]
      /\ saving \in Saving
      /\ saving.kind \in Kinds /\ "proxy" \in Kinds
  BY DEF IInv, TypeOK, Saving, Kinds
<1>1. UNCHANGED <<memory, rows, world, ok, bereft, failed, history, edits,
                  chances>>
  BY DEF ReadNames, Prune, NextRegistry
<1>2. saving' \in Saving /\ LeftInv' /\ ReadInv' /\ GoneInv'
  <2>1. CASE ReadNames
    <3>1. /\ saving' = [saving EXCEPT !.pc = "save", !.left = memory["proxy"]]
          /\ saving.pc = "read"
      BY <2>1 DEF ReadNames
    <3>2. saving.kind = "proxy"
      BY <2>1 DEF ReadNames, IInv, KeptInv, ReadInv
    <3> QED BY <3>1, <3>2, <1>0, <1>1 DEF Saving, LeftInv, ReadInv, GoneInv
  <2>2. CASE Prune
    <3> DEFINE gone == IdsOf(rows[saving.kind]) \ IdsOf(memory[saving.kind])
    <3>1. saving' = [saving EXCEPT !.pc = "delete", !.gone = gone]
      BY <2>2 DEF Prune
    <3>2. gone \in SUBSET Ids
      BY <1>0 DEF IdsOf, Entry
    <3>3. \A i \in gone : i \notin IdsOf(memory[saving.kind])
      OBVIOUS
    <3> HIDE DEF gone
    <3>4. /\ saving' \in Saving /\ saving'.left = saving.left
          /\ saving'.kind = saving.kind /\ saving'.gone = gone
          /\ saving'.pc = "delete"
      BY <3>1, <3>2, <1>0 DEF Saving
    <3> QED BY <3>3, <3>4, <1>1 DEF IInv, KeptInv, LeftInv, ReadInv, GoneInv
  <2>3. CASE NextRegistry
    <3>1. After(saving.kind) \in Kinds
      BY <2>3, <1>0 DEF NextRegistry, After, Kinds
    <3>2. saving' = [saving EXCEPT !.pc = "save", !.kind = After(saving.kind),
                                   !.left = memory[After(saving.kind)]]
      BY <2>3 DEF NextRegistry
    <3> QED BY <3>1, <3>2, <1>0, <1>1 DEF Saving, LeftInv, ReadInv, GoneInv
  <2> QED BY <2>1, <2>2, <2>3
<1>3. known' \in [Kinds -> SUBSET (Names \X Ids)] /\ KnownInv'
  <2>1. CASE ReadNames
    <3>1. known' = [k \in Kinds |-> Known(k)]
      BY <2>1 DEF ReadNames
    <3>2. \A k \in Kinds : /\ Known(k) \in SUBSET (Names \X Ids)
                           /\ \A p \in Known(k) : p[2] # 0
      BY <1>0 DEF Known, Entry, IInv, TypeOK
    <3> QED BY <3>1, <3>2 DEF KnownInv
  <2>2. CASE Prune \/ NextRegistry
    BY <2>2 DEF Prune, NextRegistry, IInv, KeptInv, KnownInv, TypeOK
  <2> QED BY <2>1, <2>2
<1>4. IInv'
  BY <1>1, <1>2, <1>3, RowsRewritten DEF IInv, TypeOK
<1>5. RowsKept
  BY <1>1 DEF RowsKept, IdsOf
<1> QED BY <1>4, <1>5

\* A row is deleted.
LEMMA DeleteRowKept ==
  ASSUME IInv, NEW i \in saving.gone, DeleteRow(i)
  PROVE  IInv' /\ RowsKept
<1> DEFINE k == saving.kind
<1>0. /\ rows \in [Kinds -> SUBSET Entry] /\ saving \in Saving
      /\ k \in Kinds
  BY DEF IInv, TypeOK, Saving
<1>1. UNCHANGED <<memory, world, known, ok, bereft, failed, history, edits,
                  chances>>
  BY DEF DeleteRow
<1>2. /\ rows' = Without(k, i)
      /\ saving' = [saving EXCEPT !.gone = @ \ {i}]
      /\ saving.pc = "delete"
  BY DEF DeleteRow
<1>3. /\ saving' \in Saving /\ saving'.left = saving.left
      /\ saving'.kind = k /\ saving'.gone \subseteq saving.gone
      /\ saving'.pc = "delete"
  BY <1>0, <1>2 DEF Saving
<1>4. LeftInv' /\ ReadInv' /\ GoneInv' /\ KnownInv'
  BY <1>1, <1>2, <1>3 DEF IInv, KeptInv, LeftInv, ReadInv, GoneInv, KnownInv
<1>5. ASSUME NEW j \in Kinds
      PROVE  /\ rows'[j] \subseteq Entry
             /\ \A r, q \in rows'[j] :
                  /\ r.id # 0
                  /\ r.id = q.id \/ r.name = q.name => r = q
             /\ IdsOf(rows'[j]) = IF j = k THEN IdsOf(rows[j]) \ {i}
                                  ELSE IdsOf(rows[j])
  <2>1. CASE j = k
    <3>1. rows'[j] = {r \in rows[j] : r.id # i}
      BY <2>1, <1>2 DEF Without
    <3> QED BY <3>1, <2>1, <1>0 DEF IInv, TypeOK, IdsOf
  <2>2. CASE j # k /\ k = "proxy" /\ j = "agent"
    <3> DEFINE G == [r \in rows[j] |->
                       IF r.ref = i THEN [r EXCEPT !.ref = None] ELSE r]
               R == Rewritten(j, G)
    <3>1. rows'[j] = {G[r] : r \in rows[j]}
      BY <2>2, <1>2 DEF Without
    <3>2. \A r \in rows[j] :
            G[r] \in Entry /\ G[r].id = r.id /\ G[r].name = r.name
      <4> SUFFICES ASSUME NEW r \in Entry
                   PROVE  LET s == [r EXCEPT !.ref = None]
                          IN  s \in Entry /\ s.id = r.id /\ s.name = r.name
        BY <1>0
      <4> QED BY DEF Entry
    <3>3. G \in [rows[j] -> Entry]
      BY <3>2
    <3>4. R[j] = rows'[j]
      BY <3>1, <1>0 DEF Rewritten
    <3> HIDE DEF G
    <3>5. /\ R \in [Kinds -> SUBSET Entry]
          /\ \A l \in Kinds : \A r, q \in R[l] :
               /\ r.id # 0
               /\ r.id = q.id \/ r.name = q.name => r = q
          /\ \A l \in Kinds : IdsOf(R[l]) = IdsOf(rows[l])
      BY <3>2, <3>3, InPlace DEF IInv
    <3> QED BY <3>4, <3>5, <2>2
  <2>3. CASE j # k /\ ~(k = "proxy" /\ j = "agent")
    <3>1. rows'[j] = rows[j]
      BY <2>3, <1>2 DEF Without
    <3> QED BY <3>1, <2>3, <1>0 DEF IInv, TypeOK
  <2> QED BY <2>1, <2>2, <2>3
<1>6. rows' \in [Kinds -> SUBSET Entry]
  <2>1. rows' = [j \in Kinds |-> rows'[j]]
    BY <1>2 DEF Without
  <2> QED BY <2>1, <1>5
<1>7. IInv'
  BY <1>1, <1>3, <1>4, <1>5, <1>6, RowsRewritten DEF IInv, TypeOK
<1>8. RowsKept
  <2> SUFFICES ASSUME NEW j \in Kinds, NEW r \in rows[j],
                      r.id \notin IdsOf(rows'[j])
               PROVE  blind \/ <<j, r.id>> \in removed
    BY DEF RowsKept
  <2>1. j = k /\ r.id = i
    BY <1>5 DEF IdsOf
  <2>2. i \notin IdsOf(memory[k])
    BY <1>2 DEF IInv, KeptInv, GoneInv
  <2> QED BY <2>1, <2>2 DEF IInv, KeptInv, Covered, CoveredIn
<1> QED BY <1>7, <1>8

\* Every step of a save.
LEMMA PersistKept ==
  ASSUME IInv, Persist
  PROVE  IInv' /\ RowsKept
<1>1. CASE Finish \/ StepFails
  <2>1. \E good \in BOOLEAN : Answer(good)
    BY <1>1 DEF Finish, StepFails
  <2>2. UNCHANGED <<memory, rows, world, bereft, history, edits>>
    BY <1>1 DEF Finish, StepFails
  <2>3. chances' \in 0 .. MaxChances
    BY <1>1, ChanceOK DEF Finish, StepFails, IInv
  <2>4. /\ memory' \in [Kinds -> SUBSET Entry]
        /\ \A j \in Kinds : \A g, h \in memory'[j] : g.name = h.name => g = h
        /\ \A j \in Kinds : \A g \in memory[j] :
             g.id = 0 \/ g.id \in IdsOf(memory'[j])
    BY <2>2 DEF IInv, TypeOK, IdsOf
  <2> QED BY <2>1, <2>2, <2>3, <2>4, AnsweredKept
<1>2. CASE ~(Finish \/ StepFails)
  BY <1>2, SaveRowKept, SaveFailsKept, ModesKept, OnwardKept, DeleteRowKept
     DEF Persist
<1> QED BY <1>1, <1>2

-----------------------------------------------------------------------------
(* Cards, boards and restarts                                               *)

\* Cards and boards change neither an entry nor the ids of the rows.
LEMMA WorldKept ==
  ASSUME IInv,
         \/ \E i \in Ids : Claim(i) \/ Forget(i)
         \/ \E b \in Boards : DeleteBoard(b) \/ RestoreBoard(b)
  PROVE  IInv' /\ RowsKept
<1>0. /\ rows \in [Kinds -> SUBSET Entry] /\ "workspace" \in Kinds
      /\ boards \subseteq Boards /\ held \subseteq Ids
  BY DEF IInv, TypeOK, Kinds
<1>1. UNCHANGED <<memory, saving, known, ok, failed, blind, removed, edits>>
  BY DEF Claim, Forget, DeleteBoard, RestoreBoard, history
<1>2. /\ boards' \subseteq Boards /\ held' \subseteq Ids
      /\ bereft' \in BOOLEAN /\ chances' \in 0 .. MaxChances
  <2>1. chances' \in 0 .. MaxChances
    BY ChanceOK DEF Claim, Forget, DeleteBoard, RestoreBoard, IInv
  <2>2. bereft' \in BOOLEAN
    BY DEF Claim, Forget, DeleteBoard, RestoreBoard, IInv, TypeOK
  <2>3. boards' \subseteq Boards /\ held' \subseteq Ids
    BY <1>0 DEF Claim, Forget, DeleteBoard, RestoreBoard
  <2> QED BY <2>1, <2>2, <2>3
<1>3. /\ rows' \in [Kinds -> SUBSET Entry]
      /\ \A j \in Kinds : \A r, q \in rows'[j] :
           /\ r.id # 0
           /\ r.id = q.id \/ r.name = q.name => r = q
      /\ \A j \in Kinds : IdsOf(rows'[j]) = IdsOf(rows[j])
  <2>1. CASE UNCHANGED rows
    BY <2>1, <1>0 DEF IInv, TypeOK
  <2>2. ASSUME NEW b \in Boards, DeleteBoard(b)
        PROVE  <1>3!1 /\ <1>3!2 /\ <1>3!3
    <3> DEFINE G == [r \in rows["workspace"] |->
                       [r EXCEPT !.ref = IF @ = b THEN None ELSE @,
                                 !.modes = @ \ {b}]]
    <3>1. rows' = Rewritten("workspace", G)
      BY <2>2, <1>0 DEF DeleteBoard, Rewritten
    <3>2. \A r \in rows["workspace"] :
            G[r] \in Entry /\ G[r].id = r.id /\ G[r].name = r.name
      <4> SUFFICES ASSUME NEW r \in Entry
                   PROVE  LET s == [r EXCEPT !.ref = IF @ = b THEN None ELSE @,
                                             !.modes = @ \ {b}]
                          IN  s \in Entry /\ s.id = r.id /\ s.name = r.name
        BY <1>0
      <4> QED BY DEF Entry
    <3>3. G \in [rows["workspace"] -> Entry]
      BY <3>2
    <3> HIDE DEF G
    <3> QED BY <3>1, <3>2, <3>3, <1>0, InPlace DEF IInv
  <2>3. UNCHANGED rows \/ \E b \in Boards : DeleteBoard(b)
    BY DEF Claim, Forget, RestoreBoard
  <2> QED BY <2>1, <2>2, <2>3
<1>4. TypeOK'
  BY <1>1, <1>2, <1>3 DEF IInv, TypeOK
<1>5. Covered'
  <2>1. \A k \in Kinds : \A e \in memory[k] :
          e.id = 0 \/ e.id \in IdsOf(memory'[k])
    BY <1>1 DEF IdsOf
  <2> QED BY <1>1, <1>3, <2>1, CoveredKept
<1>6. LeftInv' /\ ReadInv' /\ GoneInv' /\ KnownInv'
  BY <1>1 DEF IInv, KeptInv, LeftInv, ReadInv, GoneInv, KnownInv
<1>7. RowsKept
  BY <1>3 DEF RowsKept, IdsOf
<1> QED BY <1>4, <1>5, <1>6, <1>7 DEF IInv, KeptInv

\* A start takes the rows for memory, or nothing at all.
LEMMA RestartKept ==
  ASSUME IInv, Restart \/ RestartBlind
  PROVE  IInv' /\ RowsKept
<1>1. /\ saving' = Rest /\ known' = Nothing
      /\ UNCHANGED <<rows, boards, held, failed, removed, edits>>
      /\ ok' \in BOOLEAN /\ bereft' \in BOOLEAN /\ blind' \in BOOLEAN
      /\ memory' = rows \/ (memory' = Nothing /\ blind')
  BY DEF Restart, RestartBlind, world
<1>2. chances' \in 0 .. MaxChances
  BY ChanceOK DEF Restart, RestartBlind, IInv
<1>3. /\ memory' \in [Kinds -> SUBSET Entry]
      /\ \A k \in Kinds : \A e, f \in memory'[k] : e.name = f.name => e = f
  BY <1>1, Empty DEF IInv, TypeOK, Nothing
<1>4. TypeOK'
  BY <1>1, <1>2, <1>3, Empty DEF IInv, TypeOK
<1>5. Covered'
  BY <1>1 DEF Covered, CoveredIn, IdsOf
<1>6. LeftInv' /\ ReadInv' /\ GoneInv' /\ KnownInv'
  BY <1>1 DEF Rest, Nothing, LeftInv, ReadInv, GoneInv, KnownInv
<1>7. RowsKept
  BY <1>1 DEF RowsKept, IdsOf
<1> QED BY <1>4, <1>5, <1>6, <1>7 DEF IInv, KeptInv

-----------------------------------------------------------------------------
(* The theorems                                                             *)

LEMMA InitIInv == Init => IInv
<1> SUFFICES ASSUME Init PROVE IInv
  OBVIOUS
<1>1. TypeOK
  <2>1. \A k \in Kinds : Nothing[k] = {}
    BY DEF Nothing
  <2>2. 0 \in 0 .. MaxEdits /\ 0 \in 0 .. MaxChances
    BY RegistriesAssumption
  <2> QED BY <2>1, <2>2, Empty DEF Init, TypeOK
<1>2. KeptInv
  BY DEF Init, Nothing, Rest, KeptInv, LeftInv, ReadInv, GoneInv, Covered, KnownInv
<1> QED BY <1>1, <1>2 DEF IInv

LEMMA StepIInv == IInv /\ [Next]_vars => IInv' /\ RowsKept
<1> SUFFICES ASSUME IInv, [Next]_vars PROVE IInv' /\ RowsKept
  OBVIOUS
<1>1. CASE Next
  BY <1>1, DialogKept, PersistKept, WorldKept, RestartKept DEF Next
<1>2. CASE UNCHANGED vars
  <2>1. UNCHANGED <<memory, rows, boards, held, saving, known, ok, bereft,
                    blind, failed, removed, edits, chances>>
    BY <1>2 DEF vars, world, history
  <2>2. TypeOK'
    BY <2>1 DEF IInv, TypeOK
  <2>3. KeptInv'
    BY <2>1 DEF IInv, KeptInv, LeftInv, ReadInv, GoneInv, Covered, CoveredIn, KnownInv
  <2> QED BY <2>1, <2>2, <2>3 DEF IInv, RowsKept, IdsOf
<1> QED BY <1>1, <1>2

THEOREM Invariance == Spec => []IInv
<1>1. IInv /\ [Next]_vars => IInv'
  BY StepIInv
<1> QED BY InitIInv, <1>1, PTL DEF Spec

\* The variables keep their types, no registry has a name twice, and no row is
\* without an id.
THEOREM TypeCorrect == Spec => []TypeOK
<1>1. IInv => TypeOK
  BY DEF IInv
<1> QED BY <1>1, Invariance, PTL

\* For any names, boards and number of edits: a row leaves its table only
\* because people removed its entry, or after a start that read no tables.
THEOREM KeptUnlessRemovedCorrect == Spec => KeptUnlessRemoved
<1>1. IInv /\ [Next]_vars =>
        [\A k \in Kinds : \A r \in rows[k] :
           r.id \in IdsOf(rows'[k]) \/ blind \/ <<k, r.id>> \in removed]_vars
  BY StepIInv DEF RowsKept
<1> QED BY <1>1, Invariance, PTL DEF Spec, KeptUnlessRemoved

-----------------------------------------------------------------------------
(* What a save has done                                                     *)

\* The registries that are saved before one.
Earlier(k) == CASE k = "proxy" -> {}
                [] k = "agent" -> {"proxy"}
                [] k = "deploy_target" -> {"proxy", "agent"}
                [] k = "workspace" -> {"proxy", "agent", "deploy_target"}
Underway == saving.pc \notin {"idle", "read"}

\* The entries a save has written; all of them between two saves.
Written(k) ==
  IF saving.pc = "idle" \/ (Underway /\ k \in Earlier(saving.kind)) THEN memory[k]
  ELSE IF Underway /\ k = saving.kind THEN memory[k] \ saving.left
  ELSE {}

\* Where a save is fits what it still has to do.
PlaceInv ==
  /\ saving.pc \in {"idle", "read"} => saving.kind = "proxy"
  /\ saving.pc \in {"clear", "modes"} => saving.kind = "workspace"
  /\ saving.pc = "delete" => saving.left = {}

\* No number was given before its edit.
AgesInv == \A k \in Kinds :
  /\ \A x \in memory[k] \cup rows[k] : x.id <= edits /\ x.maker <= edits
  /\ \A p \in known[k] : p[2] <= edits

\* Only folders have modes.
PlainInv == \A k \in Kinds \ {"workspace"} :
              \A x \in memory[k] \cup rows[k] : x.modes = {}

\* While nothing failed no two entries answer to one id.
ApartIn(k) == \A e, f \in memory[k] : e.id = f.id /\ e.id # 0 => e = f
ApartInv == ~failed => \A k \in Kinds : ApartIn(k)

\* While nothing failed an entry without an id is the one entry being added: the
\* number it may get is nobody's, and a row it may adopt has no entry, which is
\* there only after a start that read nothing.
Found(k) == IF saving.pc = "read" THEN Known(k) ELSE known[k]
NewIn(k, e) ==
  /\ saving.pc # "idle"
  /\ \A g \in memory[k] : g.id = 0 => g = e
  /\ \A g \in memory[k] \cup rows[k] : g.id # e.maker
  /\ \A p \in Found(k) : p[1] = e.name =>
       blind /\ \A g \in memory[k] : g.id # p[2]
NewInv == ~failed => \A k \in Kinds : \A e \in memory[k] : e.id = 0 => NewIn(k, e)

\* While nothing failed what was written has its row, by id and by name.
NamedIn(k, e) == \E r \in rows[k] : r.id = e.id /\ r.name = e.name
NamedInv == ~failed => \A k \in Kinds : \A e \in Written(k) : NamedIn(k, e)

\* What a save has written is in its table as it is in memory; but for an entry
\* that shares its id, a folder whose modes are being written, and folders a
\* board was taken off.
Twin(k, e) == \E g \in memory[k] : g # e /\ g.id = e.id
ModesIn(e) == \E r \in rows["workspace"] :
  /\ r.id = e.id /\ r.name = e.name /\ r.ref = e.ref /\ r.maker = e.maker
  /\ saving.pc = "clear" => saving.modes = e.modes
  /\ saving.pc = "modes" => r.modes \cup saving.modes = e.modes
Writing(k, e) == /\ k = "workspace" /\ saving.pc \in {"clear", "modes"}
                 /\ e.id = saving.folder
WrittenIn(k, e) ==
  /\ e.id # 0
  /\ \/ Twin(k, e)
     \/ k = "workspace" /\ bereft
     \/ Writing(k, e) /\ ModesIn(e)
     \/ ~Writing(k, e) /\ e \in rows[k]
WrittenInv == saving.pc # "idle" \/ ok =>
                \A k \in Kinds : \A e \in Written(k) : WrittenIn(k, e)

\* A table a save is through with has no row of an entry that is gone, but for
\* those it is about to delete.
Passed(k) == \/ saving.pc = "idle" /\ ok
             \/ Underway /\ k \in Earlier(saving.kind)
             \/ saving.pc = "delete" /\ k = saving.kind
Going(k) == IF saving.pc = "delete" /\ k = saving.kind THEN saving.gone ELSE {}
PrunedInv == \A k \in Kinds : Passed(k) =>
               IdsOf(rows[k]) \subseteq IdsOf(memory[k]) \cup Going(k)

\* Only a failure and a start that read nothing leave an edit unanswered.
AnsweredInv == saving.pc = "idle" /\ ~ok => failed \/ blind

\* An agent's proxy is there, in the tables, in memory, and in memory for the
\* tables until the agents are saved.
KeysInv == \A r \in rows["agent"] : r.ref \in IdsOf(rows["proxy"]) \cup {None}
RefsInv == \A e \in memory["agent"] :
             e.ref \in (IdsOf(memory["proxy"]) \ {0}) \cup {None}
ReachInv == ~failed /\ ~blind /\ saving.kind = "proxy" =>
  \A r \in rows["agent"] : r.ref \in IdsOf(memory["proxy"]) \cup {None}

SyncInv ==
  /\ PlaceInv /\ AgesInv /\ PlainInv /\ ApartInv /\ NewInv /\ NamedInv
  /\ WrittenInv /\ PrunedInv /\ AnsweredInv /\ KeysInv /\ RefsInv /\ ReachInv

\* The edit that begins a save.
LEMMA EditedSync ==
  ASSUME IInv, SyncInv, NEW entries \in [Kinds -> SUBSET Entry], Edit(entries),
         \A j \in Kinds : \A x \in entries[j] :
           /\ x.id <= edits + 1 /\ x.maker <= edits + 1
           /\ j # "workspace" => x.modes = {},
         ~failed => \A j \in Kinds : \A e, f \in entries[j] :
                      e.id = f.id /\ e.id # 0 => e = f,
         ~failed => \A j \in Kinds : \A e \in entries[j] : e.id = 0 =>
                      /\ \A g \in entries[j] : g.id = 0 => g = e
                      /\ \A g \in entries[j] \cup rows[j] : g.id # e.maker
                      /\ \A p \in Known(j) : p[1] = e.name =>
                           blind /\ \A g \in entries[j] : g.id # p[2],
         \A e \in entries["agent"] :
           e.ref \in (IdsOf(entries["proxy"]) \ {0}) \cup {None},
         ~failed /\ ~blind => \A r \in rows["agent"] :
                                r.ref \in IdsOf(entries["proxy"]) \cup {None}
  PROVE  SyncInv'
<1>1. /\ memory' = entries /\ saving' = [Rest EXCEPT !.pc = "read"]
      /\ edits' = edits + 1 /\ UNCHANGED <<rows, known, ok, blind, failed>>
  BY DEF Edit
<1>2. saving'.pc = "read" /\ saving'.kind = "proxy"
  BY <1>1 DEF Rest
<1>3. edits \in Nat /\ rows \in [Kinds -> SUBSET Entry]
      /\ known \in [Kinds -> SUBSET (Names \X Ids)]
  BY RegistriesAssumption DEF IInv, TypeOK
<1>4. PlaceInv' /\ AnsweredInv'
  BY <1>2 DEF PlaceInv, AnsweredInv
<1>5. AgesInv'
  <2>1. \A k \in Kinds : \A x \in rows[k] :
          x.id \in Nat /\ x.maker \in Nat /\ x.id <= edits /\ x.maker <= edits
    BY <1>3, RegistriesAssumption DEF SyncInv, AgesInv, Entry, Ids, Makers
  <2>2. \A k \in Kinds : \A p \in known[k] : p[2] \in Nat /\ p[2] <= edits
    BY <1>3, RegistriesAssumption DEF SyncInv, AgesInv, Ids
  <2> QED BY <1>1, <1>3, <2>1, <2>2 DEF AgesInv
<1>6. PlainInv'
  BY <1>1 DEF SyncInv, PlainInv
<1>7. ApartInv'
  BY <1>1 DEF ApartInv, ApartIn
<1>8. NewInv'
  <2>1. \A j \in Kinds : Found(j)' = Known(j)
    BY <1>1, <1>2 DEF Found, Known
  <2> QED BY <1>1, <1>2, <2>1 DEF NewInv, NewIn
<1>9. NamedInv' /\ WrittenInv' /\ PrunedInv'
  <2>1. \A j \in Kinds : Written(j)' = {} /\ ~Passed(j)'
    BY <1>2 DEF Written, Passed, Underway
  <2> QED BY <2>1 DEF NamedInv, WrittenInv, PrunedInv
<1>10. KeysInv' /\ RefsInv' /\ ReachInv'
  BY <1>1 DEF SyncInv, KeysInv, RefsInv, ReachInv
<1> QED BY <1>4, <1>5, <1>6, <1>7, <1>8, <1>9, <1>10 DEF SyncInv

\* Between two saves, while nothing failed, every entry has its row, and no
\* row is without its entry unless nothing was read.
LEMMA IdleFacts ==
  ASSUME IInv, SyncInv, saving.pc = "idle", ~failed, NEW k \in Kinds
  PROVE  /\ \A e \in memory[k] : e.id # 0 /\ NamedIn(k, e)
         /\ ~blind => IdsOf(rows[k]) \subseteq IdsOf(memory[k])
         /\ \A r \in rows[k], e \in memory[k] : r.id = e.id => r.name = e.name
<1>1. \A e \in memory[k] : NamedIn(k, e)
  BY DEF SyncInv, NamedInv, Written
<1>2. \A e \in memory[k] : e.id # 0
  BY DEF SyncInv, NewInv, NewIn
<1>3. ~blind => IdsOf(rows[k]) \subseteq IdsOf(memory[k])
  BY DEF SyncInv, AnsweredInv, PrunedInv, Passed, Going
<1>4. \A r \in rows[k], e \in memory[k] : r.id = e.id => r.name = e.name
  <2> SUFFICES ASSUME NEW r \in rows[k], NEW e \in memory[k], r.id = e.id
               PROVE  r.name = e.name
    OBVIOUS
  <2>1. PICK q \in rows[k] : q.id = e.id /\ q.name = e.name
    BY <1>1 DEF NamedIn
  <2>2. q = r
    BY <2>1 DEF IInv, TypeOK
  <2> QED BY <2>1, <2>2
<1> QED BY <1>1, <1>2, <1>3, <1>4

\* An edit that puts one entry in another's place.
LEMMA ReplacedSync ==
  ASSUME IInv, SyncInv, NEW k \in Kinds, NEW e \in memory[k], NEW f \in Entry,
         f.id = e.id, f.maker = e.maker,
         k # "workspace" => f.modes = {},
         k = "agent" => f.ref \in Refs("agent"),
         \A g \in memory[k] : g.name = f.name => g = e,
         Edit(Replace(k, e, f))
  PROVE  SyncInv'
<1> DEFINE M == Replace(k, e, f)
<1>1. /\ M \in [Kinds -> SUBSET Entry]
      /\ \A j \in Kinds : j # k => M[j] = memory[j]
      /\ M[k] = (memory[k] \ {e}) \cup {f}
  BY Replaced DEF IInv
<1> HIDE DEF M
<1>2. saving.pc = "idle" /\ edits \in Nat
  BY RegistriesAssumption DEF Edit, IInv, TypeOK
<1>3. \A j \in Kinds : \A x \in M[j] :
        /\ x.id <= edits + 1 /\ x.maker <= edits + 1
        /\ j # "workspace" => x.modes = {}
  <2>1. \A j \in Kinds : \A x \in memory[j] :
          /\ x.id \in Nat /\ x.maker \in Nat
          /\ x.id <= edits /\ x.maker <= edits
          /\ j # "workspace" => x.modes = {}
    BY RegistriesAssumption
       DEF IInv, TypeOK, SyncInv, AgesInv, PlainInv, Entry, Ids, Makers
  <2>2. \A j \in Kinds : \A x \in memory[j] :
          x.id <= edits + 1 /\ x.maker <= edits + 1
    BY <1>2, <2>1
  <2>3. f.id <= edits + 1 /\ f.maker <= edits + 1
    BY <2>2
  <2> QED BY <1>1, <2>1, <2>2, <2>3
<1>4. \A j \in Kinds : IdsOf(M[j]) = IdsOf(memory[j])
  <2> SUFFICES ASSUME NEW j \in Kinds PROVE IdsOf(M[j]) = IdsOf(memory[j])
    OBVIOUS
  <2>1. CASE j = k
    BY <2>1, <1>1 DEF IdsOf
  <2>2. CASE j # k
    BY <2>2, <1>1
  <2> QED BY <2>1, <2>2
<1>5. ~failed => \A j \in Kinds : \A d, g \in M[j] :
                   d.id = g.id /\ d.id # 0 => d = g
  <2> SUFFICES ASSUME ~failed, NEW j \in Kinds, NEW d \in M[j], NEW g \in M[j],
                      d.id = g.id, d.id # 0
               PROVE  d = g
    OBVIOUS
  <2>1. ApartIn(j)
    BY DEF SyncInv, ApartInv
  <2>2. CASE j # k
    BY <2>1, <2>2, <1>1 DEF ApartIn
  <2>3. CASE j = k
    <3>1. \A x \in memory[k] : x.id = e.id /\ x.id # 0 => x = e
      BY <2>1, <2>3 DEF ApartIn
    <3>2. (d = f \/ d \in memory[k] \ {e}) /\ (g = f \/ g \in memory[k] \ {e})
      BY <2>3, <1>1
    <3> QED BY <3>1, <3>2, <2>1, <2>3 DEF ApartIn
  <2> QED BY <2>2, <2>3
<1>6. ~failed => \A j \in Kinds : \A x \in M[j] : x.id # 0
  <2> SUFFICES ASSUME ~failed, NEW j \in Kinds, NEW x \in M[j] PROVE x.id # 0
    OBVIOUS
  <2>1. \A d \in memory[j] : d.id # 0
    BY <1>2, IdleFacts
  <2>2. \A i \in IdsOf(memory[j]) : i # 0
    BY <2>1 DEF IdsOf
  <2>3. x.id \in IdsOf(M[j])
    BY DEF IdsOf
  <2> QED BY <2>2, <2>3, <1>4
<1>7. \A x \in M["agent"] : x.ref \in (IdsOf(M["proxy"]) \ {0}) \cup {None}
  <2>1. "agent" \in Kinds /\ "proxy" \in Kinds
    BY DEF Kinds
  <2>2. \A x \in memory["agent"] :
          x.ref \in (IdsOf(memory["proxy"]) \ {0}) \cup {None}
    BY DEF SyncInv, RefsInv
  <2>3. k = "agent" => f.ref \in (IdsOf(memory["proxy"]) \ {0}) \cup {None}
    BY DEF Refs
  <2> QED BY <2>1, <2>2, <2>3, <1>1, <1>4
<1>8. ~failed /\ ~blind => \A r \in rows["agent"] :
                             r.ref \in IdsOf(M["proxy"]) \cup {None}
  <2>1. "proxy" \in Kinds /\ saving.kind = "proxy"
    BY <1>2 DEF Kinds, SyncInv, PlaceInv
  <2> QED BY <2>1, <1>4 DEF SyncInv, ReachInv
<1>9. Edit(M)
  BY DEF M
<1> QED BY <1>1, <1>3, <1>5, <1>6, <1>7, <1>8, <1>9, EditedSync

\* A new entry.
LEMMA AddSync ==
  ASSUME IInv, SyncInv, NEW k \in Kinds, NEW n \in Names, NEW ref \in Refs(k),
         Add(k, n, ref)
  PROVE  SyncInv'
<1> DEFINE e == [id |-> IF k = "workspace" THEN edits + 1 ELSE 0, name |-> n,
                 ref |-> ref, modes |-> {}, maker |-> edits + 1]
           M == [memory EXCEPT ![k] = @ \cup {e}]
<1>1. Edit(M) /\ ~Taken(k, n)
  BY DEF Add
<1>2. saving.pc = "idle" /\ edits \in Nat /\ edits + 1 \in Makers
      /\ edits + 1 \in Ids /\ edits + 1 # 0
  BY <1>1, RegistriesAssumption DEF Edit, IInv, TypeOK, Makers, Ids
<1>3. memory \in [Kinds -> SUBSET Entry] /\ rows \in [Kinds -> SUBSET Entry]
  BY DEF IInv, TypeOK
<1>4. e \in Entry
  <2>1. ref \in Ids \cup Boards \cup {None}
    <3>1. boards \subseteq Boards
      BY DEF IInv, TypeOK
    <3>2. k = "agent" => IdsOf(memory["proxy"]) \subseteq Ids
      BY <1>3 DEF IdsOf, Entry, Kinds
    <3> QED BY <3>1, <3>2 DEF Refs
  <2> QED BY <1>2, <2>1, Empty DEF Entry
<1>5. M \in [Kinds -> SUBSET Entry] /\ M[k] = memory[k] \cup {e}
      /\ \A j \in Kinds : j # k => M[j] = memory[j]
  BY <1>3, <1>4
<1>6. /\ e.name = n /\ e.ref = ref /\ e.modes = {} /\ e.maker = edits + 1
      /\ e.id = IF k = "workspace" THEN edits + 1 ELSE 0
  OBVIOUS
<1> HIDE DEF M, e
<1>7. \A j \in Kinds : \A x \in memory[j] \cup rows[j] :
        /\ x.id \in Nat /\ x.maker \in Nat
        /\ x.id <= edits /\ x.maker <= edits
  BY <1>3, RegistriesAssumption DEF SyncInv, AgesInv, Entry, Ids, Makers
<1>8. \A j \in Kinds : \A x \in M[j] :
        /\ x.id <= edits + 1 /\ x.maker <= edits + 1
        /\ j # "workspace" => x.modes = {}
  <2>1. \A j \in Kinds : \A x \in memory[j] :
          x.id <= edits + 1 /\ x.maker <= edits + 1
    BY <1>2, <1>7
  <2>2. e.id <= edits + 1 /\ e.maker <= edits + 1
    BY <1>2, <1>6
  <2> QED BY <2>1, <2>2, <1>5, <1>6 DEF SyncInv, PlainInv
<1>9. \A j \in Kinds : \A x \in memory[j] \cup rows[j] : x.id # edits + 1
  BY <1>2, <1>7
<1>10. ~failed => \A j \in Kinds : \A x \in memory[j] : x.id # 0
  BY <1>2, IdleFacts
<1>11. ~failed => \A j \in Kinds : \A d, g \in M[j] :
                    d.id = g.id /\ d.id # 0 => d = g
  <2> SUFFICES ASSUME ~failed, NEW j \in Kinds, NEW d \in M[j], NEW g \in M[j],
                      d.id = g.id, d.id # 0
               PROVE  d = g
    OBVIOUS
  <2>1. ApartIn(j)
    BY DEF SyncInv, ApartInv
  <2>2. (d \in memory[j] \/ (j = k /\ d = e)) /\ (g \in memory[j] \/ (j = k /\ g = e))
    BY <1>5
  <2> QED BY <2>1, <2>2, <1>6, <1>9 DEF ApartIn
<1>12. ~failed => \A j \in Kinds : \A x \in M[j] : x.id = 0 =>
         /\ \A g \in M[j] : g.id = 0 => g = x
         /\ \A g \in M[j] \cup rows[j] : g.id # x.maker
         /\ \A p \in Known(j) : p[1] = x.name =>
              blind /\ \A g \in M[j] : g.id # p[2]
  <2> SUFFICES ASSUME ~failed, NEW j \in Kinds, NEW x \in M[j], x.id = 0
               PROVE  /\ \A g \in M[j] : g.id = 0 => g = x
                      /\ \A g \in M[j] \cup rows[j] : g.id # x.maker
                      /\ \A p \in Known(j) : p[1] = x.name =>
                           blind /\ \A g \in M[j] : g.id # p[2]
    OBVIOUS
  <2>1. j = k /\ x = e
    BY <1>5, <1>10
  <2>2. \A g \in M[j] : g = e \/ g \in memory[k]
    BY <2>1, <1>5
  <2>3. \A g \in M[j] : g.id = 0 => g = x
    BY <2>1, <2>2, <1>10
  <2>4. \A g \in M[j] \cup rows[j] : g.id # x.maker
    BY <2>1, <2>2, <1>2, <1>6, <1>9
  <2>5. ASSUME NEW p \in Known(j), p[1] = x.name
        PROVE  blind /\ \A g \in M[j] : g.id # p[2]
    <3>1. PICK r \in rows[k] : r.name = n /\ r.id = p[2]
      BY <2>1, <2>5, <1>6 DEF Known
    <3>2. \A g \in memory[k] : g.id # r.id
      BY <3>1, <1>1, <1>2, IdleFacts DEF Taken
    <3>3. blind
      BY <3>2, <1>2, IdleFacts DEF IdsOf
    <3>4. r.id # 0
      BY DEF IInv, TypeOK
    <3> QED BY <3>1, <3>2, <3>3, <3>4, <2>1, <2>2
  <2> QED BY <2>3, <2>4, <2>5
<1>13. "agent" \in Kinds /\ "proxy" \in Kinds
  BY DEF Kinds
<1>14. IdsOf(memory["proxy"]) \subseteq IdsOf(M["proxy"])
  BY <1>5, <1>13 DEF IdsOf
<1>15. \A x \in M["agent"] : x.ref \in (IdsOf(M["proxy"]) \ {0}) \cup {None}
  <2>1. \A x \in memory["agent"] :
          x.ref \in (IdsOf(memory["proxy"]) \ {0}) \cup {None}
    BY DEF SyncInv, RefsInv
  <2>2. k = "agent" => e.ref \in (IdsOf(memory["proxy"]) \ {0}) \cup {None}
    BY <1>6 DEF Refs
  <2> QED BY <2>1, <2>2, <1>5, <1>13, <1>14
<1>16. ~failed /\ ~blind => \A r \in rows["agent"] :
                              r.ref \in IdsOf(M["proxy"]) \cup {None}
  <2>1. saving.kind = "proxy"
    BY <1>2 DEF SyncInv, PlaceInv
  <2> QED BY <2>1, <1>14 DEF SyncInv, ReachInv
<1> QED BY <1>1, <1>5, <1>8, <1>11, <1>12, <1>15, <1>16, EditedSync

\* An entry is removed.
LEMMA RemoveSync ==
  ASSUME IInv, SyncInv, NEW k \in Kinds, NEW e \in memory[k], Remove(k, e)
  PROVE  SyncInv'
<1> DEFINE M == [memory EXCEPT ![k] = @ \ {e}]
<1>1. Edit(M)
      /\ (k = "proxy" => e.id = 0 \/ \A a \in memory["agent"] : a.ref # e.id)
  BY DEF Remove
<1>2. saving.pc = "idle" /\ edits \in Nat
  BY <1>1, RegistriesAssumption DEF Edit, IInv, TypeOK
<1>3. memory \in [Kinds -> SUBSET Entry]
  BY DEF IInv, TypeOK
<1>4. M \in [Kinds -> SUBSET Entry] /\ M[k] = memory[k] \ {e}
      /\ \A j \in Kinds : j # k => M[j] = memory[j]
  BY <1>3
<1> HIDE DEF M
<1>5. \A j \in Kinds : M[j] \subseteq memory[j]
  BY <1>4
<1>6. \A j \in Kinds : \A x \in M[j] :
        /\ x.id <= edits + 1 /\ x.maker <= edits + 1
        /\ j # "workspace" => x.modes = {}
  <2>1. \A j \in Kinds : \A x \in memory[j] :
          /\ x.id \in Nat /\ x.maker \in Nat
          /\ x.id <= edits /\ x.maker <= edits
          /\ j # "workspace" => x.modes = {}
    BY <1>3, RegistriesAssumption DEF SyncInv, AgesInv, PlainInv, Entry, Ids, Makers
  <2>2. \A j \in Kinds : \A x \in memory[j] :
          x.id <= edits + 1 /\ x.maker <= edits + 1
    BY <1>2, <2>1
  <2> QED BY <1>5, <2>1, <2>2
<1>7. ~failed => \A j \in Kinds : \A d, g \in M[j] :
                   d.id = g.id /\ d.id # 0 => d = g
  BY <1>5 DEF SyncInv, ApartInv, ApartIn
<1>8. ~failed => \A j \in Kinds : \A x \in M[j] : x.id # 0
  BY <1>2, <1>5, IdleFacts
<1>9. "agent" \in Kinds /\ "proxy" \in Kinds
  BY DEF Kinds
<1>10. \A x \in memory["agent"] : x.ref \in (IdsOf(M["proxy"]) \ {0}) \cup {None}
  <2> SUFFICES ASSUME NEW x \in memory["agent"], x.ref # None
               PROVE  x.ref \in IdsOf(M["proxy"]) \ {0}
    OBVIOUS
  <2>1. x.ref \in IdsOf(memory["proxy"]) \ {0}
    BY DEF SyncInv, RefsInv
  <2>2. PICK p \in memory["proxy"] : p.id = x.ref /\ p.id # 0
    BY <2>1 DEF IdsOf
  <2>3. ~(k = "proxy" /\ p = e)
    BY <2>2, <1>1
  <2>4. p \in M["proxy"]
    BY <2>3, <1>4, <1>9
  <2> QED BY <2>2, <2>4 DEF IdsOf
<1>11. ~failed /\ ~blind => \A r \in rows["agent"] :
                              r.ref \in IdsOf(M["proxy"]) \cup {None}
  <2> SUFFICES ASSUME ~failed, ~blind, NEW r \in rows["agent"], r.ref # None
               PROVE  r.ref \in IdsOf(M["proxy"])
    OBVIOUS
  <2>1. ok /\ Written("agent") = memory["agent"]
    BY <1>2 DEF SyncInv, AnsweredInv, Written
  <2>2. PICK a \in memory["agent"] : a.id = r.id
    BY <1>2, <1>9, IdleFacts DEF IdsOf
  <2>3. ~Twin("agent", a)
    <3>1. ApartIn("agent") /\ a.id # 0
      BY <1>2, <1>9, IdleFacts DEF SyncInv, ApartInv
    <3> QED BY <3>1 DEF Twin, ApartIn
  <2>4. a \in rows["agent"]
    BY <2>1, <2>3, <1>9 DEF SyncInv, WrittenInv, WrittenIn, Writing
  <2>5. a = r
    BY <2>2, <2>4, <1>9 DEF IInv, TypeOK
  <2>6. a.ref \in (IdsOf(M["proxy"]) \ {0}) \cup {None}
    BY <1>10
  <2> QED BY <2>5, <2>6
<1> QED BY <1>1, <1>4, <1>5, <1>6, <1>7, <1>8, <1>9, <1>10, <1>11, EditedSync

LEMMA DialogSync ==
  ASSUME IInv, SyncInv, Dialog
  PROVE  SyncInv'
<1>0. memory \in [Kinds -> SUBSET Entry] /\ boards \subseteq Boards
      /\ "workspace" \in Kinds
  BY DEF IInv, TypeOK, Kinds
<1>1. ASSUME NEW k \in Kinds, NEW n \in Names, NEW e \in memory[k],
             NEW ref \in Refs(k), Update(k, e, n, ref)
      PROVE  SyncInv'
  <2> DEFINE f == [e EXCEPT !.name = n, !.ref = ref]
  <2>1. Edit(Replace(k, e, f)) /\ k # "workspace" /\ (n = e.name \/ ~Taken(k, n))
    BY <1>1 DEF Update
  <2>2. ref \in Ids \cup Boards \cup {None}
    <3>1. k = "agent" => IdsOf(memory["proxy"]) \subseteq Ids
      BY <1>0 DEF IdsOf, Entry, Kinds
    <3> QED BY <3>1, <1>0 DEF Refs
  <2>3. /\ f \in Entry /\ f.id = e.id /\ f.name = n /\ f.ref = ref
        /\ f.maker = e.maker /\ f.modes = e.modes
    <3>1. e \in Entry
      BY <1>0
    <3> QED BY <3>1, <2>2 DEF Entry
  <2>4. \A g \in memory[k] : g.name = n => g = e
    BY <2>1 DEF Taken, IInv, TypeOK
  <2>5. e.modes = {}
    BY <2>1 DEF SyncInv, PlainInv
  <2> HIDE DEF f
  <2> QED BY <2>1, <2>3, <2>4, <2>5, ReplacedSync
<1>2. ASSUME NEW e \in memory["workspace"], NEW b \in boards,
             Attach(e, b) \/ SetMode(e, b)
      PROVE  SyncInv'
  <2>1. b \in Boards /\ e \in Entry
    BY <1>0
  <2>2. PICK f \in Entry : /\ f.id = e.id /\ f.name = e.name /\ f.maker = e.maker
                           /\ Edit(Replace("workspace", e, f))
    <3>1. CASE Attach(e, b)
      <4> DEFINE f == [e EXCEPT !.ref = b]
      <4>1. f \in Entry /\ f.id = e.id /\ f.name = e.name /\ f.maker = e.maker
        BY <2>1 DEF Entry
      <4>2. Edit(Replace("workspace", e, f))
        BY <3>1 DEF Attach
      <4> QED BY <4>1, <4>2
    <3>2. CASE SetMode(e, b)
      <4> DEFINE f == [e EXCEPT !.modes = @ \cup {b}]
      <4>1. f \in Entry /\ f.id = e.id /\ f.name = e.name /\ f.maker = e.maker
        BY <2>1 DEF Entry
      <4>2. Edit(Replace("workspace", e, f))
        BY <3>2 DEF SetMode
      <4> QED BY <4>1, <4>2
    <3> QED BY <1>2, <3>1, <3>2
  <2>3. \A g \in memory["workspace"] : g.name = f.name => g = e
    BY <1>0, <2>2 DEF IInv, TypeOK
  <2> QED BY <1>0, <2>2, <2>3, ReplacedSync
<1>3. ASSUME Touch
      PROVE  SyncInv'
  <2>1. Edit(memory) /\ saving.pc = "idle" /\ edits \in Nat
    BY <1>3, RegistriesAssumption DEF Touch, Edit, IInv, TypeOK
  <2>2. \A j \in Kinds : \A x \in memory[j] :
          /\ x.id \in Nat /\ x.maker \in Nat
          /\ x.id <= edits /\ x.maker <= edits
          /\ j # "workspace" => x.modes = {}
    BY <1>0, RegistriesAssumption DEF SyncInv, AgesInv, PlainInv, Entry, Ids, Makers
  <2>3. \A j \in Kinds : \A x \in memory[j] :
          x.id <= edits + 1 /\ x.maker <= edits + 1
    BY <2>1, <2>2
  <2>4. ~failed => \A j \in Kinds : \A x \in memory[j] : x.id # 0
    BY <2>1, IdleFacts
  <2>5. ~failed => \A j \in Kinds : \A d, g \in memory[j] :
                     d.id = g.id /\ d.id # 0 => d = g
    BY DEF SyncInv, ApartInv, ApartIn
  <2>6. /\ \A x \in memory["agent"] :
             x.ref \in (IdsOf(memory["proxy"]) \ {0}) \cup {None}
        /\ ~failed /\ ~blind => \A r \in rows["agent"] :
                                  r.ref \in IdsOf(memory["proxy"]) \cup {None}
    BY <2>1 DEF SyncInv, RefsInv, PlaceInv, ReachInv
  <2> QED BY <1>0, <2>1, <2>2, <2>3, <2>4, <2>5, <2>6, EditedSync
<1> QED BY <1>1, <1>2, <1>3, AddSync, RemoveSync DEF Dialog

-----------------------------------------------------------------------------
(* What the steps of a save do to it                                        *)

\* A step that leaves memory as it is, and the rows up to what they hold.
LEMMA RewrittenSync ==
  ASSUME IInv, SyncInv, UNCHANGED <<memory, known, failed, blind, edits>>,
         \A j \in Kinds : \A q \in rows'[j] : \E r \in rows[j] :
           r.id = q.id /\ r.name = q.name /\ r.maker = q.maker
             /\ (j # "workspace" => r = q),
         \A j \in Kinds : \A r \in rows[j] : \E q \in rows'[j] :
           r.id = q.id /\ r.name = q.name,
         saving'.kind = saving.kind, saving'.left = saving.left,
         (saving.pc = "idle") <=> (saving'.pc = "idle"),
         (saving.pc = "read") <=> (saving'.pc = "read")
  PROVE  /\ AgesInv' /\ PlainInv' /\ ApartInv' /\ NewInv' /\ NamedInv'
         /\ KeysInv' /\ RefsInv' /\ ReachInv'
         /\ \A j \in Kinds : IdsOf(rows'[j]) = IdsOf(rows[j])
         /\ \A j \in Kinds : Written(j)' = Written(j)
<1>1. AgesInv' /\ PlainInv'
  <2>1. \A j \in Kinds : \A q \in rows'[j] : \E r \in rows[j] :
          q.id = r.id /\ q.maker = r.maker /\ (j # "workspace" => r = q)
    OBVIOUS
  <2>2. AgesInv'
    BY <2>1 DEF SyncInv, AgesInv
  <2>3. PlainInv'
    BY <2>1 DEF SyncInv, PlainInv
  <2> QED BY <2>2, <2>3
<1>2. ApartInv' /\ RefsInv'
  BY DEF SyncInv, ApartInv, ApartIn, RefsInv
<1>3. \A j \in Kinds : IdsOf(rows'[j]) = IdsOf(rows[j])
  BY DEF IdsOf
<1>4. \A j \in Kinds : Written(j)' = Written(j)
  BY DEF Written, Underway
<1>5. NamedInv'
  <2> SUFFICES ASSUME ~failed, NEW j \in Kinds, NEW e \in Written(j)
               PROVE  \E q \in rows'[j] : q.id = e.id /\ q.name = e.name
    BY <1>4 DEF NamedInv, NamedIn
  <2> QED BY DEF SyncInv, NamedInv, NamedIn
<1>6. NewInv'
  <2> SUFFICES ASSUME ~failed, NEW j \in Kinds, NEW e \in memory[j], e.id = 0
               PROVE  NewIn(j, e)'
    BY DEF NewInv
  <2>1. NewIn(j, e)
    BY DEF SyncInv, NewInv
  <2>2. \A g \in rows'[j] : g.id # e.maker
    BY <2>1 DEF NewIn
  <2>3. Found(j)' \subseteq Found(j)
    <3>1. {<<q.name, q.id>> : q \in rows'[j]} \subseteq
          {<<r.name, r.id>> : r \in rows[j]}
      OBVIOUS
    <3> QED BY <3>1 DEF Found, Known
  <2> QED BY <2>1, <2>2, <2>3 DEF NewIn
<1>7. KeysInv' /\ ReachInv'
  <2>1. "agent" \in Kinds /\ "proxy" \in Kinds
    BY DEF Kinds
  <2>2. rows'["agent"] \subseteq rows["agent"]
    BY <2>1
  <2> QED BY <1>3, <2>1, <2>2 DEF SyncInv, KeysInv, ReachInv
<1> QED BY <1>1, <1>2, <1>3, <1>4, <1>5, <1>6, <1>7

\* The save reads the names, or goes on to the deletes or to the next registry.
LEMMA OnwardSync ==
  ASSUME IInv, SyncInv, ReadNames \/ Prune \/ NextRegistry
  PROVE  SyncInv'
<1>0. /\ UNCHANGED <<memory, rows, ok, bereft, failed, blind, edits>>
      /\ saving \in Saving /\ saving.kind \in Kinds
      /\ saving'.pc \notin {"idle", "read", "clear", "modes"}
      /\ saving.pc # "idle"
  BY DEF ReadNames, Prune, NextRegistry, history, IInv, TypeOK, Saving
<1>1. PlaceInv'
  <2>1. saving'.pc = "delete" => saving'.left = {}
    BY <1>0 DEF ReadNames, Prune, NextRegistry, Saving
  <2> QED BY <1>0, <2>1 DEF PlaceInv
<1>2. \A k \in Kinds : known'[k] = Found(k)
  <2>1. CASE ReadNames
    BY <2>1 DEF ReadNames, Found
  <2>2. CASE Prune \/ NextRegistry
    BY <2>2 DEF Prune, NextRegistry, Found
  <2> QED BY <2>1, <2>2
<1>3. AgesInv'
  <2>1. \A k \in Kinds : \A p \in Found(k) : p[2] <= edits
    <3>1. \A k \in Kinds : \A p \in Known(k) : p[2] <= edits
      BY DEF Known, SyncInv, AgesInv
    <3> QED BY <3>1 DEF Found, SyncInv, AgesInv
  <2> QED BY <1>0, <1>2, <2>1 DEF SyncInv, AgesInv
<1>4. PlainInv' /\ ApartInv' /\ KeysInv' /\ RefsInv'
  BY <1>0 DEF SyncInv, PlainInv, ApartInv, ApartIn, KeysInv, RefsInv
<1>5. NewInv'
  <2>1. \A k \in Kinds : Found(k)' = Found(k)
    BY <1>0, <1>2 DEF Found
  <2> QED BY <1>0, <2>1 DEF SyncInv, NewInv, NewIn
<1>6. \A k \in Kinds : Written(k)' \subseteq Written(k)
  <2>1. CASE ReadNames
    <3>1. /\ saving' = [saving EXCEPT !.pc = "save", !.left = memory["proxy"]]
          /\ saving.pc = "read" /\ saving.kind = "proxy"
      BY <2>1 DEF ReadNames, SyncInv, PlaceInv
    <3>2. \A k \in Kinds : Written(k)' = {}
      BY <3>1, <1>0 DEF Saving, Written, Underway, Earlier
    <3> QED BY <3>2
  <2>2. CASE Prune
    <3>1. /\ saving'.left = saving.left /\ saving'.kind = saving.kind
          /\ saving.pc \notin {"idle", "read"}
      BY <2>2, <1>0 DEF Prune, Saving
    <3> QED BY <3>1, <1>0 DEF Written, Underway
  <2>3. CASE NextRegistry
    <3>1. /\ saving'.left = memory[After(saving.kind)]
          /\ saving'.kind = After(saving.kind) /\ saving'.pc = "save"
          /\ saving.pc = "delete" /\ saving.left = {}
          /\ saving.kind # "workspace"
      BY <2>3, <1>0 DEF NextRegistry, Saving, SyncInv, PlaceInv
    <3>2. Earlier(After(saving.kind)) = Earlier(saving.kind) \cup {saving.kind}
          /\ After(saving.kind) \in Kinds
      BY <3>1, <1>0 DEF Earlier, After, Kinds
    <3> SUFFICES ASSUME NEW k \in Kinds PROVE Written(k)' \subseteq Written(k)
      OBVIOUS
    <3>3. CASE k \in Earlier(saving.kind)
      BY <3>1, <3>3, <1>0 DEF Written, Underway
    <3>4. CASE k = saving.kind
      BY <3>1, <3>2, <3>4, <1>0 DEF Written, Underway
    <3>5. CASE k \notin Earlier(saving.kind) \cup {saving.kind}
      BY <3>1, <3>2, <3>5, <1>0 DEF Written, Underway
    <3> QED BY <3>3, <3>4, <3>5
  <2> QED BY <2>1, <2>2, <2>3
<1>7. NamedInv'
  BY <1>0, <1>6 DEF SyncInv, NamedInv, NamedIn
<1>8. WrittenInv'
  <2> SUFFICES ASSUME NEW k \in Kinds, NEW e \in Written(k)
               PROVE  WrittenIn(k, e)'
    BY <1>6 DEF WrittenInv
  <2>2. WrittenIn(k, e)
    BY <1>0 DEF SyncInv, WrittenInv
  <2>3. ~Writing(k, e) /\ ~Writing(k, e)'
    BY <1>0 DEF ReadNames, Prune, NextRegistry, Writing
  <2>4. Twin(k, e)' = Twin(k, e)
    BY <1>0 DEF Twin
  <2> QED BY <1>0, <2>2, <2>3, <2>4 DEF WrittenIn
<1>9. PrunedInv'
  <2> SUFFICES ASSUME NEW k \in Kinds, Passed(k)'
               PROVE  IdsOf(rows[k]) \subseteq IdsOf(memory[k]) \cup Going(k)'
    BY <1>0 DEF PrunedInv
  <2>1. CASE ReadNames
    <3>1. /\ saving' = [saving EXCEPT !.pc = "save", !.left = memory["proxy"]]
          /\ saving.kind = "proxy"
      BY <2>1 DEF ReadNames, SyncInv, PlaceInv
    <3>2. ~Passed(k)'
      BY <3>1, <1>0 DEF Saving, Passed, Underway, Earlier
    <3> QED BY <3>2
  <2>2. CASE Prune
    <3>1. /\ saving'.gone = IdsOf(rows[saving.kind]) \ IdsOf(memory[saving.kind])
          /\ saving'.kind = saving.kind /\ saving'.pc = "delete"
          /\ saving.pc = "save"
      BY <2>2, <1>0 DEF Prune, Saving
    <3>2. CASE k = saving.kind
      BY <3>1, <3>2 DEF Going
    <3>3. CASE k # saving.kind
      BY <3>1, <3>3 DEF Passed, Underway, Going, SyncInv, PrunedInv
    <3> QED BY <3>2, <3>3
  <2>3. CASE NextRegistry
    <3>1. /\ saving'.kind = After(saving.kind) /\ saving'.pc = "save"
          /\ saving.pc = "delete" /\ saving.gone = {}
          /\ saving.kind # "workspace"
      BY <2>3, <1>0 DEF NextRegistry, Saving
    <3>2. Earlier(After(saving.kind)) = Earlier(saving.kind) \cup {saving.kind}
      BY <3>1, <1>0 DEF Earlier, After, Kinds
    <3>3. Passed(k) /\ Going(k) = {}
      BY <3>1, <3>2 DEF Passed, Underway, Going
    <3> QED BY <3>3 DEF SyncInv, PrunedInv
  <2> QED BY <2>1, <2>2, <2>3
<1>10. AnsweredInv'
  BY <1>0 DEF AnsweredInv
<1>11. ReachInv'
  <2>1. CASE saving'.kind = "proxy"
    <3>1. saving.kind = "proxy"
      <4>1. CASE ReadNames \/ Prune
        BY <4>1, <2>1, <1>0 DEF ReadNames, Prune, Saving
      <4>2. CASE NextRegistry
        BY <4>2, <2>1, <1>0 DEF NextRegistry, Saving, After, Kinds
      <4> QED BY <4>1, <4>2
    <3> QED BY <3>1, <1>0 DEF SyncInv, ReachInv
  <2> QED BY <2>1 DEF ReachInv
<1> QED BY <1>1, <1>3, <1>4, <1>5, <1>7, <1>8, <1>9, <1>10, <1>11 DEF SyncInv

\* An entry is its fields.
LEMMA SameEntry ==
  ASSUME NEW q \in Entry, NEW e \in Entry, q.id = e.id, q.name = e.name,
         q.ref = e.ref, q.modes = e.modes, q.maker = e.maker
  PROVE  q = e
BY DEF Entry

\* The modes of a folder are written.
LEMMA ModesSync ==
  ASSUME IInv, SyncInv, ClearModes \/ \E b \in saving.modes : WriteMode(b)
  PROVE  SyncInv'
<1>0. /\ rows \in [Kinds -> SUBSET Entry] /\ "workspace" \in Kinds
      /\ saving \in Saving
  BY DEF IInv, TypeOK, Kinds
<1>1. /\ UNCHANGED <<memory, known, ok, bereft, failed, blind, edits>>
      /\ saving.kind = "workspace" /\ saving'.kind = saving.kind
      /\ saving'.left = saving.left
      /\ saving.pc \in {"clear", "modes"} /\ saving'.pc \in {"save", "modes"}
  <2>1. CASE ClearModes
    BY <2>1, <1>0 DEF ClearModes, history, SyncInv, PlaceInv, Saving
  <2>2. ASSUME NEW b \in saving.modes, WriteMode(b)
        PROVE  /\ UNCHANGED <<memory, known, ok, bereft, failed, blind, edits>>
               /\ saving.kind = "workspace" /\ saving'.kind = saving.kind
               /\ saving'.left = saving.left
               /\ saving.pc \in {"clear", "modes"}
               /\ saving'.pc \in {"save", "modes"}
    BY <2>2, <1>0 DEF WriteMode, history, SyncInv, PlaceInv, Saving
  <2> QED BY <2>1, <2>2
<1>2. PICK m \in {saving.modes} \cup {{b} : b \in saving.modes} :
        \/ /\ m = saving.modes /\ saving.pc = "clear"
           /\ rows' = [rows EXCEPT !["workspace"] =
                         {IF r.id = saving.folder THEN [r EXCEPT !.modes = {}]
                          ELSE r : r \in rows["workspace"]}]
           /\ saving'.modes = saving.modes
           /\ saving'.pc = IF saving.modes = {} THEN "save" ELSE "modes"
        \/ /\ saving.pc = "modes" /\ m \subseteq saving.modes
           /\ rows' = [rows EXCEPT !["workspace"] =
                         {IF r.id = saving.folder
                          THEN [r EXCEPT !.modes = @ \cup m]
                          ELSE r : r \in rows["workspace"]}]
           /\ saving'.modes = saving.modes \ m
           /\ saving'.pc = IF saving.modes = m THEN "save" ELSE "modes"
  <2>1. CASE ClearModes
    <3>1. /\ saving' = [saving EXCEPT !.pc = IF saving.modes = {} THEN "save"
                                             ELSE "modes"]
          /\ saving.pc = "clear"
      BY <2>1 DEF ClearModes
    <3>2. rows' = [rows EXCEPT !["workspace"] =
                     {IF r.id = saving.folder THEN [r EXCEPT !.modes = {}]
                      ELSE r : r \in rows["workspace"]}]
      BY <2>1, <1>0 DEF ClearModes, WithModes
    <3>3. /\ saving'.modes = saving.modes
          /\ saving'.pc = IF saving.modes = {} THEN "save" ELSE "modes"
      BY <3>1, <1>0 DEF Saving
    <3> QED BY <3>1, <3>2, <3>3
  <2>2. ASSUME NEW b \in saving.modes, WriteMode(b)
        PROVE  /\ saving.pc = "modes" /\ {b} \subseteq saving.modes
               /\ rows' = [rows EXCEPT !["workspace"] =
                             {IF r.id = saving.folder
                              THEN [r EXCEPT !.modes = @ \cup {b}]
                              ELSE r : r \in rows["workspace"]}]
               /\ saving'.modes = saving.modes \ {b}
               /\ saving'.pc = IF saving.modes = {b} THEN "save" ELSE "modes"
    <3>1. /\ saving' = [saving EXCEPT !.modes = @ \ {b},
                              !.pc = IF saving.modes = {b} THEN "save"
                                     ELSE "modes"]
          /\ saving.pc = "modes"
      BY <2>2 DEF WriteMode
    <3>2. rows' = [rows EXCEPT !["workspace"] =
                     {IF r.id = saving.folder THEN [r EXCEPT !.modes = @ \cup {b}]
                      ELSE r : r \in rows["workspace"]}]
      BY <2>2 DEF WriteMode
    <3>3. /\ saving'.modes = saving.modes \ {b}
          /\ saving'.pc = IF saving.modes = {b} THEN "save" ELSE "modes"
      BY <3>1, <1>0 DEF Saving
    <3> QED BY <3>1, <3>2, <3>3
  <2> QED BY <2>1, <2>2
<1> DEFINE Next_(r) == IF r.id = saving.folder
                       THEN [r EXCEPT !.modes = IF saving.pc = "clear" THEN {}
                                                ELSE @ \cup m]
                       ELSE r
<1>3. /\ rows'["workspace"] = {Next_(r) : r \in rows["workspace"]}
      /\ \A j \in Kinds : j # "workspace" => rows'[j] = rows[j]
  BY <1>0, <1>2
<1>4. \A r \in rows["workspace"] :
        /\ Next_(r).id = r.id /\ Next_(r).name = r.name /\ Next_(r).ref = r.ref
        /\ Next_(r).maker = r.maker
        /\ Next_(r).modes = IF r.id = saving.folder
                            THEN IF saving.pc = "clear" THEN {} ELSE r.modes \cup m
                            ELSE r.modes
        /\ r.id # saving.folder => Next_(r) = r
  <2> SUFFICES ASSUME NEW r \in Entry
               PROVE  /\ Next_(r).id = r.id /\ Next_(r).name = r.name
                      /\ Next_(r).ref = r.ref /\ Next_(r).maker = r.maker
                      /\ Next_(r).modes = IF r.id = saving.folder
                            THEN IF saving.pc = "clear" THEN {} ELSE r.modes \cup m
                            ELSE r.modes
                      /\ r.id # saving.folder => Next_(r) = r
    BY <1>0
  <2> QED BY DEF Entry
<1> HIDE DEF Next_
<1>5. /\ \A j \in Kinds : \A q \in rows'[j] : \E r \in rows[j] :
           r.id = q.id /\ r.name = q.name /\ r.maker = q.maker
             /\ (j # "workspace" => r = q)
      /\ \A j \in Kinds : \A r \in rows[j] : \E q \in rows'[j] :
           r.id = q.id /\ r.name = q.name
  <2>1. \A q \in rows'["workspace"] : \E r \in rows["workspace"] :
          r.id = q.id /\ r.name = q.name /\ r.maker = q.maker
    <3> SUFFICES ASSUME NEW r \in rows["workspace"]
                 PROVE  r.id = Next_(r).id /\ r.name = Next_(r).name
                          /\ r.maker = Next_(r).maker
      BY <1>3
    <3> QED BY <1>4
  <2>2. \A r \in rows["workspace"] : \E q \in rows'["workspace"] :
          r.id = q.id /\ r.name = q.name
    <3> SUFFICES ASSUME NEW r \in rows["workspace"]
                 PROVE  /\ Next_(r) \in rows'["workspace"]
                        /\ r.id = Next_(r).id /\ r.name = Next_(r).name
      OBVIOUS
    <3> QED BY <1>3, <1>4
  <2> QED BY <2>1, <2>2, <1>3
<1>6. /\ AgesInv' /\ PlainInv' /\ ApartInv' /\ NewInv' /\ NamedInv'
      /\ KeysInv' /\ RefsInv' /\ ReachInv'
      /\ \A j \in Kinds : IdsOf(rows'[j]) = IdsOf(rows[j])
      /\ \A j \in Kinds : Written(j)' = Written(j)
  <2>1. /\ UNCHANGED <<memory, known, failed, blind, edits>>
        /\ saving'.kind = saving.kind /\ saving'.left = saving.left
        /\ (saving.pc = "idle") <=> (saving'.pc = "idle")
        /\ (saving.pc = "read") <=> (saving'.pc = "read")
    BY <1>1
  <2> QED BY <1>5, <2>1, RewrittenSync
<1>7. PlaceInv' /\ AnsweredInv'
  BY <1>1 DEF PlaceInv, AnsweredInv
<1>8. PrunedInv'
  <2>1. \A k \in Kinds : Passed(k)' => Passed(k) /\ Going(k) = {}
    BY <1>1 DEF Passed, Underway, Going
  <2> QED BY <1>1, <1>6, <2>1 DEF SyncInv, PrunedInv
<1>9. WrittenInv'
  <2> SUFFICES ASSUME NEW k \in Kinds, NEW e \in Written(k)
               PROVE  WrittenIn(k, e)'
    BY <1>6 DEF WrittenInv
  <2>1. WrittenIn(k, e)
    BY <1>1 DEF SyncInv, WrittenInv
  <2>2. Twin(k, e)' = Twin(k, e)
    BY <1>1 DEF Twin
  <2>3. CASE Twin(k, e) \/ (k = "workspace" /\ bereft)
    BY <2>1, <2>2, <2>3, <1>1 DEF WrittenIn
  <2>4. CASE ~Writing(k, e) /\ e \in rows[k]
    <3>1. ~Writing(k, e)'
      <4>1. saving'.folder = saving.folder
        BY <1>0 DEF ClearModes, WriteMode, Saving
      <4> QED BY <4>1, <2>4, <1>1 DEF Writing
    <3>2. e \in rows'[k]
      <4>1. CASE k # "workspace"
        BY <4>1, <2>4, <1>3
      <4>2. CASE k = "workspace"
        <5>1. e.id # saving.folder
          BY <4>2, <2>4, <1>1 DEF Writing
        <5>2. Next_(e) = e /\ Next_(e) \in rows'["workspace"]
          BY <4>2, <5>1, <2>4, <1>3, <1>4
        <5> QED BY <4>2, <5>2
      <4> QED BY <4>1, <4>2
    <3> QED BY <3>1, <3>2, <2>1 DEF WrittenIn
  <2>5. CASE Writing(k, e) /\ ModesIn(e)
    <3>1. PICK r \in rows["workspace"] :
            /\ r.id = e.id /\ r.name = e.name /\ r.ref = e.ref
            /\ r.maker = e.maker /\ r.id = saving.folder
            /\ saving.pc = "clear" => saving.modes = e.modes
            /\ saving.pc = "modes" => r.modes \cup saving.modes = e.modes
      BY <2>5 DEF Writing, ModesIn
    <3> DEFINE q == Next_(r)
    <3>2. /\ q \in rows'["workspace"] /\ q.id = e.id /\ q.name = e.name
          /\ q.ref = e.ref /\ q.maker = e.maker
          /\ q.modes = IF saving.pc = "clear" THEN {} ELSE r.modes \cup m
      BY <3>1, <1>3, <1>4
    <3> HIDE DEF q
    <3>3. q.modes \cup saving'.modes = e.modes
      <4>1. CASE saving.pc = "clear"
        BY <4>1, <3>1, <3>2, <1>2
      <4>2. CASE saving.pc = "modes"
        BY <4>2, <3>1, <3>2, <1>2
      <4> QED BY <4>1, <4>2, <1>1
    <3>4. CASE saving'.pc = "modes"
      <4>1. saving'.folder = saving.folder
        BY <1>0 DEF ClearModes, WriteMode, Saving
      <4>2. Writing(k, e)' /\ ModesIn(e)'
        BY <3>2, <3>3, <3>4, <4>1, <2>5 DEF Writing, ModesIn
      <4> QED BY <4>2, <2>1 DEF WrittenIn
    <3>5. CASE saving'.pc = "save"
      <4>1. saving'.modes = {}
        BY <3>5, <1>2
      <4>2. q.modes = e.modes
        BY <4>1, <3>3
      <4>3. q \in Entry /\ e \in Entry
        <5>1. rows' \in [Kinds -> SUBSET Entry]
          BY ModesKept DEF IInv, TypeOK
        <5>2. e \in memory[k]
          BY DEF Written
        <5>3. memory \in [Kinds -> SUBSET Entry]
          BY DEF IInv, TypeOK
        <5> QED BY <5>1, <5>2, <5>3, <3>2, <1>0
      <4>4. q = e
        BY <4>2, <4>3, <3>2, SameEntry
      <4>5. ~Writing(k, e)' /\ k = "workspace"
        BY <3>5, <2>5 DEF Writing
      <4> QED BY <4>4, <4>5, <3>2, <2>1 DEF WrittenIn
    <3> QED BY <3>4, <3>5, <1>1
  <2> QED BY <2>1, <2>3, <2>4, <2>5 DEF WrittenIn
<1> QED BY <1>1, <1>6, <1>7, <1>8, <1>9 DEF SyncInv

\* An entry that is saved takes its place among what was written; the step does
\* to memory and to the rows what SaveRow says, and no more.
LEMMA SaveRowFacts ==
  ASSUME IInv, SyncInv, NEW e \in saving.left, SaveRow(e)
  PROVE  \E f \in Saved(saving.kind, e) :
    LET k == saving.kind IN
    /\ k \in Kinds /\ e \in memory[k] /\ saving.pc = "save"
    /\ Accepts(k, f) /\ f \in Entry /\ f.id # 0 /\ f.name = e.name
    /\ (e.id # 0 => f = e) /\ f.ref = e.ref /\ f.modes = e.modes
    /\ f.maker = e.maker
    /\ memory'[k] = (memory[k] \ {e}) \cup {f}
    /\ \A j \in Kinds : j # k => memory'[j] = memory[j]
    /\ rows'[k] = {r \in rows[k] : r.id # f.id} \cup {Upserted(k, f)}
    /\ \A j \in Kinds : j # k => rows'[j] = rows[j]
    /\ Upserted(k, f).id = f.id /\ Upserted(k, f).name = f.name
    /\ Upserted(k, f).ref = f.ref /\ Upserted(k, f).maker = f.maker
    /\ Upserted(k, f).modes =
         UNION {r.modes : r \in {q \in rows[k] : q.id = f.id}}
    /\ Upserted(k, f) \in Entry
    /\ saving'.left = saving.left \ {e} /\ saving'.kind = k
    /\ saving'.pc = IF k = "workspace" THEN "clear" ELSE "save"
    /\ k = "workspace" => saving'.folder = f.id /\ saving'.modes = f.modes
    /\ UNCHANGED <<known, ok, bereft, failed, blind, edits>>
<1> DEFINE k == saving.kind
<1>0. k \in Kinds /\ saving \in Saving
  BY DEF IInv, TypeOK, Saving
<1>1. PICK f \in Saved(k, e) :
        /\ Accepts(k, f)
        /\ rows' = Upsert(k, f)
        /\ memory' = Replace(k, e, f)
        /\ saving' = IF saving.kind = "workspace"
                     THEN [saving EXCEPT !.pc = "clear", !.left = @ \ {e},
                                         !.folder = f.id, !.modes = f.modes]
                     ELSE [saving EXCEPT !.left = @ \ {e}]
  BY DEF SaveRow
<1>2. e \in memory[k] /\ e \in Entry
  BY <1>0 DEF IInv, KeptInv, LeftInv, TypeOK
<1>3. f \in Entry /\ f.id # 0 /\ f.name = e.name /\ (e.id # 0 => f = e)
  BY <1>0, <1>2, SavedOK DEF IInv, KeptInv
<1>4. f.ref = e.ref /\ f.modes = e.modes /\ f.maker = e.maker
  <2>1. CASE e.id # 0
    BY <2>1, <1>3
  <2>2. CASE e.id = 0
    <3>1. \A i : /\ [e EXCEPT !.id = i].ref = e.ref
                 /\ [e EXCEPT !.id = i].modes = e.modes
                 /\ [e EXCEPT !.id = i].maker = e.maker
      BY <1>2 DEF Entry
    <3>2. \E i : f = [e EXCEPT !.id = i]
      BY <2>2 DEF Saved, Adopted
    <3> QED BY <3>1, <3>2
  <2> QED BY <2>1, <2>2
<1>5. /\ memory'[k] = (memory[k] \ {e}) \cup {f}
      /\ \A j \in Kinds : j # k => memory'[j] = memory[j]
  BY <1>0, <1>1, <1>2, AdoptedKept
<1>6. /\ rows'[k] = {r \in rows[k] : r.id # f.id} \cup {Upserted(k, f)}
      /\ \A j \in Kinds : j # k => rows'[j] = rows[j]
      /\ Upserted(k, f) \in Entry
      /\ Upserted(k, f).id = f.id /\ Upserted(k, f).name = f.name
  BY <1>0, <1>1, <1>3, UpsertOK DEF IInv
<1>7. /\ Upserted(k, f).ref = f.ref /\ Upserted(k, f).maker = f.maker
      /\ Upserted(k, f).modes =
           UNION {r.modes : r \in {q \in rows[k] : q.id = f.id}}
  BY <1>3 DEF Upserted, Entry
<1>8. saving.pc = "save"
  BY DEF SaveRow
<1>9. /\ saving'.left = saving.left \ {e} /\ saving'.kind = k
      /\ saving'.pc = IF k = "workspace" THEN "clear" ELSE "save"
      /\ k = "workspace" => saving'.folder = f.id /\ saving'.modes = f.modes
  BY <1>0, <1>1, <1>8 DEF Saving
<1>10. UNCHANGED <<known, ok, bereft, failed, blind, edits>>
  BY DEF SaveRow, history
<1> QED BY <1>0, <1>1, <1>2, <1>3, <1>4, <1>5, <1>6, <1>7, <1>8, <1>9, <1>10

\* While nothing failed, an entry that is saved gets an id nobody has, and a
\* row of that id was already its own or had nobody.
LEMMA SaveRowApart ==
  ASSUME IInv, SyncInv, NEW e \in saving.left, saving.pc = "save", ~failed,
         NEW f \in Saved(saving.kind, e)
  PROVE  /\ \A g \in memory[saving.kind] : g # e => g.id # f.id
         /\ e.id = 0 /\ ~blind =>
              \A r \in rows[saving.kind] : r.id # f.id
<1> DEFINE k == saving.kind
<1>0. k \in Kinds /\ e \in memory[k] /\ e \in Entry
  BY DEF IInv, TypeOK, Saving, KeptInv, LeftInv
<1>1. f.id # 0 /\ (e.id # 0 => f = e)
  BY <1>0, SavedOK DEF IInv, KeptInv
<1>2. CASE e.id # 0
  BY <1>0, <1>1, <1>2 DEF SyncInv, ApartInv, ApartIn
<1>3. CASE e.id = 0
  <2>1. NewIn(k, e)
    BY <1>0, <1>3 DEF SyncInv, NewInv
  <2>2. \A i : [e EXCEPT !.id = i].id = i
    BY <1>0 DEF Entry
  <2>3. CASE Adopted(k, e) = {}
    <3>1. f.id = e.maker
      BY <1>3, <2>2, <2>3 DEF Saved
    <3> QED BY <3>1, <2>1 DEF NewIn
  <2>4. CASE Adopted(k, e) # {}
    <3>1. PICK p \in known[k] : p[1] = e.name /\ f = [e EXCEPT !.id = p[2]]
      BY <1>3, <2>4 DEF Saved, Adopted
    <3>2. f.id = p[2] /\ p \in Found(k)
      BY <3>1, <2>2 DEF Found
    <3> QED BY <3>1, <3>2, <2>1 DEF NewIn
  <2> QED BY <2>3, <2>4
<1> QED BY <1>2, <1>3

LEMMA SaveRowSync ==
  ASSUME IInv, SyncInv, NEW e \in saving.left, SaveRow(e)
  PROVE  SyncInv'
<1> DEFINE k == saving.kind
<1>1. PICK f \in Saved(k, e) :
    /\ k \in Kinds /\ e \in memory[k] /\ saving.pc = "save"
    /\ Accepts(k, f) /\ f \in Entry /\ f.id # 0 /\ f.name = e.name
    /\ (e.id # 0 => f = e) /\ f.ref = e.ref /\ f.modes = e.modes
    /\ f.maker = e.maker
    /\ memory'[k] = (memory[k] \ {e}) \cup {f}
    /\ \A j \in Kinds : j # k => memory'[j] = memory[j]
    /\ rows'[k] = {r \in rows[k] : r.id # f.id} \cup {Upserted(k, f)}
    /\ \A j \in Kinds : j # k => rows'[j] = rows[j]
    /\ Upserted(k, f).id = f.id /\ Upserted(k, f).name = f.name
    /\ Upserted(k, f).ref = f.ref /\ Upserted(k, f).maker = f.maker
    /\ Upserted(k, f).modes =
         UNION {r.modes : r \in {q \in rows[k] : q.id = f.id}}
    /\ Upserted(k, f) \in Entry
    /\ saving'.left = saving.left \ {e} /\ saving'.kind = k
    /\ saving'.pc = IF k = "workspace" THEN "clear" ELSE "save"
    /\ k = "workspace" => saving'.folder = f.id /\ saving'.modes = f.modes
    /\ UNCHANGED <<known, ok, bereft, failed, blind, edits>>
  BY SaveRowFacts
<1> DEFINE u == Upserted(k, f)
<1> HIDE DEF k, u
<1>2. /\ k = saving.kind /\ u = Upserted(k, f)
  BY DEF k, u
<1>3. /\ memory'[k] = (memory[k] \ {e}) \cup {f}
      /\ rows'[k] = {r \in rows[k] : r.id # f.id} \cup {u}
      /\ u.id = f.id /\ u.name = f.name /\ u.ref = f.ref /\ u.maker = f.maker
      /\ u.modes = UNION {r.modes : r \in {q \in rows[k] : q.id = f.id}}
      /\ u \in Entry
      /\ k \in Kinds /\ e \in memory[k]
  BY <1>1, <1>2
<1>4. ~failed => /\ \A g \in memory[k] : g # e => g.id # f.id
                 /\ e.id = 0 /\ ~blind => \A r \in rows[k] : r.id # f.id
  BY <1>1, <1>2, SaveRowApart
<1>5. f # e => f \notin memory[k]
  BY <1>1, <1>3 DEF IInv, TypeOK
<1>6. PlaceInv'
  BY <1>1, <1>2 DEF PlaceInv
<1>7. AgesInv'
  <2>1. e.maker <= edits
    BY <1>3 DEF SyncInv, AgesInv
  <2>2. f.id <= edits
    <3>1. CASE e.id # 0
      BY <3>1, <1>1, <1>3 DEF SyncInv, AgesInv
    <3>2. CASE e.id = 0
      <4>1. e \in Entry
        BY <1>3 DEF IInv, TypeOK
      <4>2. \A i : [e EXCEPT !.id = i].id = i
        BY <4>1 DEF Entry
      <4>3. f.id = e.maker \/ \E p \in known[k] : f.id = p[2]
        BY <3>2, <4>2, <1>2 DEF Saved, Adopted
      <4> QED BY <4>3, <2>1, <1>3 DEF SyncInv, AgesInv
    <3> QED BY <3>1, <3>2
  <2> SUFFICES ASSUME NEW j \in Kinds
               PROVE  /\ \A x \in memory'[j] \cup rows'[j] :
                           x.id <= edits /\ x.maker <= edits
                      /\ \A p \in known[j] : p[2] <= edits
    BY <1>1 DEF AgesInv
  <2>3. CASE j # k
    BY <2>3, <1>1, <1>2 DEF SyncInv, AgesInv
  <2>4. CASE j = k
    BY <2>1, <2>2, <2>4, <1>1, <1>3 DEF SyncInv, AgesInv
  <2> QED BY <2>3, <2>4
<1>8. PlainInv'
  <2> SUFFICES ASSUME NEW j \in Kinds \ {"workspace"},
                      NEW x \in memory'[j] \cup rows'[j]
               PROVE  x.modes = {}
    BY DEF PlainInv
  <2>1. \A y \in memory[j] \cup rows[j] : y.modes = {}
    BY DEF SyncInv, PlainInv
  <2>2. CASE j # k
    BY <2>1, <2>2, <1>1, <1>2
  <2>3. CASE j = k
    <3>1. u.modes = {} /\ f.modes = {}
      BY <2>1, <2>3, <1>1, <1>3
    <3> QED BY <2>1, <2>3, <3>1, <1>3
  <2> QED BY <2>2, <2>3
<1>9. ApartInv'
  <2> SUFFICES ASSUME ~failed, NEW j \in Kinds PROVE ApartIn(j)'
    BY <1>1 DEF ApartInv
  <2>1. ApartIn(j)
    BY DEF SyncInv, ApartInv
  <2>2. CASE j # k
    BY <2>1, <2>2, <1>1, <1>2 DEF ApartIn
  <2>3. CASE j = k
    BY <2>1, <2>3, <1>3, <1>4 DEF ApartIn
  <2> QED BY <2>2, <2>3
<1>10. NewInv'
  <2> SUFFICES ASSUME ~failed, NEW j \in Kinds, NEW d \in memory'[j], d.id = 0
               PROVE  NewIn(j, d)'
    BY <1>1 DEF NewInv
  <2>1. d \in memory[j] /\ (j = k => d # e)
    <3>1. CASE j # k
      BY <3>1, <1>1, <1>2
    <3>2. CASE j = k
      BY <3>2, <1>1, <1>3
    <3> QED BY <3>1, <3>2
  <2>2. NewIn(j, d)
    BY <2>1 DEF SyncInv, NewInv
  <2>3. Found(j)' = Found(j)
    BY <1>1, <1>2 DEF Found
  <2>4. saving'.pc # "idle"
    BY <1>1
  <2>5. CASE j # k
    BY <2>2, <2>3, <2>4, <2>5, <1>1, <1>2 DEF NewIn
  <2>6. CASE j = k
    <3>1. e.id # 0 /\ f = e
      BY <2>1, <2>2, <2>6, <1>1, <1>3 DEF NewIn
    <3>2. memory'[j] = memory[j]
      BY <3>1, <2>6, <1>3
    <3>3. \A g \in rows'[j] : g \in rows[j] \/ g.id = e.id
      BY <3>1, <2>6, <1>3
    <3>4. \A g \in rows'[j] : g.id # d.maker
      BY <3>3, <2>2, <2>6, <1>3 DEF NewIn
    <3> QED BY <3>2, <3>4, <2>2, <2>3, <2>4, <1>1 DEF NewIn
  <2> QED BY <2>5, <2>6
<1>11. \A j \in Kinds : \A d \in Written(j)' :
         /\ d \in memory'[j]
         /\ d \in Written(j) \/ (j = k /\ d = f)
         /\ d \in Written(j) /\ j = k => d # e
  <2>0. k \notin Earlier(k)
    BY <1>3 DEF Earlier, Kinds
  <2> SUFFICES ASSUME NEW j \in Kinds, NEW d \in Written(j)'
               PROVE  /\ d \in memory'[j]
                      /\ d \in Written(j) \/ (j = k /\ d = f)
                      /\ d \in Written(j) /\ j = k => d # e
    OBVIOUS
  <2>1. saving'.pc \notin {"idle", "read"} /\ saving'.kind = k
    BY <1>1, <1>2
  <2>2. CASE j = k
    <3>1. Written(j)' = memory'[k] \ (saving.left \ {e})
          /\ Written(j) = memory[k] \ saving.left
      BY <2>0, <2>1, <2>2, <1>1, <1>2 DEF Written, Underway
    <3> QED BY <3>1, <2>2, <1>3
  <2>3. CASE j # k
    <3>1. Written(j)' = Written(j) /\ Written(j) \subseteq memory[j]
      BY <2>1, <2>3, <1>1, <1>2 DEF Written, Underway
    <3> QED BY <3>1, <2>3, <1>1, <1>2
  <2> QED BY <2>2, <2>3
<1>12. NamedInv'
  <2> SUFFICES ASSUME ~failed, NEW j \in Kinds, NEW d \in Written(j)'
               PROVE  \E r \in rows'[j] : r.id = d.id /\ r.name = d.name
    BY <1>1 DEF NamedInv, NamedIn
  <2>1. CASE j = k /\ d = f
    BY <2>1, <1>3
  <2>2. CASE ~(j = k /\ d = f)
    <3>1. d \in Written(j) /\ (j = k => d # e)
      BY <2>2, <1>11
    <3>2. PICK r \in rows[j] : r.id = d.id /\ r.name = d.name
      BY <3>1 DEF SyncInv, NamedInv, NamedIn
    <3>3. CASE j # k
      BY <3>2, <3>3, <1>1, <1>2
    <3>4. CASE j = k
      <4>1. d \in memory[k] /\ d # e
        BY <3>1, <3>4 DEF Written
      <4>2. r.id # f.id
        BY <4>1, <3>2, <1>4
      <4> QED BY <4>2, <3>2, <3>4, <1>3
    <3> QED BY <3>3, <3>4
  <2> QED BY <2>1, <2>2
<1>13. WrittenInv'
  <2> SUFFICES ASSUME NEW j \in Kinds, NEW d \in Written(j)'
               PROVE  WrittenIn(j, d)'
    BY DEF WrittenInv
  <2>1. CASE j = k /\ d = f
    <3>1. CASE k = "workspace"
      <4>1. /\ saving'.pc = "clear" /\ saving'.folder = f.id
            /\ saving'.modes = f.modes
        BY <3>1, <1>1, <1>2
      <4>2. Writing(j, d)' /\ ModesIn(d)'
        BY <2>1, <3>1, <4>1, <1>3 DEF Writing, ModesIn
      <4> QED BY <4>2, <2>1, <1>1 DEF WrittenIn
    <3>2. CASE k # "workspace"
      <4>1. u.modes = f.modes
        <5>1. \A y \in memory[k] \cup rows[k] : y.modes = {}
          BY <3>2, <1>3 DEF SyncInv, PlainInv
        <5> QED BY <5>1, <1>1, <1>3
      <4>2. u = f
        BY <4>1, <1>1, <1>3, SameEntry
      <4> QED BY <4>2, <2>1, <3>2, <1>1, <1>3 DEF WrittenIn, Writing
    <3> QED BY <3>1, <3>2
  <2>2. CASE ~(j = k /\ d = f)
    <3>1. d \in Written(j) /\ (j = k => d # e) /\ d \in memory[j]
      BY <2>2, <1>11 DEF Written
    <3>2. WrittenIn(j, d) /\ ~Writing(j, d)
      BY <3>1, <1>1 DEF SyncInv, WrittenInv, Writing
    <3>3. CASE j # k
      <4>1. ~Writing(j, d)'
        BY <3>3, <1>1, <1>2 DEF Writing
      <4>2. memory'[j] = memory[j] /\ rows'[j] = rows[j]
        BY <3>3, <1>1, <1>2
      <4>3. Twin(j, d)' <=> Twin(j, d)
        BY <4>2 DEF Twin
      <4> QED BY <3>2, <4>1, <4>2, <4>3, <1>1 DEF WrittenIn
    <3>4. CASE j = k /\ d.id = f.id
      <4>1. Twin(j, d)'
        BY <3>4, <2>2, <1>3 DEF Twin
      <4> QED BY <4>1, <3>2 DEF WrittenIn
    <3>5. CASE j = k /\ d.id # f.id
      <4>1. ~Writing(j, d)'
        BY <3>5, <1>1, <1>2 DEF Writing
      <4>2. Twin(j, d) => Twin(j, d)'
        <5> SUFFICES ASSUME NEW g \in memory[j], g # d, g.id = d.id
                     PROVE  Twin(j, d)'
          BY DEF Twin
        <5>1. g # e
          <6>1. d.id # 0
            BY <3>2 DEF WrittenIn
          <6> QED BY <6>1, <3>5, <1>1
        <5> QED BY <5>1, <3>5, <1>3 DEF Twin
      <4>3. d \in rows[j] => d \in rows'[j]
        BY <3>5, <1>3
      <4> QED BY <3>2, <4>1, <4>2, <4>3, <1>1 DEF WrittenIn
    <3> QED BY <3>3, <3>4, <3>5
  <2> QED BY <2>1, <2>2
<1>14. PrunedInv'
  <2> SUFFICES ASSUME NEW j \in Kinds, Passed(j)'
               PROVE  IdsOf(rows'[j]) \subseteq IdsOf(memory'[j]) \cup Going(j)'
    BY DEF PrunedInv
  <2>1. j \in Earlier(k) /\ Passed(j) /\ Going(j) = {}
    BY <1>1, <1>2 DEF Passed, Underway, Going
  <2>2. j # k
    BY <2>1, <1>3 DEF Earlier, Kinds
  <2> QED BY <2>1, <2>2, <1>1, <1>2 DEF SyncInv, PrunedInv
<1>15. AnsweredInv'
  BY <1>1 DEF AnsweredInv
<1>16. \A j \in Kinds : /\ IdsOf(rows[j]) \subseteq IdsOf(rows'[j])
                        /\ IdsOf(memory[j]) \ {0} \subseteq IdsOf(memory'[j]) \ {0}
  <2> SUFFICES ASSUME NEW j \in Kinds
               PROVE  /\ IdsOf(rows[j]) \subseteq IdsOf(rows'[j])
                      /\ IdsOf(memory[j]) \ {0} \subseteq IdsOf(memory'[j]) \ {0}
    OBVIOUS
  <2>1. CASE j # k
    BY <2>1, <1>1, <1>2
  <2>2. CASE j = k
    BY <2>2, <1>1, <1>3 DEF IdsOf
  <2> QED BY <2>1, <2>2
<1>17. "agent" \in Kinds /\ "proxy" \in Kinds
  BY DEF Kinds
<1>18. KeysInv'
  <2>1. ASSUME NEW r \in rows'["agent"]
        PROVE  r.ref \in IdsOf(rows["proxy"]) \cup {None}
    <3>1. CASE r \in rows["agent"]
      BY <3>1 DEF SyncInv, KeysInv
    <3>2. CASE r \notin rows["agent"]
      <4>1. k = "agent" /\ r = u
        BY <3>2, <1>1, <1>2, <1>3, <1>17
      <4> QED BY <4>1, <1>1, <1>2, <1>3 DEF Accepts
    <3> QED BY <3>1, <3>2
  <2> QED BY <2>1, <1>16, <1>17 DEF KeysInv
<1>19. RefsInv'
  <2>1. ASSUME NEW x \in memory'["agent"]
        PROVE  x.ref \in (IdsOf(memory["proxy"]) \ {0}) \cup {None}
    <3>1. CASE x \in memory["agent"]
      BY <3>1 DEF SyncInv, RefsInv
    <3>2. CASE x \notin memory["agent"]
      <4>1. k = "agent" /\ x = f
        BY <3>2, <1>1, <1>2, <1>3, <1>17
      <4> QED BY <4>1, <1>1, <1>3 DEF SyncInv, RefsInv
    <3> QED BY <3>1, <3>2
  <2> QED BY <2>1, <1>16, <1>17 DEF RefsInv
<1>20. ReachInv'
  <2> SUFFICES ASSUME ~failed, ~blind, saving.kind = "proxy",
                      NEW r \in rows'["agent"]
               PROVE  r.ref \in IdsOf(memory'["proxy"]) \cup {None}
    BY <1>1, <1>2 DEF ReachInv
  <2>1. r \in rows["agent"]
    BY <1>1, <1>2, <1>17
  <2>2. r.ref \in IdsOf(memory["proxy"]) \cup {None}
    BY <2>1 DEF SyncInv, ReachInv
  <2>3. r.ref # 0
    <3>1. r.ref \in IdsOf(rows["proxy"]) \cup {None}
      BY <2>1 DEF SyncInv, KeysInv
    <3>2. 0 \notin IdsOf(rows["proxy"]) /\ None # 0
      BY <1>17, RegistriesAssumption DEF IInv, TypeOK, IdsOf
    <3> QED BY <3>1, <3>2
  <2> QED BY <2>2, <2>3, <1>16, <1>17
<1> QED BY <1>6, <1>7, <1>8, <1>9, <1>10, <1>12, <1>13, <1>14, <1>15, <1>18,
           <1>19, <1>20 DEF SyncInv

\* A table a save is through with is what memory has.
LEMMA TableIsMemory ==
  ASSUME IInv, SyncInv, NEW k \in Kinds, saving.pc # "idle" \/ ok,
         saving.pc \notin {"clear", "modes"}, Written(k) = memory[k],
         Passed(k), Going(k) = {}, k = "workspace" => ~bereft
  PROVE  rows[k] = memory[k] \/ (failed /\ Shared(k))
<1>1. \A e \in memory[k] : e.id # 0 /\ (Twin(k, e) \/ e \in rows[k])
  BY DEF SyncInv, WrittenInv, WrittenIn, Writing
<1>2. CASE \E e \in memory[k] : Twin(k, e)
  <2>1. PICK e, g \in memory[k] : g # e /\ g.id = e.id
    BY <1>2 DEF Twin
  <2>2. Shared(k)
    BY <2>1 DEF Shared
  <2>3. failed
    BY <1>1, <2>1 DEF SyncInv, ApartInv, ApartIn
  <2> QED BY <2>2, <2>3
<1>3. CASE \A e \in memory[k] : ~Twin(k, e)
  <2>1. memory[k] \subseteq rows[k]
    BY <1>1, <1>3
  <2>2. ASSUME NEW r \in rows[k]
        PROVE  r \in memory[k]
    <3>1. PICK e \in memory[k] : e.id = r.id
      BY DEF SyncInv, PrunedInv, IdsOf
    <3>2. e = r
      BY <2>1, <3>1 DEF IInv, TypeOK
    <3> QED BY <3>2
  <2> QED BY <2>1, <2>2
<1> QED BY <1>2, <1>3

\* A row is deleted.
LEMMA DeleteRowSync ==
  ASSUME IInv, SyncInv, NEW i \in saving.gone, DeleteRow(i)
  PROVE  SyncInv'
<1> DEFINE k == saving.kind
<1>0. /\ rows \in [Kinds -> SUBSET Entry] /\ saving \in Saving
      /\ k \in Kinds /\ "agent" \in Kinds /\ "proxy" \in Kinds
  BY DEF IInv, TypeOK, Saving, Kinds
<1>1. /\ UNCHANGED <<memory, known, ok, bereft, failed, blind, edits>>
      /\ rows' = Without(k, i) /\ saving.pc = "delete"
      /\ saving'.gone = saving.gone \ {i} /\ saving'.kind = k
      /\ saving'.left = saving.left /\ saving'.pc = "delete"
  BY <1>0 DEF DeleteRow, history, Saving
<1>2. i \notin IdsOf(memory[k])
  BY <1>1 DEF IInv, KeptInv, GoneInv
<1> HIDE DEF k
<1>3. /\ rows'[k] = {r \in rows[k] : r.id # i}
      /\ \A j \in Kinds : j # k /\ ~(k = "proxy" /\ j = "agent") =>
           rows'[j] = rows[j]
  BY <1>0, <1>1 DEF Without
<1>4. k = "proxy" => \A q \in rows'["agent"] : \E r \in rows["agent"] :
        /\ q.id = r.id /\ q.name = r.name /\ q.maker = r.maker
        /\ q.modes = r.modes
        /\ (q.ref = None \/ (q.ref = r.ref /\ r.ref # i))
  <2> SUFFICES ASSUME k = "proxy", NEW q \in rows'["agent"]
               PROVE  \E r \in rows["agent"] :
        /\ q.id = r.id /\ q.name = r.name /\ q.maker = r.maker
        /\ q.modes = r.modes
        /\ (q.ref = None \/ (q.ref = r.ref /\ r.ref # i))
    OBVIOUS
  <2>1. PICK r \in rows["agent"] :
          q = IF r.ref = i THEN [r EXCEPT !.ref = None] ELSE r
    BY <1>0, <1>1 DEF Without
  <2>2. r \in Entry
    BY <1>0
  <2> QED BY <2>1, <2>2 DEF Entry
<1>5. k = "proxy" => "agent" \notin Earlier(k) /\ k # "agent"
  BY DEF Earlier
<1>6. \A j \in Kinds : \A q \in rows'[j] : \E r \in rows[j] :
        /\ q.id = r.id /\ q.name = r.name /\ q.maker = r.maker
        /\ q.modes = r.modes
  <2> SUFFICES ASSUME NEW j \in Kinds, NEW q \in rows'[j]
               PROVE  \E r \in rows[j] :
        /\ q.id = r.id /\ q.name = r.name /\ q.maker = r.maker
        /\ q.modes = r.modes
    OBVIOUS
  <2>1. CASE k = "proxy" /\ j = "agent"
    BY <2>1, <1>4
  <2>2. CASE ~(k = "proxy" /\ j = "agent")
    BY <2>2, <1>3
  <2> QED BY <2>1, <2>2
<1>7. PlaceInv' /\ ApartInv' /\ AnsweredInv' /\ RefsInv'
  BY <1>1 DEF SyncInv, PlaceInv, ApartInv, ApartIn, AnsweredInv, RefsInv
<1>8. AgesInv' /\ PlainInv'
  <2>1. \A j \in Kinds : \A q \in rows'[j] : q.id <= edits /\ q.maker <= edits
    BY <1>6 DEF SyncInv, AgesInv
  <2>2. \A j \in Kinds \ {"workspace"} : \A q \in rows'[j] : q.modes = {}
    BY <1>6 DEF SyncInv, PlainInv
  <2> QED BY <1>1, <2>1, <2>2 DEF SyncInv, AgesInv, PlainInv
<1>9. NewInv'
  <2> SUFFICES ASSUME ~failed, NEW j \in Kinds, NEW e \in memory[j], e.id = 0
               PROVE  NewIn(j, e)'
    BY <1>1 DEF NewInv
  <2>1. NewIn(j, e)
    BY DEF SyncInv, NewInv
  <2>2. Found(j)' = Found(j)
    BY <1>1 DEF Found
  <2>3. \A q \in rows'[j] : q.id # e.maker
    BY <2>1, <1>6 DEF NewIn
  <2> QED BY <2>1, <2>2, <2>3, <1>1 DEF NewIn
<1>10. \A j \in Kinds : Written(j)' = Written(j)
  BY <1>1 DEF Written, Underway, k
<1>11. \A j \in Kinds : \A e \in Written(j), r \in rows[j] :
         r.id = e.id => r \in rows'[j]
  <2> SUFFICES ASSUME NEW j \in Kinds, NEW e \in Written(j), NEW r \in rows[j],
                      r.id = e.id
               PROVE  r \in rows'[j]
    OBVIOUS
  <2>1. e \in memory[j] /\ (j \in Earlier(k) \/ j = k)
    BY <1>1 DEF Written, Underway, k
  <2>2. CASE j = k
    <3>1. e.id # i
      BY <2>1, <2>2, <1>2 DEF IdsOf
    <3> QED BY <2>2, <3>1, <1>3
  <2>3. CASE j # k
    BY <2>1, <2>3, <1>3, <1>5
  <2> QED BY <2>2, <2>3
<1>12. NamedInv'
  <2> SUFFICES ASSUME ~failed, NEW j \in Kinds, NEW e \in Written(j)
               PROVE  \E r \in rows'[j] : r.id = e.id /\ r.name = e.name
    BY <1>1, <1>10 DEF NamedInv, NamedIn
  <2>1. PICK r \in rows[j] : r.id = e.id /\ r.name = e.name
    BY DEF SyncInv, NamedInv, NamedIn
  <2> QED BY <2>1, <1>11
<1>13. WrittenInv'
  <2> SUFFICES ASSUME NEW j \in Kinds, NEW e \in Written(j)
               PROVE  WrittenIn(j, e)'
    BY <1>10 DEF WrittenInv
  <2>1. WrittenIn(j, e) /\ ~Writing(j, e) /\ ~Writing(j, e)'
    BY <1>1 DEF SyncInv, WrittenInv, Writing
  <2>2. Twin(j, e)' <=> Twin(j, e)
    BY <1>1 DEF Twin
  <2>3. e \in rows[j] => e \in rows'[j]
    BY <1>11
  <2> QED BY <2>1, <2>2, <2>3, <1>1 DEF WrittenIn
<1>14. PrunedInv'
  <2> SUFFICES ASSUME NEW j \in Kinds, Passed(j)', NEW q \in rows'[j]
               PROVE  q.id \in IdsOf(memory[j]) \cup Going(j)'
    BY <1>1 DEF PrunedInv, IdsOf
  <2>1. Passed(j)
    BY <1>1 DEF Passed, Underway, k
  <2>2. PICK r \in rows[j] : q.id = r.id
    BY <1>6
  <2>3. r.id \in IdsOf(memory[j]) \cup Going(j)
    BY <2>1 DEF SyncInv, PrunedInv, IdsOf
  <2>4. CASE j = k
    <3>1. q.id # i
      BY <2>4, <1>3
    <3> QED BY <3>1, <2>2, <2>3, <2>4, <1>1 DEF Going, k
  <2>5. CASE j # k
    BY <2>2, <2>3, <2>5, <1>1 DEF Going, k
  <2> QED BY <2>4, <2>5
<1>15. KeysInv'
  <2> SUFFICES ASSUME NEW q \in rows'["agent"], q.ref # None
               PROVE  q.ref \in IdsOf(rows'["proxy"])
    BY DEF KeysInv
  <2>1. CASE k = "proxy"
    <3>1. PICK r \in rows["agent"] : q.ref = r.ref /\ r.ref # i
      BY <2>1, <1>4
    <3>2. PICK p \in rows["proxy"] : p.id = q.ref
      BY <3>1 DEF SyncInv, KeysInv, IdsOf
    <3>3. p \in rows'["proxy"]
      BY <3>1, <3>2, <2>1, <1>3
    <3> QED BY <3>2, <3>3 DEF IdsOf
  <2>2. CASE k # "proxy"
    <3>1. q \in rows["agent"] /\ rows'["proxy"] = rows["proxy"]
      BY <2>2, <1>0, <1>3
    <3> QED BY <3>1 DEF SyncInv, KeysInv
  <2> QED BY <2>1, <2>2
<1>16. ReachInv'
  <2> SUFFICES ASSUME ~failed, ~blind, k = "proxy", NEW q \in rows'["agent"]
               PROVE  q.ref \in IdsOf(memory["proxy"]) \cup {None}
    BY <1>1 DEF ReachInv
  <2>1. q.ref = None \/ \E r \in rows["agent"] : q.ref = r.ref
    BY <1>4
  <2> QED BY <2>1, <1>1 DEF SyncInv, ReachInv, k
<1> QED BY <1>7, <1>8, <1>9, <1>12, <1>13, <1>14, <1>15, <1>16 DEF SyncInv

\* The save comes to its end.
LEMMA FinishSync ==
  ASSUME IInv, SyncInv, Finish
  PROVE  SyncInv'
<1>1. /\ UNCHANGED <<memory, rows, bereft, failed, blind, edits>>
      /\ saving' = Rest /\ known' = Nothing /\ ok'
      /\ saving.pc = "delete" /\ saving.gone = {}
      /\ saving.kind = "workspace" /\ saving.left = {}
  <2>1. failed' = (failed \/ ~TRUE)
    BY DEF Finish, Answer
  <2>2. failed \in BOOLEAN
    BY DEF IInv, TypeOK
  <2> QED BY <2>1, <2>2 DEF Finish, Answer, history, SyncInv, PlaceInv
<1>2. saving'.pc = "idle" /\ saving'.kind = "proxy"
  BY <1>1 DEF Rest
<1>3. Earlier("workspace") \cup {"workspace"} = Kinds
  BY DEF Earlier, Kinds
<1>4. \A j \in Kinds : /\ Written(j) = memory[j] /\ Written(j)' = memory[j]
                       /\ Passed(j) /\ Going(j) = {} /\ Going(j)' = {}
  BY <1>1, <1>2, <1>3 DEF Written, Underway, Passed, Going
<1>5. PlaceInv' /\ PlainInv' /\ ApartInv' /\ AnsweredInv' /\ KeysInv' /\ RefsInv'
  BY <1>1, <1>2 DEF SyncInv, PlaceInv, PlainInv, ApartInv, ApartIn,
                    AnsweredInv, KeysInv, RefsInv
<1>6. AgesInv'
  BY <1>1 DEF SyncInv, AgesInv, Nothing
<1>7. \A j \in Kinds : \A e \in memory[j] : WrittenIn(j, e) /\ ~Writing(j, e)
  BY <1>1, <1>4 DEF SyncInv, WrittenInv, Writing
<1>8. NewInv'
  BY <1>1, <1>7 DEF NewInv, WrittenIn
<1>9. NamedInv'
  BY <1>1, <1>4 DEF SyncInv, NamedInv, NamedIn
<1>10. WrittenInv'
  BY <1>1, <1>2, <1>4, <1>7 DEF WrittenInv, WrittenIn, Writing, Twin
<1>11. PrunedInv'
  BY <1>1, <1>4 DEF SyncInv, PrunedInv
<1>12. ReachInv'
  <2>1. "agent" \in Kinds
    BY DEF Kinds
  <2>2. ~failed => rows["agent"] = memory["agent"]
    BY <2>1, <1>1, <1>4, TableIsMemory
  <2> QED BY <2>2, <1>1 DEF SyncInv, RefsInv, ReachInv
<1> QED BY <1>5, <1>6, <1>8, <1>9, <1>10, <1>11, <1>12 DEF SyncInv

\* The edit is answered with an error.
LEMMA FailedSync ==
  ASSUME IInv, SyncInv, StepFails \/ \E e \in saving.left : SaveFails(e)
  PROVE  SyncInv'
<1>1. /\ UNCHANGED <<rows, blind, edits>>
      /\ saving' = Rest /\ known' = Nothing /\ ~ok' /\ failed'
  BY DEF StepFails, SaveFails, Answer, history
<1>2. saving'.pc = "idle" /\ saving'.kind = "proxy"
  BY <1>1 DEF Rest
<1>3. \/ memory' = memory
      \/ \E e \in saving.left : \E f \in Adopted(saving.kind, e) :
           memory' = Replace(saving.kind, e, f)
  BY DEF StepFails, SaveFails
<1>4. \A j \in Kinds : \A x \in memory'[j] :
        /\ x.id <= edits /\ x.maker <= edits
        /\ j # "workspace" => x.modes = {}
        /\ \E y \in memory[j] : x.ref = y.ref
  <2>1. \A j \in Kinds : \A x \in memory[j] :
          /\ x.id <= edits /\ x.maker <= edits
          /\ j # "workspace" => x.modes = {}
    BY DEF SyncInv, AgesInv, PlainInv
  <2>2. CASE memory' = memory
    BY <2>1, <2>2
  <2>3. ASSUME NEW e \in saving.left, NEW f \in Adopted(saving.kind, e),
               memory' = Replace(saving.kind, e, f)
        PROVE  <1>4!:
    <3>1. saving.kind \in Kinds /\ e \in memory[saving.kind]
      BY DEF IInv, TypeOK, Saving, KeptInv, LeftInv
    <3>2. e \in Entry
      BY <3>1 DEF IInv, TypeOK
    <3>3. /\ f.id = e.id \/ \E p \in known[saving.kind] : f.id = p[2]
          /\ f.maker = e.maker /\ f.modes = e.modes /\ f.ref = e.ref
      BY <3>2 DEF Adopted, Entry
    <3>4. f.id <= edits
      BY <3>1, <3>3, <2>1 DEF SyncInv, AgesInv
    <3>5. /\ memory'[saving.kind] = (memory[saving.kind] \ {e}) \cup {f}
          /\ \A j \in Kinds : j # saving.kind => memory'[j] = memory[j]
      BY <2>3, <3>1, AdoptedKept
    <3> SUFFICES ASSUME NEW j \in Kinds, NEW x \in memory'[j]
                 PROVE  /\ x.id <= edits /\ x.maker <= edits
                        /\ j # "workspace" => x.modes = {}
                        /\ \E y \in memory[j] : x.ref = y.ref
      OBVIOUS
    <3>6. CASE x \in memory[j]
      BY <3>6, <2>1
    <3>7. CASE x \notin memory[j]
      <4>1. j = saving.kind /\ x = f
        BY <3>5, <3>7
      <4> QED BY <4>1, <3>1, <3>3, <3>4, <2>1
    <3> QED BY <3>6, <3>7
  <2> QED BY <1>3, <2>2, <2>3
<1>5. IdsOf(memory["proxy"]) \ {0} \subseteq IdsOf(memory'["proxy"]) \ {0}
  <2>1. "proxy" \in Kinds
    BY DEF Kinds
  <2>2. CASE memory' = memory
    BY <2>2
  <2>3. ASSUME NEW e \in saving.left, NEW f \in Adopted(saving.kind, e),
               memory' = Replace(saving.kind, e, f)
        PROVE  <1>5!:
    <3>1. saving.kind \in Kinds /\ e \in memory[saving.kind]
      BY DEF IInv, TypeOK, Saving, KeptInv, LeftInv
    <3>2. \A g \in memory["proxy"] : g.id = 0 \/ g.id \in IdsOf(memory'["proxy"])
      BY <2>1, <2>3, <3>1, AdoptedKept
    <3> QED BY <3>2 DEF IdsOf
  <2> QED BY <1>3, <2>2, <2>3
<1>6. PlaceInv' /\ ApartInv' /\ NewInv' /\ NamedInv' /\ WrittenInv' /\ PrunedInv'
      /\ AnsweredInv' /\ ReachInv'
  BY <1>1, <1>2 DEF PlaceInv, ApartInv, NewInv, NamedInv, WrittenInv, PrunedInv,
                    Passed, Underway, AnsweredInv, ReachInv
<1>7. AgesInv' /\ PlainInv'
  BY <1>1, <1>4 DEF SyncInv, AgesInv, PlainInv, Nothing
<1>8. KeysInv'
  BY <1>1 DEF SyncInv, KeysInv
<1>9. RefsInv'
  <2>1. "agent" \in Kinds
    BY DEF Kinds
  <2> QED BY <2>1, <1>4, <1>5 DEF SyncInv, RefsInv
<1> QED BY <1>6, <1>7, <1>8, <1>9 DEF SyncInv

\* Cards are worked in folders, boards come and go.
LEMMA WorldSync ==
  ASSUME IInv, SyncInv,
         \/ \E i \in Ids : Claim(i) \/ Forget(i)
         \/ \E b \in Boards : DeleteBoard(b) \/ RestoreBoard(b)
  PROVE  SyncInv'
<1>0. /\ UNCHANGED <<memory, saving, known, ok, failed, blind, edits>>
      /\ rows \in [Kinds -> SUBSET Entry] /\ "workspace" \in Kinds
  BY DEF Claim, Forget, DeleteBoard, RestoreBoard, history, IInv, TypeOK, Kinds
<1>1. CASE UNCHANGED <<rows, bereft>>
  BY <1>0, <1>1 DEF SyncInv, PlaceInv, AgesInv, PlainInv, ApartInv, ApartIn,
       NewInv, NewIn, Found, Known, NamedInv, NamedIn, Written, Underway,
       WrittenInv, WrittenIn, Twin, Writing, ModesIn, PrunedInv, Passed, Going,
       AnsweredInv, KeysInv, RefsInv, ReachInv
<1>2. ASSUME NEW b \in Boards, DeleteBoard(b)
      PROVE  SyncInv'
  <2> DEFINE Bare(r) == [r EXCEPT !.ref = IF @ = b THEN None ELSE @,
                                  !.modes = @ \ {b}]
  <2>1. /\ rows'["workspace"] = {Bare(r) : r \in rows["workspace"]}
        /\ \A j \in Kinds : j # "workspace" => rows'[j] = rows[j]
        /\ bereft'
    BY <1>0, <1>2 DEF DeleteBoard
  <2>2. \A r \in rows["workspace"] :
          Bare(r).id = r.id /\ Bare(r).name = r.name /\ Bare(r).maker = r.maker
    <3> SUFFICES ASSUME NEW r \in Entry
                 PROVE  /\ Bare(r).id = r.id /\ Bare(r).name = r.name
                        /\ Bare(r).maker = r.maker
      BY <1>0
    <3> QED BY DEF Entry
  <2> HIDE DEF Bare
  <2>3. /\ \A j \in Kinds : \A q \in rows'[j] : \E r \in rows[j] :
             r.id = q.id /\ r.name = q.name /\ r.maker = q.maker
               /\ (j # "workspace" => r = q)
        /\ \A j \in Kinds : \A r \in rows[j] : \E q \in rows'[j] :
             r.id = q.id /\ r.name = q.name
    <3>1. \A q \in rows'["workspace"] : \E r \in rows["workspace"] :
            r.id = q.id /\ r.name = q.name /\ r.maker = q.maker
      <4> SUFFICES ASSUME NEW r \in rows["workspace"]
                   PROVE  r.id = Bare(r).id /\ r.name = Bare(r).name
                            /\ r.maker = Bare(r).maker
        BY <2>1
      <4> QED BY <2>2
    <3>2. \A r \in rows["workspace"] : \E q \in rows'["workspace"] :
            r.id = q.id /\ r.name = q.name
      <4> SUFFICES ASSUME NEW r \in rows["workspace"]
                   PROVE  /\ Bare(r) \in rows'["workspace"]
                          /\ r.id = Bare(r).id /\ r.name = Bare(r).name
        OBVIOUS
      <4> QED BY <2>1, <2>2
    <3> QED BY <3>1, <3>2, <2>1
  <2>4. /\ AgesInv' /\ PlainInv' /\ ApartInv' /\ NewInv' /\ NamedInv'
        /\ KeysInv' /\ RefsInv' /\ ReachInv'
        /\ \A j \in Kinds : IdsOf(rows'[j]) = IdsOf(rows[j])
        /\ \A j \in Kinds : Written(j)' = Written(j)
    BY <1>0, <2>3, RewrittenSync
  <2>5. PlaceInv' /\ AnsweredInv'
    BY <1>0 DEF SyncInv, PlaceInv, AnsweredInv
  <2>6. PrunedInv'
    BY <1>0, <2>4 DEF SyncInv, PrunedInv, Passed, Underway, Going
  <2>7. WrittenInv'
    <3> SUFFICES ASSUME saving.pc # "idle" \/ ok, NEW k \in Kinds,
                        NEW e \in Written(k)
                 PROVE  WrittenIn(k, e)'
      BY <1>0, <2>4 DEF WrittenInv
    <3>1. WrittenIn(k, e)
      BY DEF SyncInv, WrittenInv
    <3>2. CASE k = "workspace"
      BY <3>1, <3>2, <2>1 DEF WrittenIn
    <3>3. CASE k # "workspace"
      <4>1. rows'[k] = rows[k] /\ (Twin(k, e)' <=> Twin(k, e))
        BY <3>3, <2>1, <1>0 DEF Twin
      <4>2. ~Writing(k, e) /\ ~Writing(k, e)'
        BY <3>3 DEF Writing
      <4> QED BY <3>1, <3>3, <4>1, <4>2 DEF WrittenIn
    <3> QED BY <3>2, <3>3
  <2> QED BY <2>4, <2>5, <2>6, <2>7 DEF SyncInv
<1>3. UNCHANGED <<rows, bereft>> \/ \E b \in Boards : DeleteBoard(b)
  BY DEF Claim, Forget, RestoreBoard
<1> QED BY <1>1, <1>2, <1>3

\* A start takes the rows for memory, or nothing at all.
LEMMA RestartSync ==
  ASSUME IInv, SyncInv, Restart \/ RestartBlind
  PROVE  SyncInv'
<1>1. /\ saving' = Rest /\ known' = Nothing
      /\ UNCHANGED <<rows, failed, edits>>
      /\ \/ memory' = rows /\ ok' /\ ~blind'
         \/ memory' = Nothing /\ ~ok' /\ blind'
  BY DEF Restart, RestartBlind
<1>2. saving'.pc = "idle" /\ saving'.kind = "proxy"
  BY <1>1 DEF Rest
<1>3. \A k \in Kinds : /\ memory'[k] \subseteq rows[k]
                       /\ Written(k)' = memory'[k] /\ Going(k)' = {}
                       /\ known'[k] = {}
  BY <1>1, <1>2 DEF Nothing, Written, Going
<1>4. \A k \in Kinds : \A r \in rows[k] : r.id # 0
  BY DEF IInv, TypeOK
<1>5. \A k \in Kinds : \A r, q \in rows[k] : r.id = q.id => r = q
  BY DEF IInv, TypeOK
<1>6. "agent" \in Kinds /\ "proxy" \in Kinds
  BY DEF Kinds
<1>7. PlaceInv' /\ AnsweredInv' /\ KeysInv'
  BY <1>1, <1>2 DEF PlaceInv, AnsweredInv, SyncInv, KeysInv
<1>8. AgesInv' /\ PlainInv' /\ ApartInv' /\ NewInv'
  BY <1>1, <1>3, <1>4, <1>5
     DEF SyncInv, AgesInv, PlainInv, ApartInv, ApartIn, NewInv
<1>9. NamedInv' /\ PrunedInv'
  <2>1. NamedInv'
    <3> SUFFICES ASSUME NEW k \in Kinds, NEW e \in memory'[k]
                 PROVE  \E r \in rows[k] : r.id = e.id /\ r.name = e.name
      BY <1>1, <1>3 DEF NamedInv, NamedIn
    <3> QED BY <1>3
  <2>2. PrunedInv'
    BY <1>1, <1>2, <1>3 DEF PrunedInv, Passed, Underway
  <2> QED BY <2>1, <2>2
<1>10. WrittenInv'
  <2> SUFFICES ASSUME NEW k \in Kinds, NEW e \in memory'[k]
               PROVE  e.id # 0 /\ e \in rows'[k] /\ ~Writing(k, e)'
    BY <1>3 DEF WrittenInv, WrittenIn
  <2> QED BY <1>1, <1>2, <1>3, <1>4 DEF Writing
<1>11. RefsInv' /\ ReachInv'
  <2>1. CASE memory' = rows
    <3>1. 0 \notin IdsOf(rows["proxy"])
      BY <1>4, <1>6 DEF IdsOf
    <3> QED BY <2>1, <3>1, <1>1 DEF SyncInv, KeysInv, RefsInv, ReachInv
  <2>2. CASE memory' = Nothing /\ blind'
    BY <2>2, <1>6 DEF RefsInv, ReachInv, Nothing
  <2> QED BY <2>1, <2>2, <1>1
<1> QED BY <1>7, <1>8, <1>9, <1>10, <1>11 DEF SyncInv

LEMMA InitSync == Init => SyncInv
<1> SUFFICES ASSUME Init PROVE SyncInv
  OBVIOUS
<1>1. /\ saving.pc = "idle" /\ saving.kind = "proxy" /\ ok
      /\ \A k \in Kinds : memory[k] = {} /\ rows[k] = {} /\ known[k] = {}
      /\ "agent" \in Kinds /\ "proxy" \in Kinds
  BY DEF Init, Rest, Nothing, Kinds
<1>2. \A k \in Kinds : Written(k) = {}
  BY <1>1 DEF Written
<1>3. PlaceInv /\ AgesInv /\ PlainInv /\ ApartInv /\ NewInv
  BY <1>1 DEF PlaceInv, AgesInv, PlainInv, ApartInv, ApartIn, NewInv
<1>4. NamedInv /\ WrittenInv /\ PrunedInv /\ AnsweredInv
  BY <1>1, <1>2 DEF NamedInv, WrittenInv, PrunedInv, AnsweredInv, IdsOf
<1>5. KeysInv /\ RefsInv /\ ReachInv
  BY <1>1 DEF KeysInv, RefsInv, ReachInv
<1> QED BY <1>3, <1>4, <1>5 DEF SyncInv

LEMMA StepSync == IInv /\ SyncInv /\ [Next]_vars => SyncInv'
<1> SUFFICES ASSUME IInv, SyncInv, [Next]_vars PROVE SyncInv'
  OBVIOUS
<1>1. CASE Dialog
  BY <1>1, DialogSync
<1>2. CASE Persist
  BY <1>2, OnwardSync, SaveRowSync, FailedSync, ModesSync, DeleteRowSync,
     FinishSync DEF Persist
<1>3. CASE \/ \E i \in Ids : Claim(i) \/ Forget(i)
           \/ \E b \in Boards : DeleteBoard(b) \/ RestoreBoard(b)
  BY <1>3, WorldSync
<1>4. CASE Restart \/ RestartBlind
  BY <1>4, RestartSync
<1>5. CASE UNCHANGED vars
  BY <1>5 DEF vars, world, history, SyncInv, PlaceInv, AgesInv, PlainInv,
       ApartInv, ApartIn, NewInv, NewIn, Found, Known, NamedInv, NamedIn,
       Written, Underway, WrittenInv, WrittenIn, Twin, Writing, ModesIn,
       PrunedInv, Passed, Going, AnsweredInv, KeysInv, RefsInv, ReachInv
<1> QED BY <1>1, <1>2, <1>3, <1>4, <1>5 DEF Next

THEOREM SyncInvariance == Spec => []SyncInv
BY InitSync, StepSync, Invariance, PTL DEF Spec

\* For any names, boards, edits, failures and restarts: an edit that was
\* answered without an error is in the tables as it is in memory, unless a board
\* was deleted under it, or two entries answer to one id after a failure.
THEOREM StoredCorrect == Spec => []Stored
<1>1. IInv /\ SyncInv => Stored
  <2> SUFFICES ASSUME IInv, SyncInv, saving.pc = "idle", ok, ~bereft,
                      NEW k \in Kinds
               PROVE  rows[k] = memory[k] \/ (failed /\ Shared(k))
    BY DEF Stored
  <2>1. Written(k) = memory[k] /\ Passed(k) /\ Going(k) = {}
    BY DEF Written, Passed, Going
  <2> QED BY <2>1, TableIsMemory
<1> QED BY <1>1, Invariance, SyncInvariance, PTL

-----------------------------------------------------------------------------
(* An agent's proxy                                                         *)

NetworkStep ==
  \A r \in rows["agent"], q \in rows'["agent"] :
    q.id = r.id /\ r.ref # None /\ q.ref = None =>
      \/ failed \/ blind
      \/ \E e \in memory["agent"] : e.id = r.id /\ e.ref = None

\* A step that takes agents' rows away, or none, takes no agent's proxy.
LEMMA RowsLeft ==
  ASSUME IInv, rows'["agent"] \subseteq rows["agent"]
  PROVE  NetworkStep
<1>1. "agent" \in Kinds
  BY DEF Kinds
<1>2. \A r, q \in rows["agent"] : r.id = q.id => r = q
  BY <1>1 DEF IInv, TypeOK
<1> QED BY <1>2 DEF NetworkStep

\* An agent's row takes the proxy its entry has: its own entry, unless the id
\* it answers to was found by name, or made, after a failure.
LEMMA SaveRowNetwork ==
  ASSUME IInv, SyncInv, NEW e \in saving.left, SaveRow(e)
  PROVE  NetworkStep
<1> DEFINE k == saving.kind
<1>1. PICK f \in Saved(k, e) :
        /\ k \in Kinds /\ e \in memory[k] /\ saving.pc = "save"
        /\ e.id # 0 => f = e
        /\ f.ref = e.ref
        /\ rows'[k] = {r \in rows[k] : r.id # f.id} \cup {Upserted(k, f)}
        /\ \A j \in Kinds : j # k => rows'[j] = rows[j]
        /\ Upserted(k, f).id = f.id /\ Upserted(k, f).ref = f.ref
  BY SaveRowFacts
<1>2. "agent" \in Kinds
  BY DEF Kinds
<1>3. CASE k # "agent"
  BY <1>1, <1>2, <1>3, RowsLeft
<1>4. CASE k = "agent"
  <2> SUFFICES ASSUME NEW r \in rows["agent"], NEW q \in rows'["agent"],
                      q.id = r.id, r.ref # None, q.ref = None,
                      ~failed, ~blind
               PROVE  \E g \in memory["agent"] : g.id = r.id /\ g.ref = None
    BY DEF NetworkStep
  <2>1. CASE q \in rows["agent"]
    BY <1>2, <2>1 DEF IInv, TypeOK
  <2>2. CASE q \notin rows["agent"]
    <3>1. f.id = r.id /\ e.ref = None
      BY <1>1, <1>4, <2>2
    <3>2. e.id # 0
      BY <1>1, <1>4, <3>1, SaveRowApart
    <3> QED BY <1>1, <1>4, <3>1, <3>2
  <2> QED BY <2>1, <2>2
<1> QED BY <1>3, <1>4

\* A proxy's row that goes has no agent, unless an edit failed before.
LEMMA DeleteRowNetwork ==
  ASSUME IInv, SyncInv, NEW i \in saving.gone, DeleteRow(i)
  PROVE  NetworkStep
<1> DEFINE k == saving.kind
<1>1. /\ rows' = Without(k, i) /\ saving.pc = "delete"
      /\ k \in Kinds /\ "agent" \in Kinds
  BY DEF DeleteRow, IInv, TypeOK, Saving, Kinds
<1>2. i \notin IdsOf(memory[k])
  BY <1>1 DEF IInv, KeptInv, GoneInv
<1>3. CASE k # "proxy"
  <2>1. rows'["agent"] \subseteq rows["agent"]
    BY <1>1, <1>3 DEF Without
  <2> QED BY <2>1, RowsLeft
<1>4. CASE k = "proxy" /\ (failed \/ blind)
  BY <1>4 DEF NetworkStep
<1>5. CASE k = "proxy" /\ ~failed /\ ~blind
  <2>1. \A r \in rows["agent"] : r.ref = i => r.ref = None
    BY <1>2, <1>5 DEF SyncInv, ReachInv
  <2>2. rows'["agent"] =
          {IF r.ref = i THEN [r EXCEPT !.ref = None] ELSE r : r \in rows["agent"]}
    BY <1>1, <1>5 DEF Without, Kinds
  <2>3. \A q \in rows'["agent"] : \E r \in rows["agent"] :
          r.id = q.id /\ r.ref = q.ref
    <3>1. rows["agent"] \subseteq Entry
      BY <1>1 DEF IInv, TypeOK
    <3>2. \A r \in rows["agent"] : /\ [r EXCEPT !.ref = None].id = r.id
                                   /\ [r EXCEPT !.ref = None].ref = None
      BY <3>1 DEF Entry
    <3> QED BY <2>1, <2>2, <3>2
  <2>4. \A r, q \in rows["agent"] : r.id = q.id => r = q
    BY <1>1 DEF IInv, TypeOK
  <2> QED BY <2>3, <2>4 DEF NetworkStep
<1> QED BY <1>3, <1>4, <1>5

LEMMA StepNetwork == IInv /\ SyncInv /\ [Next]_vars => NetworkStep
<1> SUFFICES ASSUME IInv, SyncInv, [Next]_vars PROVE NetworkStep
  OBVIOUS
<1>1. CASE \/ Dialog \/ ReadNames \/ Prune \/ NextRegistry \/ Finish \/ StepFails
           \/ \E e \in saving.left : SaveFails(e)
           \/ \E j \in Ids : Claim(j) \/ Forget(j)
           \/ \E b \in Boards : RestoreBoard(b)
           \/ Restart \/ RestartBlind \/ UNCHANGED vars
  <2>1. rows' = rows
    BY <1>1 DEF Dialog, Add, Update, Attach, SetMode, Touch, Remove, Edit,
         ReadNames, Prune, NextRegistry, Finish, StepFails, SaveFails, Claim,
         Forget, RestoreBoard, Restart, RestartBlind, vars
  <2> QED BY <2>1, RowsLeft
<1>2. CASE \/ ClearModes \/ \E b \in saving.modes : WriteMode(b)
           \/ \E b \in Boards : DeleteBoard(b)
  <2>1. rows'["agent"] = rows["agent"]
    BY <1>2 DEF ClearModes, WithModes, WriteMode, DeleteBoard, IInv, TypeOK, Kinds
  <2> QED BY <2>1, RowsLeft
<1>3. CASE \E e \in saving.left : SaveRow(e)
  BY <1>3, SaveRowNetwork
<1>4. CASE \E i \in saving.gone : DeleteRow(i)
  BY <1>4, DeleteRowNetwork
<1> QED BY <1>1, <1>2, <1>3, <1>4 DEF Next, Persist

\* For any names, boards, edits and restarts: no step takes an agent's
\* proxy in the table while memory says the agent has one, unless an edit failed
\* before or the application came up without having read the tables.
THEOREM NetworkKeptCorrect == Spec => NetworkKept
<1>1. IInv /\ SyncInv /\ [Next]_vars =>
        [\A r \in rows["agent"], q \in rows'["agent"] :
           q.id = r.id /\ r.ref # None /\ q.ref = None =>
             \/ failed \/ blind
             \/ \E e \in memory["agent"] : e.id = r.id /\ e.ref = None]_vars
  BY StepNetwork DEF NetworkStep
<1> QED BY <1>1, Invariance, SyncInvariance, PTL DEF Spec, NetworkKept
=============================================================================
