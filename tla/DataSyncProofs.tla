---------------------------- MODULE DataSyncProofs ----------------------------
(***************************************************************************)
(* Theorems of DataSync.                                                   *)
(***************************************************************************)
EXTENDS DataSync, FiniteSetTheorems, TLAPS

-----------------------------------------------------------------------------
(* Batches *)

\* A batch lists each of its rows once.
LEMMA SetToSeqLists ==
    ASSUME NEW S, IsFiniteSet(S)
    PROVE  /\ Cardinality(S) \in Nat
           /\ SetToSeq(S) \in [1..Cardinality(S) -> S]
           /\ \A i, j \in 1..Cardinality(S) : SetToSeq(S)[i] = SetToSeq(S)[j] => i = j
           /\ \A x \in S : \E i \in 1..Cardinality(S) : SetToSeq(S)[i] = x
<1> DEFINE N == Cardinality(S)
           s == SetToSeq(S)
<1>1. N \in Nat /\ ExistsBijection(1..N, S)
  BY FS_CardinalityType
<1>2. PICK f \in Bijection(1..N, S) : TRUE
  BY <1>1 DEF ExistsBijection
<1>3. f \in [1..N -> S] /\ IsInjective(f)
  BY <1>2 DEF Bijection, Injection, IsInjective
<1>4. s \in [1..N -> S] /\ IsInjective(s)
  BY <1>3 DEF SetToSeq
<1>5. \A i, j \in 1..N : s[i] = s[j] => i = j
  BY <1>4 DEF IsInjective
<1>6. s \in Injection(1..N, S)
  BY <1>4, <1>5 DEF Injection, IsInjective
<1>7. IsFiniteSet(1..N) /\ Cardinality(1..N) = N
  BY <1>1, FS_Interval
<1>8. s \in Surjection(1..N, S)
  BY <1>6, <1>7, FS_Injection
<1>9. \A x \in S : \E i \in 1..N : s[i] = x
  BY <1>8 DEF Surjection
<1>10. QED
  BY <1>1, <1>4, <1>5, <1>9

\* A row of notes, and the ids of a batch: those from the next one on.
IsNote(n) == n = [id |-> n.id, word |-> n.word, sense |-> n.sense, meaning |-> n.meaning]
SameNote(n, e) == n.word = e.word /\ n.sense = e.sense /\ n.meaning = e.meaning

LEMMA NumberedRows ==
    ASSUME serial \in Nat, NEW new, IsFiniteSet(new)
    PROVE  /\ Cardinality(Numbered(new)) = Cardinality(new)
           /\ Cardinality(new) \in Nat
           /\ \A n \in Numbered(new) : /\ IsNote(n)
                                       /\ n.id \in Nat /\ serial <= n.id /\ n.id < serial + Cardinality(new)
           /\ \A n \in Numbered(new) : \E e \in new : SameNote(n, e)
           /\ \A e \in new : \E n \in Numbered(new) : SameNote(n, e)
           /\ \A m, n \in Numbered(new) : m # n =>
                  /\ m.id # n.id
                  /\ \E d, e \in new : d # e /\ SameNote(m, d) /\ SameNote(n, e)
<1> DEFINE N == Cardinality(new)
           s == SetToSeq(new)
           Row(i) == [id |-> serial + i - 1, word |-> s[i].word, sense |-> s[i].sense, meaning |-> s[i].meaning]
           made == Numbered(new)
<1>1. /\ N \in Nat
      /\ s \in [1..N -> new]
      /\ \A i, j \in 1..N : s[i] = s[j] => i = j
      /\ \A x \in new : \E i \in 1..N : s[i] = x
  BY SetToSeqLists
<1>2. DOMAIN s = 1..N
  BY <1>1
<1>3. made = {Row(i) : i \in 1..N}
  BY <1>2 DEF Numbered
<1> HIDE DEF N, s, made
<1>4. ASSUME NEW i \in 1..N
      PROVE  /\ i \in Nat /\ 1 <= i /\ i <= N
             /\ Row(i).id = serial + i - 1
             /\ Row(i).id \in Nat /\ serial <= Row(i).id /\ Row(i).id < serial + N
             /\ s[i] \in new /\ SameNote(Row(i), s[i]) /\ IsNote(Row(i))
  BY <1>1 DEF SameNote, IsNote
<1>5. ASSUME NEW i \in 1..N, NEW j \in 1..N, i # j
      PROVE  Row(i).id # Row(j).id
  <2>1. i \in Nat /\ j \in Nat
    BY <1>4, <1>5
  <2>2. serial + i - 1 # serial + j - 1
    BY <1>5, <2>1
  <2>3. Row(i).id = serial + i - 1 /\ Row(j).id = serial + j - 1
    OBVIOUS
  <2>4. QED
    BY <2>2, <2>3
<1>6. Cardinality(made) = N
  <2> DEFINE f == [i \in 1..N |-> Row(i)]
  <2>1. f \in [1..N -> made]
    BY <1>3
  <2>2. \A i, j \in 1..N : f[i] = f[j] => i = j
    BY <1>5
  <2>3. \A x \in made : \E i \in 1..N : f[i] = x
    BY <1>3
  <2> HIDE DEF f
  <2>4. f \in Bijection(1..N, made)
    BY <2>1, <2>2, <2>3 DEF Bijection, Injection, Surjection, IsInjective
  <2>5. ExistsBijection(1..N, made)
    BY <2>4 DEF ExistsBijection
  <2>6. IsFiniteSet(1..N) /\ Cardinality(1..N) = N
    BY <1>1, FS_Interval
  <2>7. QED
    BY <2>5, <2>6, FS_Bijection
<1> HIDE DEF Row
<1>7. \A n \in made : IsNote(n) /\ n.id \in Nat /\ serial <= n.id /\ n.id < serial + N
  BY <1>3, <1>4
<1>8. \A n \in made : \E e \in new : SameNote(n, e)
  BY <1>3, <1>4
<1>9. \A e \in new : \E n \in made : SameNote(n, e)
  BY <1>1, <1>3, <1>4
<1>10. ASSUME NEW m \in made, NEW n \in made, m # n
       PROVE  m.id # n.id /\ \E d, e \in new : d # e /\ SameNote(m, d) /\ SameNote(n, e)
  <2>1. PICK i \in 1..N : m = Row(i)
    BY <1>3
  <2>2. PICK j \in 1..N : n = Row(j)
    BY <1>3
  <2>3. i # j
    BY <1>10, <2>1, <2>2
  <2>4. s[i] # s[j] /\ s[i] \in new /\ s[j] \in new
    BY <1>1, <1>4, <2>3
  <2>5. QED
    BY <1>4, <1>5, <2>1, <2>2, <2>3, <2>4
<1>11. QED
  BY <1>1, <1>6, <1>7, <1>8, <1>9, <1>10 DEF N, made

LEMMA FiniteImage ==
    ASSUME NEW S, IsFiniteSet(S), NEW f, DOMAIN f = S, f = [x \in S |-> f[x]]
    PROVE  IsFiniteSet({f[x] : x \in S})
<1> DEFINE T == {f[x] : x \in S}
<1>1. f \in [S -> T]
  OBVIOUS
<1>2. \A y \in T : \E x \in S : f[x] = y
  OBVIOUS
<1>3. f \in Surjection(S, T)
  BY <1>1, <1>2 DEF Surjection
<1>4. QED
  BY <1>3, FS_Surjection

-----------------------------------------------------------------------------
(* The invariant *)

\* Batches need finite sets to number.
BatchesOK(i) ==
    IsFiniteSet(i.defs) /\ IsFiniteSet(i.seen.notes) /\ IsFiniteSet(i.records) /\ IsFiniteSet(i.rows)

FilesOK ==
    /\ IsFiniteSet(defs) /\ IsFiniteSet(history) /\ BatchesOK(imp)
    /\ \A d \in defs : d.word \in Words

\* A row of notes is found by its id, by its word and by its sense.
RowsOK ==
    /\ serial \in Nat
    /\ \A n \in notes : IsNote(n) /\ n.id \in Nat /\ n.id < serial
    /\ \A m, n \in notes : m # n => m.id # n.id /\ ~Collides(m, n)

IsSeen(s) == s = [notes |-> s.notes, links |-> s.links, logs |-> s.logs]
IsImporter(i) ==
    i = [phase |-> i.phase, update |-> i.update, defs |-> i.defs, seen |-> i.seen, records |-> i.records,
         touched |-> i.touched, claimed |-> i.claimed, rows |-> i.rows, stale |-> i.stale, books |-> i.books]

EtymologyPhases == {"noted", "origins", "forms", "parts", "concepts", "relations", "heads"}
AfterNotes == EtymologyPhases \cup {"rows", "resolved", "planned", "inserted", "logged", "dictionary"}

\* Every link the importer claims is there, and is one the files have.
ClaimsHold ==
    \A l \in imp.claimed :
        /\ l \in links
        /\ \E n \in notes, d \in defs : l = [note |-> n.id, place |-> d.place] /\ NoteKey(n) = NoteKey(d)

\* The importer has written the note of a definition, and claims its link.
IsClaimed(d) ==
    \E n \in notes : /\ NoteKey(n) = NoteKey(d)
                     /\ n.id \in imp.touched
                     /\ [note |-> n.id, place |-> d.place] \in imp.claimed

\* The notes of a definition mean what the files say.
Means(e) == \A n \in notes : NoteKey(n) = NoteKey(e) => n.meaning = e.meaning

ReadView ==
    imp.phase = "read" =>
        imp.defs = SourceNotes /\ imp.seen.notes = notes /\ imp.seen.links = links /\ imp.claimed = {}

CreatedView ==
    imp.phase = "created" =>
        /\ imp.defs = SourceNotes
        /\ imp.seen.notes \subseteq notes /\ imp.seen.links \subseteq links
        /\ ClaimsHold
        /\ \A d \in defs : SeenNote(d) # {} \/ IsClaimed(d)
        /\ \A e \in SourceNotes : SeenNote(e) # {} \/ Means(e)

NotedView ==
    imp.phase \in AfterNotes =>
        /\ ClaimsHold
        /\ \A d \in defs : IsClaimed(d)
        /\ imp.update => \A e \in SourceNotes : Means(e)

LinkedView ==
    imp.phase = "linked" =>
        /\ \A d \in defs : \E n \in notes : /\ NoteKey(n) = NoteKey(d)
                                            /\ n.id \notin imp.stale
                                            /\ [note |-> n.id, place |-> d.place] \in links
        /\ \A l \in links, n \in notes : l.note = n.id /\ n.id \notin imp.stale =>
               \E d \in defs : NoteKey(n) = NoteKey(d) /\ l.place = d.place
        /\ imp.update => \A e \in SourceNotes : Means(e)

\* While nobody else writes, the importer sees the files and the tables as they are.
ImportInv ==
    undisturbed >= 0 => ReadView /\ CreatedView /\ NotedView /\ LinkedView

MirrorInv ==
    /\ FilesOK
    /\ RowsOK
    /\ IsImporter(imp) /\ IsSeen(imp.seen)
    /\ undisturbed \in Int
    /\ ImportInv
    /\ DefinitionsMirrored

-----------------------------------------------------------------------------
(* The rows of notes *)

LEMMA RowsStay ==
    ASSUME RowsOK, notes' \subseteq notes, serial' \in Nat, serial <= serial'
    PROVE  RowsOK'
BY DEF RowsOK, IsNote, Collides

LEMMA IdsFinite ==
    ASSUME NEW S, NEW b \in Nat, \A n \in S : n.id \in Nat /\ n.id < b,
           \A m, n \in S : m # n => m.id # n.id
    PROVE  IsFiniteSet(S)
<1> DEFINE f == [n \in S |-> n.id]
<1>1. f \in [S -> 0..b]
  OBVIOUS
<1>2. \A m, n \in S : f[m] = f[n] => m = n
  OBVIOUS
<1>3. IsInjective(f)
  BY <1>2 DEF IsInjective
<1>4. IsFiniteSet(0..b)
  BY FS_Interval
<1>5. f \in Injection(S, 0..b)
  BY <1>1, <1>3 DEF Injection
<1>6. QED
  BY <1>4, <1>5, FS_Injection

LEMMA RowsFinite ==
    ASSUME RowsOK
    PROVE  IsFiniteSet(notes)
BY IdsFinite DEF RowsOK

LEMMA RowAdded ==
    ASSUME RowsOK, NEW w, NEW k, NEW m,
           Insertable({[id |-> serial, word |-> w, sense |-> k, meaning |-> m]}, notes),
           notes' = notes \cup {[id |-> serial, word |-> w, sense |-> k, meaning |-> m]},
           serial' \in Nat, serial < serial'
    PROVE  RowsOK'
<1> DEFINE r == [id |-> serial, word |-> w, sense |-> k, meaning |-> m]
<1>1. \A n \in notes : ~Collides(r, n)
  BY DEF Insertable
<1>2. \A n \in notes : ~Collides(n, r)
  BY <1>1 DEF Collides
<1>3. IsNote(r) /\ r.id = serial
  BY DEF IsNote
<1> HIDE DEF r
<1>4. \A n \in notes' : IsNote(n) /\ n.id \in Nat /\ n.id < serial'
  BY <1>3 DEF RowsOK, r
<1>5. \A n \in notes : n.id # r.id
  BY <1>3 DEF RowsOK
<1>6. notes' = notes \cup {r}
  BY DEF r
<1>7. \A a, b \in notes' : a # b => a.id # b.id /\ ~Collides(a, b)
  BY <1>1, <1>2, <1>5, <1>6 DEF RowsOK
<1>8. QED
  BY <1>4, <1>7 DEF RowsOK, IsNote, Collides

LEMMA RowsNumbered ==
    ASSUME RowsOK, NEW new, IsFiniteSet(new), Insertable(new, notes),
           notes' = notes \cup Numbered(new), serial' = serial + Cardinality(new)
    PROVE  RowsOK'
<1> DEFINE made == Numbered(new)
           N == Cardinality(new)
<1>1. serial \in Nat
  BY DEF RowsOK
<1>2. /\ N \in Nat
      /\ \A n \in made : IsNote(n) /\ n.id \in Nat /\ serial <= n.id /\ n.id < serial + N
      /\ \A n \in made : \E e \in new : SameNote(n, e)
      /\ \A m, n \in made : m # n =>
             m.id # n.id /\ \E d, e \in new : d # e /\ SameNote(m, d) /\ SameNote(n, e)
  BY <1>1, NumberedRows
<1> HIDE DEF made, N
<1>3. \A m, n \in made : m # n => ~Collides(m, n)
  BY <1>2 DEF Insertable, Collides, SameNote
<1>4. \A m \in made, n \in notes : ~Collides(m, n) /\ ~Collides(n, m)
  BY <1>2 DEF Insertable, Collides, SameNote
<1>5. \A m \in made, n \in notes : m.id # n.id
  BY <1>1, <1>2 DEF RowsOK
<1>6. notes' = notes \cup made /\ serial' = serial + N
  BY DEF made, N
<1>7. \A n \in notes' : IsNote(n) /\ n.id \in Nat /\ n.id < serial'
  BY <1>1, <1>2, <1>6 DEF RowsOK
<1>8. \A a, b \in notes' : a # b => a.id # b.id /\ ~Collides(a, b)
  BY <1>2, <1>3, <1>4, <1>5, <1>6 DEF RowsOK
<1>9. serial' \in Nat
  BY <1>1, <1>2, <1>6
<1>10. QED
  BY <1>7, <1>8, <1>9 DEF RowsOK, IsNote, Collides

\* An update changes what a note means and nothing else.
LEMMA RefreshedRow ==
    ASSUME NEW n, IsNote(n), NEW M
    PROVE  /\ IsNote(Refreshed(n, M))
           /\ Refreshed(n, M).id = n.id
           /\ NoteKey(Refreshed(n, M)) = NoteKey(n)
           /\ Refreshed(n, M).word = n.word /\ Refreshed(n, M).sense = n.sense
<1>1. n = [id |-> n.id, word |-> n.word, sense |-> n.sense, meaning |-> n.meaning]
  BY DEF IsNote
<1>2. CASE Refreshed(n, M) = n
  BY <1>2 DEF IsNote
<1>3. CASE \E m : Refreshed(n, M) = [n EXCEPT !.meaning = m]
  <2>1. PICK m : Refreshed(n, M) = [n EXCEPT !.meaning = m]
    BY <1>3
  <2>2. [n EXCEPT !.meaning = m] = [id |-> n.id, word |-> n.word, sense |-> n.sense, meaning |-> m]
    BY <1>1
  <2>3. QED
    BY <2>1, <2>2 DEF IsNote, NoteKey
<1>4. QED
  BY <1>2, <1>3 DEF Refreshed

LEMMA RowsRefreshed ==
    ASSUME RowsOK, NEW M, notes' = {Refreshed(n, M) : n \in notes}, UNCHANGED serial
    PROVE  RowsOK'
<1>1. \A n \in notes : /\ IsNote(Refreshed(n, M))
                       /\ Refreshed(n, M).id = n.id
                       /\ Refreshed(n, M).word = n.word /\ Refreshed(n, M).sense = n.sense
  BY RefreshedRow DEF RowsOK
<1>2. \A n \in notes' : IsNote(n) /\ n.id \in Nat /\ n.id < serial
  BY <1>1 DEF RowsOK
<1>3. ASSUME NEW a \in notes', NEW b \in notes', a # b
      PROVE  a.id # b.id /\ ~Collides(a, b)
  <2>1. PICK m \in notes : a = Refreshed(m, M)
    OBVIOUS
  <2>2. PICK n \in notes : b = Refreshed(n, M)
    OBVIOUS
  <2>3. m # n
    BY <1>3, <2>1, <2>2
  <2>4. m.id # n.id /\ ~Collides(m, n)
    BY <2>3 DEF RowsOK
  <2>5. QED
    BY <1>1, <2>1, <2>2, <2>4 DEF Collides
<1>4. QED
  BY <1>2, <1>3 DEF RowsOK, IsNote, Collides

-----------------------------------------------------------------------------
(* The server and the editor *)

\* A write of another ends the import's claim to have been alone.
LEMMA Disturbed ==
    ASSUME imp' = imp, Disturb
    PROVE  undisturbed' \in Int /\ ImportInv' /\ DefinitionsMirrored'
<1>1. CASE Busy
  BY <1>1 DEF Disturb, ImportInv, DefinitionsMirrored, Completed
<1>2. CASE ~Busy
  <2>1. undisturbed' = 0
    BY <1>2 DEF Disturb
  <2>2. imp'.phase \in {"idle", "done", "aborted", "refused"}
    BY <1>2 DEF Busy
  <2>3. DefinitionsMirrored'
    BY <2>1 DEF DefinitionsMirrored, Completed
  <2>4. ImportInv'
    BY <2>2 DEF ImportInv, ReadView, CreatedView, NotedView, LinkedView, AfterNotes, EtymologyPhases
  <2>5. QED
    BY <2>1, <2>3, <2>4
<1>3. QED
  BY <1>1, <1>2

LEMMA MirroredRows ==
    ASSUME RowsOK, NEW k, NEW w, NEW nb, NEW at, NEW status, MirrorAnswer(k, w, nb, at, status)
    PROVE  RowsOK'
<1>1. CASE UNCHANGED <<notes, logs, serial>>
  BY <1>1, RowsStay DEF RowsOK
<1>2. CASE notes' = notes /\ serial' = serial + 1
  BY <1>2, RowsStay DEF RowsOK
<1>3. CASE LET n == [id |-> serial, word |-> w, sense |-> k, meaning |-> None]
           IN  /\ NoteOf(k, w) = {}
               /\ Insertable({n}, notes)
               /\ notes' = notes \cup {n}
               /\ logs' = logs \cup {[id |-> serial + 1, note |-> n.id, nb |-> nb, at |-> at,
                                      status |-> status, filed |-> FALSE]}
               /\ serial' = serial + 2
  <2>1. serial' \in Nat /\ serial < serial'
    BY <1>3 DEF RowsOK
  <2>2. QED
    BY <1>3, <2>1, RowAdded
<1>4. QED
  BY <1>1, <1>2, <1>3 DEF MirrorAnswer

LEMMA RegisteredRows ==
    ASSUME RowsOK, NEW w, NEW p, Register(w, p)
    PROVE  RowsOK'
<1> DEFINE n == [id |-> serial, word |-> w, sense |-> None, meaning |-> None]
<1>1. \/ UNCHANGED <<notes, links, serial>>
      \/ Insertable({n}, notes) /\ notes' = notes \cup {n} /\ serial' = serial + 1
  BY DEF Register
<1>2. CASE UNCHANGED <<notes, links, serial>>
  BY <1>2, RowsStay DEF RowsOK
<1>3. CASE Insertable({n}, notes) /\ notes' = notes \cup {n} /\ serial' = serial + 1
  <2>1. serial' \in Nat /\ serial < serial'
    BY <1>3 DEF RowsOK
  <2>2. QED
    BY <1>3, <2>1, RowAdded
<1>4. QED
  BY <1>1, <1>2, <1>3

LEMMA WritersKeep ==
    ASSUME MirrorInv,
           \/ \E d \in defs, status \in Statuses : Answer(d, status)
           \/ \E r \in history : Override(r)
           \/ Edit
           \/ \E w \in Words, p \in Places : Register(w, p)
           \/ \E w \in Words, nb \in {NotebookOf[p] : p \in Places} : Unregister(w, nb)
    PROVE  MirrorInv'
<1> USE DEF MirrorInv
<1>1. imp' = imp /\ Disturb
  BY DEF Answer, Override, Edit, Register, Unregister
<1>2. undisturbed' \in Int /\ ImportInv' /\ DefinitionsMirrored'
  BY <1>1, Disturbed
<1>3. IsImporter(imp)' /\ IsSeen(imp.seen)' /\ BatchesOK(imp)'
  BY <1>1 DEF IsImporter, IsSeen, FilesOK
<1>4. ASSUME FilesOK', RowsOK'
      PROVE  MirrorInv'
  BY <1>2, <1>3, <1>4
<1> HIDE DEF MirrorInv
<1>5. FilesOK /\ RowsOK
  BY DEF MirrorInv
<1>6. ASSUME NEW d \in defs, NEW status \in Statuses, Answer(d, status)
      PROVE  FilesOK' /\ RowsOK'
  <2>1. RowsOK'
    BY <1>5, <1>6, MirroredRows DEF Answer
  <2>2. IsFiniteSet(history')
    BY <1>5, <1>6, FS_AddElement DEF Answer, FilesOK
  <2>3. QED
    BY <1>3, <1>5, <1>6, <2>1, <2>2 DEF Answer, FilesOK
<1>7. ASSUME NEW r \in history, Override(r)
      PROVE  FilesOK' /\ RowsOK'
  <2>1. RowsOK'
    BY <1>5, <1>7, RowsStay DEF Override, RowsOK
  <2>2. IsFiniteSet(history')
    BY <1>5, <1>7, FS_AddElement, FS_RemoveElement DEF Override, FilesOK
  <2>3. QED
    BY <1>3, <1>5, <1>7, <2>1, <2>2 DEF Override, FilesOK
<1>8. ASSUME Edit
      PROVE  FilesOK' /\ RowsOK'
  <2>1. RowsOK'
    BY <1>5, <1>8, RowsStay DEF Edit, database, RowsOK
  <2>2. defs' = defs \/ defs' \in Editions
    BY <1>8 DEF Edit
  <2>3. IsFiniteSet(defs') /\ \A d \in defs' : d.word \in Words
    BY <1>5, <2>2, EditionsAssumption DEF FilesOK
  <2>4. QED
    BY <1>3, <1>5, <1>8, <2>1, <2>3 DEF Edit, FilesOK
<1>9. ASSUME NEW w \in Words, NEW p \in Places, Register(w, p)
      PROVE  FilesOK' /\ RowsOK'
  <2>1. RowsOK'
    BY <1>5, <1>9, RegisteredRows
  <2>2. defs' = defs \cup {[place |-> p, sense |-> None, word |-> w, meaning |-> None]} /\ history' = history
    BY <1>9 DEF Register
  <2>3. IsFiniteSet(defs')
    BY <1>5, <2>2, FS_AddElement DEF FilesOK
  <2>4. \A d \in defs' : d.word \in Words
    BY <1>5, <1>9, <2>2 DEF FilesOK
  <2>5. QED
    BY <1>3, <1>5, <2>1, <2>2, <2>3, <2>4 DEF FilesOK
<1>10. ASSUME NEW w \in Words, NEW nb, Unregister(w, nb)
       PROVE  FilesOK' /\ RowsOK'
  <2>1. notes' \subseteq notes /\ serial' = serial
    BY <1>10 DEF Unregister
  <2>2. RowsOK'
    BY <1>5, <2>1, RowsStay DEF RowsOK
  <2>3. defs' \subseteq defs /\ history' = history
    BY <1>10 DEF Unregister
  <2>4. IsFiniteSet(defs') /\ \A d \in defs' : d.word \in Words
    BY <1>5, <2>3, FS_Subset DEF FilesOK
  <2>5. QED
    BY <1>3, <1>5, <2>2, <2>3, <2>4 DEF FilesOK
<1>11. QED
  BY <1>4, <1>6, <1>7, <1>8, <1>9, <1>10

-----------------------------------------------------------------------------
(* What the importer reads *)

LEMMA SourceNotesStay ==
    ASSUME defs' = defs
    PROVE  SourceNotes' = SourceNotes
BY DEF SourceNotes, PlacesOf, NoteKey

LEMMA SourceNotesAre ==
    /\ \A d \in defs : \E e \in SourceNotes : NoteKey(e) = NoteKey(d) /\ d.place \in e.places
    /\ \A e \in SourceNotes : \A p \in e.places : \E d \in defs : NoteKey(d) = NoteKey(e) /\ d.place = p
    /\ \A e \in SourceNotes : \E d \in defs : NoteKey(d) = NoteKey(e)
    /\ \A e, f \in SourceNotes : NoteKey(e) = NoteKey(f) => e = f
<1> DEFINE K == {NoteKey(d) : d \in defs}
           M(key) == (CHOOSE d \in defs : NoteKey(d) = key).meaning
           Row(key) == [sense |-> key[1], word |-> key[2], meaning |-> M(key), places |-> PlacesOf(key)]
<1>1. SourceNotes = {Row(key) : key \in K}
  BY DEF SourceNotes
<1>2. \A d \in defs : <<NoteKey(d)[1], NoteKey(d)[2]>> = NoteKey(d)
  BY DEF NoteKey
<1>3. \A key \in K : <<key[1], key[2]>> = key
  BY <1>2
<1> HIDE DEF M
<1>4. \A key \in K : NoteKey(Row(key)) = key /\ Row(key).places = PlacesOf(key)
  BY <1>3 DEF NoteKey
<1> HIDE DEF Row
<1>5. \A d \in defs : NoteKey(d) \in K /\ d.place \in PlacesOf(NoteKey(d))
  BY DEF PlacesOf
<1>6. \A d \in defs : \E e \in SourceNotes : NoteKey(e) = NoteKey(d) /\ d.place \in e.places
  BY <1>1, <1>4, <1>5
<1>7. \A e \in SourceNotes : \A p \in e.places : \E d \in defs : NoteKey(d) = NoteKey(e) /\ d.place = p
  BY <1>1, <1>4 DEF PlacesOf
<1>8. \A e \in SourceNotes : \E d \in defs : NoteKey(d) = NoteKey(e)
  BY <1>1, <1>4
<1>9. \A e, f \in SourceNotes : NoteKey(e) = NoteKey(f) => e = f
  BY <1>1, <1>4
<1>10. QED
  BY <1>6, <1>7, <1>8, <1>9

LEMMA SourceNotesFinite ==
    ASSUME IsFiniteSet(defs)
    PROVE  IsFiniteSet(SourceNotes)
<1> DEFINE K == {NoteKey(d) : d \in defs}
           M(key) == (CHOOSE d \in defs : NoteKey(d) = key).meaning
           Row(key) == [sense |-> key[1], word |-> key[2], meaning |-> M(key), places |-> PlacesOf(key)]
           g == [d \in defs |-> NoteKey(d)]
           f == [key \in K |-> Row(key)]
<1>1. IsFiniteSet({g[d] : d \in defs})
  <2>1. DOMAIN g = defs /\ g = [d \in defs |-> g[d]]
    OBVIOUS
  <2> HIDE DEF g
  <2>2. QED
    BY <2>1, FiniteImage
<1>2. {g[d] : d \in defs} = K
  OBVIOUS
<1> HIDE DEF Row, K
<1>3. IsFiniteSet({f[key] : key \in K})
  <2>1. DOMAIN f = K /\ f = [key \in K |-> f[key]]
    OBVIOUS
  <2>2. IsFiniteSet(K)
    BY <1>1, <1>2
  <2> HIDE DEF f
  <2>3. QED
    BY <2>1, <2>2, FiniteImage
<1>4. {f[key] : key \in K} = SourceNotes
  <2>1. {f[key] : key \in K} = {Row(key) : key \in K}
    OBVIOUS
  <2>2. QED
    BY <2>1 DEF SourceNotes, Row, K
<1>5. QED
  BY <1>3, <1>4

LEMMA BeginKeeps ==
    ASSUME MirrorInv, NEW update, NEW truncate, Begin(update, truncate)
    PROVE  MirrorInv'
<1>1. FilesOK /\ RowsOK /\ undisturbed \in Int
  BY DEF MirrorInv
<1>2. notes' \subseteq notes /\ serial' = serial
  BY DEF Begin
<1>3. RowsOK'
  BY <1>1, <1>2, RowsStay DEF RowsOK
<1>4. /\ imp'.phase = "read" /\ imp'.defs = SourceNotes /\ imp'.claimed = {}
      /\ imp'.seen.notes = notes' /\ imp'.seen.links = links'
      /\ imp'.records = {} /\ imp'.rows = {}
      /\ IsImporter(imp') /\ IsSeen(imp'.seen)
  BY DEF Begin, Idle, Nothing, IsImporter, IsSeen
<1>5. defs' = defs /\ history' = history
  BY DEF Begin, sources
<1>6. FilesOK'
  <2>1. IsFiniteSet(notes')
    BY <1>1, <1>2, RowsFinite, FS_Subset
  <2>2. BatchesOK(imp')
    BY <1>1, <1>4, <2>1, SourceNotesFinite, FS_EmptySet DEF FilesOK, BatchesOK
  <2>3. QED
    BY <1>1, <1>5, <2>2 DEF FilesOK, BatchesOK
<1>7. undisturbed' \in Int
  BY <1>1 DEF Begin
<1>8. ReadView'
  BY <1>4, <1>5, SourceNotesStay DEF ReadView
<1>9. ImportInv' /\ DefinitionsMirrored'
  BY <1>4, <1>8 DEF ImportInv, CreatedView, NotedView, LinkedView, AfterNotes, EtymologyPhases,
                    DefinitionsMirrored, Completed
<1>10. QED
  BY <1>3, <1>4, <1>6, <1>7, <1>9 DEF MirrorInv, IsImporter, IsSeen

\* An import that ends before its time.
LEMMA Stopped ==
    ASSUME MirrorInv, Aborts \/ Refused, UNCHANGED <<defs, history, notes, serial, undisturbed>>
    PROVE  MirrorInv'
<1>1. FilesOK /\ RowsOK /\ undisturbed \in Int
  BY DEF MirrorInv
<1>2. RowsOK'
  BY <1>1, RowsStay DEF RowsOK
<1>3. /\ imp'.phase \in {"aborted", "refused"}
      /\ imp'.defs = {} /\ imp'.seen.notes = {} /\ imp'.records = {} /\ imp'.rows = {}
      /\ IsImporter(imp') /\ IsSeen(imp'.seen)
  BY DEF Aborts, Refused, Idle, Nothing, IsImporter, IsSeen
<1>4. FilesOK'
  BY <1>1, <1>3, FS_EmptySet DEF FilesOK, BatchesOK
<1>5. ImportInv' /\ DefinitionsMirrored'
  BY <1>3 DEF ImportInv, ReadView, CreatedView, NotedView, LinkedView, AfterNotes, EtymologyPhases,
              DefinitionsMirrored, Completed
<1>6. QED
  BY <1>1, <1>2, <1>3, <1>4, <1>5 DEF MirrorInv, IsImporter, IsSeen

-----------------------------------------------------------------------------
(* The importer writes the notes *)

LEMMA CreateKeeps ==
    ASSUME MirrorInv, CreateNotes
    PROVE  MirrorInv'
<1> DEFINE made == Numbered(Fresh)
           linked == UNION {{[note |-> n.id, place |-> p] : p \in UNION {d.places : d \in
                                 {e \in Fresh : NoteKey(e) = NoteKey(n)}}} : n \in made}
<1>1. FilesOK /\ RowsOK /\ undisturbed \in Int /\ IsImporter(imp) /\ IsSeen(imp.seen) /\ ImportInv
  BY DEF MirrorInv
<1>2. UNCHANGED <<defs, history, undisturbed>> /\ imp.phase = "read"
  BY DEF CreateNotes, sources
<1>3. CASE ~Insertable(Fresh, notes)
  BY <1>2, <1>3, Stopped DEF CreateNotes
<1>4. CASE Insertable(Fresh, notes)
  <2>1. /\ notes' = notes \cup made
        /\ links' = links \cup linked
        /\ serial' = serial + Cardinality(made)
        /\ imp' = [imp EXCEPT !.phase = "created", !.touched = {n.id : n \in made}, !.claimed = linked]
    BY <1>4 DEF CreateNotes
  <2>2. IsFiniteSet(Fresh)
    BY <1>1, FS_Subset DEF Fresh, FilesOK, BatchesOK
  <2>3. /\ Cardinality(made) = Cardinality(Fresh)
        /\ \A n \in made : \E e \in Fresh : SameNote(n, e)
        /\ \A e \in Fresh : \E n \in made : SameNote(n, e)
    BY <1>1, <2>2, NumberedRows DEF RowsOK
  <2> HIDE DEF made
  <2>4. RowsOK'
    BY <1>1, <1>4, <2>1, <2>2, <2>3, RowsNumbered DEF made
  <2>5. \A n \in made : \A d \in Fresh : \A p \in d.places :
            NoteKey(d) = NoteKey(n) => [note |-> n.id, place |-> p] \in linked
    OBVIOUS
  <2>6. \A l \in linked : \E n \in made : \E d \in Fresh : \E p \in d.places :
            NoteKey(d) = NoteKey(n) /\ l = [note |-> n.id, place |-> p]
    OBVIOUS
  <2> HIDE DEF linked
  <2>7. /\ imp'.phase = "created" /\ imp'.touched = {n.id : n \in made} /\ imp'.claimed = linked
        /\ imp'.defs = imp.defs /\ imp'.seen = imp.seen /\ imp'.update = imp.update
        /\ imp'.records = imp.records /\ imp'.rows = imp.rows
        /\ IsImporter(imp')
    BY <1>1, <2>1 DEF IsImporter
  <2>8. FilesOK'
    BY <1>1, <1>2, <2>7 DEF FilesOK, BatchesOK
  <2>9. ASSUME undisturbed >= 0
        PROVE  CreatedView'
    <3>1. imp.defs = SourceNotes /\ imp.seen.notes = notes /\ imp.seen.links = links
      BY <1>1, <1>2, <2>9 DEF ImportInv, ReadView
    <3>2. SourceNotes' = SourceNotes
      BY <1>2, SourceNotesStay
    <3>3. \A e \in SourceNotes : SeenNote(e) = {} => e \in Fresh
      BY <3>1 DEF Fresh
    <3>4. Fresh \subseteq SourceNotes
      BY <3>1 DEF Fresh
    <3>5. \A n, e : SameNote(n, e) => NoteKey(n) = NoteKey(e) /\ n.meaning = e.meaning
      BY DEF SameNote, NoteKey
    <3>6. ASSUME NEW l \in linked
          PROVE  \E n \in notes', d \in defs :
                     l = [note |-> n.id, place |-> d.place] /\ NoteKey(n) = NoteKey(d)
      <4>1. PICK n \in made, e \in Fresh : \E p \in e.places :
                NoteKey(e) = NoteKey(n) /\ l = [note |-> n.id, place |-> p]
        BY <2>6
      <4>2. PICK p \in e.places : NoteKey(e) = NoteKey(n) /\ l = [note |-> n.id, place |-> p]
        BY <4>1
      <4>3. PICK d \in defs : NoteKey(d) = NoteKey(e) /\ d.place = p
        BY <3>4, SourceNotesAre
      <4>4. QED
        BY <2>1, <4>2, <4>3
    <3>7. ClaimsHold'
      BY <1>2, <2>1, <2>7, <3>6 DEF ClaimsHold, NoteKey
    <3>8. ASSUME NEW d \in defs, SeenNote(d) = {}
          PROVE  \E n \in notes' : /\ NoteKey(n) = NoteKey(d)
                                   /\ n.id \in imp'.touched
                                   /\ [note |-> n.id, place |-> d.place] \in imp'.claimed
      <4>1. PICK e \in SourceNotes : NoteKey(e) = NoteKey(d) /\ d.place \in e.places
        BY SourceNotesAre
      <4>2. SeenNote(e) = {}
        BY <3>8, <4>1 DEF SeenNote
      <4>3. e \in Fresh
        BY <3>3, <4>2
      <4>4. PICK n \in made : SameNote(n, e)
        BY <2>3, <4>3
      <4>5. NoteKey(n) = NoteKey(e)
        BY <3>5, <4>4
      <4>6. [note |-> n.id, place |-> d.place] \in linked
        BY <2>5, <4>1, <4>3, <4>5
      <4>7. QED
        BY <2>1, <2>7, <4>1, <4>5, <4>6
    <3>9. ASSUME NEW e \in SourceNotes, SeenNote(e) = {}, NEW n \in notes', NoteKey(n) = NoteKey(e)
          PROVE  n.meaning = e.meaning
      <4>1. n \notin notes
        BY <3>1, <3>9 DEF SeenNote
      <4>2. PICK f \in Fresh : SameNote(n, f)
        BY <2>1, <2>3, <4>1
      <4>3. NoteKey(f) = NoteKey(e) /\ n.meaning = f.meaning
        BY <3>5, <3>9, <4>2
      <4>4. f = e
        BY <3>4, <4>3, SourceNotesAre
      <4>5. QED
        BY <4>3, <4>4
    <3>10. \A d : SeenNote(d)' = {n \in imp.seen.notes : NoteKey(n) = NoteKey(d)}
      BY <2>7 DEF SeenNote, NoteKey
    <3>11. \A d \in defs : (SeenNote(d) # {} \/ IsClaimed(d))'
      <4>1. \A d \in defs : SeenNote(d) # {} => SeenNote(d)' # {}
        BY <3>10 DEF SeenNote
      <4>2. QED
        BY <3>8, <4>1 DEF IsClaimed, NoteKey
    <3>12. \A e \in SourceNotes : (SeenNote(e) # {} \/ Means(e))'
      <4>1. \A e \in SourceNotes : SeenNote(e) # {} => SeenNote(e)' # {}
        BY <3>10 DEF SeenNote
      <4>2. QED
        BY <3>9, <4>1 DEF Means, NoteKey
    <3>13. imp'.defs = SourceNotes' /\ imp'.seen.notes \subseteq notes' /\ imp'.seen.links \subseteq links'
      BY <2>1, <2>7, <3>1, <3>2
    <3>14. QED
      BY <1>2, <3>2, <3>7, <3>11, <3>12, <3>13 DEF CreatedView
  <2>10. ImportInv' /\ DefinitionsMirrored'
    BY <1>2, <2>7, <2>9 DEF ImportInv, ReadView, NotedView, LinkedView, AfterNotes, EtymologyPhases,
                           DefinitionsMirrored, Completed
  <2>11. QED
    BY <1>1, <1>2, <2>4, <2>7, <2>8, <2>10 DEF MirrorInv, IsImporter, IsSeen
<1>5. QED
  BY <1>3, <1>4

LEMMA UpdateKeeps ==
    ASSUME MirrorInv, UpdateNotes
    PROVE  MirrorInv'
<1> DEFINE M == UNION {{[note |-> n.id, d |-> d] : d \in {e \in imp.defs : NoteKey(e) = NoteKey(n)}} :
                          n \in imp.seen.notes}
           wanted == UNION {{[note |-> m.note, place |-> p] : p \in m.d.places} : m \in M}
           new == wanted \ imp.seen.links
<1>1. FilesOK /\ RowsOK /\ undisturbed \in Int /\ IsImporter(imp) /\ IsSeen(imp.seen) /\ ImportInv
  BY DEF MirrorInv
<1>2. UNCHANGED <<defs, history, serial, undisturbed>> /\ imp.phase = "created"
  BY DEF UpdateNotes, sources
<1>3. CASE ~(\A l \in new : l.note \in NoteIds)
  BY <1>2, <1>3, Stopped DEF UpdateNotes
<1>4. CASE \A l \in new : l.note \in NoteIds
  <2>1. /\ notes' = {Refreshed(n, M) : n \in notes}
        /\ links' = links \cup new
        /\ imp' = [imp EXCEPT !.phase = "noted", !.defs = {}, !.seen = Nothing,
                              !.touched = @ \cup {m.note : m \in M}, !.claimed = @ \cup wanted]
    BY <1>4 DEF UpdateNotes
  <2>2. \A m \in M : \E n \in imp.seen.notes, e \in imp.defs :
            NoteKey(e) = NoteKey(n) /\ m.note = n.id /\ m.d = e
    OBVIOUS
  <2>3. \A n \in imp.seen.notes, e \in imp.defs : NoteKey(e) = NoteKey(n) =>
            [note |-> n.id, d |-> e] \in M
    OBVIOUS
  <2> HIDE DEF M
  <2>4. \A m \in M : \A p \in m.d.places : [note |-> m.note, place |-> p] \in wanted
    OBVIOUS
  <2>5. \A l \in wanted : \E m \in M : \E p \in m.d.places : l = [note |-> m.note, place |-> p]
    OBVIOUS
  <2>6. links' = links \cup (wanted \ imp.seen.links)
    BY <2>1
  <2> HIDE DEF wanted
  <2>7. RowsOK'
    BY <1>1, <1>2, <2>1, RowsRefreshed
  <2>8. /\ imp'.phase = "noted" /\ imp'.defs = {} /\ imp'.seen = Nothing /\ imp'.update = imp.update
        /\ imp'.touched = imp.touched \cup {m.note : m \in M} /\ imp'.claimed = imp.claimed \cup wanted
        /\ imp'.records = imp.records /\ imp'.rows = imp.rows
        /\ IsImporter(imp') /\ IsSeen(imp'.seen)
    BY <1>1, <2>1 DEF IsImporter, Nothing, IsSeen
  <2>9. FilesOK'
    BY <1>1, <1>2, <2>8, FS_EmptySet DEF FilesOK, BatchesOK, Nothing
  <2>10. ASSUME undisturbed >= 0
         PROVE  NotedView'
    <3>1. /\ imp.defs = SourceNotes
          /\ imp.seen.notes \subseteq notes /\ imp.seen.links \subseteq links
          /\ ClaimsHold
          /\ \A d \in defs : SeenNote(d) # {} \/ IsClaimed(d)
          /\ \A e \in SourceNotes : SeenNote(e) # {} \/ Means(e)
      BY <1>1, <1>2, <2>10 DEF ImportInv, CreatedView
    <3>2. SourceNotes' = SourceNotes
      BY <1>2, SourceNotesStay
    <3>3. ASSUME NEW n \in notes
          PROVE  /\ Refreshed(n, M) \in notes'
                 /\ Refreshed(n, M).id = n.id
                 /\ NoteKey(Refreshed(n, M)) = NoteKey(n)
      BY <1>1, <2>1, RefreshedRow DEF RowsOK
    <3>4. ASSUME NEW l \in wanted
          PROVE  /\ l \in links'
                 /\ \E n \in notes, d \in defs :
                        l = [note |-> n.id, place |-> d.place] /\ NoteKey(n) = NoteKey(d)
      <4>1. PICK m \in M : \E p \in m.d.places : l = [note |-> m.note, place |-> p]
        BY <2>5
      <4>2. PICK p \in m.d.places : l = [note |-> m.note, place |-> p]
        BY <4>1
      <4>3. PICK n \in imp.seen.notes, e \in imp.defs : NoteKey(e) = NoteKey(n) /\ m.note = n.id /\ m.d = e
        BY <2>2
      <4>4. PICK d \in defs : NoteKey(d) = NoteKey(e) /\ d.place = p
        BY <3>1, <4>2, <4>3, SourceNotesAre
      <4>5. l \in links'
        BY <2>6, <3>1
      <4>6. QED
        BY <3>1, <4>2, <4>3, <4>4, <4>5
    <3>5. ASSUME NEW l \in imp'.claimed
          PROVE  /\ l \in links'
                 /\ \E k \in notes', d \in defs :
                        l = [note |-> k.id, place |-> d.place] /\ NoteKey(k) = NoteKey(d)
      <4>1. /\ l \in links'
            /\ \E n \in notes, d \in defs : l = [note |-> n.id, place |-> d.place] /\ NoteKey(n) = NoteKey(d)
        BY <2>6, <2>8, <3>1, <3>4 DEF ClaimsHold
      <4>2. PICK n \in notes, d \in defs : l = [note |-> n.id, place |-> d.place] /\ NoteKey(n) = NoteKey(d)
        BY <4>1
      <4> DEFINE k == Refreshed(n, M)
      <4>3. k \in notes' /\ k.id = n.id /\ NoteKey(k) = NoteKey(n)
        BY <3>3
      <4> HIDE DEF k
      <4>4. l = [note |-> k.id, place |-> d.place] /\ NoteKey(k) = NoteKey(d)
        BY <4>2, <4>3
      <4>5. QED
        BY <4>1, <4>3, <4>4
    <3>6. ClaimsHold'
      BY <1>2, <3>5 DEF ClaimsHold, NoteKey
    <3>7. ASSUME NEW d \in defs
          PROVE  \E n \in notes : /\ NoteKey(n) = NoteKey(d)
                                  /\ n.id \in imp'.touched
                                  /\ [note |-> n.id, place |-> d.place] \in imp'.claimed
      <4>1. CASE IsClaimed(d)
        BY <2>8, <4>1 DEF IsClaimed
      <4>2. CASE SeenNote(d) # {}
        <5>1. PICK n \in imp.seen.notes : NoteKey(n) = NoteKey(d)
          BY <4>2 DEF SeenNote
        <5>2. PICK e \in SourceNotes : NoteKey(e) = NoteKey(d) /\ d.place \in e.places
          BY SourceNotesAre
        <5> DEFINE m == [note |-> n.id, d |-> e]
        <5>3. m \in M
          BY <2>3, <3>1, <5>1, <5>2
        <5>4. m.note = n.id /\ m.d = e
          OBVIOUS
        <5> HIDE DEF m
        <5>5. [note |-> n.id, place |-> d.place] \in wanted
          BY <2>4, <5>2, <5>3, <5>4
        <5>6. QED
          BY <2>8, <3>1, <5>1, <5>3, <5>4, <5>5
      <4>3. QED
        BY <3>1, <4>1, <4>2
    <3>8. ASSUME NEW d \in defs
          PROVE  IsClaimed(d)'
      <4>1. PICK n \in notes : /\ NoteKey(n) = NoteKey(d)
                               /\ n.id \in imp'.touched
                               /\ [note |-> n.id, place |-> d.place] \in imp'.claimed
        BY <3>7
      <4>2. \E k \in notes' : /\ NoteKey(k) = NoteKey(d)
                              /\ k.id \in imp'.touched
                              /\ [note |-> k.id, place |-> d.place] \in imp'.claimed
        BY <3>3, <4>1
      <4>3. QED
        BY <4>2 DEF IsClaimed, NoteKey
    <3>9. ASSUME imp.update, NEW e \in SourceNotes, NEW k \in notes', NoteKey(k) = NoteKey(e)
           PROVE  k.meaning = e.meaning
      <4>1. PICK n \in notes : k = Refreshed(n, M)
        BY <2>1
      <4>2. NoteKey(n) = NoteKey(e)
        BY <3>3, <3>9, <4>1
      <4>3. CASE \E m \in M : m.note = n.id
        <5> DEFINE m == CHOOSE x \in M : x.note = n.id
        <5>1. m \in M /\ m.note = n.id
          BY <4>3
        <5>2. k = [n EXCEPT !.meaning = m.d.meaning]
          BY <3>9, <4>1, <4>3 DEF Refreshed
        <5> HIDE DEF m
        <5>3. PICK j \in imp.seen.notes, f \in imp.defs : NoteKey(f) = NoteKey(j) /\ m.note = j.id /\ m.d = f
          BY <2>2, <5>1
        <5>4. j = n
          BY <1>1, <3>1, <5>1, <5>3 DEF RowsOK
        <5>5. m.d = e
          BY <3>1, <4>2, <5>3, <5>4, SourceNotesAre
        <5>6. IsNote(n)
          BY <1>1 DEF RowsOK
        <5>7. k.meaning = m.d.meaning
          BY <5>2, <5>6 DEF IsNote
        <5>8. QED
          BY <5>5, <5>7
      <4>4. CASE ~(\E m \in M : m.note = n.id)
        <5>1. k = n
          BY <4>1, <4>4 DEF Refreshed
        <5>2. n \notin imp.seen.notes
          <6>1. SUFFICES ASSUME n \in imp.seen.notes
                         PROVE  FALSE
            OBVIOUS
          <6>2. [note |-> n.id, d |-> e] \in M
            BY <2>3, <3>1, <4>2, <6>1
          <6>3. QED
            BY <4>4, <6>2
        <5>3. SeenNote(e) = {}
          <6>1. SUFFICES ASSUME NEW j \in imp.seen.notes, NoteKey(j) = NoteKey(e)
                         PROVE  FALSE
            BY DEF SeenNote
          <6>2. j.word = n.word
            BY <4>2, <6>1 DEF NoteKey
          <6>3. j = n
            BY <1>1, <3>1, <6>2 DEF RowsOK, Collides
          <6>4. QED
            BY <5>2, <6>3
        <5>4. Means(e)
          BY <3>1, <5>3
        <5>5. QED
          BY <4>2, <5>1, <5>4 DEF Means
      <4>5. QED
        BY <4>3, <4>4
    <3>10. imp.update => \A e \in SourceNotes : Means(e)'
      BY <3>9 DEF Means, NoteKey
    <3>11. QED
      BY <1>2, <2>8, <3>2, <3>6, <3>8, <3>10 DEF NotedView
  <2>11. ImportInv' /\ DefinitionsMirrored'
    BY <1>2, <2>8, <2>10 DEF ImportInv, ReadView, CreatedView, LinkedView, AfterNotes, EtymologyPhases,
                            DefinitionsMirrored, Completed
  <2>12. QED
    BY <1>1, <1>2, <2>7, <2>8, <2>9, <2>11 DEF MirrorInv, IsImporter, IsSeen
<1>5. QED
  BY <1>3, <1>4

-----------------------------------------------------------------------------
(* The rest of the import *)

\* A step of the importer that claims nothing new and drops no note.
LEMMA Carried ==
    ASSUME MirrorInv, RowsOK', notes \subseteq notes',
           UNCHANGED <<defs, history, links, undisturbed>>,
           imp.phase \in AfterNotes, imp'.phase \in AfterNotes,
           imp'.claimed = imp.claimed, imp.touched \subseteq imp'.touched,
           imp'.update = imp.update, BatchesOK(imp'), IsImporter(imp'), IsSeen(imp'.seen)
    PROVE  MirrorInv'
<1>1. FilesOK /\ undisturbed \in Int /\ ImportInv
  BY DEF MirrorInv
<1>2. FilesOK'
  BY <1>1 DEF FilesOK, BatchesOK
<1>3. ASSUME undisturbed >= 0
      PROVE  NotedView'
  <2>1. ClaimsHold /\ (\A d \in defs : IsClaimed(d)) /\ (imp.update => \A e \in SourceNotes : Means(e))
    BY <1>1, <1>3 DEF ImportInv, NotedView
  <2>2. SourceNotes' = SourceNotes
    BY SourceNotesStay
  <2>3. ClaimsHold'
    BY <2>1 DEF ClaimsHold, NoteKey
  <2>4. \A d \in defs : IsClaimed(d)'
    BY <2>1 DEF IsClaimed, NoteKey
  <2>5. ASSUME imp.update, NEW e \in SourceNotes, NEW n \in notes', NoteKey(n) = NoteKey(e)
        PROVE  n.meaning = e.meaning
    <3>1. PICK d \in defs : NoteKey(d) = NoteKey(e)
      BY SourceNotesAre
    <3>2. PICK m \in notes : NoteKey(m) = NoteKey(d)
      BY <2>1 DEF IsClaimed
    <3>3. m.word = n.word /\ m \in notes'
      BY <2>5, <3>1, <3>2 DEF NoteKey
    <3>4. m = n
      BY <3>3 DEF RowsOK, Collides
    <3>5. QED
      BY <2>1, <2>5, <3>4 DEF Means
  <2>6. imp.update => \A e \in SourceNotes : Means(e)'
    BY <2>5 DEF Means, NoteKey
  <2>7. QED
    BY <2>2, <2>3, <2>4, <2>6 DEF NotedView
<1>4. ImportInv' /\ DefinitionsMirrored'
  BY <1>3 DEF ImportInv, ReadView, CreatedView, LinkedView, AfterNotes, EtymologyPhases,
              DefinitionsMirrored, Completed
<1>5. QED
  BY <1>1, <1>2, <1>4 DEF MirrorInv, IsImporter, IsSeen

\* What a phase of the etymology import leaves of the importer and of the database.
EtymologyStep ==
    /\ UNCHANGED <<sources, notes, links, logs, serial, calls, undisturbed>>
    /\ \/ Aborts
       \/ \E phase \in AfterNotes \ {"rows", "resolved", "planned", "inserted"} : \E books :
              /\ (imp.phase \in EtymologyPhases /\ phase \in EtymologyPhases)
                     \/ (imp.phase = "logged" /\ phase = "dictionary")
              /\ imp' = [imp EXCEPT !.phase = phase, !.books = books]

LEMMA Stays ==
    ASSUME IsImporter(imp), NEW to, imp' = [imp EXCEPT !.phase = to]
    PROVE  imp' = [imp EXCEPT !.phase = to, !.books = imp.books]
BY DEF IsImporter

LEMMA PhaseSteps ==
    ASSUME IsImporter(imp), NEW from, NEW to, NEW steps, Phase(from, to, steps),
           \/ from \in EtymologyPhases /\ to \in EtymologyPhases
           \/ from = "logged" /\ to = "dictionary"
    PROVE  EtymologyStep
<1>1. UNCHANGED <<sources, notes, links, logs, serial, calls, undisturbed>> /\ imp.phase = from
  BY DEF Phase
<1>2. Aborts \/ imp' = [imp EXCEPT !.phase = to]
  BY DEF Phase, Goes
<1>3. Aborts \/ imp' = [imp EXCEPT !.phase = to, !.books = imp.books]
  BY <1>2, Stays
<1>4. to \in AfterNotes \ {"rows", "resolved", "planned", "inserted"}
  BY DEF AfterNotes, EtymologyPhases
<1>5. QED
  BY <1>1, <1>3, <1>4 DEF EtymologyStep

LEMMA BookSteps ==
    ASSUME IsImporter(imp), NEW from \in EtymologyPhases, NEW to \in EtymologyPhases, NEW books, imp.phase = from,
           UNCHANGED <<sources, notes, links, logs, serial, calls, undisturbed>>,
           \/ imp' = [imp EXCEPT !.phase = to, !.books = {}]
           \/ \E b \in books : imp' = [imp EXCEPT !.books = @ \cup {b}]
           \/ Aborts
    PROVE  EtymologyStep
<1>1. to \in AfterNotes \ {"rows", "resolved", "planned", "inserted"}
      /\ from \in AfterNotes \ {"rows", "resolved", "planned", "inserted"}
  BY DEF AfterNotes, EtymologyPhases
<1>2. ASSUME NEW b, imp' = [imp EXCEPT !.books = @ \cup {b}]
      PROVE  imp' = [imp EXCEPT !.phase = from, !.books = imp.books \cup {b}]
  BY <1>2 DEF IsImporter
<1>3. CASE imp' = [imp EXCEPT !.phase = to, !.books = {}]
  BY <1>1, <1>3 DEF EtymologyStep
<1>4. CASE \E b \in books : imp' = [imp EXCEPT !.books = @ \cup {b}]
  <2>1. PICK b \in books : imp' = [imp EXCEPT !.phase = from, !.books = imp.books \cup {b}]
    BY <1>2, <1>4
  <2>2. QED
    BY <1>1, <2>1 DEF EtymologyStep
<1>5. QED
  BY <1>3, <1>4 DEF EtymologyStep

LEMMA EtymologySteps ==
    ASSUME IsImporter(imp),
           \/ OriginsPhase \/ FormsPhase \/ PartsPhase \/ ConceptsPhase \/ RelationsPhase \/ HeadsPhase
           \/ DictionaryPhase
    PROVE  EtymologyStep
<1>1. /\ {"noted", "origins", "forms", "parts"} \subseteq EtymologyPhases
      /\ "concepts" \in EtymologyPhases /\ "relations" \in EtymologyPhases /\ "heads" \in EtymologyPhases
  BY DEF EtymologyPhases
<1>2. CASE OriginsPhase
  BY <1>1, <1>2, PhaseSteps DEF OriginsPhase
<1>3. CASE FormsPhase
  BY <1>1, <1>3, PhaseSteps DEF FormsPhase
<1>4. CASE PartsPhase
  BY <1>1, <1>4, PhaseSteps DEF PartsPhase
<1>5. CASE DictionaryPhase
  BY <1>5, PhaseSteps DEF DictionaryPhase
<1>6. CASE ConceptsPhase
  <2> DEFINE books == BooksOf(roots.concepts)
  <2>1. /\ imp.phase = "parts"
        /\ \/ imp' = [imp EXCEPT !.phase = "concepts", !.books = {}]
           \/ \E b \in books : imp' = [imp EXCEPT !.books = @ \cup {b}]
           \/ Aborts
        /\ UNCHANGED <<sources, notes, links, logs, serial, calls, undisturbed>>
    BY <1>6 DEF ConceptsPhase, BookPhase
  <2>2. QED
    BY <1>1, <2>1, BookSteps
<1>7. CASE RelationsPhase
  <2> DEFINE books == {BookOf[r.session] : r \in roots.relations}
  <2>1. /\ imp.phase = "concepts"
        /\ \/ imp' = [imp EXCEPT !.phase = "relations", !.books = {}]
           \/ \E b \in books : imp' = [imp EXCEPT !.books = @ \cup {b}]
           \/ Aborts
        /\ UNCHANGED <<sources, notes, links, logs, serial, calls, undisturbed>>
    BY <1>7 DEF RelationsPhase, BookPhase
  <2>2. QED
    BY <1>1, <2>1, BookSteps
<1>8. CASE HeadsPhase
  <2> DEFINE books == BooksOf(roots.heads)
  <2>1. /\ imp.phase = "relations"
        /\ \/ imp' = [imp EXCEPT !.phase = "heads", !.books = {}]
           \/ \E b \in books : imp' = [imp EXCEPT !.books = @ \cup {b}]
           \/ Aborts
        /\ UNCHANGED <<sources, notes, links, logs, serial, calls, undisturbed>>
    BY <1>8 DEF HeadsPhase, BookPhase
  <2>2. QED
    BY <1>1, <2>1, BookSteps
<1>9. QED
  BY <1>2, <1>3, <1>4, <1>5, <1>6, <1>7, <1>8

LEMMA EtymologyKeeps ==
    ASSUME MirrorInv, EtymologyStep
    PROVE  MirrorInv'
<1>1. UNCHANGED <<defs, history, notes, links, serial, undisturbed>>
  BY DEF EtymologyStep, sources
<1>2. CASE Aborts
  BY <1>1, <1>2, Stopped
<1>3. CASE \E phase \in AfterNotes \ {"rows", "resolved", "planned", "inserted"} : \E books :
               /\ (imp.phase \in EtymologyPhases /\ phase \in EtymologyPhases)
                      \/ (imp.phase = "logged" /\ phase = "dictionary")
               /\ imp' = [imp EXCEPT !.phase = phase, !.books = books]
  <2>1. PICK phase \in AfterNotes : \E books :
                imp.phase \in EtymologyPhases \cup {"logged"} /\ imp' = [imp EXCEPT !.phase = phase, !.books = books]
    BY <1>3
  <2>2. /\ imp'.phase = phase
        /\ imp'.claimed = imp.claimed /\ imp'.touched = imp.touched
        /\ imp'.update = imp.update /\ imp'.defs = imp.defs /\ imp'.seen = imp.seen
        /\ imp'.records = imp.records /\ imp'.rows = imp.rows /\ IsImporter(imp')
    BY <2>1 DEF MirrorInv, IsImporter
  <2>3. RowsOK' /\ IsSeen(imp'.seen) /\ BatchesOK(imp')
    BY <1>1, <2>2, RowsStay DEF MirrorInv, RowsOK, FilesOK, BatchesOK
  <2>4. imp.phase \in AfterNotes /\ imp'.phase \in AfterNotes
    BY <2>1, <2>2 DEF AfterNotes
  <2>5. QED
    BY <1>1, <2>2, <2>3, <2>4, Carried
<1>4. QED
  BY <1>2, <1>3 DEF EtymologyStep

LEMMA ReadKeeps ==
    ASSUME MirrorInv, ReadRows
    PROVE  MirrorInv'
<1>1. IsImporter(imp) /\ RowsOK /\ FilesOK
  BY DEF MirrorInv
<1>2. /\ UNCHANGED <<defs, history, notes, links, serial, undisturbed>> /\ imp.phase = "heads"
      /\ imp'.phase = "rows" /\ imp'.claimed = imp.claimed /\ imp'.touched = imp.touched
      /\ imp'.update = imp.update /\ imp'.defs = imp.defs
      /\ imp'.records = imp.records /\ imp'.rows = imp.rows /\ imp'.seen.notes = notes
      /\ IsImporter(imp') /\ IsSeen(imp'.seen)
  BY <1>1 DEF ReadRows, sources, database, IsImporter, IsSeen
<1>3. BatchesOK(imp')
  BY <1>1, <1>2, RowsFinite DEF FilesOK, BatchesOK
<1>4. QED
  BY <1>1, <1>2, <1>3, RowsStay, Carried DEF AfterNotes, EtymologyPhases, RowsOK

\* The notes an answer is filed under.
Of(r) == Lookup(imp.seen, r.sense, r.entry, r.nb)

LEMMA FoundRows ==
    ASSUME NEW seen, NEW k, NEW e, NEW nb
    PROVE  Lookup(seen, k, e, nb) \subseteq seen.notes
BY DEF Lookup

LEMMA ResolveKeeps ==
    ASSUME MirrorInv, Resolve
    PROVE  MirrorInv'
<1> DEFINE matching(r) == {l \in imp.seen.logs : \E n \in Of(r) : Matches(l, n, r)}
           left == {x \in imp.records : matching(x) = {}}
           Rows(r) == {[note |-> n.id, nb |-> r.nb, at |-> r.at, status |-> r.status] : n \in Of(r)}
           touched == imp.touched \cup UNION {{n.id : n \in Of(r)} : r \in imp.records}
<1>1. IsImporter(imp) /\ RowsOK /\ FilesOK
  BY DEF MirrorInv
<1>2. /\ UNCHANGED <<defs, history, notes, links, serial, undisturbed>> /\ imp.phase = "resolved"
      /\ imp'.phase = "planned" /\ imp'.claimed = imp.claimed
      /\ imp'.touched = touched
      /\ imp'.update = imp.update /\ imp'.defs = imp.defs
      /\ imp'.rows = UNION {Rows(r) : r \in left}
      /\ imp'.records = {} /\ imp'.seen = Nothing
      /\ IsImporter(imp') /\ IsSeen(imp'.seen)
  BY <1>1 DEF Resolve, sources, database, IsImporter, IsSeen, Nothing, Of
<1>3. ASSUME NEW r
      PROVE  IsFiniteSet(Rows(r))
  <2> DEFINE S == Of(r)
             f == [n \in S |-> [note |-> n.id, nb |-> r.nb, at |-> r.at, status |-> r.status]]
  <2>1. IsFiniteSet(S)
    BY <1>1, FoundRows, FS_Subset DEF FilesOK, BatchesOK, Of
  <2> HIDE DEF S
  <2>2. DOMAIN f = S /\ f = [n \in S |-> f[n]]
    OBVIOUS
  <2>3. {f[n] : n \in S} = Rows(r)
    BY DEF S
  <2> HIDE DEF f
  <2>4. QED
    BY <2>1, <2>2, <2>3, FiniteImage
<1> HIDE DEF Rows, left
<1>4. IsFiniteSet(UNION {Rows(r) : r \in left})
  <2> DEFINE f == [r \in left |-> Rows(r)]
  <2>1. IsFiniteSet(left)
    BY <1>1, FS_Subset DEF left, FilesOK, BatchesOK
  <2>2. DOMAIN f = left /\ f = [r \in left |-> f[r]]
    OBVIOUS
  <2>3. {f[r] : r \in left} = {Rows(r) : r \in left}
    OBVIOUS
  <2> HIDE DEF f
  <2>4. IsFiniteSet({Rows(r) : r \in left})
    BY <2>1, <2>2, <2>3, FiniteImage
  <2>5. QED
    BY <1>3, <2>4, FS_UNION
<1>5. BatchesOK(imp')
  BY <1>1, <1>2, <1>4, FS_EmptySet DEF FilesOK, BatchesOK, Nothing
<1>6. imp.touched \subseteq imp'.touched
  BY <1>2
<1>7. QED
  BY <1>1, <1>2, <1>5, <1>6, RowsStay, Carried DEF AfterNotes, EtymologyPhases, RowsOK

LEMMA InsertKeeps ==
    ASSUME MirrorInv, InsertLogs
    PROVE  MirrorInv'
<1> DEFINE s == SetToSeq(imp.rows)
<1>1. IsImporter(imp) /\ RowsOK /\ FilesOK /\ IsSeen(imp.seen)
  BY DEF MirrorInv
<1>2. UNCHANGED <<defs, history, notes, links, undisturbed>> /\ imp.phase = "planned"
  BY DEF InsertLogs, sources
<1>3. CASE Aborts /\ UNCHANGED serial
  BY <1>2, <1>3, Stopped
<1>4. CASE serial' = serial + Len(s) /\ imp' = [imp EXCEPT !.phase = "inserted", !.rows = {}]
  <2>1. /\ imp'.phase = "inserted" /\ imp'.claimed = imp.claimed /\ imp'.touched = imp.touched
        /\ imp'.update = imp.update /\ imp'.defs = imp.defs /\ imp'.seen = imp.seen
        /\ imp'.records = imp.records /\ imp'.rows = {} /\ IsImporter(imp')
    BY <1>1, <1>4 DEF IsImporter
  <2>2. BatchesOK(imp')
    BY <1>1, <2>1, FS_EmptySet DEF FilesOK, BatchesOK
  <2>3. Len(s) \in Nat
    <3>1. s \in [1..Cardinality(imp.rows) -> imp.rows] /\ Cardinality(imp.rows) \in Nat
      BY <1>1, SetToSeqLists DEF FilesOK, BatchesOK
    <3>2. s \in Seq(imp.rows)
      BY <3>1
    <3>3. QED
      BY <3>2
  <2> HIDE DEF s
  <2>4. RowsOK'
    BY <1>1, <1>2, <1>4, <2>3, RowsStay DEF RowsOK
  <2>5. QED
    BY <1>1, <1>2, <2>1, <2>2, <2>4, Carried DEF AfterNotes, EtymologyPhases
<1>5. QED
  BY <1>3, <1>4 DEF InsertLogs

LEMMA DeleteKeeps ==
    ASSUME MirrorInv, DeleteLeftovers
    PROVE  MirrorInv'
<1>1. IsImporter(imp) /\ RowsOK /\ FilesOK /\ IsSeen(imp.seen)
  BY DEF MirrorInv
<1>2. /\ UNCHANGED <<defs, history, notes, links, serial, undisturbed>> /\ imp.phase = "inserted"
      /\ imp'.phase = "logged" /\ imp'.claimed = imp.claimed /\ imp'.touched = imp.touched
      /\ imp'.update = imp.update /\ imp'.defs = imp.defs /\ imp'.seen = imp.seen
      /\ imp'.records = imp.records /\ imp'.rows = imp.rows /\ IsImporter(imp')
  BY <1>1 DEF DeleteLeftovers, sources, IsImporter
<1>3. BatchesOK(imp')
  BY <1>1, <1>2 DEF FilesOK, BatchesOK
<1>4. QED
  BY <1>1, <1>2, <1>3, RowsStay, Carried DEF AfterNotes, EtymologyPhases, RowsOK

LEMMA AutoKeeps ==
    ASSUME MirrorInv, AutoNotes
    PROVE  MirrorInv'
<1> DEFINE linked == {NotebookOf[l.place] : l \in imp.seen.links}
           records == {r \in history : r.nb \in linked}
           unknown == {r \in records : Lookup(imp.seen, r.sense, r.entry, r.nb) = {}}
           fresh == {[sense |-> r.sense, word |-> WordOf[r.entry], meaning |-> None] : r \in unknown}
<1>1. IsImporter(imp) /\ RowsOK /\ FilesOK /\ IsSeen(imp.seen)
  BY DEF MirrorInv
<1>2. UNCHANGED <<defs, history, links, undisturbed>> /\ imp.phase = "rows"
  BY DEF AutoNotes, sources
<1>3. CASE ~Insertable(fresh, notes)
  <2>1. Refused /\ UNCHANGED <<notes, serial>>
    BY <1>3 DEF AutoNotes
  <2>2. QED
    BY <1>2, <2>1, Stopped
<1>4. CASE Insertable(fresh, notes)
  <2>1. /\ notes' = notes \cup Numbered(fresh)
        /\ serial' = serial + Cardinality(fresh)
        /\ imp' = [imp EXCEPT !.phase = "resolved", !.records = records,
                              !.seen = IF fresh = {} THEN @ ELSE [@ EXCEPT !.notes = notes', !.links = links]]
    BY <1>4 DEF AutoNotes
  <2>2. IsFiniteSet(records) /\ IsFiniteSet(unknown)
    BY <1>1, FS_Subset DEF FilesOK
  <2>3. IsFiniteSet(fresh)
    <3> DEFINE f == [r \in unknown |-> [sense |-> r.sense, word |-> WordOf[r.entry], meaning |-> None]]
    <3> HIDE DEF unknown
    <3>1. DOMAIN f = unknown /\ f = [r \in unknown |-> f[r]]
      OBVIOUS
    <3>2. {f[r] : r \in unknown} = fresh
      OBVIOUS
    <3> HIDE DEF f
    <3>3. QED
      BY <2>2, <3>1, <3>2, FiniteImage
  <2> HIDE DEF fresh, records
  <2>4. RowsOK'
    BY <1>1, <1>4, <2>1, <2>3, RowsNumbered
  <2> DEFINE seen == IF fresh = {} THEN imp.seen ELSE [imp.seen EXCEPT !.notes = notes', !.links = links]
  <2>5. /\ imp'.phase = "resolved" /\ imp'.claimed = imp.claimed /\ imp'.touched = imp.touched
        /\ imp'.update = imp.update /\ imp'.defs = imp.defs /\ imp'.rows = imp.rows
        /\ imp'.records = records /\ imp'.seen = seen /\ IsImporter(imp')
    BY <1>1, <2>1 DEF IsImporter
  <2>6. IsSeen(seen) /\ (seen.notes = imp.seen.notes \/ seen.notes = notes')
    BY <1>1 DEF IsSeen
  <2>7. IsFiniteSet(notes')
    BY <2>4, IdsFinite DEF RowsOK
  <2>8. BatchesOK(imp')
    BY <1>1, <2>2, <2>5, <2>6, <2>7 DEF FilesOK, BatchesOK
  <2>9. QED
    BY <1>2, <2>1, <2>4, <2>5, <2>6, <2>8, Carried DEF AfterNotes, EtymologyPhases
<1>5. QED
  BY <1>3, <1>4

-----------------------------------------------------------------------------
(* The reconciliation *)

LEMMA StaleLinksKeeps ==
    ASSUME MirrorInv, StaleLinks
    PROVE  MirrorInv'
<1>1. IsImporter(imp) /\ RowsOK /\ FilesOK /\ IsSeen(imp.seen) /\ undisturbed \in Int /\ ImportInv
  BY DEF MirrorInv
<1>2. /\ UNCHANGED <<defs, history, notes, serial, undisturbed>> /\ imp.phase = "dictionary"
      /\ links' = {l \in links : l.note \in imp.touched => l \in imp.claimed}
      /\ imp'.phase = "linked" /\ imp'.stale = NoteIds \ imp.touched
      /\ imp'.update = imp.update /\ imp'.defs = imp.defs /\ imp'.seen = imp.seen
      /\ imp'.records = imp.records /\ imp'.rows = imp.rows /\ IsImporter(imp')
  BY <1>1 DEF StaleLinks, sources, IsImporter
<1>3. RowsOK' /\ FilesOK'
  BY <1>1, <1>2, RowsStay DEF RowsOK, FilesOK, BatchesOK
<1>4. ASSUME undisturbed >= 0
      PROVE  LinkedView'
  <2>1. ClaimsHold /\ (\A d \in defs : IsClaimed(d)) /\ (imp.update => \A e \in SourceNotes : Means(e))
    BY <1>1, <1>2, <1>4 DEF ImportInv, NotedView, AfterNotes
  <2>2. SourceNotes' = SourceNotes
    BY <1>2, SourceNotesStay
  <2>3. ASSUME NEW d \in defs
        PROVE  \E n \in notes : /\ NoteKey(n) = NoteKey(d)
                                /\ n.id \notin imp'.stale
                                /\ [note |-> n.id, place |-> d.place] \in links'
    <3>1. PICK n \in notes : /\ NoteKey(n) = NoteKey(d)
                             /\ n.id \in imp.touched
                             /\ [note |-> n.id, place |-> d.place] \in imp.claimed
      BY <2>1 DEF IsClaimed
    <3>2. [note |-> n.id, place |-> d.place] \in links'
      BY <1>2, <2>1, <3>1 DEF ClaimsHold
    <3>3. QED
      BY <1>2, <3>1, <3>2
  <2>4. ASSUME NEW l \in links', NEW n \in notes, l.note = n.id, n.id \notin imp'.stale
        PROVE  \E d \in defs : NoteKey(n) = NoteKey(d) /\ l.place = d.place
    <3>1. n.id \in imp.touched
      BY <1>2, <2>4 DEF NoteIds
    <3>2. l \in imp.claimed
      BY <1>2, <2>4, <3>1
    <3>3. PICK m \in notes, d \in defs : l = [note |-> m.id, place |-> d.place] /\ NoteKey(m) = NoteKey(d)
      BY <2>1, <3>2 DEF ClaimsHold
    <3>4. m.id = n.id
      BY <2>4, <3>3
    <3>5. m = n
      BY <1>1, <3>4 DEF RowsOK
    <3>6. QED
      BY <3>3, <3>5
  <2>5. imp.update => \A e \in SourceNotes : Means(e)'
    BY <1>2, <2>1 DEF Means, NoteKey
  <2>6. QED
    BY <1>2, <2>2, <2>3, <2>4, <2>5 DEF LinkedView, NoteKey
<1>5. ImportInv' /\ DefinitionsMirrored'
  BY <1>2, <1>4 DEF ImportInv, ReadView, CreatedView, NotedView, AfterNotes, EtymologyPhases,
                    DefinitionsMirrored, Completed
<1>6. QED
  BY <1>1, <1>2, <1>3, <1>5 DEF MirrorInv, IsImporter, IsSeen

LEMMA StaleNotesKeeps ==
    ASSUME MirrorInv, StaleNotes
    PROVE  MirrorInv'
<1>1. IsImporter(imp) /\ RowsOK /\ FilesOK /\ undisturbed \in Int /\ ImportInv
  BY DEF MirrorInv
<1>2. /\ UNCHANGED <<defs, history, serial>> /\ imp.phase = "linked"
      /\ notes' = {n \in notes : n.id \notin imp.stale}
      /\ links' = {l \in links : l.note \notin imp.stale}
      /\ imp' = [Idle EXCEPT !.phase = "done", !.update = imp.update]
      /\ undisturbed' = undisturbed + 1
  BY DEF StaleNotes, sources
<1>3. /\ imp'.phase = "done" /\ imp'.update = imp.update
      /\ imp'.defs = {} /\ imp'.seen = Nothing /\ imp'.records = {} /\ imp'.rows = {}
      /\ IsImporter(imp') /\ IsSeen(imp'.seen)
  BY <1>2 DEF Idle, Nothing, IsImporter, IsSeen
<1>4. RowsOK'
  BY <1>1, <1>2, RowsStay DEF RowsOK
<1>5. FilesOK'
  <2>1. imp'.seen.notes = {}
    BY <1>3 DEF Nothing
  <2>2. BatchesOK(imp')
    BY <1>3, <2>1, FS_EmptySet DEF BatchesOK
  <2>3. IsFiniteSet(defs') /\ IsFiniteSet(history') /\ \A d \in defs' : d.word \in Words
    BY <1>1, <1>2 DEF FilesOK
  <2>4. QED
    BY <2>2, <2>3 DEF FilesOK, BatchesOK
<1>6. ASSUME undisturbed >= 0
      PROVE  DefinitionsMirrored'
  <2>1. /\ \A d \in defs : \E n \in notes : /\ NoteKey(n) = NoteKey(d)
                                            /\ n.id \notin imp.stale
                                            /\ [note |-> n.id, place |-> d.place] \in links
        /\ \A l \in links, n \in notes : l.note = n.id /\ n.id \notin imp.stale =>
               \E d \in defs : NoteKey(n) = NoteKey(d) /\ l.place = d.place
        /\ imp.update => \A e \in SourceNotes : Means(e)
    BY <1>1, <1>2, <1>6 DEF ImportInv, LinkedView
  <2>2. SourceNotes' = SourceNotes
    BY <1>2, SourceNotesStay
  <2>3. ASSUME NEW d \in defs
        PROVE  \E n \in notes' : NoteKey(n) = NoteKey(d) /\ [note |-> n.id, place |-> d.place] \in links'
    <3>1. PICK n \in notes : /\ NoteKey(n) = NoteKey(d)
                             /\ n.id \notin imp.stale
                             /\ [note |-> n.id, place |-> d.place] \in links
      BY <2>1
    <3>2. n \in notes' /\ [note |-> n.id, place |-> d.place] \in links'
      BY <1>2, <3>1
    <3>3. QED
      BY <3>1, <3>2
  <2> DEFINE Pairs(n) == {<<n.sense, n.word, l.place>> : l \in {k \in links' : k.note = n.id}}
             Wanted == {<<d.sense, d.word, d.place>> : d \in defs}
  <2>4. ASSUME NEW n \in notes', NEW x \in Pairs(n)
        PROVE  x \in Wanted
    <3>1. PICK l \in links' : l.note = n.id /\ x = <<n.sense, n.word, l.place>>
      OBVIOUS
    <3>2. PICK d \in defs : NoteKey(n) = NoteKey(d) /\ l.place = d.place
      BY <1>2, <2>1, <3>1
    <3>3. x = <<d.sense, d.word, d.place>>
      BY <3>1, <3>2 DEF NoteKey
    <3>4. QED
      BY <3>3
  <2>5. ASSUME NEW d \in defs
        PROVE  \E n \in notes' : <<d.sense, d.word, d.place>> \in Pairs(n)
    <3>1. PICK n \in notes' : NoteKey(n) = NoteKey(d) /\ [note |-> n.id, place |-> d.place] \in links'
      BY <2>3
    <3> DEFINE l == [note |-> n.id, place |-> d.place]
    <3>2. l \in {k \in links' : k.note = n.id} /\ l.place = d.place
      BY <3>1
    <3> HIDE DEF l
    <3>3. <<n.sense, n.word, l.place>> \in Pairs(n)
      BY <3>2
    <3>4. QED
      BY <3>1, <3>2, <3>3 DEF NoteKey
  <2>6. UNION {Pairs(n) : n \in notes'} = Wanted
    <3> HIDE DEF Pairs
    <3>1. \A x \in Wanted : x \in UNION {Pairs(n) : n \in notes'}
      BY <2>5
    <3>2. \A x \in UNION {Pairs(n) : n \in notes'} : x \in Wanted
      BY <2>4
    <3>3. QED
      BY <3>1, <3>2
  <2>7. imp.update => \A e \in SourceNotes : \A n \in notes' : NoteKey(n) = NoteKey(e) => n.meaning = e.meaning
    BY <1>2, <2>1 DEF Means
  <2>8. QED
    BY <1>2, <1>3, <2>2, <2>3, <2>6, <2>7 DEF DefinitionsMirrored, NoteKey
<1>7. ImportInv' /\ DefinitionsMirrored'
  <2>1. ImportInv'
    BY <1>3 DEF ImportInv, ReadView, CreatedView, NotedView, LinkedView, AfterNotes, EtymologyPhases
  <2>2. undisturbed < 0 => undisturbed' < 1
    BY <1>1, <1>2
  <2>3. undisturbed < 0 => DefinitionsMirrored'
    BY <1>1, <1>2, <2>2 DEF DefinitionsMirrored, Completed
  <2>4. QED
    BY <1>1, <1>6, <2>1, <2>3
<1>8. undisturbed' \in Int
  BY <1>1, <1>2
<1>9. QED
  BY <1>3, <1>4, <1>5, <1>7, <1>8 DEF MirrorInv, IsImporter, IsSeen

-----------------------------------------------------------------------------
(* The theorem *)

LEMMA MirrorInit == Init => MirrorInv
<1> SUFFICES ASSUME Init
             PROVE  MirrorInv
  OBVIOUS
<1>1. IsImporter(imp) /\ IsSeen(imp.seen) /\ imp.phase = "idle" /\ imp.seen.notes = {}
      /\ imp.defs = {} /\ imp.records = {} /\ imp.rows = {}
  BY DEF Init, Idle, Nothing, IsImporter, IsSeen
<1>2. FilesOK
  BY <1>1, EditionsAssumption, FS_EmptySet DEF Init, FilesOK, BatchesOK
<1>3. RowsOK
  BY DEF Init, RowsOK
<1>4. ImportInv /\ DefinitionsMirrored
  BY <1>1 DEF ImportInv, ReadView, CreatedView, NotedView, LinkedView, AfterNotes, EtymologyPhases,
              DefinitionsMirrored, Completed
<1>5. undisturbed \in Int
  BY DEF Init
<1>6. QED
  BY <1>1, <1>2, <1>3, <1>4, <1>5 DEF MirrorInv

LEMMA MirrorStep == MirrorInv /\ [Next]_vars => MirrorInv'
<1> SUFFICES ASSUME MirrorInv, [Next]_vars
             PROVE  MirrorInv'
  OBVIOUS
<1>1. CASE \/ \E d \in defs, status \in Statuses : Answer(d, status)
           \/ \E r \in history : Override(r)
           \/ Edit
           \/ \E w \in Words, p \in Places : Register(w, p)
           \/ \E w \in Words, nb \in {NotebookOf[p] : p \in Places} : Unregister(w, nb)
  BY <1>1, WritersKeep
<1>2. CASE (\E update \in BOOLEAN : ImportDB(update)) \/ SyncDB
  BY <1>2, BeginKeeps DEF ImportDB, SyncDB
<1>3. CASE Importer
  <2>1. CASE Dies
    BY <2>1, Stopped DEF Dies, sources, database
  <2>2. CASE \/ OriginsPhase \/ FormsPhase \/ PartsPhase \/ ConceptsPhase \/ RelationsPhase \/ HeadsPhase
             \/ DictionaryPhase
    BY <2>2, EtymologySteps, EtymologyKeeps DEF MirrorInv
  <2>3. QED
    BY <1>3, <2>1, <2>2, CreateKeeps, UpdateKeeps, ReadKeeps, AutoKeeps, ResolveKeeps, InsertKeeps,
       DeleteKeeps, StaleLinksKeeps, StaleNotesKeeps DEF Importer
<1>4. CASE UNCHANGED vars
  <2>1. UNCHANGED <<defs, history, notes, links, serial, imp, undisturbed>>
    BY <1>4 DEF vars, sources, database
  <2>2. FilesOK' /\ RowsOK' /\ IsImporter(imp)' /\ IsSeen(imp.seen)'
    BY <2>1, RowsStay DEF MirrorInv, FilesOK, BatchesOK, RowsOK, IsImporter, IsSeen
  <2>3. SourceNotes' = SourceNotes
    BY <2>1, SourceNotesStay
  <2>4. ImportInv'
    BY <2>1, <2>3 DEF MirrorInv, ImportInv, ReadView, CreatedView, NotedView, LinkedView, ClaimsHold, IsClaimed,
                      Means, SeenNote, NoteKey
  <2>5. DefinitionsMirrored'
    BY <2>1, <2>3 DEF MirrorInv, DefinitionsMirrored, Completed, NoteKey
  <2>6. QED
    BY <2>1, <2>2, <2>4, <2>5 DEF MirrorInv
<1>5. QED
  BY <1>1, <1>2, <1>3, <1>4 DEF Next

\* An import that completes while nobody else writes leaves the notes and the links of
\* the files (langner migrate import-db and sync-db), whatever the files say, whatever was
\* in the database before it and whoever wrote between earlier imports.
THEOREM FilesAreMirrored == Spec => []DefinitionsMirrored
<1>1. MirrorInv => DefinitionsMirrored
  BY DEF MirrorInv
<1>2. QED
  BY <1>1, MirrorInit, MirrorStep, PTL DEF Spec

-----------------------------------------------------------------------------
(* The answers *)

\* An answer is named by its time, and a row by its id.
IsRecord(r) == r = [nb |-> r.nb, entry |-> r.entry, sense |-> r.sense, at |-> r.at, status |-> r.status]
HistoryOK ==
    /\ calls = [answers |-> calls.answers, edits |-> calls.edits, imports |-> calls.imports]
    /\ calls.answers \in Nat
    /\ \A r \in history : /\ IsRecord(r)
                          /\ r.at \in Nat /\ r.at <= calls.answers
                          /\ \E w \in Words : r.entry = EntryOf[w]
    /\ \A q, r \in history : q.at = r.at => q = r

IsLog(l) == l = [id |-> l.id, note |-> l.note, nb |-> l.nb, at |-> l.at, status |-> l.status, filed |-> l.filed]
LogsOK ==
    /\ \A l \in logs : IsLog(l) /\ l.id \in Nat /\ l.id < serial
    /\ \A k, l \in logs : k.id = l.id => k = l

\* A row, or one to be inserted, tells of an answer.
Tells(x, r) == x.nb = r.nb /\ x.at = r.at /\ x.status = r.status

\* The rows that will be left, those to insert among them, tell of the answers of the
\* linked notebooks, once each.
KeptLogs == {l \in logs : l.id \notin imp.stale}
TellOnce(S, answers, notebooks) ==
    /\ \A x \in S : \E r \in answers : Tells(x, r)
    /\ \A x, y \in S : x.at = y.at => x = y
    /\ \A r \in answers : r.nb \in notebooks => \E x \in S : Tells(x, r)

RowsView ==
    imp.phase \in {"rows", "resolved"} =>
        imp.seen.notes = notes /\ imp.seen.links = links /\ imp.seen.logs = logs

ResolvedView ==
    imp.phase = "resolved" =>
        /\ imp.records = {r \in history : r.nb \in LinkedNotebooks}
        /\ \A r \in imp.records : \E n \in notes : Of(r) = {n}

Planned == {"planned", "inserted", "logged", "dictionary"}
PlannedView ==
    imp.phase \in Planned =>
        /\ imp.phase # "planned" => imp.rows = {}
        /\ imp.phase \in {"logged", "dictionary"} => imp.stale = {}
        /\ \A k \in imp.stale : k \in Nat /\ k < serial
        /\ \A l \in KeptLogs : l.filed
        /\ \A x \in KeptLogs \cup imp.rows : x.note \in imp.touched
        /\ KeptLogs \cap imp.rows = {}
        /\ TellOnce(KeptLogs \cup imp.rows, history, LinkedNotebooks)

ReconciledView ==
    imp.phase = "linked" =>
        /\ \A l \in logs : l.filed /\ l.note \notin imp.stale
        /\ TellOnce(logs, history, LinkedNotebooks)

AnswersView ==
    /\ undisturbed >= 0 => RowsView /\ ResolvedView /\ PlannedView /\ ReconciledView
    /\ AnswersMirrored

AnswersInv == MirrorInv /\ HistoryOK /\ LogsOK /\ AnswersView

LEMMA Unseen ==
    ASSUME imp.phase \notin {"rows", "resolved", "linked", "done"} \cup Planned
    PROVE  AnswersView
BY DEF AnswersView, RowsView, ResolvedView, PlannedView, ReconciledView, AnswersMirrored, Completed

LEMMA UnseenNext ==
    ASSUME imp'.phase \notin {"rows", "resolved", "linked", "done"} \cup Planned
    PROVE  AnswersView'
BY DEF AnswersView, RowsView, ResolvedView, PlannedView, ReconciledView, AnswersMirrored, Completed

LEMMA LogsStay ==
    ASSUME LogsOK, logs' \subseteq logs, serial \in Nat, serial' \in Nat, serial <= serial'
    PROVE  LogsOK'
BY DEF LogsOK, IsLog

LEMMA HistoryStays ==
    ASSUME HistoryOK, history' = history,
           \/ calls' = calls \/ calls' = [calls EXCEPT !.edits = @ + 1] \/ calls' = [calls EXCEPT !.imports = @ + 1]
    PROVE  HistoryOK'
<1>1. calls'.answers = calls.answers
      /\ calls' = [answers |-> calls'.answers, edits |-> calls'.edits, imports |-> calls'.imports]
  BY DEF HistoryOK
<1>2. QED
  BY <1>1 DEF HistoryOK, IsRecord

LEMMA DisturbedAnswers ==
    ASSUME imp' = imp, Disturb
    PROVE  AnswersView'
<1>1. CASE Busy
  BY <1>1 DEF Disturb, AnswersView, AnswersMirrored, Completed
<1>2. CASE ~Busy
  <2>1. undisturbed' = 0 /\ imp'.phase \in {"idle", "done", "aborted", "refused"}
    BY <1>2 DEF Disturb, Busy
  <2>2. AnswersMirrored'
    BY <2>1 DEF AnswersMirrored, Completed
  <2>3. QED
    BY <2>1, <2>2 DEF AnswersView, RowsView, ResolvedView, PlannedView, ReconciledView, Planned
<1>3. QED
  BY <1>1, <1>2

LEMMA LogAdded ==
    ASSUME LogsOK, NEW l, IsLog(l), l.id \in Nat, serial \in Nat, serial <= l.id, l.id < serial', serial' \in Nat,
           logs' = logs \cup {l}
    PROVE  LogsOK'
BY DEF LogsOK, IsLog

LEMMA MirroredLogs ==
    ASSUME LogsOK, serial \in Nat, NEW k, NEW w, NEW nb, NEW at, NEW status, MirrorAnswer(k, w, nb, at, status)
    PROVE  LogsOK'
<1>1. CASE UNCHANGED <<notes, logs, serial>>
  BY <1>1, LogsStay
<1>2. CASE \E n \in NoteOf(k, w) :
              /\ logs' = logs \cup {[id |-> serial, note |-> n.id, nb |-> nb, at |-> at,
                                     status |-> status, filed |-> FALSE]}
              /\ serial' = serial + 1
              /\ UNCHANGED notes
  <2>1. PICK n : /\ logs' = logs \cup {[id |-> serial, note |-> n.id, nb |-> nb, at |-> at,
                                        status |-> status, filed |-> FALSE]}
                 /\ serial' = serial + 1
    BY <1>2
  <2> DEFINE l == [id |-> serial, note |-> n.id, nb |-> nb, at |-> at, status |-> status, filed |-> FALSE]
  <2>2. l.id = serial /\ IsLog(l) /\ logs' = logs \cup {l}
    BY <2>1 DEF IsLog
  <2> HIDE DEF l
  <2>3. QED
    BY <2>1, <2>2, LogAdded
<1>3. CASE \E n : /\ logs' = logs \cup {[id |-> serial + 1, note |-> n, nb |-> nb, at |-> at,
                                         status |-> status, filed |-> FALSE]}
                  /\ serial' = serial + 2
  <2>1. PICK n : /\ logs' = logs \cup {[id |-> serial + 1, note |-> n, nb |-> nb, at |-> at,
                                         status |-> status, filed |-> FALSE]}
                 /\ serial' = serial + 2
    BY <1>3
  <2> DEFINE l == [id |-> serial + 1, note |-> n, nb |-> nb, at |-> at, status |-> status, filed |-> FALSE]
  <2>2. l.id = serial + 1 /\ IsLog(l) /\ logs' = logs \cup {l}
    BY <2>1 DEF IsLog
  <2> HIDE DEF l
  <2>3. QED
    BY <2>1, <2>2, LogAdded
<1>4. QED
  BY <1>1, <1>2, <1>3 DEF MirrorAnswer

LEMMA AnsweredHistory ==
    ASSUME HistoryOK, FilesOK, NEW d \in defs, NEW status, Answer(d, status)
    PROVE  HistoryOK'
<1> DEFINE at == calls.answers + 1
           r == [nb |-> NotebookOf[d.place], entry |-> EntryOf[d.word], sense |-> d.sense, at |-> at, status |-> status]
<1>1. history' = history \cup {r} /\ calls' = [calls EXCEPT !.answers = at]
  BY DEF Answer
<1>2. IsRecord(r) /\ r.at = at /\ \E w \in Words : r.entry = EntryOf[w]
  BY DEF FilesOK, IsRecord
<1> HIDE DEF r
<1>3. calls'.answers = at /\ at \in Nat
      /\ calls' = [answers |-> calls'.answers, edits |-> calls'.edits, imports |-> calls'.imports]
  BY <1>1 DEF HistoryOK
<1>4. \A q \in history : IsRecord(q) /\ q.at \in Nat /\ q.at < at /\ \E w \in Words : q.entry = EntryOf[w]
  BY DEF HistoryOK
<1> HIDE DEF at
<1>5. \A q \in history' : IsRecord(q) /\ q.at \in Nat /\ q.at <= at /\ \E w \in Words : q.entry = EntryOf[w]
  BY <1>1, <1>2, <1>3, <1>4
<1>6. \A p, q \in history' : p.at = q.at => p = q
  BY <1>1, <1>2, <1>3, <1>4 DEF HistoryOK
<1>7. QED
  BY <1>3, <1>5, <1>6 DEF HistoryOK, IsRecord

LEMMA OverriddenHistory ==
    ASSUME HistoryOK, NEW r \in history, Override(r)
    PROVE  HistoryOK'
<1> DEFINE flipped == CHOOSE s \in Statuses : s # r.status
           q == [r EXCEPT !.status = flipped]
<1>1. history' = (history \ {r}) \cup {q} /\ calls' = [calls EXCEPT !.edits = @ + 1]
  BY DEF Override
<1>2. IsRecord(q) /\ q.at = r.at /\ q.entry = r.entry
  <2> HIDE DEF flipped
  <2>1. r = [nb |-> r.nb, entry |-> r.entry, sense |-> r.sense, at |-> r.at, status |-> r.status]
    BY DEF HistoryOK, IsRecord
  <2>2. q = [nb |-> r.nb, entry |-> r.entry, sense |-> r.sense, at |-> r.at, status |-> flipped]
    BY <2>1
  <2> HIDE DEF q
  <2>3. QED
    BY <2>2 DEF IsRecord
<1> HIDE DEF q
<1>3. calls'.answers = calls.answers
      /\ calls' = [answers |-> calls'.answers, edits |-> calls'.edits, imports |-> calls'.imports]
  BY <1>1 DEF HistoryOK
<1>4. \A p \in history' : IsRecord(p) /\ p.at \in Nat /\ p.at <= calls.answers /\ \E w \in Words : p.entry = EntryOf[w]
  BY <1>1, <1>2 DEF HistoryOK
<1>5. \A p, o \in history' : p.at = o.at => p = o
  BY <1>1, <1>2 DEF HistoryOK
<1>6. QED
  BY <1>3, <1>4, <1>5 DEF HistoryOK, IsRecord

LEMMA OverriddenLogs ==
    ASSUME LogsOK, NEW r, Override(r)
    PROVE  LogsOK'
<1> DEFINE flipped == CHOOSE s \in Statuses : s # r.status
<1>1. serial' = serial /\ (UNCHANGED logs \/ \E l \in logs : logs' = (logs \ {l}) \cup {[l EXCEPT !.status = flipped]})
  BY DEF Override
<1>2. CASE UNCHANGED logs
  BY <1>1, <1>2 DEF LogsOK, IsLog
<1>3. CASE \E l \in logs : logs' = (logs \ {l}) \cup {[l EXCEPT !.status = flipped]}
  <2>1. PICK l \in logs : logs' = (logs \ {l}) \cup {[l EXCEPT !.status = flipped]}
    BY <1>3
  <2> DEFINE m == [l EXCEPT !.status = flipped]
  <2> HIDE DEF flipped
  <2>2. l = [id |-> l.id, note |-> l.note, nb |-> l.nb, at |-> l.at, status |-> l.status, filed |-> l.filed]
    BY DEF LogsOK, IsLog
  <2>3. m = [id |-> l.id, note |-> l.note, nb |-> l.nb, at |-> l.at, status |-> flipped, filed |-> l.filed]
    BY <2>2
  <2> HIDE DEF m
  <2>4. IsLog(m) /\ m.id = l.id
    BY <2>3 DEF IsLog
  <2>5. logs' = (logs \ {l}) \cup {m}
    BY <2>1 DEF m
  <2>6. QED
    BY <1>1, <2>4, <2>5 DEF LogsOK, IsLog
<1>4. QED
  BY <1>1, <1>2, <1>3

LEMMA WritersKeepAnswers ==
    ASSUME AnswersInv, MirrorInv',
           \/ \E d \in defs, status \in Statuses : Answer(d, status)
           \/ \E r \in history : Override(r)
           \/ Edit
           \/ \E w \in Words, p \in Places : Register(w, p)
           \/ \E w \in Words, nb \in {NotebookOf[p] : p \in Places} : Unregister(w, nb)
    PROVE  AnswersInv'
<1>1. HistoryOK /\ LogsOK /\ FilesOK /\ serial \in Nat /\ serial' \in Nat
  BY DEF AnswersInv, MirrorInv, RowsOK
<1>2. imp' = imp /\ Disturb
  BY DEF Answer, Override, Edit, Register, Unregister
<1>3. AnswersView'
  BY <1>2, DisturbedAnswers
<1>4. ASSUME NEW d \in defs, NEW status \in Statuses, Answer(d, status)
      PROVE  HistoryOK' /\ LogsOK'
  <2>1. HistoryOK'
    BY <1>1, <1>4, AnsweredHistory
  <2>2. MirrorAnswer(d.sense, d.word, NotebookOf[d.place], calls.answers + 1, status)
    BY <1>4 DEF Answer
  <2>3. LogsOK'
    BY <1>1, <2>2, MirroredLogs
  <2>4. QED
    BY <2>1, <2>3
<1>5. ASSUME NEW r \in history, Override(r)
      PROVE  HistoryOK' /\ LogsOK'
  BY <1>1, <1>5, OverriddenHistory, OverriddenLogs
<1>6. ASSUME Edit
      PROVE  HistoryOK' /\ LogsOK'
  <2>1. history' = history /\ calls' = [calls EXCEPT !.edits = @ + 1] /\ logs' = logs /\ serial' = serial
    BY <1>6 DEF Edit, database
  <2>2. QED
    BY <1>1, <2>1, HistoryStays, LogsStay
<1>7. ASSUME NEW w \in Words, NEW p \in Places, Register(w, p)
      PROVE  HistoryOK' /\ LogsOK'
  <2>1. history' = history /\ calls' = [calls EXCEPT !.edits = @ + 1] /\ logs' = logs /\ serial <= serial'
    BY <1>1, <1>7 DEF Register
  <2>2. QED
    BY <1>1, <2>1, HistoryStays, LogsStay
<1>8. ASSUME NEW w \in Words, NEW nb, Unregister(w, nb)
      PROVE  HistoryOK' /\ LogsOK'
  <2>1. history' = history /\ calls' = [calls EXCEPT !.edits = @ + 1] /\ logs' \subseteq logs /\ serial' = serial
    BY <1>8 DEF Unregister
  <2>2. QED
    BY <1>1, <2>1, HistoryStays, LogsStay
<1>9. HistoryOK' /\ LogsOK'
  BY <1>4, <1>5, <1>6, <1>7, <1>8
<1>10. QED
  BY <1>3, <1>9 DEF AnswersInv

\* The steps of an import before it reads the answers, and its end before its time.
LEMMA EarlyKeepsAnswers ==
    ASSUME AnswersInv, MirrorInv', history' = history,
           calls' = calls \/ calls' = [calls EXCEPT !.imports = @ + 1],
           logs' \subseteq logs, serial <= serial',
           imp'.phase \notin {"rows", "resolved", "linked", "done"} \cup Planned
    PROVE  AnswersInv'
<1>1. HistoryOK /\ LogsOK /\ serial \in Nat /\ serial' \in Nat
  BY DEF AnswersInv, MirrorInv, RowsOK
<1>2. HistoryOK' /\ LogsOK'
  BY <1>1, HistoryStays, LogsStay
<1>3. AnswersView'
  BY UnseenNext
<1>4. QED
  BY <1>2, <1>3 DEF AnswersInv

LEMMA BeginKeepsAnswers ==
    ASSUME AnswersInv, MirrorInv', NEW update, NEW truncate, Begin(update, truncate)
    PROVE  AnswersInv'
<1>1. /\ history' = history /\ calls' = [calls EXCEPT !.imports = @ + 1] /\ logs' \subseteq logs
      /\ serial' = serial /\ serial \in Nat /\ imp'.phase = "read"
  BY DEF Begin, sources, Idle, AnswersInv, MirrorInv, RowsOK
<1>2. QED
  BY <1>1, EarlyKeepsAnswers DEF Planned

LEMMA StoppedKeepsAnswers ==
    ASSUME AnswersInv, MirrorInv', Aborts \/ Refused, UNCHANGED <<history, calls, logs, serial>>
    PROVE  AnswersInv'
<1>1. imp'.phase \in {"aborted", "refused"} /\ serial \in Nat
  BY DEF Aborts, Refused, Idle, AnswersInv, MirrorInv, RowsOK
<1>2. QED
  BY <1>1, EarlyKeepsAnswers DEF Planned

LEMMA CreateKeepsAnswers ==
    ASSUME AnswersInv, MirrorInv', CreateNotes
    PROVE  AnswersInv'
<1>1. /\ UNCHANGED <<history, calls, logs>> /\ imp.phase = "read" /\ IsImporter(imp) /\ serial \in Nat
      /\ FilesOK /\ RowsOK
  BY DEF CreateNotes, sources, AnswersInv, MirrorInv, RowsOK
<1>2. CASE ~Insertable(Fresh, notes)
  BY <1>1, <1>2, StoppedKeepsAnswers DEF CreateNotes
<1>3. CASE Insertable(Fresh, notes)
  <2>1. IsFiniteSet(Fresh)
    BY <1>1, FS_Subset DEF Fresh, FilesOK, BatchesOK
  <2>2. Cardinality(Numbered(Fresh)) \in Nat
    BY <1>1, <2>1, NumberedRows
  <2>3. serial' = serial + Cardinality(Numbered(Fresh)) /\ imp'.phase = "created"
    BY <1>1, <1>3 DEF CreateNotes, IsImporter
  <2>4. serial <= serial'
    BY <1>1, <2>2, <2>3
  <2>5. QED
    BY <1>1, <2>3, <2>4, EarlyKeepsAnswers DEF Planned
<1>4. QED
  BY <1>2, <1>3

LEMMA UpdateKeepsAnswers ==
    ASSUME AnswersInv, MirrorInv', UpdateNotes
    PROVE  AnswersInv'
<1>1. UNCHANGED <<history, calls, logs, serial>> /\ IsImporter(imp) /\ serial \in Nat
  BY DEF UpdateNotes, sources, AnswersInv, MirrorInv, RowsOK
<1>2. Aborts \/ imp'.phase = "noted"
  BY <1>1 DEF UpdateNotes, IsImporter
<1>3. CASE Aborts
  BY <1>1, <1>3, StoppedKeepsAnswers
<1>4. CASE imp'.phase = "noted"
  BY <1>1, <1>4, EarlyKeepsAnswers DEF Planned
<1>5. QED
  BY <1>2, <1>3, <1>4

LEMMA EtymologyKeepsAnswers ==
    ASSUME AnswersInv, MirrorInv', EtymologyStep
    PROVE  AnswersInv'
<1>1. UNCHANGED <<history, calls, logs, serial, links, undisturbed>> /\ IsImporter(imp) /\ serial \in Nat
  BY DEF EtymologyStep, sources, AnswersInv, MirrorInv, RowsOK
<1>2. CASE Aborts
  BY <1>1, <1>2, StoppedKeepsAnswers
<1>3. CASE \E phase \in EtymologyPhases : imp'.phase = phase
  BY <1>1, <1>3, EarlyKeepsAnswers DEF EtymologyPhases, Planned
<1>4. CASE /\ imp.phase = "logged" /\ imp'.phase = "dictionary"
           /\ imp'.stale = imp.stale /\ imp'.rows = imp.rows /\ imp'.touched = imp.touched
  <2>1. HistoryOK' /\ LogsOK'
    BY <1>1, HistoryStays, LogsStay DEF AnswersInv
  <2>2. undisturbed >= 0 => PlannedView
    BY DEF AnswersInv, AnswersView
  <2>3. undisturbed >= 0 => PlannedView'
    BY <1>1, <1>4, <2>2 DEF PlannedView, Planned, KeptLogs, LinkedNotebooks
  <2>4. AnswersView'
    BY <1>1, <1>4, <2>3 DEF AnswersView, RowsView, ResolvedView, ReconciledView, AnswersMirrored, Completed
  <2>5. QED
    BY <2>1, <2>4 DEF AnswersInv
<1>5. Aborts \/ \E phase \in AfterNotes \ {"rows", "resolved", "planned", "inserted"} : \E books :
              /\ (imp.phase \in EtymologyPhases /\ phase \in EtymologyPhases)
                     \/ (imp.phase = "logged" /\ phase = "dictionary")
              /\ imp' = [imp EXCEPT !.phase = phase, !.books = books]
  BY DEF EtymologyStep
<1>6. ASSUME NEW phase, NEW books, imp' = [imp EXCEPT !.phase = phase, !.books = books]
      PROVE  imp'.phase = phase /\ imp'.stale = imp.stale /\ imp'.rows = imp.rows /\ imp'.touched = imp.touched
  BY <1>1, <1>6 DEF IsImporter
<1>7. QED
  BY <1>2, <1>3, <1>4, <1>5, <1>6

LEMMA ReadKeepsAnswers ==
    ASSUME AnswersInv, MirrorInv', ReadRows
    PROVE  AnswersInv'
<1>1. UNCHANGED <<history, calls, logs, serial, notes, links, undisturbed>> /\ IsImporter(imp) /\ serial \in Nat
  BY DEF ReadRows, sources, database, AnswersInv, MirrorInv, RowsOK
<1>2. HistoryOK' /\ LogsOK'
  BY <1>1, HistoryStays, LogsStay DEF AnswersInv
<1>3. imp'.phase = "rows" /\ imp'.seen.notes = notes /\ imp'.seen.links = links /\ imp'.seen.logs = logs
  BY <1>1 DEF ReadRows, IsImporter
<1>4. AnswersView'
  BY <1>1, <1>3 DEF AnswersView, RowsView, ResolvedView, PlannedView, Planned, ReconciledView,
                    AnswersMirrored, Completed
<1>5. QED
  BY <1>2, <1>4 DEF AnswersInv

LEMMA LeastNumber ==
    ASSUME NEW S \in SUBSET Nat, S # {}
    PROVE  \E m \in S : \A k \in S : m <= k
<1>1. \E m \in S : \A k \in S : ~(<<k, m>> \in OpToRel(<, Nat))
  BY NatLessThanWellFounded, WFMin
<1>2. \E m \in S : \A k \in S : ~(k < m)
  BY <1>1, Zenon DEF OpToRel
<1>3. QED
  BY <1>2

\* Of some rows with different ids one is the oldest.
LEMMA OldestRow ==
    ASSUME NEW S, S # {}, \A n \in S : n.id \in Nat, \A m, n \in S : m # n => m.id # n.id
    PROVE  \E n \in S : {m \in S : \A k \in S : m.id <= k.id} = {n}
<1> DEFINE ids == {n.id : n \in S}
<1>1. ids \in SUBSET Nat /\ ids # {}
  OBVIOUS
<1>2. PICK i \in ids : \A k \in ids : i <= k
  BY <1>1, LeastNumber
<1>3. PICK n \in S : n.id = i
  OBVIOUS
<1>4. \A k \in S : n.id <= k.id
  BY <1>2, <1>3
<1>5. \A m \in S : (\A k \in S : m.id <= k.id) => m = n
  BY <1>4
<1>6. QED
  BY <1>4, <1>5

\* A note is for an answer when it has its sense or its entry.
IsFor(n, k, e) == (k # None /\ n.sense = k) \/ EntryOf[n.word] = e

LEMMA LookupOne ==
    ASSUME NEW seen, NEW k, NEW e, NEW nb,
           \A n \in seen.notes : n.id \in Nat,
           \A m, n \in seen.notes : m # n => m.id # n.id /\ ~Collides(m, n)
    PROVE  /\ \A n \in Lookup(seen, k, e, nb) : n \in seen.notes /\ IsFor(n, k, e)
           /\ (\E n \in seen.notes : IsFor(n, k, e)) => \E n \in seen.notes : Lookup(seen, k, e, nb) = {n}
<1> DEFINE pinned == {n \in seen.notes : k # None /\ n.sense = k}
           named  == {n \in seen.notes : EntryOf[n.word] = e}
           linked == {n \in named : \E l \in seen.links : l.note = n.id /\ NotebookOf[l.place] = nb}
           Oldest(S) == {n \in S : \A m \in S : n.id <= m.id}
<1>1. Lookup(seen, k, e, nb) = IF pinned # {} THEN pinned ELSE IF linked # {} THEN Oldest(linked) ELSE Oldest(named)
  BY DEF Lookup
<1>2. pinned \subseteq seen.notes /\ named \subseteq seen.notes /\ linked \subseteq named
  OBVIOUS
<1>3. pinned # {} => \E n \in seen.notes : pinned = {n}
  BY DEF Collides
<1>4. \A n \in pinned \cup named : IsFor(n, k, e)
  BY DEF IsFor
<1>5. \A n \in seen.notes : IsFor(n, k, e) => n \in pinned \cup named
  BY DEF IsFor
<1> HIDE DEF pinned, named, linked
<1>6. linked # {} => \E n \in linked : Oldest(linked) = {n}
  BY <1>2, OldestRow
<1>7. named # {} => \E n \in named : Oldest(named) = {n}
  BY <1>2, OldestRow
<1>8. Lookup(seen, k, e, nb) \subseteq pinned \cup named
  BY <1>1, <1>2
<1> HIDE DEF Oldest
<1>9. (pinned # {} \/ named # {}) => \E n \in seen.notes : Lookup(seen, k, e, nb) = {n}
  BY <1>1, <1>2, <1>3, <1>6, <1>7
<1>10. QED
  BY <1>2, <1>4, <1>5, <1>8, <1>9

LEMMA AutoKeepsAnswers ==
    ASSUME AnswersInv, MirrorInv', AutoNotes
    PROVE  AnswersInv'
<1> DEFINE linked == {NotebookOf[l.place] : l \in imp.seen.links}
           records == {r \in history : r.nb \in linked}
           unknown == {r \in records : Lookup(imp.seen, r.sense, r.entry, r.nb) = {}}
           fresh == {[sense |-> r.sense, word |-> WordOf[r.entry], meaning |-> None] : r \in unknown}
           seen == IF fresh = {} THEN imp.seen ELSE [imp.seen EXCEPT !.notes = notes', !.links = links]
<1>1. /\ UNCHANGED <<history, calls, logs, links, undisturbed>> /\ imp.phase = "rows"
      /\ IsImporter(imp) /\ IsSeen(imp.seen) /\ serial \in Nat /\ RowsOK /\ FilesOK /\ HistoryOK /\ LogsOK
      /\ undisturbed >= 0 => RowsView
  BY DEF AutoNotes, sources, AnswersInv, AnswersView, MirrorInv, RowsOK
<1>2. CASE ~Insertable(fresh, notes)
  <2>1. Refused /\ UNCHANGED serial
    BY <1>2 DEF AutoNotes
  <2>2. QED
    BY <1>1, <2>1, StoppedKeepsAnswers
<1>3. CASE Insertable(fresh, notes)
  <2>1. /\ notes' = notes \cup Numbered(fresh)
        /\ serial' = serial + Cardinality(fresh)
        /\ imp' = [imp EXCEPT !.phase = "resolved", !.records = records, !.seen = seen]
    BY <1>3 DEF AutoNotes
  <2>2. IsFiniteSet(fresh)
    <3> DEFINE f == [r \in unknown |-> [sense |-> r.sense, word |-> WordOf[r.entry], meaning |-> None]]
    <3>1. IsFiniteSet(unknown)
      BY <1>1, FS_Subset DEF FilesOK
    <3> HIDE DEF unknown
    <3>2. DOMAIN f = unknown /\ f = [r \in unknown |-> f[r]]
      OBVIOUS
    <3>3. {f[r] : r \in unknown} = fresh
      OBVIOUS
    <3> HIDE DEF f
    <3>4. QED
      BY <3>1, <3>2, <3>3, FiniteImage
  <2>3. ASSUME NEW r \in unknown
        PROVE  \E e \in fresh : e.sense = r.sense /\ e.word = WordOf[r.entry]
    <3> DEFINE e == [sense |-> r.sense, word |-> WordOf[r.entry], meaning |-> None]
    <3> HIDE DEF unknown, seen
    <3>1. e \in fresh
      OBVIOUS
    <3>2. e.sense = r.sense /\ e.word = WordOf[r.entry]
      OBVIOUS
    <3> HIDE DEF e, fresh
    <3>3. QED
      BY <3>1, <3>2
  <2> HIDE DEF fresh
  <2>4. /\ Cardinality(fresh) \in Nat
        /\ \A n \in Numbered(fresh) : \E e \in fresh : SameNote(n, e)
        /\ \A e \in fresh : \E n \in Numbered(fresh) : SameNote(n, e)
    BY <1>1, <2>2, NumberedRows
  <2>5. HistoryOK' /\ LogsOK'
    <3>1. serial <= serial' /\ serial' \in Nat
      BY <1>1, <2>1, <2>4
    <3>2. QED
      BY <1>1, <3>1, HistoryStays, LogsStay
  <2>6. imp'.phase = "resolved" /\ imp'.records = records /\ imp'.seen = seen
    <3> HIDE DEF records, seen
    <3>1. QED
      BY <1>1, <2>1 DEF IsImporter
  <2>7. ASSUME undisturbed >= 0
        PROVE  RowsView' /\ ResolvedView'
    <3>1. imp.seen.notes = notes /\ imp.seen.links = links /\ imp.seen.logs = logs
      BY <1>1, <2>7 DEF RowsView
    <3>2. seen.notes = notes' /\ seen.links = links /\ seen.logs = logs
      <4>1. CASE fresh = {}
        BY <2>1, <2>4, <3>1, <4>1
      <4>2. CASE fresh # {}
        BY <1>1, <3>1, <4>2 DEF IsSeen
      <4>3. QED
        BY <4>1, <4>2
    <3>3. records = {r \in history : r.nb \in LinkedNotebooks}
      BY <3>1 DEF LinkedNotebooks
    <3>4. /\ \A n \in notes' : n.id \in Nat
          /\ \A m, n \in notes' : m # n => m.id # n.id /\ ~Collides(m, n)
      BY DEF MirrorInv, RowsOK, Collides
    <3>5. /\ \A n \in notes : n.id \in Nat
          /\ \A m, n \in notes : m # n => m.id # n.id /\ ~Collides(m, n)
      BY <1>1 DEF RowsOK
    <3> HIDE DEF seen
    <3>6. ASSUME NEW r \in records
          PROVE  \E n \in notes' : Lookup(seen, r.sense, r.entry, r.nb) = {n}
      <4>1. \E n \in notes' : IsFor(n, r.sense, r.entry)
        <5>1. CASE Lookup(imp.seen, r.sense, r.entry, r.nb) # {}
          BY <2>1, <3>1, <3>5, <5>1, LookupOne
        <5>2. CASE Lookup(imp.seen, r.sense, r.entry, r.nb) = {}
          <6>1. PICK e \in fresh : e.sense = r.sense /\ e.word = WordOf[r.entry]
            BY <2>3, <5>2
          <6>2. PICK n \in Numbered(fresh) : SameNote(n, e)
            BY <2>4
          <6>3. PICK w \in Words : r.entry = EntryOf[w]
            BY <1>1 DEF HistoryOK
          <6>4. EntryOf[n.word] = r.entry
            BY <6>1, <6>2, <6>3, PairAssumption DEF SameNote
          <6>5. QED
            BY <2>1, <6>4 DEF IsFor
        <5>3. QED
          BY <5>1, <5>2
      <4>2. QED
        BY <3>2, <3>4, <4>1, LookupOne
    <3>7. RowsView'
      BY <1>1, <2>6, <3>2 DEF RowsView
    <3>8. LinkedNotebooks' = LinkedNotebooks
      BY <1>1 DEF LinkedNotebooks
    <3>9. ResolvedView'
      BY <1>1, <2>6, <3>3, <3>6, <3>8 DEF ResolvedView, Of
    <3>10. QED
      BY <3>7, <3>9
  <2>8. AnswersView'
    BY <1>1, <2>6, <2>7 DEF AnswersView, PlannedView, Planned, ReconciledView, AnswersMirrored, Completed
  <2>9. QED
    BY <2>5, <2>8 DEF AnswersInv
<1>4. QED
  BY <1>2, <1>3

LEMMA ResolveKeepsAnswers ==
    ASSUME AnswersInv, MirrorInv', Resolve
    PROVE  AnswersInv'
<1> DEFINE matching(r) == {l \in imp.seen.logs : \E n \in Of(r) : Matches(l, n, r)}
           choice(r) == CHOOSE l \in matching(r) : \A m \in matching(r) : l.id <= m.id
           found == {x \in imp.records : matching(x) # {}}
           left == {x \in imp.records : matching(x) = {}}
           popped == {choice(r).id : r \in found}
           Rows(r) == {[note |-> n.id, nb |-> r.nb, at |-> r.at, status |-> r.status] : n \in Of(r)}
           touched == imp.touched \cup UNION {{n.id : n \in Of(r)} : r \in imp.records}
<1>1. /\ UNCHANGED <<history, calls, notes, links, logs, serial, undisturbed>> /\ imp.phase = "resolved"
      /\ IsImporter(imp) /\ serial \in Nat /\ RowsOK /\ HistoryOK /\ LogsOK
      /\ undisturbed >= 0 => RowsView /\ ResolvedView
  BY DEF Resolve, sources, database, AnswersInv, AnswersView, MirrorInv, RowsOK
<1>2. /\ imp'.phase = "planned" /\ imp'.touched = touched
      /\ imp'.rows = UNION {Rows(r) : r \in left}
      /\ imp'.stale = {l.id : l \in imp.seen.logs} \ popped
  BY <1>1 DEF Resolve, IsImporter, Of
<1>3. HistoryOK' /\ LogsOK'
  BY <1>1, HistoryStays, LogsStay
<1>4. ASSUME undisturbed >= 0
      PROVE  PlannedView'
  <2>1. /\ imp.seen.notes = notes /\ imp.seen.links = links /\ imp.seen.logs = logs
        /\ imp.records = {r \in history : r.nb \in LinkedNotebooks}
        /\ \A r \in imp.records : \E n \in notes : Of(r) = {n}
    BY <1>1, <1>4 DEF RowsView, ResolvedView
  <2>2. ASSUME NEW r \in found
        PROVE  choice(r) \in matching(r)
    <3> DEFINE S == matching(r)
               ids == {l.id : l \in S}
    <3>1. S # {} /\ \A l \in S : l \in logs
      BY <2>1
    <3> HIDE DEF S
    <3>2. ids \in SUBSET Nat /\ ids # {}
      BY <1>1, <3>1 DEF LogsOK
    <3>3. PICK i \in ids : \A k \in ids : i <= k
      BY <3>2, LeastNumber
    <3>4. \E l \in S : \A m \in S : l.id <= m.id
      BY <3>3
    <3>5. QED
      BY <3>4 DEF S
  <2>3. ASSUME NEW l, NEW r \in imp.records, l \in matching(r)
        PROVE  l \in logs /\ l.filed /\ l.note \in touched /\ Tells(l, r)
    <3>1. PICK n \in Of(r) : Matches(l, n, r)
      BY <2>3
    <3>2. n.id \in touched
      OBVIOUS
    <3> HIDE DEF touched
    <3>3. QED
      BY <2>1, <2>3, <3>1, <3>2 DEF Matches, Tells
  <2>4. ASSUME NEW r \in imp.records, NEW x \in Rows(r)
        PROVE  x.note \in touched /\ Tells(x, r)
    <3>1. PICK n \in Of(r) : x = [note |-> n.id, nb |-> r.nb, at |-> r.at, status |-> r.status]
      OBVIOUS
    <3>2. n.id \in touched
      OBVIOUS
    <3> HIDE DEF touched, Rows
    <3>3. QED
      BY <3>1, <3>2 DEF Tells
  <2>5. ASSUME NEW r \in imp.records
        PROVE  \E x : Rows(r) = {x}
    <3>1. PICK n : Of(r) = {n}
      BY <2>1
    <3>2. Rows(r) = {[note |-> n.id, nb |-> r.nb, at |-> r.at, status |-> r.status]}
      BY <3>1
    <3> HIDE DEF Rows
    <3>3. QED
      BY <3>2
  <2> HIDE DEF Rows, touched
  <2>6. ASSUME NEW l \in KeptLogs'
        PROVE  \E r \in found : l = choice(r)
    <3>1. l \in logs /\ l.id \in popped
      BY <1>1, <1>2, <2>1, <2>6 DEF KeptLogs
    <3>2. PICK r \in found : l.id = choice(r).id
      BY <3>1
    <3>3. choice(r) \in logs
      BY <2>2, <2>3
    <3> HIDE DEF choice, found
    <3>4. l = choice(r)
      BY <1>1, <3>1, <3>2, <3>3 DEF LogsOK
    <3>5. QED
      BY <3>4
  <2>7. ASSUME NEW r \in found
        PROVE  choice(r) \in KeptLogs'
    <3>1. choice(r) \in logs /\ choice(r).id \in popped
      BY <2>2, <2>3
    <3> HIDE DEF choice, found, popped
    <3>2. QED
      BY <1>1, <1>2, <3>1 DEF KeptLogs
  <2>8. \A r \in found : r \in imp.records
    OBVIOUS
  <2>9. \A r \in imp.records : r \in found \/ r \in left
    OBVIOUS
  <2>10. \A r \in left : r \in imp.records /\ r \notin found
    OBVIOUS
  <2>11. \A r \in found : choice(r) \in logs /\ choice(r).filed /\ choice(r).note \in touched /\ Tells(choice(r), r)
    <3> HIDE DEF choice
    <3>1. QED
      BY <2>2, <2>3, <2>8
  <2> HIDE DEF choice, found, left, popped, matching
  <2>12. \A x \in imp'.rows : \E r \in left : x \in Rows(r)
    BY <1>2
  <2>13. \A r \in left : \A x \in Rows(r) : x \in imp'.rows
    BY <1>2
  <2>14. imp.records \subseteq history
    BY <2>1
  <2>15. \A q, r \in imp.records : q.at = r.at => q = r
    BY <1>1, <2>14 DEF HistoryOK
  <2>16. \A k \in imp'.stale : k \in Nat /\ k < serial
    BY <1>1, <1>2, <2>1 DEF LogsOK
  <2>17. KeptLogs' \cap imp'.rows = {}
    <3>1. SUFFICES ASSUME NEW x \in KeptLogs', x \in imp'.rows
                   PROVE  FALSE
      OBVIOUS
    <3>2. PICK q \in found : x = choice(q)
      BY <2>6
    <3>3. PICK r \in left : x \in Rows(r)
      BY <2>12, <3>1
    <3>4. x.at = q.at /\ x.at = r.at
      BY <2>4, <2>10, <2>11, <3>2, <3>3 DEF Tells
    <3>5. QED
      BY <2>8, <2>10, <2>15, <3>4
  <2>18. \A x \in KeptLogs' \cup imp'.rows : x.note \in imp'.touched
    BY <1>2, <2>4, <2>6, <2>10, <2>11, <2>12
  <2>19. \A l \in KeptLogs' : l.filed
    BY <2>6, <2>11
  <2>20. \A x \in KeptLogs' \cup imp'.rows : \E r \in history : Tells(x, r)
    BY <2>4, <2>6, <2>8, <2>10, <2>11, <2>12, <2>14
  <2>21. ASSUME NEW x \in KeptLogs' \cup imp'.rows, NEW y \in KeptLogs' \cup imp'.rows, x.at = y.at
         PROVE  x = y
    <3>1. ASSUME NEW z \in KeptLogs' \cup imp'.rows
          PROVE  \E r \in imp.records : \/ r \in found /\ z = choice(r) /\ z.at = r.at
                                        \/ r \in left /\ z \in Rows(r) /\ z.at = r.at
      BY <2>4, <2>6, <2>8, <2>10, <2>11, <2>12 DEF Tells
    <3>2. PICK q \in imp.records : \/ q \in found /\ x = choice(q) /\ x.at = q.at
                                   \/ q \in left /\ x \in Rows(q) /\ x.at = q.at
      BY <3>1
    <3>3. PICK r \in imp.records : \/ r \in found /\ y = choice(r) /\ y.at = r.at
                                   \/ r \in left /\ y \in Rows(r) /\ y.at = r.at
      BY <3>1
    <3>4. q = r
      BY <2>15, <2>21, <3>2, <3>3
    <3>5. QED
      BY <2>5, <2>10, <3>2, <3>3, <3>4
  <2>22. ASSUME NEW r \in history, r.nb \in LinkedNotebooks
         PROVE  \E x \in KeptLogs' \cup imp'.rows : Tells(x, r)
    <3>1. r \in imp.records
      BY <2>1, <2>22
    <3>2. CASE r \in found
      BY <2>7, <2>11, <3>2
    <3>3. CASE r \in left
      <4>1. PICK x : Rows(r) = {x}
        BY <2>5, <3>1
      <4>2. QED
        BY <2>4, <2>13, <3>1, <3>3, <4>1
    <3>4. QED
      BY <2>9, <3>1, <3>2, <3>3
  <2>23. TellOnce(KeptLogs' \cup imp'.rows, history, LinkedNotebooks)
    BY <2>20, <2>21, <2>22 DEF TellOnce
  <2>24. LinkedNotebooks' = LinkedNotebooks
    BY <1>1 DEF LinkedNotebooks
  <2>25. QED
    BY <1>1, <1>2, <2>16, <2>17, <2>18, <2>19, <2>23, <2>24 DEF PlannedView
<1>5. AnswersView'
  BY <1>1, <1>2, <1>4 DEF AnswersView, RowsView, ResolvedView, ReconciledView, AnswersMirrored, Completed
<1>6. QED
  BY <1>3, <1>5 DEF AnswersInv

LEMMA InsertKeepsAnswers ==
    ASSUME AnswersInv, MirrorInv', InsertLogs
    PROVE  AnswersInv'
<1> DEFINE s == SetToSeq(imp.rows)
           N == Cardinality(imp.rows)
           Row(i) == [id |-> serial + i - 1, note |-> s[i].note, nb |-> s[i].nb,
                      at |-> s[i].at, status |-> s[i].status, filed |-> TRUE]
           made == {Row(i) : i \in 1..N}
<1>1. /\ UNCHANGED <<history, calls, notes, links, undisturbed>> /\ imp.phase = "planned"
      /\ IsImporter(imp) /\ serial \in Nat /\ RowsOK /\ FilesOK /\ HistoryOK /\ LogsOK
      /\ undisturbed >= 0 => PlannedView
  BY DEF InsertLogs, sources, AnswersInv, AnswersView, MirrorInv, RowsOK
<1>2. /\ N \in Nat
      /\ s \in [1..N -> imp.rows]
      /\ \A i, j \in 1..N : s[i] = s[j] => i = j
      /\ \A x \in imp.rows : \E i \in 1..N : s[i] = x
  BY <1>1, SetToSeqLists DEF FilesOK, BatchesOK
<1>3. s \in Seq(imp.rows) /\ Len(s) = N /\ DOMAIN s = 1..N
  BY <1>2
<1>4. \/ Aborts /\ UNCHANGED <<logs, serial>>
      \/ /\ logs' = logs \cup made
         /\ serial' = serial + N
         /\ imp' = [imp EXCEPT !.phase = "inserted", !.rows = {}]
  BY <1>3 DEF InsertLogs
<1>5. CASE Aborts /\ UNCHANGED <<logs, serial>>
  BY <1>1, <1>5, StoppedKeepsAnswers
<1>6. CASE /\ logs' = logs \cup made
           /\ serial' = serial + N
           /\ imp' = [imp EXCEPT !.phase = "inserted", !.rows = {}]
  <2> HIDE DEF s, N
  <2>1. ASSUME NEW i \in 1..N
        PROVE  /\ IsLog(Row(i)) /\ Row(i).id = serial + i - 1 /\ Row(i).filed
               /\ Row(i).note = s[i].note /\ Row(i).at = s[i].at
               /\ \A r : Tells(s[i], r) => Tells(Row(i), r)
    BY DEF IsLog, Tells
  <2>2. \A i \in 1..N : s[i] \in imp.rows
    BY <1>2
  <2> HIDE DEF Row
  <2>3. \A i \in 1..N : Row(i).id \in Nat /\ serial <= Row(i).id /\ Row(i).id < serial + N
    BY <1>1, <1>2, <2>1
  <2>4. \A i, j \in 1..N : Row(i).id = Row(j).id => i = j
    BY <1>1, <1>2, <2>1
  <2>5. \A l \in made : \E i \in 1..N : l = Row(i)
    OBVIOUS
  <2>6. \A i \in 1..N : Row(i) \in made
    OBVIOUS
  <2> HIDE DEF made
  <2>7. HistoryOK'
    BY <1>1, HistoryStays
  <2>8. LogsOK'
    <3>1. \A l \in logs' : IsLog(l) /\ l.id \in Nat /\ l.id < serial'
      BY <1>1, <1>2, <1>6, <2>1, <2>3, <2>5 DEF LogsOK
    <3>2. \A k \in logs, l \in made : k.id # l.id
      <4>1. \A k \in logs : k.id \in Nat /\ k.id < serial
        BY <1>1 DEF LogsOK
      <4>2. \A l \in made : l.id \in Nat /\ serial <= l.id
        BY <2>3, <2>5
      <4>3. QED
        BY <1>1, <4>1, <4>2
    <3>3. \A k, l \in made : k.id = l.id => k = l
      BY <2>4, <2>5
    <3>4. \A k, l \in logs' : k.id = l.id => k = l
      BY <1>1, <1>6, <3>2, <3>3 DEF LogsOK
    <3>5. QED
      BY <3>1, <3>4 DEF LogsOK, IsLog
  <2>9. imp'.phase = "inserted" /\ imp'.rows = {} /\ imp'.stale = imp.stale /\ imp'.touched = imp.touched
    BY <1>1, <1>6 DEF IsImporter
  <2>10. ASSUME undisturbed >= 0
         PROVE  PlannedView'
    <3>1. /\ \A k \in imp.stale : k \in Nat /\ k < serial
          /\ \A l \in KeptLogs : l.filed
          /\ \A x \in KeptLogs \cup imp.rows : x.note \in imp.touched
          /\ KeptLogs \cap imp.rows = {}
          /\ TellOnce(KeptLogs \cup imp.rows, history, LinkedNotebooks)
      BY <1>1, <2>10 DEF PlannedView, Planned
    <3>2. \A l \in made : l.id \notin imp.stale
      BY <1>1, <2>3, <2>5, <3>1
    <3>3. KeptLogs' = KeptLogs \cup made
      BY <1>6, <2>9, <3>2 DEF KeptLogs
    <3>4. \A k \in imp'.stale : k \in Nat /\ k < serial'
      BY <1>1, <1>2, <1>6, <2>9, <3>1
    <3>5. \A l \in KeptLogs' : l.filed
      BY <2>1, <2>5, <3>1, <3>3
    <3>6. \A l \in KeptLogs' : l.note \in imp'.touched
      BY <2>1, <2>2, <2>5, <2>9, <3>1, <3>3
    <3>7. \A l \in KeptLogs' : \E r \in history : Tells(l, r)
      BY <2>1, <2>2, <2>5, <3>1, <3>3 DEF TellOnce
    <3>8. ASSUME NEW x \in KeptLogs', NEW y \in KeptLogs', x.at = y.at
          PROVE  x = y
      <4>1. CASE x \in KeptLogs /\ y \in KeptLogs
        BY <3>1, <3>8, <4>1 DEF TellOnce
      <4>2. ASSUME NEW i \in 1..N, NEW k \in KeptLogs, Row(i).at = k.at
            PROVE  FALSE
        <5>1. s[i] = k
          BY <2>1, <2>2, <3>1, <4>2 DEF TellOnce
        <5>2. QED
          BY <2>2, <3>1, <4>2, <5>1
      <4>3. ASSUME NEW i \in 1..N, NEW j \in 1..N, Row(i).at = Row(j).at
            PROVE  Row(i) = Row(j)
        <5>1. s[i] = s[j]
          BY <2>1, <2>2, <3>1, <4>3 DEF TellOnce
        <5>2. i = j
          BY <1>2, <5>1
        <5>3. QED
          BY <5>2
      <4>4. QED
        BY <2>5, <3>3, <3>8, <4>1, <4>2, <4>3
    <3>9. ASSUME NEW r \in history, r.nb \in LinkedNotebooks
          PROVE  \E x \in KeptLogs' : Tells(x, r)
      <4>1. PICK x \in KeptLogs \cup imp.rows : Tells(x, r)
        BY <3>1, <3>9 DEF TellOnce
      <4>2. CASE x \in KeptLogs
        BY <3>3, <4>1, <4>2
      <4>3. CASE x \in imp.rows
        <5>1. PICK i \in 1..N : s[i] = x
          BY <1>2, <4>3
        <5>2. QED
          BY <2>1, <2>6, <3>3, <4>1, <5>1
      <4>4. QED
        BY <4>2, <4>3
    <3>10. TellOnce(KeptLogs', history, LinkedNotebooks)
      BY <3>7, <3>8, <3>9 DEF TellOnce
    <3>11. LinkedNotebooks' = LinkedNotebooks /\ KeptLogs' \cup imp'.rows = KeptLogs'
      BY <1>1, <2>9 DEF LinkedNotebooks
    <3>12. QED
      BY <1>1, <2>9, <3>4, <3>5, <3>6, <3>10, <3>11 DEF PlannedView
  <2>11. AnswersView'
    BY <1>1, <2>9, <2>10 DEF AnswersView, RowsView, ResolvedView, ReconciledView, AnswersMirrored, Completed
  <2>12. QED
    BY <2>7, <2>8, <2>11 DEF AnswersInv
<1>7. QED
  BY <1>4, <1>5, <1>6

LEMMA DeleteKeepsAnswers ==
    ASSUME AnswersInv, MirrorInv', DeleteLeftovers
    PROVE  AnswersInv'
<1>1. /\ UNCHANGED <<history, calls, notes, links, serial, undisturbed>> /\ imp.phase = "inserted"
      /\ IsImporter(imp) /\ serial \in Nat /\ HistoryOK /\ LogsOK
      /\ undisturbed >= 0 => PlannedView
  BY DEF DeleteLeftovers, sources, AnswersInv, AnswersView, MirrorInv, RowsOK
<1>2. /\ logs' = KeptLogs
      /\ imp'.phase = "logged" /\ imp'.stale = {} /\ imp'.rows = imp.rows /\ imp'.touched = imp.touched
  BY <1>1 DEF DeleteLeftovers, KeptLogs, IsImporter
<1>3. HistoryOK' /\ LogsOK'
  BY <1>1, <1>2, HistoryStays, LogsStay DEF KeptLogs
<1>4. KeptLogs' = KeptLogs /\ LinkedNotebooks' = LinkedNotebooks
  BY <1>1, <1>2 DEF KeptLogs, LinkedNotebooks
<1>5. undisturbed >= 0 => PlannedView'
  BY <1>1, <1>2, <1>4 DEF PlannedView, Planned
<1>6. AnswersView'
  BY <1>1, <1>2, <1>5 DEF AnswersView, RowsView, ResolvedView, ReconciledView, AnswersMirrored, Completed
<1>7. QED
  BY <1>3, <1>6 DEF AnswersInv

LEMMA StaleLinksKeepsAnswers ==
    ASSUME AnswersInv, MirrorInv', StaleLinks
    PROVE  AnswersInv'
<1>1. /\ UNCHANGED <<history, calls, notes, logs, serial, undisturbed>> /\ imp.phase = "dictionary"
      /\ IsImporter(imp) /\ serial \in Nat /\ HistoryOK /\ LogsOK
      /\ undisturbed >= 0 => PlannedView
  BY DEF StaleLinks, sources, AnswersInv, AnswersView, MirrorInv, RowsOK
<1>2. links' \subseteq links /\ imp'.phase = "linked" /\ imp'.stale = NoteIds \ imp.touched
  BY <1>1 DEF StaleLinks, IsImporter
<1>3. HistoryOK' /\ LogsOK'
  BY <1>1, HistoryStays, LogsStay
<1>4. LinkedNotebooks' \subseteq LinkedNotebooks
  BY <1>2 DEF LinkedNotebooks
<1>5. ASSUME undisturbed >= 0
      PROVE  ReconciledView'
  <2>1. /\ imp.rows = {} /\ imp.stale = {}
        /\ \A l \in KeptLogs : l.filed
        /\ \A x \in KeptLogs \cup imp.rows : x.note \in imp.touched
        /\ TellOnce(KeptLogs \cup imp.rows, history, LinkedNotebooks)
    BY <1>1, <1>5 DEF PlannedView, Planned
  <2>2. KeptLogs = logs /\ KeptLogs \cup imp.rows = logs
    BY <2>1 DEF KeptLogs
  <2>3. TellOnce(logs, history, LinkedNotebooks')
    BY <1>4, <2>1, <2>2 DEF TellOnce
  <2>4. \A l \in logs : l.filed /\ l.note \notin imp'.stale
    BY <1>2, <2>1, <2>2
  <2>5. QED
    BY <1>1, <2>3, <2>4 DEF ReconciledView
<1>6. AnswersView'
  BY <1>1, <1>2, <1>5 DEF AnswersView, RowsView, ResolvedView, PlannedView, Planned, AnswersMirrored, Completed
<1>7. QED
  BY <1>3, <1>6 DEF AnswersInv

LEMMA StaleNotesKeepsAnswers ==
    ASSUME AnswersInv, MirrorInv', StaleNotes
    PROVE  AnswersInv'
<1>1. /\ UNCHANGED <<history, calls, serial>> /\ imp.phase = "linked" /\ undisturbed' = undisturbed + 1
      /\ undisturbed \in Int /\ serial \in Nat /\ HistoryOK /\ LogsOK
      /\ undisturbed >= 0 => ReconciledView
  BY DEF StaleNotes, sources, AnswersInv, AnswersView, MirrorInv, RowsOK
<1>2. links' \subseteq links /\ logs' = {l \in logs : l.note \notin imp.stale} /\ imp'.phase = "done"
  BY DEF StaleNotes, Idle
<1>3. HistoryOK' /\ LogsOK'
  BY <1>1, <1>2, HistoryStays, LogsStay
<1>4. ASSUME undisturbed >= 0
      PROVE  AnswersMirrored'
  <2>1. /\ \A l \in logs : l.filed /\ l.note \notin imp.stale
        /\ TellOnce(logs, history, LinkedNotebooks)
    BY <1>1, <1>4 DEF ReconciledView
  <2>2. logs' = logs
    BY <1>2, <2>1
  <2>3. LinkedNotebooks' \subseteq LinkedNotebooks
    BY <1>2 DEF LinkedNotebooks
  <2>4. ASSUME NEW r \in history, r.nb \in LinkedNotebooks'
        PROVE  Cardinality({l \in logs : l.nb = r.nb /\ l.at = r.at /\ l.status = r.status}) = 1
    <3> DEFINE T == {l \in logs : l.nb = r.nb /\ l.at = r.at /\ l.status = r.status}
    <3>1. PICK x \in logs : Tells(x, r)
      BY <2>1, <2>3, <2>4 DEF TellOnce
    <3>2. T = {x}
      BY <2>1, <3>1 DEF TellOnce, Tells
    <3>3. QED
      BY <3>2, FS_Singleton
  <2>5. \A l \in logs : l.filed /\ \E r \in history : l.nb = r.nb /\ l.at = r.at /\ l.status = r.status
    BY <2>1 DEF TellOnce, Tells
  <2>6. QED
    BY <1>1, <2>2, <2>4, <2>5 DEF AnswersMirrored
<1>5. undisturbed < 0 => AnswersMirrored'
  BY <1>1 DEF AnswersMirrored, Completed
<1>6. AnswersView'
  BY <1>1, <1>2, <1>4, <1>5 DEF AnswersView, RowsView, ResolvedView, PlannedView, Planned, ReconciledView
<1>7. QED
  BY <1>3, <1>6 DEF AnswersInv

LEMMA AnswersInit == Init => AnswersInv
<1> SUFFICES ASSUME Init
             PROVE  AnswersInv
  OBVIOUS
<1>1. MirrorInv
  BY MirrorInit
<1>2. HistoryOK /\ LogsOK
  BY DEF Init, EmptyCalls, HistoryOK, LogsOK
<1>3. AnswersView
  BY Unseen DEF Init, Idle, Planned
<1>4. QED
  BY <1>1, <1>2, <1>3 DEF AnswersInv

LEMMA AnswersStep == AnswersInv /\ [Next]_vars => AnswersInv'
<1> SUFFICES ASSUME AnswersInv, [Next]_vars
             PROVE  AnswersInv'
  OBVIOUS
<1>1. MirrorInv'
  BY MirrorStep DEF AnswersInv
<1>2. CASE \/ \E d \in defs, status \in Statuses : Answer(d, status)
           \/ \E r \in history : Override(r)
           \/ Edit
           \/ \E w \in Words, p \in Places : Register(w, p)
           \/ \E w \in Words, nb \in {NotebookOf[p] : p \in Places} : Unregister(w, nb)
  BY <1>1, <1>2, WritersKeepAnswers
<1>3. CASE (\E update \in BOOLEAN : ImportDB(update)) \/ SyncDB
  BY <1>1, <1>3, BeginKeepsAnswers DEF ImportDB, SyncDB
<1>4. CASE Importer
  <2>1. CASE Dies
    BY <1>1, <2>1, StoppedKeepsAnswers DEF Dies, sources, database
  <2>2. CASE \/ OriginsPhase \/ FormsPhase \/ PartsPhase \/ ConceptsPhase \/ RelationsPhase \/ HeadsPhase
             \/ DictionaryPhase
    BY <1>1, <2>2, EtymologySteps, EtymologyKeepsAnswers DEF AnswersInv, MirrorInv
  <2>3. QED
    BY <1>1, <1>4, <2>1, <2>2, CreateKeepsAnswers, UpdateKeepsAnswers, ReadKeepsAnswers, AutoKeepsAnswers,
       ResolveKeepsAnswers, InsertKeepsAnswers, DeleteKeepsAnswers, StaleLinksKeepsAnswers,
       StaleNotesKeepsAnswers DEF Importer
<1>5. CASE UNCHANGED vars
  <2>1. UNCHANGED <<history, calls, notes, links, logs, serial, imp, undisturbed>>
    BY <1>5 DEF vars, sources, database
  <2>2. HistoryOK' /\ LogsOK'
    BY <2>1 DEF AnswersInv, HistoryOK, LogsOK, IsLog, IsRecord
  <2>3. LinkedNotebooks' = LinkedNotebooks /\ KeptLogs' = KeptLogs
    BY <2>1 DEF LinkedNotebooks, KeptLogs
  <2>4. (undisturbed >= 0 => RowsView /\ ResolvedView /\ PlannedView /\ ReconciledView)'
    BY <2>1, <2>3 DEF AnswersInv, AnswersView, RowsView, ResolvedView, PlannedView, ReconciledView, Of
  <2>5. AnswersMirrored'
    BY <2>1, <2>3 DEF AnswersInv, AnswersView, AnswersMirrored, Completed
  <2>6. QED
    BY <1>1, <2>2, <2>4, <2>5 DEF AnswersInv, AnswersView
<1>6. QED
  BY <1>2, <1>3, <1>4, <1>5 DEF Next

\* An import that completes while nobody else writes leaves one row for every answer of
\* the learning history of a linked notebook, with its time and status, and no other row
\* (ImportLearningLogs), whatever rows the server and earlier imports left.
THEOREM AnswersAreMirrored == Spec => []AnswersMirrored
<1>1. AnswersInv => AnswersMirrored
  BY DEF AnswersInv, AnswersView
<1>2. QED
  BY <1>1, AnswersInit, AnswersStep, PTL DEF Spec

-----------------------------------------------------------------------------
(* A second import *)

\* A link is one of a note.
LinksOK == \A l \in links : l = [note |-> l.note, place |-> l.place] /\ l.note \in NoteIds

\* The links and the notes the files ask for.
OfFiles(l) == \E n \in notes, d \in defs : l.note = n.id /\ NoteKey(n) = NoteKey(d) /\ l.place = d.place
InFiles(n) == \E d \in defs : NoteKey(n) = NoteKey(d)
IsAsked(n) == InFiles(n) \/ \E r \in history : n \in NotesOf(r)

\* A row hangs on the note of its answer.
Hangs(x) ==
    \E r \in history : /\ x.nb = r.nb /\ x.at = r.at /\ x.nb \in LinkedNotebooks
                       /\ \E n \in NotesOf(r) : x.note = n.id

FileLinks == Busy \/ imp.phase = "done" => \A l \in links : OfFiles(l)

BeforePlan == {"created", "rows", "resolved"} \cup EtymologyPhases
TouchedView ==
    /\ imp.phase \in BeforePlan => \A k \in imp.touched : \E n \in notes : n.id = k /\ InFiles(n)
    /\ imp.phase \in Planned =>
           /\ \A k \in imp.touched : \E n \in notes : n.id = k /\ IsAsked(n)
           /\ \A x \in KeptLogs \cup imp.rows : Hangs(x)
    /\ imp.phase = "linked" =>
           /\ \A n \in notes : n.id \notin imp.stale => IsAsked(n)
           /\ \A l \in logs : Hangs(l)

\* After one import whole, the links of the next are those of the files from its start:
\* they decide which answers it reads and for which notes, and are not changed again.
SettledInv ==
    /\ AnswersInv
    /\ LinksOK
    /\ undisturbed >= 1 => FileLinks /\ TouchedView
    /\ TwoImportsSettle

LEMMA LookupSame ==
    ASSUME NEW s, NEW t, s.notes = t.notes, s.links = t.links, NEW k, NEW e, NEW nb
    PROVE  Lookup(s, k, e, nb) = Lookup(t, k, e, nb)
BY DEF Lookup

\* The note of an answer stays it when other notes go.
LEMMA LookupShrinks ==
    ASSUME NEW s, NEW t, t.notes \subseteq s.notes, t.links = s.links,
           NEW k, NEW e, NEW nb, NEW n \in Lookup(s, k, e, nb), n \in t.notes
    PROVE  n \in Lookup(t, k, e, nb)
<1> DEFINE Pinned(v) == {m \in v.notes : k # None /\ m.sense = k}
           Named(v)  == {m \in v.notes : EntryOf[m.word] = e}
           Linked(v) == {m \in Named(v) : \E l \in v.links : l.note = m.id /\ NotebookOf[l.place] = nb}
           Oldest(S) == {m \in S : \A o \in S : m.id <= o.id}
<1>1. \A v : Lookup(v, k, e, nb) = IF Pinned(v) # {} THEN Pinned(v)
                                   ELSE IF Linked(v) # {} THEN Oldest(Linked(v)) ELSE Oldest(Named(v))
  BY DEF Lookup
<1>2. Pinned(t) \subseteq Pinned(s) /\ Named(t) \subseteq Named(s) /\ Linked(t) \subseteq Linked(s)
  OBVIOUS
<1>3. /\ n \in Pinned(s) => n \in Pinned(t)
      /\ n \in Named(s) => n \in Named(t)
      /\ n \in Linked(s) => n \in Linked(t)
  OBVIOUS
<1> HIDE DEF Pinned, Named, Linked
<1>4. \A S, T : n \in Oldest(S) /\ T \subseteq S /\ n \in T => n \in Oldest(T)
  OBVIOUS
<1>5. \A S : n \in Oldest(S) => n \in S
  OBVIOUS
<1> HIDE DEF Oldest
<1>6. CASE Pinned(s) # {}
  BY <1>1, <1>3, <1>6
<1>7. CASE Pinned(s) = {} /\ Linked(s) # {}
  <2>1. n \in Oldest(Linked(s)) /\ Pinned(t) = {}
    BY <1>1, <1>2, <1>7
  <2>2. n \in Linked(t)
    BY <1>3, <1>5, <2>1
  <2>3. n \in Oldest(Linked(t))
    BY <1>2, <1>4, <2>1, <2>2
  <2>4. QED
    BY <1>1, <2>1, <2>2, <2>3
<1>8. CASE Pinned(s) = {} /\ Linked(s) = {}
  <2>1. n \in Oldest(Named(s)) /\ Pinned(t) = {} /\ Linked(t) = {}
    BY <1>1, <1>2, <1>8
  <2>2. n \in Oldest(Named(t))
    BY <1>2, <1>3, <1>4, <1>5, <2>1
  <2>3. QED
    BY <1>1, <2>1, <2>2
<1>9. QED
  BY <1>6, <1>7, <1>8

\* What answers and rows are for depends on the files, the notes and the links.
LEMMA ViewsStay ==
    ASSUME UNCHANGED <<defs, history, notes, links>>
    PROVE  /\ \A n : IsAsked(n)' <=> IsAsked(n)
           /\ \A x : Hangs(x)' <=> Hangs(x)
           /\ \A l : OfFiles(l)' <=> OfFiles(l)
           /\ \A n : InFiles(n)' <=> InFiles(n)
<1>1. Stored'.notes = Stored.notes /\ Stored'.links = Stored.links
  BY DEF Stored
<1>2. \A k, e, nb : Lookup(Stored, k, e, nb)' = Lookup(Stored', k, e, nb)
  BY DEF Lookup
<1>3. \A r : NotesOf(r)' = NotesOf(r)
  BY <1>1, <1>2, LookupSame DEF NotesOf
<1>4. LinkedNotebooks' = LinkedNotebooks
  BY DEF LinkedNotebooks
<1>5. \A n : InFiles(n)' <=> InFiles(n)
  BY DEF InFiles, NoteKey
<1>6. \A n : IsAsked(n)' <=> IsAsked(n)
  BY <1>3, <1>5 DEF IsAsked
<1>7. \A x : Hangs(x)' <=> Hangs(x)
  BY <1>3, <1>4 DEF Hangs
<1>8. \A l : OfFiles(l)' <=> OfFiles(l)
  BY DEF OfFiles, NoteKey
<1>9. QED
  BY <1>5, <1>6, <1>7, <1>8

LEMMA LinksStay ==
    ASSUME LinksOK, links' \subseteq links, notes \subseteq notes'
    PROVE  LinksOK'
BY DEF LinksOK, NoteIds

LEMMA Proceeds ==
    ASSUME AnswersInv', LinksOK', imp'.phase # "done", undisturbed' >= 1 => FileLinks' /\ TouchedView'
    PROVE  SettledInv'
BY DEF SettledInv, TwoImportsSettle, Completed

LEMMA WritersSettle ==
    ASSUME SettledInv, AnswersInv',
           \/ \E d \in defs, status \in Statuses : Answer(d, status)
           \/ \E r \in history : Override(r)
           \/ Edit
           \/ \E w \in Words, p \in Places : Register(w, p)
           \/ \E w \in Words, nb \in {NotebookOf[p] : p \in Places} : Unregister(w, nb)
    PROVE  SettledInv'
<1>1. LinksOK
  BY DEF SettledInv
<1>2. Disturb
  BY DEF Answer, Override, Edit, Register, Unregister
<1>3. undisturbed' = -1 \/ undisturbed' = 0
  BY <1>2 DEF Disturb
<1>4. ASSUME NEW d \in defs, NEW status \in Statuses, Answer(d, status)
      PROVE  LinksOK'
  <2>1. links' = links /\ MirrorAnswer(d.sense, d.word, NotebookOf[d.place], calls.answers + 1, status)
    BY <1>4 DEF Answer
  <2>2. notes \subseteq notes'
    BY <2>1 DEF MirrorAnswer
  <2>3. QED
    BY <1>1, <2>1, <2>2, LinksStay
<1>5. ASSUME NEW r \in history, Override(r)
      PROVE  LinksOK'
  BY <1>1, <1>5, LinksStay DEF Override
<1>6. ASSUME Edit
      PROVE  LinksOK'
  BY <1>1, <1>6, LinksStay DEF Edit, database
<1>7. ASSUME NEW w \in Words, NEW p \in Places, Register(w, p)
      PROVE  LinksOK'
  <2> DEFINE n == [id |-> serial, word |-> w, sense |-> None, meaning |-> None]
             l == [note |-> serial, place |-> p]
  <2>1. UNCHANGED <<notes, links>> \/ (notes' = notes \cup {n} /\ links' = links \cup {l})
    BY <1>7 DEF Register
  <2>2. l = [note |-> l.note, place |-> l.place] /\ l.note = n.id
    OBVIOUS
  <2> HIDE DEF n, l
  <2>3. QED
    BY <1>1, <2>1, <2>2 DEF LinksOK, NoteIds
<1>8. ASSUME NEW w \in Words, NEW nb, Unregister(w, nb)
      PROVE  LinksOK'
  <2> DEFINE gone == {l \in links : NotebookOf[l.place] = nb /\ \E n \in notes : n.id = l.note /\ n.word = w}
             bare == {l.note : l \in gone} \ {l.note : l \in links \ gone}
  <2>1. \/ UNCHANGED <<notes, links>>
        \/ links' = links \ gone /\ notes' = {n \in notes : n.id \notin bare}
    BY <1>8 DEF Unregister
  <2>2. \A l \in links \ gone : l.note \notin bare
    OBVIOUS
  <2> HIDE DEF gone, bare
  <2>3. QED
    BY <1>1, <2>1, <2>2 DEF LinksOK, NoteIds
<1>9. LinksOK'
  BY <1>4, <1>5, <1>6, <1>7, <1>8
<1>10. QED
  BY <1>3, <1>9 DEF SettledInv, TwoImportsSettle, Completed

LEMMA BeginSettles ==
    ASSUME SettledInv, AnswersInv', NEW update, NEW truncate, Begin(update, truncate)
    PROVE  SettledInv'
<1>1. /\ imp'.phase = "read" /\ defs' = defs
      /\ undisturbed' = IF imp.phase = "done" THEN undisturbed ELSE 0
      /\ links' = {} \/ UNCHANGED <<notes, links>>
  BY DEF Begin, Idle, sources
<1>2. LinksOK'
  BY <1>1 DEF SettledInv, LinksOK, NoteIds
<1>3. ASSUME undisturbed' >= 1
      PROVE  FileLinks' /\ TouchedView'
  <2>1. undisturbed >= 1 /\ imp.phase = "done"
    BY <1>1, <1>3
  <2>2. \A l \in links : OfFiles(l)
    BY <2>1 DEF SettledInv, FileLinks
  <2>3. \A l \in links' : OfFiles(l)'
    BY <1>1, <2>2 DEF OfFiles, NoteKey
  <2>4. QED
    BY <1>1, <2>3 DEF FileLinks, TouchedView, BeforePlan, Planned, EtymologyPhases
<1>4. QED
  BY <1>1, <1>2, <1>3, Proceeds

LEMMA StoppedSettles ==
    ASSUME SettledInv, AnswersInv', Aborts \/ Refused, UNCHANGED <<notes, links>>
    PROVE  SettledInv'
<1>1. imp'.phase \in {"aborted", "refused"}
  BY DEF Aborts, Refused, Idle
<1>2. LinksOK'
  BY LinksStay DEF SettledInv
<1>3. FileLinks' /\ TouchedView'
  BY <1>1 DEF FileLinks, Busy, TouchedView, BeforePlan, Planned, EtymologyPhases
<1>4. QED
  BY <1>1, <1>2, <1>3, Proceeds

LEMMA CreateSettles ==
    ASSUME SettledInv, AnswersInv', CreateNotes
    PROVE  SettledInv'
<1> DEFINE made == Numbered(Fresh)
           linked == UNION {{[note |-> n.id, place |-> p] : p \in UNION {d.places : d \in
                                 {e \in Fresh : NoteKey(e) = NoteKey(n)}}} : n \in made}
<1>1. /\ UNCHANGED <<defs, history, undisturbed>> /\ imp.phase = "read" /\ IsImporter(imp)
      /\ FilesOK /\ RowsOK /\ LinksOK /\ undisturbed \in Int
      /\ undisturbed >= 0 => ReadView
      /\ undisturbed >= 1 => FileLinks
  BY DEF CreateNotes, sources, SettledInv, AnswersInv, MirrorInv, ImportInv
<1>2. CASE ~Insertable(Fresh, notes)
  BY <1>2, StoppedSettles DEF CreateNotes
<1>3. CASE Insertable(Fresh, notes)
  <2>1. /\ notes' = notes \cup made
        /\ links' = links \cup linked
        /\ imp' = [imp EXCEPT !.phase = "created", !.touched = {n.id : n \in made}, !.claimed = linked]
    BY <1>3 DEF CreateNotes
  <2>2. IsFiniteSet(Fresh)
    BY <1>1, FS_Subset DEF Fresh, FilesOK, BatchesOK
  <2>3. \A n \in made : \E e \in Fresh : SameNote(n, e)
    BY <1>1, <2>2, NumberedRows DEF RowsOK
  <2> HIDE DEF made
  <2>4. \A l \in linked : \E n \in made : \E p : l = [note |-> n.id, place |-> p]
    OBVIOUS
  <2> HIDE DEF linked
  <2>5. imp'.phase = "created" /\ imp'.touched = {n.id : n \in made} /\ imp'.claimed = linked
    BY <1>1, <2>1 DEF IsImporter
  <2>6. LinksOK'
    <3>1. ASSUME NEW l \in linked
          PROVE  l = [note |-> l.note, place |-> l.place] /\ \E n \in made : l.note = n.id
      BY <2>4
    <3>2. QED
      BY <1>1, <2>1, <3>1 DEF LinksOK, NoteIds
  <2>7. ASSUME undisturbed >= 1
        PROVE  FileLinks' /\ TouchedView'
    <3>1. imp.defs = SourceNotes
      BY <1>1, <2>7 DEF ReadView
    <3>2. \A l \in links : OfFiles(l)
      BY <1>1, <2>7 DEF FileLinks, Busy
    <3>3. ClaimsHold'
      BY <1>1, <2>5, <2>7 DEF AnswersInv, MirrorInv, ImportInv, CreatedView
    <3>4. \A l \in linked : OfFiles(l)'
      BY <2>5, <3>3 DEF ClaimsHold, OfFiles, NoteKey
    <3>5. \A l \in links : OfFiles(l)'
      BY <1>1, <2>1, <3>2 DEF OfFiles, NoteKey
    <3>6. ASSUME NEW n \in made
          PROVE  n \in notes' /\ InFiles(n)'
      <4>1. PICK e \in Fresh : SameNote(n, e)
        BY <2>3
      <4>2. e \in SourceNotes /\ NoteKey(n) = NoteKey(e)
        BY <3>1, <4>1 DEF Fresh, SameNote, NoteKey
      <4>3. PICK d \in defs : NoteKey(d) = NoteKey(e)
        BY <4>2, SourceNotesAre
      <4>4. QED
        BY <1>1, <2>1, <4>2, <4>3 DEF InFiles, NoteKey
    <3>7. \A k \in imp'.touched : \E n \in notes' : n.id = k /\ InFiles(n)'
      BY <2>5, <3>6
    <3>8. QED
      BY <2>1, <2>5, <3>4, <3>5, <3>7 DEF FileLinks, TouchedView, Planned
  <2>8. QED
    BY <1>1, <2>5, <2>6, <2>7, Proceeds
<1>4. QED
  BY <1>2, <1>3

LEMMA UpdateSettles ==
    ASSUME SettledInv, AnswersInv', UpdateNotes
    PROVE  SettledInv'
<1> DEFINE M == UNION {{[note |-> n.id, d |-> d] : d \in {e \in imp.defs : NoteKey(e) = NoteKey(n)}} :
                          n \in imp.seen.notes}
           wanted == UNION {{[note |-> m.note, place |-> p] : p \in m.d.places} : m \in M}
           new == wanted \ imp.seen.links
<1>1. /\ UNCHANGED <<defs, history, undisturbed>> /\ imp.phase = "created" /\ IsImporter(imp)
      /\ RowsOK /\ LinksOK /\ undisturbed \in Int
      /\ undisturbed >= 0 => CreatedView
      /\ undisturbed >= 1 => FileLinks /\ TouchedView
  BY DEF UpdateNotes, sources, SettledInv, AnswersInv, MirrorInv, ImportInv
<1>2. CASE ~(\A l \in new : l.note \in NoteIds)
  BY <1>2, StoppedSettles DEF UpdateNotes
<1>3. CASE \A l \in new : l.note \in NoteIds
  <2>1. /\ notes' = {Refreshed(n, M) : n \in notes}
        /\ links' = links \cup new
        /\ imp' = [imp EXCEPT !.phase = "noted", !.defs = {}, !.seen = Nothing,
                              !.touched = @ \cup {m.note : m \in M}, !.claimed = @ \cup wanted]
    BY <1>3 DEF UpdateNotes
  <2>2. \A m \in M : \E n \in imp.seen.notes, e \in imp.defs : NoteKey(e) = NoteKey(n) /\ m.note = n.id
    OBVIOUS
  <2> HIDE DEF M
  <2>3. \A l \in new : \E k, p : l = [note |-> k, place |-> p]
    OBVIOUS
  <2>4. \A l \in new : l \in wanted
    OBVIOUS
  <2> HIDE DEF new, wanted
  <2>5. /\ imp'.phase = "noted" /\ imp'.touched = imp.touched \cup {m.note : m \in M}
        /\ imp'.claimed = imp.claimed \cup wanted
    BY <1>1, <2>1 DEF IsImporter
  <2>6. ASSUME NEW n \in notes
        PROVE  /\ Refreshed(n, M) \in notes'
               /\ Refreshed(n, M).id = n.id
               /\ NoteKey(Refreshed(n, M)) = NoteKey(n)
    BY <1>1, <2>1, RefreshedRow DEF RowsOK
  <2>7. LinksOK'
    <3>1. NoteIds \subseteq NoteIds'
      BY <2>6 DEF NoteIds
    <3>2. \A l \in new : l = [note |-> l.note, place |-> l.place]
      BY <2>3
    <3>3. QED
      BY <1>1, <1>3, <2>1, <3>1, <3>2 DEF LinksOK
  <2>8. ASSUME undisturbed >= 1
        PROVE  FileLinks' /\ TouchedView'
    <3>1. imp.defs = SourceNotes /\ imp.seen.notes \subseteq notes
      BY <1>1, <2>8 DEF CreatedView
    <3>2. /\ \A l \in links : OfFiles(l)
          /\ \A k \in imp.touched : \E n \in notes : n.id = k /\ InFiles(n)
      BY <1>1, <2>8 DEF FileLinks, Busy, TouchedView, BeforePlan
    <3>3. ClaimsHold'
      BY <1>1, <2>5, <2>8 DEF AnswersInv, MirrorInv, ImportInv, NotedView, AfterNotes, EtymologyPhases
    <3>4. \A l \in new : OfFiles(l)'
      BY <2>4, <2>5, <3>3 DEF ClaimsHold, OfFiles, NoteKey
    <3>5. ASSUME NEW l \in links
          PROVE  OfFiles(l)'
      <4>1. PICK n \in notes, d \in defs : l.note = n.id /\ NoteKey(n) = NoteKey(d) /\ l.place = d.place
        BY <3>2 DEF OfFiles
      <4>2. \E k \in notes' : l.note = k.id /\ NoteKey(k) = NoteKey(d)
        BY <2>6, <4>1
      <4>3. QED
        BY <1>1, <4>1, <4>2 DEF OfFiles, NoteKey
    <3>6. ASSUME NEW n \in notes, InFiles(n)
          PROVE  \E k \in notes' : k.id = n.id /\ InFiles(k)'
      <4>1. PICK d \in defs : NoteKey(n) = NoteKey(d)
        BY <3>6 DEF InFiles
      <4>2. \E k \in notes' : k.id = n.id /\ NoteKey(k) = NoteKey(d)
        BY <2>6, <4>1
      <4>3. QED
        BY <1>1, <4>2 DEF InFiles, NoteKey
    <3>7. ASSUME NEW m \in M
          PROVE  \E n \in notes : n.id = m.note /\ InFiles(n)
      <4>1. PICK n \in imp.seen.notes, e \in imp.defs : NoteKey(e) = NoteKey(n) /\ m.note = n.id
        BY <2>2
      <4>2. PICK d \in defs : NoteKey(d) = NoteKey(e)
        BY <3>1, SourceNotesAre
      <4>3. QED
        BY <3>1, <4>1, <4>2 DEF InFiles
    <3>8. \A k \in imp'.touched : \E n \in notes : n.id = k /\ InFiles(n)
      BY <2>5, <3>2, <3>7
    <3>9. \A k \in imp'.touched : \E n \in notes' : n.id = k /\ InFiles(n)'
      BY <3>6, <3>8
    <3>10. QED
      BY <2>1, <2>5, <3>4, <3>5, <3>9 DEF FileLinks, TouchedView, Planned
  <2>9. QED
    BY <1>1, <2>5, <2>7, <2>8, Proceeds
<1>4. QED
  BY <1>2, <1>3

LEMMA EtymologySettles ==
    ASSUME SettledInv, AnswersInv', EtymologyStep
    PROVE  SettledInv'
<1>1. /\ UNCHANGED <<defs, history, notes, links, logs, undisturbed>> /\ IsImporter(imp)
      /\ undisturbed >= 1 => FileLinks /\ TouchedView
  BY DEF EtymologyStep, sources, SettledInv, AnswersInv, MirrorInv
<1>2. CASE Aborts
  BY <1>1, <1>2, StoppedSettles
<1>3. CASE ~Aborts
  <2>1. PICK phase, books :
            /\ (imp.phase \in EtymologyPhases /\ phase \in EtymologyPhases)
                   \/ (imp.phase = "logged" /\ phase = "dictionary")
            /\ imp' = [imp EXCEPT !.phase = phase, !.books = books]
    BY <1>3 DEF EtymologyStep
  <2>2. imp'.phase = phase /\ imp'.touched = imp.touched /\ imp'.rows = imp.rows /\ imp'.stale = imp.stale
    BY <1>1, <2>1 DEF IsImporter
  <2>3. LinksOK'
    BY <1>1, LinksStay DEF SettledInv
  <2>4. ASSUME undisturbed >= 1
        PROVE  FileLinks' /\ TouchedView'
    <3>1. \A l \in links : OfFiles(l)
      BY <1>1, <2>1, <2>4 DEF FileLinks, Busy, EtymologyPhases
    <3>2. FileLinks'
      BY <1>1, <3>1, ViewsStay DEF FileLinks
    <3>3. KeptLogs' = KeptLogs
      BY <1>1, <2>2 DEF KeptLogs
    <3>4. CASE imp.phase \in EtymologyPhases /\ phase \in EtymologyPhases
      <4>1. \A k \in imp.touched : \E n \in notes : n.id = k /\ InFiles(n)
        BY <1>1, <2>4, <3>4 DEF TouchedView, BeforePlan
      <4>2. \A k \in imp'.touched : \E n \in notes' : n.id = k /\ InFiles(n)'
        BY <1>1, <2>2, <4>1, ViewsStay
      <4>3. QED
        BY <2>2, <3>2, <3>4, <4>2 DEF TouchedView, Planned, EtymologyPhases
    <3>5. CASE imp.phase = "logged" /\ phase = "dictionary"
      <4>1. /\ \A k \in imp.touched : \E n \in notes : n.id = k /\ IsAsked(n)
            /\ \A x \in KeptLogs \cup imp.rows : Hangs(x)
        BY <1>1, <2>4, <3>5 DEF TouchedView, Planned
      <4>2. /\ \A k \in imp'.touched : \E n \in notes' : n.id = k /\ IsAsked(n)'
            /\ \A x \in KeptLogs' \cup imp'.rows : Hangs(x)'
        BY <1>1, <2>2, <3>3, <4>1, ViewsStay
      <4>3. QED
        BY <2>2, <3>2, <3>5, <4>2 DEF TouchedView, BeforePlan, EtymologyPhases
    <3>6. QED
      BY <2>1, <3>4, <3>5
  <2>5. imp'.phase # "done"
    BY <2>1, <2>2 DEF EtymologyPhases
  <2>6. QED
    BY <1>1, <2>3, <2>4, <2>5, Proceeds
<1>4. QED
  BY <1>2, <1>3

LEMMA ReadSettles ==
    ASSUME SettledInv, AnswersInv', ReadRows
    PROVE  SettledInv'
<1>1. /\ UNCHANGED <<defs, history, notes, links, undisturbed>> /\ imp.phase = "heads" /\ IsImporter(imp)
      /\ undisturbed >= 1 => FileLinks /\ TouchedView
  BY DEF ReadRows, sources, database, SettledInv, AnswersInv, MirrorInv
<1>2. imp'.phase = "rows" /\ imp'.touched = imp.touched
  BY <1>1 DEF ReadRows, IsImporter
<1>3. LinksOK'
  BY <1>1, LinksStay DEF SettledInv
<1>4. ASSUME undisturbed >= 1
      PROVE  FileLinks' /\ TouchedView'
  <2>1. /\ \A l \in links : OfFiles(l)
        /\ \A k \in imp.touched : \E n \in notes : n.id = k /\ InFiles(n)
    BY <1>1, <1>4 DEF FileLinks, Busy, TouchedView, BeforePlan, EtymologyPhases
  <2>2. /\ \A l \in links' : OfFiles(l)'
        /\ \A k \in imp'.touched : \E n \in notes' : n.id = k /\ InFiles(n)'
    BY <1>1, <1>2, <2>1, ViewsStay
  <2>3. QED
    BY <1>2, <2>2 DEF FileLinks, TouchedView, Planned
<1>5. QED
  BY <1>1, <1>2, <1>3, <1>4, Proceeds

LEMMA AutoSettles ==
    ASSUME SettledInv, AnswersInv', AutoNotes
    PROVE  SettledInv'
<1>1. /\ UNCHANGED <<defs, history, links, undisturbed>> /\ imp.phase = "rows" /\ IsImporter(imp)
      /\ undisturbed >= 1 => FileLinks /\ TouchedView
  BY DEF AutoNotes, sources, SettledInv, AnswersInv, MirrorInv
<1>2. \/ Refused /\ UNCHANGED <<notes, serial>>
      \/ /\ notes \subseteq notes'
         /\ \E records, seen : imp' = [imp EXCEPT !.phase = "resolved", !.records = records, !.seen = seen]
  BY DEF AutoNotes
<1>3. CASE Refused /\ UNCHANGED <<notes, serial>>
  BY <1>1, <1>3, StoppedSettles
<1>4. CASE /\ notes \subseteq notes'
           /\ \E records, seen : imp' = [imp EXCEPT !.phase = "resolved", !.records = records, !.seen = seen]
  <2>1. imp'.phase = "resolved" /\ imp'.touched = imp.touched
    BY <1>1, <1>4 DEF IsImporter
  <2>2. LinksOK'
    BY <1>1, <1>4, LinksStay DEF SettledInv
  <2>3. ASSUME undisturbed >= 1
        PROVE  FileLinks' /\ TouchedView'
    <3>1. /\ \A l \in links : OfFiles(l)
          /\ \A k \in imp.touched : \E n \in notes : n.id = k /\ InFiles(n)
      BY <1>1, <2>3 DEF FileLinks, Busy, TouchedView, BeforePlan
    <3>2. \A l \in links' : OfFiles(l)'
      BY <1>1, <1>4, <3>1 DEF OfFiles, NoteKey
    <3>3. \A k \in imp'.touched : \E n \in notes' : n.id = k /\ InFiles(n)'
      BY <1>1, <1>4, <2>1, <3>1 DEF InFiles, NoteKey
    <3>4. QED
      BY <2>1, <3>2, <3>3 DEF FileLinks, TouchedView, Planned
  <2>4. QED
    BY <1>1, <2>1, <2>2, <2>3, Proceeds
<1>5. QED
  BY <1>2, <1>3, <1>4

\* A row that is kept is one of a note of its answer.
LEMMA KeptMatch ==
    ASSUME AnswersInv, Resolve, undisturbed >= 0, NEW l \in KeptLogs'
    PROVE  \E r \in imp.records : \E n \in Of(r) : Matches(l, n, r)
<1> DEFINE matching(r) == {k \in imp.seen.logs : \E n \in Of(r) : Matches(k, n, r)}
           choice(r) == CHOOSE k \in matching(r) : \A m \in matching(r) : k.id <= m.id
           found == {x \in imp.records : matching(x) # {}}
           popped == {choice(r).id : r \in found}
<1>1. UNCHANGED logs /\ imp.phase = "resolved" /\ IsImporter(imp) /\ LogsOK /\ imp.seen.logs = logs
  BY DEF Resolve, database, AnswersInv, AnswersView, RowsView, MirrorInv
<1>2. imp'.stale = {k.id : k \in imp.seen.logs} \ popped
  BY <1>1 DEF Resolve, IsImporter, Of
<1>3. ASSUME NEW r \in found
      PROVE  choice(r) \in matching(r)
  <2> DEFINE S == matching(r)
             ids == {k.id : k \in S}
  <2>1. S # {} /\ \A k \in S : k \in logs
    BY <1>1
  <2> HIDE DEF S
  <2>2. ids \in SUBSET Nat /\ ids # {}
    BY <1>1, <2>1 DEF LogsOK
  <2>3. PICK i \in ids : \A k \in ids : i <= k
    BY <2>2, LeastNumber
  <2>4. \E k \in S : \A m \in S : k.id <= m.id
    BY <2>3
  <2>5. QED
    BY <2>4 DEF S
<1>4. l \in logs /\ l.id \in popped
  BY <1>1, <1>2 DEF KeptLogs
<1>5. PICK r \in found : l.id = choice(r).id
  BY <1>4
<1>6. choice(r) \in logs
  BY <1>1, <1>3
<1>7. l = choice(r)
  <2> HIDE DEF choice, found
  <2>1. QED
    BY <1>1, <1>4, <1>5, <1>6 DEF LogsOK
<1>8. l \in matching(r)
  <2> HIDE DEF choice, found, matching
  <2>1. QED
    BY <1>3, <1>7
<1>9. r \in imp.records
  OBVIOUS
<1>10. QED
  BY <1>8, <1>9

LEMMA ResolveSettles ==
    ASSUME SettledInv, AnswersInv', Resolve
    PROVE  SettledInv'
<1> DEFINE matching(r) == {l \in imp.seen.logs : \E n \in Of(r) : Matches(l, n, r)}
           left == {x \in imp.records : matching(x) = {}}
           Rows(r) == {[note |-> n.id, nb |-> r.nb, at |-> r.at, status |-> r.status] : n \in Of(r)}
           touched == imp.touched \cup UNION {{n.id : n \in Of(r)} : r \in imp.records}
<1>1. /\ UNCHANGED <<defs, history, notes, links, undisturbed>> /\ imp.phase = "resolved" /\ IsImporter(imp)
      /\ AnswersInv /\ undisturbed \in Int
      /\ undisturbed >= 0 => RowsView /\ ResolvedView
      /\ undisturbed >= 1 => FileLinks /\ TouchedView
  BY DEF Resolve, sources, database, SettledInv, AnswersInv, AnswersView, MirrorInv
<1>2. /\ imp'.phase = "planned" /\ imp'.touched = touched
      /\ imp'.rows = UNION {Rows(r) : r \in left}
  BY <1>1 DEF Resolve, IsImporter, Of
<1>3. LinksOK'
  BY <1>1, LinksStay DEF SettledInv
<1>4. ASSUME undisturbed >= 1
      PROVE  FileLinks' /\ TouchedView'
  <2>1. /\ imp.seen.notes = notes /\ imp.seen.links = links
        /\ imp.records = {r \in history : r.nb \in LinkedNotebooks}
    BY <1>1, <1>4 DEF RowsView, ResolvedView
  <2>2. /\ \A l \in links : OfFiles(l)
        /\ \A k \in imp.touched : \E n \in notes : n.id = k /\ InFiles(n)
    BY <1>1, <1>4 DEF FileLinks, Busy, TouchedView, BeforePlan
  <2>3. Stored.notes = imp.seen.notes /\ Stored.links = imp.seen.links
    BY <2>1 DEF Stored
  <2>4. \A r : Of(r) = NotesOf(r)
    BY <2>3, LookupSame DEF Of, NotesOf
  <2>5. \A r : Of(r) \subseteq notes
    BY <2>1, FoundRows DEF Of
  <2>6. ASSUME NEW r \in imp.records, NEW n \in Of(r)
        PROVE  /\ n \in notes /\ IsAsked(n)
               /\ \A x : x.nb = r.nb /\ x.at = r.at /\ x.note = n.id => Hangs(x)
    <3>1. r \in history /\ r.nb \in LinkedNotebooks /\ n \in NotesOf(r) /\ n \in notes
      BY <2>1, <2>4, <2>5
    <3>2. QED
      BY <3>1 DEF IsAsked, Hangs
  <2>7. ASSUME NEW k \in touched
        PROVE  \E n \in notes : n.id = k /\ IsAsked(n)
    <3>1. CASE k \in imp.touched
      BY <2>2, <3>1 DEF IsAsked
    <3>2. CASE k \notin imp.touched
      <4>1. PICK r \in imp.records : k \in {n.id : n \in Of(r)}
        BY <3>2
      <4>2. PICK n \in Of(r) : k = n.id
        BY <4>1
      <4>3. QED
        BY <2>6, <4>2
    <3>3. QED
      BY <3>1, <3>2
  <2>8. ASSUME NEW x \in UNION {Rows(r) : r \in left}
        PROVE  Hangs(x)
    <3>1. PICK r \in left : x \in Rows(r)
      OBVIOUS
    <3>2. PICK n \in Of(r) : x = [note |-> n.id, nb |-> r.nb, at |-> r.at, status |-> r.status]
      BY <3>1
    <3>3. r \in imp.records
      OBVIOUS
    <3> HIDE DEF Rows, left
    <3>4. QED
      BY <2>6, <3>2, <3>3
  <2>9. ASSUME NEW l \in KeptLogs'
        PROVE  Hangs(l)
    <3>1. PICK r \in imp.records : \E n \in Of(r) : Matches(l, n, r)
      BY <1>1, <1>4, KeptMatch
    <3>2. PICK n \in Of(r) : Matches(l, n, r)
      BY <3>1
    <3>3. QED
      BY <2>6, <3>2 DEF Matches
  <2> HIDE DEF touched, Rows, left
  <2>10. /\ \A k \in imp'.touched : \E n \in notes' : n.id = k /\ IsAsked(n)'
         /\ \A x \in KeptLogs' \cup imp'.rows : Hangs(x)'
    BY <1>1, <1>2, <2>7, <2>8, <2>9, ViewsStay
  <2>11. \A l \in links' : OfFiles(l)'
    BY <1>1, <2>2, ViewsStay
  <2>12. QED
    BY <1>2, <2>10, <2>11 DEF FileLinks, TouchedView, BeforePlan, EtymologyPhases
<1>5. QED
  BY <1>1, <1>2, <1>3, <1>4, Proceeds

LEMMA InsertSettles ==
    ASSUME SettledInv, AnswersInv', InsertLogs
    PROVE  SettledInv'
<1> DEFINE s == SetToSeq(imp.rows)
           Row(i) == [id |-> serial + i - 1, note |-> s[i].note, nb |-> s[i].nb,
                      at |-> s[i].at, status |-> s[i].status, filed |-> TRUE]
           made == {Row(i) : i \in DOMAIN s}
<1>1. /\ UNCHANGED <<defs, history, notes, links, undisturbed>> /\ imp.phase = "planned" /\ IsImporter(imp)
      /\ FilesOK
      /\ undisturbed >= 1 => FileLinks /\ TouchedView
  BY DEF InsertLogs, sources, SettledInv, AnswersInv, MirrorInv
<1>2. \/ Aborts
      \/ logs' = logs \cup made /\ imp' = [imp EXCEPT !.phase = "inserted", !.rows = {}]
  BY DEF InsertLogs
<1>3. CASE Aborts
  BY <1>1, <1>3, StoppedSettles
<1>4. CASE logs' = logs \cup made /\ imp' = [imp EXCEPT !.phase = "inserted", !.rows = {}]
  <2>1. \A i \in DOMAIN s : s[i] \in imp.rows
    <3>1. IsFiniteSet(imp.rows)
      BY <1>1 DEF FilesOK, BatchesOK
    <3>2. s \in [1..Cardinality(imp.rows) -> imp.rows]
      BY <3>1, SetToSeqLists
    <3> HIDE DEF s
    <3>3. QED
      BY <3>2
  <2> HIDE DEF s
  <2>2. ASSUME NEW l \in made
        PROVE  \E x \in imp.rows : l.note = x.note /\ l.nb = x.nb /\ l.at = x.at
    <3>1. PICK i \in DOMAIN s : l = Row(i)
      OBVIOUS
    <3>2. l.note = s[i].note /\ l.nb = s[i].nb /\ l.at = s[i].at
      BY <3>1
    <3>3. QED
      BY <2>1, <3>2
  <2> HIDE DEF made
  <2>3. /\ imp'.phase = "inserted" /\ imp'.rows = {} /\ imp'.touched = imp.touched
        /\ imp'.stale = imp.stale
    BY <1>1, <1>4 DEF IsImporter
  <2>4. LinksOK'
    BY <1>1, LinksStay DEF SettledInv
  <2>5. ASSUME undisturbed >= 1
        PROVE  FileLinks' /\ TouchedView'
    <3>1. /\ \A l \in links : OfFiles(l)
          /\ \A k \in imp.touched : \E n \in notes : n.id = k /\ IsAsked(n)
          /\ \A x \in KeptLogs \cup imp.rows : Hangs(x)
      BY <1>1, <2>5 DEF FileLinks, Busy, TouchedView, Planned
    <3>2. KeptLogs' \subseteq KeptLogs \cup made
      BY <1>4, <2>3 DEF KeptLogs
    <3>3. \A l \in made : Hangs(l)
      BY <2>2, <3>1 DEF Hangs
    <3>4. /\ \A k \in imp'.touched : \E n \in notes' : n.id = k /\ IsAsked(n)'
          /\ \A x \in KeptLogs' \cup imp'.rows : Hangs(x)'
          /\ \A l \in links' : OfFiles(l)'
      BY <1>1, <2>3, <3>1, <3>2, <3>3, ViewsStay
    <3>5. QED
      BY <2>3, <3>4 DEF FileLinks, TouchedView, BeforePlan, EtymologyPhases
  <2>6. QED
    BY <1>1, <2>3, <2>4, <2>5, Proceeds
<1>5. QED
  BY <1>2, <1>3, <1>4

LEMMA DeleteSettles ==
    ASSUME SettledInv, AnswersInv', DeleteLeftovers
    PROVE  SettledInv'
<1>1. /\ UNCHANGED <<defs, history, notes, links, undisturbed>> /\ imp.phase = "inserted" /\ IsImporter(imp)
      /\ undisturbed >= 1 => FileLinks /\ TouchedView
  BY DEF DeleteLeftovers, sources, SettledInv, AnswersInv, MirrorInv
<1>2. /\ logs' = KeptLogs
      /\ imp'.phase = "logged" /\ imp'.touched = imp.touched /\ imp'.rows = imp.rows
  BY <1>1 DEF DeleteLeftovers, KeptLogs, IsImporter
<1>3. LinksOK'
  BY <1>1, LinksStay DEF SettledInv
<1>4. ASSUME undisturbed >= 1
      PROVE  FileLinks' /\ TouchedView'
  <2>1. /\ \A l \in links : OfFiles(l)
        /\ \A k \in imp.touched : \E n \in notes : n.id = k /\ IsAsked(n)
        /\ \A x \in KeptLogs \cup imp.rows : Hangs(x)
    BY <1>1, <1>4 DEF FileLinks, Busy, TouchedView, Planned
  <2>2. KeptLogs' \subseteq KeptLogs
    BY <1>2 DEF KeptLogs
  <2>3. /\ \A k \in imp'.touched : \E n \in notes' : n.id = k /\ IsAsked(n)'
        /\ \A x \in KeptLogs' \cup imp'.rows : Hangs(x)'
        /\ \A l \in links' : OfFiles(l)'
    BY <1>1, <1>2, <2>1, <2>2, ViewsStay
  <2>4. QED
    BY <1>2, <2>3 DEF FileLinks, TouchedView, BeforePlan, EtymologyPhases
<1>5. QED
  BY <1>1, <1>2, <1>3, <1>4, Proceeds

\* The links are those of the files already: the reconciliation drops none.
LEMMA StaleLinksSettles ==
    ASSUME SettledInv, AnswersInv', StaleLinks
    PROVE  SettledInv'
<1>1. /\ UNCHANGED <<defs, history, notes, logs, undisturbed>> /\ imp.phase = "dictionary" /\ IsImporter(imp)
      /\ RowsOK /\ LinksOK /\ undisturbed \in Int
      /\ undisturbed >= 0 => NotedView /\ PlannedView
      /\ undisturbed >= 1 => FileLinks /\ TouchedView
  BY DEF StaleLinks, sources, SettledInv, AnswersInv, AnswersView, MirrorInv, ImportInv
<1>2. /\ links' = {l \in links : l.note \in imp.touched => l \in imp.claimed}
      /\ imp'.phase = "linked" /\ imp'.stale = NoteIds \ imp.touched
  BY <1>1 DEF StaleLinks, IsImporter
<1>3. LinksOK'
  BY <1>1, <1>2, LinksStay
<1>4. ASSUME undisturbed >= 1
      PROVE  FileLinks' /\ TouchedView'
  <2>1. /\ \A l \in links : OfFiles(l)
        /\ \A k \in imp.touched : \E n \in notes : n.id = k /\ IsAsked(n)
        /\ \A x \in KeptLogs \cup imp.rows : Hangs(x)
    BY <1>1, <1>4 DEF FileLinks, Busy, TouchedView, Planned
  <2>2. \A d \in defs : IsClaimed(d)
    BY <1>1, <1>4 DEF NotedView, AfterNotes
  <2>3. KeptLogs = logs
    BY <1>1, <1>4 DEF PlannedView, Planned, KeptLogs
  <2>4. ASSUME NEW l \in links
        PROVE  l \in imp.claimed
    <3>1. PICK n \in notes, d \in defs : l.note = n.id /\ NoteKey(n) = NoteKey(d) /\ l.place = d.place
      BY <2>1 DEF OfFiles
    <3>2. PICK m \in notes : /\ NoteKey(m) = NoteKey(d)
                             /\ [note |-> m.id, place |-> d.place] \in imp.claimed
      BY <2>2 DEF IsClaimed
    <3>3. m.word = n.word
      BY <3>1, <3>2 DEF NoteKey
    <3>4. m = n
      BY <1>1, <3>3 DEF RowsOK, Collides
    <3>5. l = [note |-> n.id, place |-> d.place]
      BY <1>1, <3>1 DEF LinksOK
    <3>6. QED
      BY <3>2, <3>4, <3>5
  <2>5. links' = links
    BY <1>2, <2>4
  <2>6. ASSUME NEW n \in notes, n.id \notin imp'.stale
        PROVE  IsAsked(n)
    <3>1. n.id \in imp.touched
      BY <1>2, <2>6 DEF NoteIds
    <3>2. PICK m \in notes : m.id = n.id /\ IsAsked(m)
      BY <2>1, <3>1
    <3>3. m = n
      BY <1>1, <3>2 DEF RowsOK
    <3>4. QED
      BY <3>2, <3>3
  <2>7. /\ \A n \in notes' : n.id \notin imp'.stale => IsAsked(n)'
        /\ \A l \in logs' : Hangs(l)'
        /\ \A l \in links' : OfFiles(l)'
    BY <1>1, <2>1, <2>3, <2>5, <2>6, ViewsStay
  <2>8. QED
    BY <1>2, <2>7 DEF FileLinks, TouchedView, BeforePlan, Planned, EtymologyPhases
<1>5. QED
  BY <1>1, <1>2, <1>3, <1>4, Proceeds

LEMMA StaleNotesSettles ==
    ASSUME SettledInv, AnswersInv', StaleNotes
    PROVE  SettledInv'
<1>1. /\ UNCHANGED <<defs, history>> /\ imp.phase = "linked"
      /\ RowsOK /\ LinksOK /\ undisturbed \in Int
      /\ undisturbed >= 0 => LinkedView /\ ReconciledView
      /\ undisturbed >= 1 => FileLinks /\ TouchedView
  BY DEF StaleNotes, sources, SettledInv, AnswersInv, AnswersView, MirrorInv, ImportInv
<1>2. /\ notes' = {n \in notes : n.id \notin imp.stale}
      /\ links' = {l \in links : l.note \notin imp.stale}
      /\ logs' = {l \in logs : l.note \notin imp.stale}
      /\ imp'.phase = "done"
      /\ undisturbed' = undisturbed + 1
  BY DEF StaleNotes, Idle
<1>3. LinksOK'
  BY <1>1, <1>2 DEF LinksOK, NoteIds
<1>4. ASSUME undisturbed >= 0
      PROVE  FileLinks'
  <2>1. ASSUME NEW l \in links'
        PROVE  OfFiles(l)'
    <3>1. PICK n \in notes : n.id = l.note
      BY <1>1, <1>2 DEF LinksOK, NoteIds
    <3>2. n \in notes' /\ n.id \notin imp.stale
      BY <1>2, <3>1
    <3>3. PICK d \in defs : NoteKey(n) = NoteKey(d) /\ l.place = d.place
      BY <1>1, <1>2, <1>4, <3>1, <3>2 DEF LinkedView
    <3>4. QED
      BY <1>1, <3>1, <3>2, <3>3 DEF OfFiles, NoteKey
  <2>2. QED
    BY <2>1 DEF FileLinks
<1>5. TouchedView'
  BY <1>2 DEF TouchedView, BeforePlan, Planned, EtymologyPhases
<1>6. ASSUME undisturbed >= 1
      PROVE  TwoImportsSettle'
  <2>1. /\ \A l \in links : OfFiles(l)
        /\ \A n \in notes : n.id \notin imp.stale => IsAsked(n)
        /\ \A l \in logs : Hangs(l)
    BY <1>1, <1>6 DEF FileLinks, Busy, TouchedView
  <2>2. /\ \A d \in defs : \E n \in notes : NoteKey(n) = NoteKey(d) /\ n.id \notin imp.stale
        /\ \A l \in logs : l.note \notin imp.stale
    <3>1. LinkedView /\ ReconciledView
      BY <1>1, <1>6
    <3>2. \A d \in defs : \E n \in notes : NoteKey(n) = NoteKey(d) /\ n.id \notin imp.stale
      BY <1>1, <3>1, Zenon DEF LinkedView
    <3>3. QED
      BY <1>1, <3>1, <3>2 DEF ReconciledView
  <2>3. ASSUME NEW l \in links
        PROVE  l.note \notin imp.stale
    <3>1. PICK n \in notes, d \in defs : l.note = n.id /\ NoteKey(n) = NoteKey(d)
      BY <2>1 DEF OfFiles
    <3>2. PICK m \in notes : NoteKey(m) = NoteKey(d) /\ m.id \notin imp.stale
      BY <2>2
    <3>3. m.word = n.word
      BY <3>1, <3>2 DEF NoteKey
    <3>4. m = n
      BY <1>1, <3>3 DEF RowsOK, Collides
    <3>5. QED
      BY <3>1, <3>2, <3>4
  <2>4. links' = links /\ logs' = logs
    BY <1>2, <2>2, <2>3
  <2>5. LinkedNotebooks' = LinkedNotebooks
    BY <2>4 DEF LinkedNotebooks
  <2>6. ASSUME NEW r, NEW n \in NotesOf(r), n \in notes'
        PROVE  n \in NotesOf(r)'
    <3>1. Stored'.notes = notes' /\ Stored'.links = links' /\ Stored.notes = notes /\ Stored.links = links
      BY DEF Stored
    <3>2. Stored'.notes \subseteq Stored.notes /\ Stored'.links = Stored.links /\ n \in Stored'.notes
      BY <1>2, <2>4, <2>6, <3>1
    <3>3. n \in Lookup(Stored, r.sense, r.entry, r.nb)
      BY DEF NotesOf
    <3>4. n \in Lookup(Stored', r.sense, r.entry, r.nb)
      BY <3>2, <3>3, LookupShrinks
    <3>5. QED
      BY <3>4 DEF NotesOf, Lookup
  <2>7. ASSUME NEW n \in notes'
        PROVE  \/ \E d \in defs : NoteKey(n) = NoteKey(d)
               \/ \E r \in history : n \in NotesOf(r)'
    <3>1. n \in notes /\ IsAsked(n)
      BY <1>2, <2>1
    <3>2. QED
      BY <2>6, <3>1 DEF IsAsked, InFiles
  <2>8. ASSUME NEW l \in logs'
        PROVE  \E r \in history : /\ l.nb = r.nb /\ l.at = r.at /\ l.nb \in LinkedNotebooks'
                                  /\ \E n \in NotesOf(r)' : l.note = n.id
    <3>1. PICK r \in history : /\ l.nb = r.nb /\ l.at = r.at /\ l.nb \in LinkedNotebooks
                               /\ \E n \in NotesOf(r) : l.note = n.id
      BY <1>2, <2>1 DEF Hangs
    <3>2. PICK n \in NotesOf(r) : l.note = n.id
      BY <3>1
    <3>3. n \in notes
      BY <3>2, FoundRows DEF NotesOf, Stored
    <3>4. n \in notes'
      BY <1>2, <3>2, <3>3
    <3>5. n \in NotesOf(r)'
      BY <2>6, <3>4
    <3>6. QED
      BY <2>5, <3>1, <3>2, <3>5
  <2>9. QED
    BY <1>1, <2>7, <2>8 DEF TwoImportsSettle, NoteKey
<1>7. undisturbed < 1 => TwoImportsSettle'
  BY <1>1, <1>2 DEF TwoImportsSettle, Completed
<1>8. undisturbed' >= 1 => FileLinks' /\ TouchedView'
  BY <1>1, <1>2, <1>4, <1>5
<1>9. QED
  BY <1>1, <1>3, <1>6, <1>7, <1>8 DEF SettledInv

LEMMA SettledInit == Init => SettledInv
<1> SUFFICES ASSUME Init
             PROVE  SettledInv
  OBVIOUS
<1>1. AnswersInv
  BY AnswersInit
<1>2. LinksOK /\ undisturbed = 0
  BY DEF Init, LinksOK
<1>3. TwoImportsSettle
  BY <1>2 DEF TwoImportsSettle, Completed
<1>4. QED
  BY <1>1, <1>2, <1>3 DEF SettledInv

LEMMA SettledStep == SettledInv /\ [Next]_vars => SettledInv'
<1> SUFFICES ASSUME SettledInv, [Next]_vars
             PROVE  SettledInv'
  OBVIOUS
<1>1. AnswersInv'
  BY AnswersStep DEF SettledInv
<1>2. CASE \/ \E d \in defs, status \in Statuses : Answer(d, status)
           \/ \E r \in history : Override(r)
           \/ Edit
           \/ \E w \in Words, p \in Places : Register(w, p)
           \/ \E w \in Words, nb \in {NotebookOf[p] : p \in Places} : Unregister(w, nb)
  BY <1>1, <1>2, WritersSettle
<1>3. CASE (\E update \in BOOLEAN : ImportDB(update)) \/ SyncDB
  BY <1>1, <1>3, BeginSettles DEF ImportDB, SyncDB
<1>4. CASE Importer
  <2>1. CASE Dies
    BY <1>1, <2>1, StoppedSettles DEF Dies, sources, database
  <2>2. CASE \/ OriginsPhase \/ FormsPhase \/ PartsPhase \/ ConceptsPhase \/ RelationsPhase \/ HeadsPhase
             \/ DictionaryPhase
    BY <1>1, <2>2, EtymologySteps, EtymologySettles DEF SettledInv, AnswersInv, MirrorInv
  <2>3. QED
    BY <1>1, <1>4, <2>1, <2>2, CreateSettles, UpdateSettles, ReadSettles, AutoSettles, ResolveSettles,
       InsertSettles, DeleteSettles, StaleLinksSettles, StaleNotesSettles DEF Importer
<1>5. CASE UNCHANGED vars
  <2>1. UNCHANGED <<defs, history, notes, links, logs, imp, undisturbed>>
    BY <1>5 DEF vars, sources, database
  <2>2. LinksOK'
    BY <2>1, LinksStay DEF SettledInv
  <2>3. KeptLogs' = KeptLogs /\ LinkedNotebooks' = LinkedNotebooks
    BY <2>1 DEF KeptLogs, LinkedNotebooks
  <2>4. undisturbed >= 1 => FileLinks' /\ TouchedView'
    BY <2>1, <2>3, ViewsStay DEF SettledInv, FileLinks, TouchedView, Busy
  <2>5. \A r : NotesOf(r)' = NotesOf(r)
    BY <2>1 DEF NotesOf, Stored
  <2>6. TwoImportsSettle'
    BY <2>1, <2>3, <2>5 DEF SettledInv, TwoImportsSettle, Completed, NoteKey
  <2>7. QED
    BY <1>1, <2>1, <2>2, <2>4, <2>6 DEF SettledInv
<1>6. QED
  BY <1>2, <1>3, <1>4, <1>5 DEF Next

\* Two imports one after the other, while nobody else writes, leave no note but those of
\* the files and of the answers, and every row on the note of its answer in a notebook the
\* files link it to (Importer.ImportNotes, ImportLearningLogs, reconcileNotes), whatever
\* links and rows earlier imports and the server left.
THEOREM TwoImportsAreEnough == Spec => []TwoImportsSettle
<1>1. SettledInv => TwoImportsSettle
  BY DEF SettledInv
<1>2. QED
  BY <1>1, SettledInit, SettledStep, PTL DEF Spec

-----------------------------------------------------------------------------
(* The etymology *)

IsTables(t) ==
    t = [origins |-> t.origins, forms |-> t.forms, parts |-> t.parts, concepts |-> t.concepts,
         members |-> t.members, related |-> t.related, heads |-> t.heads, variants |-> t.variants,
         dictionary |-> t.dictionary]

IsPart(p) == p = [word |-> p.word, nth |-> p.nth, origin |-> p.origin, form |-> p.form]

\* No row names a row that is not there.
FormsRooted(t) == \A f \in t.forms : f.origin \in Keys(t.origins)
PartsRooted(t) ==
    \A p \in t.parts : /\ IsPart(p)
                       /\ p.origin \in Keys(t.origins)
                       /\ p.form # Unpinned => \E f \in t.forms : f.origin = p.origin /\ f.form = p.form
MembersRooted(t) == \A m \in t.members : \E c \in t.concepts : SameKey(c, m)
HasConcept(t, book, key) == \E c \in t.concepts : c.book = book /\ c.key = key
RelatedRooted(t) ==
    \A r \in t.related : HasConcept(t, r.book, r.from) /\ HasConcept(t, r.book, r.to)
Rooted(t) == FormsRooted(t) /\ PartsRooted(t) /\ MembersRooted(t) /\ RelatedRooted(t)

-----------------------------------------------------------------------------
LEMMA OriginsImported ==
    ASSUME NEW t, IsTables(t), Rooted(t), NEW y, NEW i \in DOMAIN ImportOrigins(t, y),
           NEW u, u = ImportOrigins(t, y)[i]
    PROVE  /\ IsTables(u) /\ Rooted(u) /\ u.parts = t.parts
           /\ Keys(y.origins) \subseteq Keys(u.origins)
<1> DEFINE new == t.origins \cup {o \in y.origins : Key(o) \notin Keys(t.origins)}
<1>1. u = [t EXCEPT !.origins = new]
  BY DEF ImportOrigins
<1>2. /\ IsTables(u)
      /\ u.origins = new /\ u.forms = t.forms /\ u.parts = t.parts /\ u.concepts = t.concepts
      /\ u.members = t.members /\ u.related = t.related
  BY <1>1 DEF IsTables
<1>3. Keys(t.origins) \subseteq Keys(new) /\ Keys(y.origins) \subseteq Keys(new)
  BY DEF Keys
<1> HIDE DEF new
<1>4. FormsRooted(u) /\ PartsRooted(u)
  BY <1>2, <1>3 DEF Rooted, FormsRooted, PartsRooted
<1>5. MembersRooted(u) /\ RelatedRooted(u)
  BY <1>2 DEF Rooted, MembersRooted, RelatedRooted, HasConcept
<1>6. QED
  BY <1>2, <1>3, <1>4, <1>5 DEF Rooted

\* A row keeps its origin and its form when its note is updated.
SameForm(a, b) == a.origin = b.origin /\ a.form = b.form

Declared(t, y) ==
    {[origin |-> Key(f), form |-> f.form, note |-> f.note] : f \in {g \in y.forms : Key(g) \in Keys(t.origins)}}
InsertedForms(t, y) == t.forms \cup {d \in Declared(t, y) : \A r \in t.forms : ~SameForm(r, d)}
UpdatedForms(t, y) ==
    {IF \E d \in Declared(t, y) : SameForm(r, d)
     THEN CHOOSE d \in Declared(t, y) : SameForm(r, d) ELSE r : r \in InsertedForms(t, y)}
StaleForms(t, y) ==
    {r \in UpdatedForms(t, y) : /\ \E d \in Declared(t, y) : d.origin = r.origin
                                /\ \A d \in Declared(t, y) : ~SameForm(r, d)}

LEMMA FormsSteps ==
    ASSUME NEW t, NEW y
    PROVE  ImportForms(t, y) =
             <<[t EXCEPT !.forms = InsertedForms(t, y)], [t EXCEPT !.forms = UpdatedForms(t, y)],
               [t EXCEPT !.forms = UpdatedForms(t, y) \ StaleForms(t, y),
                         !.parts = UnpinnedFrom(@, StaleForms(t, y))]>>
BY DEF ImportForms, Declared, InsertedForms, UpdatedForms, StaleForms, SameForm

LEMMA FormRows ==
    ASSUME NEW t, NEW y
    PROVE  /\ \A d \in Declared(t, y) : /\ d.origin \in Keys(t.origins)
                                        /\ \E f \in y.forms : d.origin = Key(f) /\ d.form = f.form /\ d.note = f.note
           /\ \A r \in InsertedForms(t, y) : r \in t.forms \/ r \in Declared(t, y)
           /\ \A r \in UpdatedForms(t, y) : \/ r \in Declared(t, y)
                                            \/ r \in t.forms /\ \A d \in Declared(t, y) : ~SameForm(r, d)
           /\ \A r \in InsertedForms(t, y) : \E s \in UpdatedForms(t, y) : SameForm(r, s)
           /\ \A d \in Declared(t, y) : \E r \in UpdatedForms(t, y) : SameForm(d, r)
<1> DEFINE D == Declared(t, y)
           New(r) == IF \E d \in D : SameForm(r, d) THEN CHOOSE d \in D : SameForm(r, d) ELSE r
<1>1. \A d \in D : /\ d.origin \in Keys(t.origins)
                   /\ \E f \in y.forms : d.origin = Key(f) /\ d.form = f.form /\ d.note = f.note
  BY DEF Declared
<1>2. InsertedForms(t, y) = t.forms \cup {d \in D : \A r \in t.forms : ~SameForm(r, d)}
  BY DEF InsertedForms
<1>3. UpdatedForms(t, y) = {New(r) : r \in InsertedForms(t, y)}
  BY DEF UpdatedForms
<1> HIDE DEF D
<1>4. ASSUME NEW r
      PROVE  /\ SameForm(r, New(r))
             /\ New(r) \in D \/ (New(r) = r /\ \A d \in D : ~SameForm(r, d))
  <2>1. CASE \E d \in D : SameForm(r, d)
    BY <2>1
  <2>2. CASE ~\E d \in D : SameForm(r, d)
    BY <2>2 DEF SameForm
  <2>3. QED
    BY <2>1, <2>2
<1> HIDE DEF New
<1>5. \A r \in InsertedForms(t, y) : r \in t.forms \/ r \in D
  BY <1>2
<1>6. \A r \in UpdatedForms(t, y) : r \in D \/ (r \in t.forms /\ \A d \in D : ~SameForm(r, d))
  BY <1>3, <1>4, <1>5 DEF SameForm
<1>7. \A r \in InsertedForms(t, y) : \E s \in UpdatedForms(t, y) : SameForm(r, s)
  BY <1>3, <1>4
<1>8. ASSUME NEW d \in D
      PROVE  \E r \in UpdatedForms(t, y) : SameForm(d, r)
  <2>1. PICK r \in InsertedForms(t, y) : SameForm(r, d)
    BY <1>2 DEF SameForm
  <2>2. QED
    BY <1>7, <2>1 DEF SameForm
<1>9. QED
  BY <1>1, <1>5, <1>6, <1>7, <1>8 DEF D

LEMMA FormsImported ==
    ASSUME NEW t, IsTables(t), Rooted(t), NEW y, NEW i \in DOMAIN ImportForms(t, y),
           NEW u, u = ImportForms(t, y)[i]
    PROVE  /\ IsTables(u) /\ Rooted(u) /\ u.origins = t.origins
           /\ \A p \in u.parts : \E q \in t.parts : p.word = q.word
           /\ i = 3 /\ Keys(y.origins) \subseteq Keys(t.origins) /\ (\A f \in y.forms : Key(f) \in Keys(y.origins))
                => FormsMirrored(u, y)
<1> DEFINE D == Declared(t, y)
           I == InsertedForms(t, y)
           U == UpdatedForms(t, y)
           X == StaleForms(t, y)
           P == UnpinnedFrom(t.parts, X)
<1>1. i \in 1..3 /\ ImportForms(t, y) = <<[t EXCEPT !.forms = I], [t EXCEPT !.forms = U],
                                          [t EXCEPT !.forms = U \ X, !.parts = UnpinnedFrom(@, X)]>>
  <2>1. ImportForms(t, y) = <<[t EXCEPT !.forms = I], [t EXCEPT !.forms = U],
                              [t EXCEPT !.forms = U \ X, !.parts = UnpinnedFrom(@, X)]>>
    BY FormsSteps
  <2> HIDE DEF I, U, X
  <2>2. QED
    BY <2>1
<1>2. \/ i = 1 /\ u = [t EXCEPT !.forms = I]
      \/ i = 2 /\ u = [t EXCEPT !.forms = U]
      \/ i = 3 /\ u = [t EXCEPT !.forms = U \ X, !.parts = P]
  <2> HIDE DEF I, U, X
  <2>1. QED
    BY <1>1
<1>3. /\ \A d \in D : /\ d.origin \in Keys(t.origins)
                      /\ \E f \in y.forms : d.origin = Key(f) /\ d.form = f.form /\ d.note = f.note
      /\ \A r \in I : r \in t.forms \/ r \in D
      /\ \A r \in U : r \in D \/ (r \in t.forms /\ \A d \in D : ~SameForm(r, d))
      /\ \A r \in I : \E s \in U : SameForm(r, s)
      /\ \A d \in D : \E r \in U : SameForm(d, r)
  BY FormRows
<1>4. t.forms \subseteq I
  BY DEF InsertedForms
<1>5. X = {r \in U : (\E d \in D : d.origin = r.origin) /\ \A d \in D : ~SameForm(r, d)}
  BY DEF StaleForms
<1>6. \A p \in P : \E q \in t.parts : p = q \/ p = [q EXCEPT !.form = Unpinned]
  BY DEF UnpinnedFrom
<1>7. \A p \in P : p.form # Unpinned => p \in t.parts /\ ~\E r \in X : r.origin = p.origin /\ r.form = p.form
  <2> SUFFICES ASSUME NEW p \in P, p.form # Unpinned
               PROVE  p \in t.parts /\ ~\E r \in X : r.origin = p.origin /\ r.form = p.form
    OBVIOUS
  <2>1. PICK q \in t.parts : p = IF \E r \in X : r.origin = q.origin /\ r.form = q.form
                                 THEN [q EXCEPT !.form = Unpinned] ELSE q
    BY DEF UnpinnedFrom
  <2>2. IsPart(q)
    BY DEF Rooted, PartsRooted
  <2>3. [q EXCEPT !.form = Unpinned].form = Unpinned
    BY <2>2 DEF IsPart
  <2> HIDE DEF X
  <2>4. QED
    BY <2>1, <2>3
<1>8. \A f \in y.forms : Key(f) \in Keys(t.origins) => \E d \in D : d.origin = Key(f) /\ d.form = f.form
  <2> SUFFICES ASSUME NEW f \in y.forms, Key(f) \in Keys(t.origins)
               PROVE  \E d \in D : d.origin = Key(f) /\ d.form = f.form
    OBVIOUS
  <2>1. [origin |-> Key(f), form |-> f.form, note |-> f.note] \in D
    BY DEF Declared
  <2> HIDE DEF D
  <2>2. QED
    BY <2>1
<1> HIDE DEF D, I, U, X, P
<1>9. /\ IsTables(u) /\ u.origins = t.origins /\ u.concepts = t.concepts
      /\ u.members = t.members /\ u.related = t.related
      /\ \/ i = 1 /\ u.forms = I /\ u.parts = t.parts
         \/ i = 2 /\ u.forms = U /\ u.parts = t.parts
         \/ i = 3 /\ u.forms = U \ X /\ u.parts = P
  BY <1>2 DEF IsTables
<1>10. \A r \in u.forms : r.origin \in Keys(t.origins)
  BY <1>3, <1>9 DEF Rooted, FormsRooted
<1>11. ASSUME NEW q \in t.parts
       PROVE  /\ IsPart(q) /\ q.origin \in Keys(t.origins)
              /\ q.form # Unpinned => /\ \E f \in I : f.origin = q.origin /\ f.form = q.form
                                      /\ \E f \in U : f.origin = q.origin /\ f.form = q.form
  BY <1>3, <1>4 DEF Rooted, PartsRooted, SameForm
<1>12. ASSUME NEW p \in P
       PROVE  /\ IsPart(p) /\ p.origin \in Keys(t.origins)
              /\ \E q \in t.parts : p.word = q.word
              /\ p.form # Unpinned => \E f \in U \ X : f.origin = p.origin /\ f.form = p.form
  <2>1. PICK q \in t.parts : p = q \/ p = [q EXCEPT !.form = Unpinned]
    BY <1>6
  <2>2. /\ IsPart(p) /\ p.origin = q.origin /\ p.word = q.word
    BY <1>11, <2>1 DEF IsPart
  <2>3. p.form # Unpinned => \E f \in U \ X : f.origin = p.origin /\ f.form = p.form
    BY <1>7, <1>11
  <2>4. QED
    BY <1>11, <2>2, <2>3
<1>13. Rooted(u)
  <2>1. FormsRooted(u)
    BY <1>9, <1>10 DEF FormsRooted
  <2>2. PartsRooted(u)
    BY <1>9, <1>11, <1>12 DEF PartsRooted
  <2>3. MembersRooted(u) /\ RelatedRooted(u)
    BY <1>9 DEF Rooted, MembersRooted, RelatedRooted, HasConcept
  <2>4. QED
    BY <2>1, <2>2, <2>3 DEF Rooted
<1>14. \A p \in u.parts : \E q \in t.parts : p.word = q.word
  BY <1>9, <1>12
<1>15. ASSUME i = 3, Keys(y.origins) \subseteq Keys(t.origins), \A f \in y.forms : Key(f) \in Keys(y.origins)
       PROVE  FormsMirrored(u, y)
  <2>1. u.forms = U \ X
    BY <1>9, <1>15
  <2>2. \A f \in y.forms : \E d \in D : d.origin = Key(f) /\ d.form = f.form
    BY <1>8, <1>15
  <2>3. ASSUME NEW f \in y.forms
        PROVE  \E r \in u.forms : r.origin = Key(f) /\ r.form = f.form
    <3>1. PICK d \in D : d.origin = Key(f) /\ d.form = f.form
      BY <2>2
    <3>2. PICK r \in U : SameForm(d, r)
      BY <1>3
    <3>3. r \notin X
      BY <1>5, <3>2 DEF SameForm
    <3>4. QED
      BY <2>1, <3>1, <3>2, <3>3 DEF SameForm
  <2>4. ASSUME NEW f \in y.forms, NEW r \in u.forms, r.origin = Key(f)
        PROVE  \E g \in y.forms : Key(g) = Key(f) /\ g.form = r.form /\ g.note = r.note
    <3>1. PICK d \in D : d.origin = r.origin
      BY <2>2, <2>4
    <3>2. r \in U /\ r \notin X
      BY <2>1
    <3>3. PICK e \in D : SameForm(r, e)
      BY <1>5, <3>1, <3>2
    <3>4. r \in D
      BY <1>3, <3>2, <3>3
    <3>5. QED
      BY <1>3, <2>4, <3>4
  <2>5. QED
    BY <1>9, <1>15, <2>3, <2>4 DEF FormsMirrored
<1>16. QED
  BY <1>9, <1>13, <1>14, <1>15

LEMMA PartsImported ==
    ASSUME NEW t, IsTables(t), Rooted(t), NEW y, NEW noted, NEW u, u = ImportParts(t, y, noted)[1]
    PROVE  /\ Len(ImportParts(t, y, noted)) = 1 /\ DOMAIN ImportParts(t, y, noted) = {1}
           /\ IsTables(u) /\ Rooted(u) /\ u.origins = t.origins /\ u.forms = t.forms
           /\ \A p \in u.parts : \/ \E q \in t.parts : p.word = q.word
                                 \/ \E d \in y.parts : p.word \in noted[d.name]
<1> DEFINE Found(b) == Resolved(t, b.session, b.ref)
           bound == UNION {{[word |-> w, nth |-> n, session |-> d.session, ref |-> d.refs[n]] :
                               w \in noted[d.name], n \in DOMAIN d.refs} : d \in y.parts}
           fresh == {b \in bound : /\ Found(b) # {}
                                   /\ \A p \in t.parts : ~(p.word = b.word /\ p.nth = b.nth)}
           first == {CHOOSE b \in fresh : b.word = p.word /\ b.nth = p.nth : p \in fresh}
           Row(b) == LET o == Leading(Found(b))
                     IN  [word |-> b.word, nth |-> b.nth, origin |-> o,
                          form |-> IF \E f \in t.forms : f.origin = o /\ f.form = b.ref.form
                                   THEN b.ref.form ELSE Unpinned]
           new == {Row(b) : b \in first}
<1>1. /\ u = [t EXCEPT !.parts = @ \cup new]
      /\ Len(ImportParts(t, y, noted)) = 1 /\ DOMAIN ImportParts(t, y, noted) = {1}
  <2>1. ImportParts(t, y, noted) = <<[t EXCEPT !.parts = @ \cup new]>>
    BY DEF ImportParts
  <2> HIDE DEF new
  <2>2. QED
    BY <2>1
<1>2. \A b \in bound : \E d \in y.parts : b.word \in noted[d.name]
  OBVIOUS
<1>3. \A b \in fresh : b \in bound /\ Found(b) # {}
  OBVIOUS
<1> HIDE DEF bound, Found, fresh
<1>4. \A b \in first : b \in fresh
  OBVIOUS
<1>5. \A b : Found(b) \subseteq Keys(t.origins)
  BY DEF Found, Resolved
<1>6. \A b \in fresh : Leading(Found(b)) \in Keys(t.origins)
  BY <1>3, <1>5 DEF Leading
<1> HIDE DEF first
<1>7. ASSUME NEW b \in first
      PROVE  /\ IsPart(Row(b)) /\ Row(b).origin \in Keys(t.origins)
             /\ \E d \in y.parts : Row(b).word \in noted[d.name]
             /\ Row(b).form # Unpinned => \E f \in t.forms : f.origin = Row(b).origin /\ f.form = Row(b).form
  <2> DEFINE o == Leading(Found(b))
             k == IF \E f \in t.forms : f.origin = o /\ f.form = b.ref.form THEN b.ref.form ELSE Unpinned
  <2>1. Row(b) = [word |-> b.word, nth |-> b.nth, origin |-> o, form |-> k]
    OBVIOUS
  <2>2. k # Unpinned => \E f \in t.forms : f.origin = o /\ f.form = k
    OBVIOUS
  <2>3. o \in Keys(t.origins) /\ \E d \in y.parts : b.word \in noted[d.name]
    BY <1>2, <1>3, <1>4, <1>6
  <2> HIDE DEF o, k, Row
  <2>4. QED
    BY <2>1, <2>2, <2>3 DEF IsPart
<1> HIDE DEF Row
<1>8. /\ IsTables(u) /\ u.origins = t.origins /\ u.forms = t.forms /\ u.parts = t.parts \cup new
      /\ u.concepts = t.concepts /\ u.members = t.members /\ u.related = t.related
  <2> HIDE DEF new
  <2>1. QED
    BY <1>1 DEF IsTables
<1>9. \A p \in new : /\ IsPart(p) /\ p.origin \in Keys(t.origins)
                     /\ \E d \in y.parts : p.word \in noted[d.name]
                     /\ p.form # Unpinned => \E f \in t.forms : f.origin = p.origin /\ f.form = p.form
  BY <1>7
<1> HIDE DEF new
<1>10. Rooted(u)
  BY <1>8, <1>9 DEF Rooted, FormsRooted, PartsRooted, MembersRooted, RelatedRooted, HasConcept
<1>11. QED
  BY <1>1, <1>8, <1>9, <1>10

-----------------------------------------------------------------------------
LEMMA Reconciled ==
    ASSUME NEW concepts, NEW members, NEW book, NEW claimed, NEW wanted,
           \A d \in claimed : d.book = book,
           \A d, e \in claimed : SameKey(d, e) => d = e,
           \A w \in wanted : \E d \in claimed : SameKey(w, d),
           NEW i \in DOMAIN Reconcile(concepts, members, book, claimed, wanted),
           NEW s, s = Reconcile(concepts, members, book, claimed, wanted)[i]
    PROVE  /\ i \in 1..5
           /\ \A c : c.book # book => (c \in s.concepts <=> c \in concepts)
           /\ \A m : m.book # book /\ m \in s.members => m \in members
           /\ (\A m \in members : \E c \in concepts : SameKey(c, m)) =>
                 /\ \A m \in s.members : \E c \in s.concepts : SameKey(c, m)
                 /\ \A m : m.book # book /\ m \in members => m \in s.members
           /\ i = 5 => /\ {c \in s.concepts : c.book = book} = claimed
                       /\ \A m \in s.members : m.book = book => \E w \in wanted : SameMember(m, w)
                       /\ \A w \in wanted : \E m \in s.members : SameMember(m, w)
<1> DEFINE created == BatchCreateConcepts(concepts, claimed)
           updated == BatchUpdateConcepts(created, claimed)
           joined  == BatchCreateMembers(members, wanted)
           left    == BatchDeleteMembers(joined, claimed, wanted)
           final   == BatchDeleteConcepts(updated, book, claimed)
           kept    == {m \in left : \E c \in final : SameKey(c, m)}
           New(c)  == IF \E d \in claimed : SameKey(c, d) THEN CHOOSE d \in claimed : SameKey(c, d) ELSE c
<1>1. /\ i \in 1..5
      /\ \/ i = 1 /\ s = [concepts |-> created, members |-> members]
         \/ i = 2 /\ s = [concepts |-> updated, members |-> members]
         \/ i = 3 /\ s = [concepts |-> updated, members |-> joined]
         \/ i = 4 /\ s = [concepts |-> updated, members |-> left]
         \/ i = 5 /\ s = [concepts |-> final, members |-> kept]
  <2>1. Reconcile(concepts, members, book, claimed, wanted) =
          <<[concepts |-> created, members |-> members], [concepts |-> updated, members |-> members],
            [concepts |-> updated, members |-> joined], [concepts |-> updated, members |-> left],
            [concepts |-> final, members |-> kept]>>
    BY DEF Reconcile
  <2> HIDE DEF created, updated, joined, left, final, kept
  <2>2. QED
    BY <2>1
<1>2. /\ i = 1 => s.concepts = created /\ s.members = members
      /\ i = 2 => s.concepts = updated /\ s.members = members
      /\ i = 3 => s.concepts = updated /\ s.members = joined
      /\ i = 4 => s.concepts = updated /\ s.members = left
      /\ i = 5 => s.concepts = final /\ s.members = kept
  <2> HIDE DEF created, updated, joined, left, final, kept
  <2>1. QED
    BY <1>1
<1>3. created = concepts \cup {d \in claimed : \A c \in concepts : ~SameKey(c, d)}
  BY DEF BatchCreateConcepts
<1>4. updated = {New(c) : c \in created}
  BY DEF BatchUpdateConcepts
<1>5. joined = members \cup {w \in wanted : \A m \in members : ~SameMember(m, w)}
  BY DEF BatchCreateMembers
<1>6. left = {m \in joined : (\E d \in claimed : SameKey(m, d)) => \E w \in wanted : SameMember(m, w)}
  BY DEF BatchDeleteMembers
<1>7. final = {c \in updated : c.book # book \/ \E d \in claimed : SameKey(c, d)}
  BY DEF BatchDeleteConcepts
<1>8. ASSUME NEW c
      PROVE  /\ SameKey(c, New(c))
             /\ New(c) \in claimed \/ (New(c) = c /\ \A d \in claimed : ~SameKey(c, d))
             /\ \A d \in claimed : SameKey(c, d) => New(c) = d
             /\ c.book # book => New(c) = c
  <2>1. CASE \E d \in claimed : SameKey(c, d)
    <3>1. New(c) \in claimed /\ SameKey(c, New(c))
      BY <2>1
    <3> HIDE DEF New
    <3>2. c.book = book
      BY <3>1 DEF SameKey
    <3>3. \A d \in claimed : SameKey(c, d) => New(c) = d
      BY <3>1 DEF SameKey
    <3>4. QED
      BY <3>1, <3>2, <3>3
  <2>2. CASE ~\E d \in claimed : SameKey(c, d)
    BY <2>2 DEF SameKey
  <2>3. QED
    BY <2>1, <2>2
<1> HIDE DEF created, updated, joined, left, final, kept, New
\* The concepts of other books, and of this one.
<1>9. /\ \A c : c.book # book => /\ c \in created <=> c \in concepts
                                 /\ c \in updated <=> c \in concepts
                                 /\ c \in final <=> c \in concepts
  <2> SUFFICES ASSUME NEW c, c.book # book
               PROVE  /\ c \in created <=> c \in concepts
                      /\ c \in updated <=> c \in concepts
                      /\ c \in final <=> c \in concepts
    OBVIOUS
  <2>1. c \in created <=> c \in concepts
    BY <1>3
  <2>2. c \in created => c \in updated
    BY <1>4, <1>8
  <2>3. c \in updated => c \in created
    <3>1. SUFFICES ASSUME c \in updated
                   PROVE  c \in created
      OBVIOUS
    <3>2. PICK b \in created : c = New(b)
      BY <1>4, <3>1
    <3>3. New(b) = b
      BY <1>8, <3>2
    <3>4. QED
      BY <3>2, <3>3
  <2>4. c \in final <=> c \in updated
    BY <1>7
  <2>5. QED
    BY <2>1, <2>2, <2>3, <2>4
<1>10. {c \in final : c.book = book} = claimed
  <2>1. ASSUME NEW c \in final, c.book = book
        PROVE  c \in claimed
    <3>1. c \in updated /\ \E d \in claimed : SameKey(c, d)
      BY <1>7, <2>1
    <3>2. PICK b \in created : c = New(b)
      BY <1>4, <3>1
    <3>3. QED
      BY <1>8, <3>1, <3>2
  <2>2. ASSUME NEW d \in claimed
        PROVE  d \in final /\ d.book = book
    <3>1. PICK c \in created : SameKey(c, d)
      BY <1>3 DEF SameKey
    <3>2. New(c) = d
      BY <1>8, <3>1
    <3>3. d \in updated
      BY <1>4, <3>1, <3>2
    <3>4. SameKey(d, d)
      BY DEF SameKey
    <3>5. QED
      BY <1>7, <3>3, <3>4
  <2>3. QED
    BY <2>1, <2>2
\* Every key of a concept there was, or is claimed, is there until the last step.
<1>11. /\ \A c \in concepts : \E d \in created : SameKey(c, d)
       /\ \A c \in concepts : \E d \in updated : SameKey(c, d)
       /\ \A c \in claimed : \E d \in updated : SameKey(c, d)
  <2>1. \A c \in created : \E d \in updated : SameKey(c, d)
    BY <1>4, <1>8
  <2>2. \A c \in claimed : \E d \in created : SameKey(c, d)
    BY <1>3 DEF SameKey
  <2>3. QED
    BY <1>3, <2>1, <2>2 DEF SameKey
<1>12. \A m \in kept : m \in left /\ \E c \in final : SameKey(c, m)
  BY DEF kept
<1>13. \A m : m.book # book /\ m \in joined => m \in members
  BY <1>5 DEF SameKey
<1>14. \A m : m.book # book /\ m \in s.members => m \in members
  BY <1>1, <1>2, <1>6, <1>12, <1>13
<1>15. ASSUME \A m \in members : \E c \in concepts : SameKey(c, m)
       PROVE  /\ \A m \in s.members : \E c \in s.concepts : SameKey(c, m)
              /\ \A m : m.book # book /\ m \in members => m \in s.members
  <2>1. /\ \A m \in members : \E c \in created : SameKey(c, m)
        /\ \A m \in members : \E c \in updated : SameKey(c, m)
    BY <1>11, <1>15 DEF SameKey
  <2>2. \A m \in joined : \E c \in updated : SameKey(c, m)
    BY <1>5, <1>11, <2>1 DEF SameKey
  <2>3. \A m \in left : \E c \in updated : SameKey(c, m)
    BY <1>6, <2>2
  <2>4. \A m \in s.members : \E c \in s.concepts : SameKey(c, m)
    BY <1>1, <1>2, <1>12, <2>1, <2>2, <2>3
  <2>5. ASSUME NEW m \in members, m.book # book
        PROVE  m \in joined /\ m \in left /\ m \in kept
    <3>1. m \in joined
      BY <1>5
    <3>2. m \in left
      BY <1>6, <2>5, <3>1 DEF SameKey
    <3>3. PICK c \in concepts : SameKey(c, m)
      BY <1>15
    <3>4. c \in final
      BY <1>9, <2>5, <3>3 DEF SameKey
    <3>5. QED
      BY <3>1, <3>2, <3>3, <3>4 DEF kept
  <2>6. QED
    BY <1>1, <1>2, <2>4, <2>5
<1>16. \A m \in kept : m.book = book => \E w \in wanted : SameMember(m, w)
  <2> SUFFICES ASSUME NEW m \in kept, m.book = book
               PROVE  \E w \in wanted : SameMember(m, w)
    OBVIOUS
  <2>1. PICK c \in final : SameKey(c, m)
    BY <1>12
  <2>2. c \in claimed
    BY <1>10, <2>1 DEF SameKey
  <2>3. SameKey(m, c)
    BY <2>1 DEF SameKey
  <2>4. QED
    BY <1>6, <1>12, <2>2, <2>3
<1>17. \A w \in wanted : \E m \in kept : SameMember(m, w)
  <2> SUFFICES ASSUME NEW w \in wanted
               PROVE  \E m \in kept : SameMember(m, w)
    OBVIOUS
  <2>1. PICK m \in joined : SameMember(m, w)
    BY <1>5 DEF SameMember, SameKey
  <2>2. m \in left
    BY <1>6, <2>1
  <2>3. PICK d \in claimed : SameKey(w, d)
    OBVIOUS
  <2>4. d \in final /\ SameKey(d, m)
    BY <1>10, <2>1, <2>3 DEF SameKey, SameMember
  <2>5. QED
    BY <2>1, <2>2, <2>4 DEF kept
<1>18. \A c : c.book # book => (c \in s.concepts <=> c \in concepts)
  BY <1>1, <1>2, <1>9
<1>19. QED
  BY <1>1, <1>2, <1>10, <1>14, <1>15, <1>16, <1>17, <1>18

\* What the tables have of a book once the phase has done it.
ConceptsIn(t, y, b) ==
    /\ {c \in t.concepts : c.book = b} = Claimed(b, y.concepts)
    /\ \A m \in t.members : m.book = b => \E w \in MembersOf(t, b, y.concepts) : SameMember(m, w)
    /\ \A w \in MembersOf(t, b, y.concepts) : \E m \in t.members : SameMember(m, w)

ClaimedRelations(t, y, b) ==
    {[book |-> b, from |-> p[1], to |-> p[2]] :
        p \in UNION {RowsOf(r) : r \in {s \in y.relations :
            BookOf[s.session] = b /\ HasConcept(t, b, s.from) /\ HasConcept(t, b, s.to)}}}
RelationsIn(t, y, b) == {r \in t.related : r.book = b} = ClaimedRelations(t, y, b)

HeadsIn(t, y, b) ==
    /\ {c \in t.heads : c.book = b} = Claimed(b, y.heads)
    /\ \A v \in t.variants : v.book = b => \E w \in HeadMembers(b, y.heads) : SameMember(v, w)

CachedIn(t, y) == \A c \in y.cached : \E r \in t.dictionary : r.word = c.word

LEMMA ConceptsStay ==
    ASSUME NEW t, NEW u, u.origins = t.origins, u.concepts = t.concepts, u.members = t.members, NEW y, NEW b,
           ConceptsIn(t, y, b)
    PROVE  ConceptsIn(u, y, b)
<1>1. MembersOf(u, b, y.concepts) = MembersOf(t, b, y.concepts)
  BY DEF MembersOf
<1>2. QED
  BY <1>1 DEF ConceptsIn

LEMMA RelationsStay ==
    ASSUME NEW t, NEW u, u.concepts = t.concepts, u.related = t.related, NEW y, NEW b, RelationsIn(t, y, b)
    PROVE  RelationsIn(u, y, b)
BY DEF RelationsIn, ClaimedRelations, HasConcept

\* What the tables have of the files after the phases of the etymology.
Mirrors(t, y) ==
    /\ Keys(y.origins) \subseteq Keys(t.origins)
    /\ FormsMirrored(t, y)
    /\ \A b \in BooksOf(y.concepts) : ConceptsIn(t, y, b)
    /\ \A r \in y.relations : RelationsIn(t, y, BookOf[r.session])
    /\ \A b \in BooksOf(y.heads) : HeadsIn(t, y, b)

LEMMA MirrorsStay ==
    ASSUME NEW t, NEW u, u.origins = t.origins, u.forms = t.forms, u.concepts = t.concepts,
           u.members = t.members, u.related = t.related, u.heads = t.heads, u.variants = t.variants,
           NEW y, Mirrors(t, y)
    PROVE  Mirrors(u, y)
<1>1. Keys(y.origins) \subseteq Keys(u.origins) /\ FormsMirrored(u, y)
  BY DEF Mirrors, FormsMirrored
<1>2. \A b \in BooksOf(y.concepts) : ConceptsIn(u, y, b)
  BY ConceptsStay DEF Mirrors
<1>3. \A r \in y.relations : RelationsIn(u, y, BookOf[r.session])
  BY RelationsStay DEF Mirrors
<1>4. \A b \in BooksOf(y.heads) : HeadsIn(u, y, b)
  BY DEF Mirrors, HeadsIn
<1>5. QED
  BY <1>1, <1>2, <1>3, <1>4 DEF Mirrors

LEMMA LastOfFive ==
    ASSUME NEW s, DOMAIN s = 1..5, s = [i \in 1..5 |-> s[i]]
    PROVE  Len(s) = 5
<1> DEFINE S == {s[i] : i \in 1..5}
<1>1. s \in [1..5 -> S]
  OBVIOUS
<1> HIDE DEF S
<1>2. s \in Seq(S)
  BY <1>1
<1>3. Len(s) \in Nat /\ DOMAIN s = 1..Len(s)
  BY <1>2
<1>4. QED
  BY <1>3

LEMMA ReconcileSteps ==
    ASSUME NEW concepts, NEW members, NEW book, NEW claimed, NEW wanted
    PROVE  DOMAIN Reconcile(concepts, members, book, claimed, wanted) = 1..5
<1> DEFINE created == BatchCreateConcepts(concepts, claimed)
           updated == BatchUpdateConcepts(created, claimed)
           joined  == BatchCreateMembers(members, wanted)
           left    == BatchDeleteMembers(joined, claimed, wanted)
           final   == BatchDeleteConcepts(updated, book, claimed)
           kept    == {m \in left : \E c \in final : SameKey(c, m)}
<1>1. Reconcile(concepts, members, book, claimed, wanted) =
          <<[concepts |-> created, members |-> members], [concepts |-> updated, members |-> members],
            [concepts |-> updated, members |-> joined], [concepts |-> updated, members |-> left],
            [concepts |-> final, members |-> kept]>>
  BY DEF Reconcile
<1> HIDE DEF created, updated, joined, left, final, kept
<1>2. QED
  BY <1>1

\* How many transactions each phase has for a book.
LEMMA BookSizes ==
    ASSUME NEW t, NEW y, NEW book
    PROVE  /\ Len(ImportConcepts(t, y, book)) = 5 /\ DOMAIN ImportConcepts(t, y, book) = 1..5
           /\ Len(ImportRelations(t, y, book)) = 2 /\ DOMAIN ImportRelations(t, y, book) = 1..2
           /\ Len(ImportHeads(t, y, book)) = 5 /\ DOMAIN ImportHeads(t, y, book) = 1..5
<1>1. Len(ImportConcepts(t, y, book)) = 5 /\ DOMAIN ImportConcepts(t, y, book) = 1..5
  <2> DEFINE steps == Reconcile(t.concepts, t.members, book, Claimed(book, y.concepts),
                                MembersOf(t, book, y.concepts))
             Related(i) == {r \in t.related : r.book = book =>
                               /\ \E c \in steps[i].concepts : c.book = book /\ c.key = r.from
                               /\ \E c \in steps[i].concepts : c.book = book /\ c.key = r.to}
             Step(i) == [t EXCEPT !.concepts = steps[i].concepts, !.members = steps[i].members,
                                  !.related = Related(i)]
  <2>1. DOMAIN steps = 1..5
    BY ReconcileSteps
  <2>2. ImportConcepts(t, y, book) = [i \in DOMAIN steps |-> Step(i)]
    BY DEF ImportConcepts
  <2> HIDE DEF steps, Step
  <2>3. QED
    BY <2>1, <2>2, LastOfFive
<1>2. Len(ImportHeads(t, y, book)) = 5 /\ DOMAIN ImportHeads(t, y, book) = 1..5
  <2> DEFINE steps == Reconcile(t.heads, t.variants, book, Claimed(book, y.heads), HeadMembers(book, y.heads))
             Step(i) == [t EXCEPT !.heads = steps[i].concepts, !.variants = steps[i].members]
  <2>1. DOMAIN steps = 1..5
    BY ReconcileSteps
  <2>2. ImportHeads(t, y, book) = [i \in DOMAIN steps |-> Step(i)]
    BY DEF ImportHeads
  <2> HIDE DEF steps, Step
  <2>3. QED
    BY <2>1, <2>2, LastOfFive
<1>3. Len(ImportRelations(t, y, book)) = 2 /\ DOMAIN ImportRelations(t, y, book) = 1..2
  <2> DEFINE C == ClaimedRelations(t, y, book)
             made == [t EXCEPT !.related = @ \cup C]
             left == [t EXCEPT !.related = {r \in @ \cup C : r.book = book => r \in C}]
  <2>1. ImportRelations(t, y, book) = <<made, left>>
    BY DEF ImportRelations, ClaimedRelations, HasConcept
  <2> HIDE DEF made, left
  <2>2. QED
    BY <2>1
<1>4. QED
  BY <1>1, <1>2, <1>3

LEMMA ClaimedRows ==
    ASSUME NEW book, NEW decls
    PROVE  /\ \A d \in Claimed(book, decls) : d.book = book
           /\ \A d, e \in Claimed(book, decls) : SameKey(d, e) => d = e
           /\ \A c : c \in Claimed(book, decls) <=>
                 \E d \in OfBook(decls, book) :
                    c = [book |-> book, key |-> d.key, meaning |-> First(decls, book, d.key).meaning]
<1> DEFINE M(key) == First(decls, book, key).meaning
<1>1. Claimed(book, decls) = {[book |-> book, key |-> d.key, meaning |-> M(d.key)] : d \in OfBook(decls, book)}
  BY DEF Claimed
<1>2. \A c : c \in Claimed(book, decls) <=>
                 \E d \in OfBook(decls, book) : c = [book |-> book, key |-> d.key, meaning |-> M(d.key)]
  BY <1>1
<1>3. \A c \in Claimed(book, decls) : c = [book |-> book, key |-> c.key, meaning |-> M(c.key)]
  <2> HIDE DEF M
  <2>1. QED
    BY <1>2
<1>4. \A d, e \in Claimed(book, decls) : SameKey(d, e) => d = e
  <2> HIDE DEF M
  <2>1. QED
    BY <1>3 DEF SameKey
<1>5. QED
  BY <1>2, <1>3, <1>4

LEMMA MembersDeclared ==
    ASSUME NEW t, NEW book, NEW decls
    PROVE  /\ \A w \in MembersOf(t, book, decls) : \E d \in OfBook(decls, book) :
                 /\ w.book = book /\ w.key = d.key
                 /\ w.member \in Keys(t.origins) /\ w.member.session = d.session /\ w.member.name \in d.members
           /\ \A d \in OfBook(decls, book) : \A n \in d.members :
                 (\E k \in Keys(t.origins) : k.session = d.session /\ k.name = n) =>
                    \E w \in MembersOf(t, book, decls) :
                        w.book = book /\ w.key = d.key /\ w.member.session = d.session /\ w.member.name = n
           /\ \A w \in MembersOf(t, book, decls) : \E c \in Claimed(book, decls) : SameKey(w, c)
<1> DEFINE At(d, n) == {k \in Keys(t.origins) : k.session = d.session /\ k.name = n}
           Row(d, n) == [book |-> book, key |-> d.key, member |-> Leading(At(d, n))]
           All == OfBook(decls, book)
<1>1. MembersOf(t, book, decls) = UNION {{Row(d, n) : n \in {x \in d.members : At(d, x) # {}}} : d \in All}
  BY DEF MembersOf
<1>2. ASSUME NEW d, NEW n, At(d, n) # {}
      PROVE  /\ Leading(At(d, n)) \in Keys(t.origins)
             /\ Leading(At(d, n)).session = d.session /\ Leading(At(d, n)).name = n
  <2>1. Leading(At(d, n)) \in At(d, n)
    <3> HIDE DEF At
    <3>1. QED
      BY <1>2 DEF Leading
  <2>2. QED
    BY <2>1
<1>3. \A d, n : /\ Row(d, n).book = book /\ Row(d, n).key = d.key
                /\ At(d, n) # {} => /\ Row(d, n).member \in Keys(t.origins)
                                    /\ Row(d, n).member.session = d.session /\ Row(d, n).member.name = n
  <2> HIDE DEF At
  <2>1. \A d, n : Row(d, n).book = book /\ Row(d, n).key = d.key /\ Row(d, n).member = Leading(At(d, n))
    OBVIOUS
  <2> HIDE DEF Row
  <2>2. QED
    BY <1>2, <2>1
<1> HIDE DEF Row, All
<1>4. \A w \in MembersOf(t, book, decls) : \E d \in All : \E n \in d.members : At(d, n) # {} /\ w = Row(d, n)
  BY <1>1
<1>5. \A d \in All : \A n \in d.members : At(d, n) # {} => Row(d, n) \in MembersOf(t, book, decls)
  BY <1>1
<1>6. \A w \in MembersOf(t, book, decls) : \E d \in All :
          /\ w.book = book /\ w.key = d.key
          /\ w.member \in Keys(t.origins) /\ w.member.session = d.session /\ w.member.name \in d.members
  <2> HIDE DEF At
  <2>1. QED
    BY <1>3, <1>4
<1>7. \A d \in All : \A n \in d.members :
          (\E k \in Keys(t.origins) : k.session = d.session /\ k.name = n) =>
             \E w \in MembersOf(t, book, decls) :
                 w.book = book /\ w.key = d.key /\ w.member.session = d.session /\ w.member.name = n
  <2> SUFFICES ASSUME NEW d \in All, NEW n \in d.members,
                      NEW k \in Keys(t.origins), k.session = d.session, k.name = n
               PROVE  \E w \in MembersOf(t, book, decls) :
                          w.book = book /\ w.key = d.key /\ w.member.session = d.session /\ w.member.name = n
    OBVIOUS
  <2>1. At(d, n) # {}
    OBVIOUS
  <2> HIDE DEF At
  <2>2. QED
    BY <1>3, <1>5, <2>1
<1>8. \A w \in MembersOf(t, book, decls) : \E c \in Claimed(book, decls) : SameKey(w, c)
  <2> SUFFICES ASSUME NEW w \in MembersOf(t, book, decls)
               PROVE  \E c \in Claimed(book, decls) : SameKey(w, c)
    OBVIOUS
  <2>1. PICK d \in All : w.book = book /\ w.key = d.key
    BY <1>6
  <2> DEFINE c == [book |-> book, key |-> d.key, meaning |-> First(decls, book, d.key).meaning]
  <2>2. c \in Claimed(book, decls)
    BY ClaimedRows DEF All
  <2>3. SameKey(w, c)
    BY <2>1 DEF SameKey
  <2>4. QED
    BY <2>2, <2>3
<1>9. QED
  BY <1>6, <1>7, <1>8 DEF All

LEMMA ConceptsImported ==
    ASSUME NEW t, IsTables(t), Rooted(t), NEW y, NEW book, NEW i \in DOMAIN ImportConcepts(t, y, book),
           NEW u, u = ImportConcepts(t, y, book)[i]
    PROVE  /\ IsTables(u) /\ Rooted(u)
           /\ u.origins = t.origins /\ u.forms = t.forms /\ u.parts = t.parts
           /\ \A b : b # book /\ ConceptsIn(t, y, b) => ConceptsIn(u, y, b)
           /\ i = 5 => ConceptsIn(u, y, book)
<1> DEFINE C == Claimed(book, y.concepts)
           W == MembersOf(t, book, y.concepts)
           steps == Reconcile(t.concepts, t.members, book, C, W)
           s == steps[i]
           Has(k) == \E c \in s.concepts : c.book = book /\ c.key = k
           R == {r \in t.related : r.book = book => Has(r.from) /\ Has(r.to)}
<1>1. DOMAIN steps = 1..5
  <2> HIDE DEF C, W
  <2>1. QED
    BY DEF Reconcile
<1>2. /\ ImportConcepts(t, y, book) =
            [j \in 1..5 |-> [t EXCEPT !.concepts = steps[j].concepts, !.members = steps[j].members,
                             !.related = {r \in @ : r.book = book =>
                                   (\E c \in steps[j].concepts : c.book = book /\ c.key = r.from) /\
                                   (\E c \in steps[j].concepts : c.book = book /\ c.key = r.to)}]]
  <2> HIDE DEF steps
  <2>1. ImportConcepts(t, y, book) =
            [j \in DOMAIN steps |-> [t EXCEPT !.concepts = steps[j].concepts, !.members = steps[j].members,
                             !.related = {r \in @ : r.book = book =>
                                   (\E c \in steps[j].concepts : c.book = book /\ c.key = r.from) /\
                                   (\E c \in steps[j].concepts : c.book = book /\ c.key = r.to)}]]
    BY DEF ImportConcepts, steps
  <2>2. QED
    BY <1>1, <2>1
<1>3. /\ i \in 1..5 /\ DOMAIN ImportConcepts(t, y, book) = 1..5
      /\ u = [t EXCEPT !.concepts = s.concepts, !.members = s.members, !.related = R]
  <2> HIDE DEF steps
  <2>1. QED
    BY <1>2
<1>5. i \in DOMAIN steps /\ s = steps[i]
  BY <1>1, <1>3
<1>6. /\ \A d \in C : d.book = book
      /\ \A d, e \in C : SameKey(d, e) => d = e
      /\ \A w \in W : \E d \in C : SameKey(w, d)
  BY ClaimedRows, MembersDeclared
<1> HIDE DEF s, C, W
<1>7. /\ \A c : c.book # book => (c \in s.concepts <=> c \in t.concepts)
      /\ \A m : m.book # book /\ m \in s.members => m \in t.members
      /\ (\A m \in t.members : \E c \in t.concepts : SameKey(c, m)) =>
            /\ \A m \in s.members : \E c \in s.concepts : SameKey(c, m)
            /\ \A m : m.book # book /\ m \in t.members => m \in s.members
      /\ i = 5 => /\ {c \in s.concepts : c.book = book} = C
                  /\ \A m \in s.members : m.book = book => \E w \in W : SameMember(m, w)
                  /\ \A w \in W : \E m \in s.members : SameMember(m, w)
  BY <1>5, <1>6, Reconciled
<1> HIDE DEF steps, R
<1>8. /\ IsTables(u) /\ u.origins = t.origins /\ u.forms = t.forms /\ u.parts = t.parts
      /\ u.concepts = s.concepts /\ u.members = s.members /\ u.related = R
  BY <1>3 DEF IsTables
<1>9. MembersRooted(u)
  BY <1>7, <1>8 DEF Rooted, MembersRooted
<1>10. ASSUME NEW r \in R
       PROVE  HasConcept(u, r.book, r.from) /\ HasConcept(u, r.book, r.to)
  <2>1. r \in t.related /\ (r.book = book => Has(r.from) /\ Has(r.to))
    BY DEF R
  <2>2. HasConcept(t, r.book, r.from) /\ HasConcept(t, r.book, r.to)
    BY <2>1 DEF Rooted, RelatedRooted
  <2>3. CASE r.book = book
    BY <1>8, <2>1, <2>3 DEF HasConcept
  <2>4. CASE r.book # book
    BY <1>7, <1>8, <2>2, <2>4 DEF HasConcept
  <2>5. QED
    BY <2>3, <2>4
<1>11. Rooted(u)
  BY <1>8, <1>9, <1>10 DEF Rooted, FormsRooted, PartsRooted, RelatedRooted
<1>12. \A b : MembersOf(u, b, y.concepts) = MembersOf(t, b, y.concepts)
  BY <1>8 DEF MembersOf
<1>13. ASSUME NEW b, b # book, ConceptsIn(t, y, b)
       PROVE  ConceptsIn(u, y, b)
  <2>1. {c \in u.concepts : c.book = b} = Claimed(b, y.concepts)
    BY <1>7, <1>8, <1>13 DEF ConceptsIn
  <2>2. \A m \in u.members : m.book = b => \E w \in MembersOf(t, b, y.concepts) : SameMember(m, w)
    BY <1>7, <1>8, <1>13 DEF ConceptsIn
  <2>3. ASSUME NEW w \in MembersOf(t, b, y.concepts)
        PROVE  \E m \in u.members : SameMember(m, w)
    <3>1. PICK m \in t.members : SameMember(m, w)
      BY <1>13 DEF ConceptsIn
    <3>2. m.book = b
      BY <3>1, MembersDeclared DEF SameMember, SameKey
    <3>3. m \in u.members
      BY <1>7, <1>8, <1>13, <3>2 DEF Rooted, MembersRooted
    <3>4. QED
      BY <3>1, <3>3
  <2>4. QED
    BY <1>12, <2>1, <2>2, <2>3 DEF ConceptsIn
<1>14. i = 5 => ConceptsIn(u, y, book)
  BY <1>7, <1>8, <1>12 DEF ConceptsIn, C, W
<1>15. QED
  BY <1>3, <1>8, <1>11, <1>13, <1>14

\* The rows of a relation join concepts that are there.
LEMMA RelationRows ==
    ASSUME NEW t, NEW y, NEW b
    PROVE  /\ \A x : x \in ClaimedRelations(t, y, b) <=>
                 \E r \in y.relations :
                    /\ BookOf[r.session] = b /\ HasConcept(t, b, r.from) /\ HasConcept(t, b, r.to)
                    /\ \/ x = [book |-> b, from |-> r.from, to |-> r.to]
                       \/ x = [book |-> b, from |-> r.to, to |-> r.from] /\ ~r.directed
           /\ \A x \in ClaimedRelations(t, y, b) :
                 x.book = b /\ HasConcept(t, b, x.from) /\ HasConcept(t, b, x.to)
<1> DEFINE S == {s \in y.relations : BookOf[s.session] = b /\ HasConcept(t, b, s.from) /\ HasConcept(t, b, s.to)}
           Row(p) == [book |-> b, from |-> p[1], to |-> p[2]]
<1>1. \A x : x \in ClaimedRelations(t, y, b) <=> \E r \in S : \E p \in RowsOf(r) : x = Row(p)
  <2>1. ClaimedRelations(t, y, b) = {Row(p) : p \in UNION {RowsOf(r) : r \in S}}
    BY DEF ClaimedRelations
  <2> HIDE DEF S, Row
  <2>2. QED
    BY <2>1
<1>2. \A r, x : (\E p \in RowsOf(r) : x = Row(p)) <=>
          \/ x = [book |-> b, from |-> r.from, to |-> r.to]
          \/ x = [book |-> b, from |-> r.to, to |-> r.from] /\ ~r.directed
  <2> SUFFICES ASSUME NEW r, NEW x
               PROVE  (\E p \in RowsOf(r) : x = Row(p)) <=>
                          \/ x = [book |-> b, from |-> r.from, to |-> r.to]
                          \/ x = [book |-> b, from |-> r.to, to |-> r.from] /\ ~r.directed
    OBVIOUS
  <2>1. /\ Row(<<r.from, r.to>>) = [book |-> b, from |-> r.from, to |-> r.to]
        /\ Row(<<r.to, r.from>>) = [book |-> b, from |-> r.to, to |-> r.from]
    OBVIOUS
  <2> HIDE DEF Row
  <2>2. CASE r.directed
    <3>1. RowsOf(r) = {<<r.from, r.to>>}
      BY <2>2 DEF RowsOf
    <3>2. QED
      BY <2>1, <2>2, <3>1
  <2>3. CASE ~r.directed
    <3>1. RowsOf(r) = {<<r.from, r.to>>, <<r.to, r.from>>}
      BY <2>3 DEF RowsOf
    <3>2. QED
      BY <2>1, <2>3, <3>1
  <2>4. QED
    BY <2>2, <2>3
<1> HIDE DEF Row
<1>3. \A x : x \in ClaimedRelations(t, y, b) <=>
                 \E r \in y.relations :
                    /\ BookOf[r.session] = b /\ HasConcept(t, b, r.from) /\ HasConcept(t, b, r.to)
                    /\ \/ x = [book |-> b, from |-> r.from, to |-> r.to]
                       \/ x = [book |-> b, from |-> r.to, to |-> r.from] /\ ~r.directed
  BY <1>1, <1>2
<1>4. \A x \in ClaimedRelations(t, y, b) :
                 x.book = b /\ HasConcept(t, b, x.from) /\ HasConcept(t, b, x.to)
  BY <1>3
<1>5. QED
  BY <1>3, <1>4

LEMMA RelationsImported ==
    ASSUME NEW t, IsTables(t), Rooted(t), NEW y, NEW book, NEW i \in DOMAIN ImportRelations(t, y, book),
           NEW u, u = ImportRelations(t, y, book)[i]
    PROVE  /\ IsTables(u) /\ Rooted(u)
           /\ u.origins = t.origins /\ u.forms = t.forms /\ u.parts = t.parts
           /\ u.concepts = t.concepts /\ u.members = t.members
           /\ \A b : b # book /\ RelationsIn(t, y, b) => RelationsIn(u, y, b)
           /\ i = 2 => RelationsIn(u, y, book)
<1> DEFINE C == ClaimedRelations(t, y, book)
           made == t.related \cup C
           left == {r \in made : r.book = book => r \in C}
<1>1. ImportRelations(t, y, book) = <<[t EXCEPT !.related = made], [t EXCEPT !.related = left]>>
  BY DEF ImportRelations, ClaimedRelations, HasConcept
<1>2. \A r \in C : r.book = book /\ HasConcept(t, book, r.from) /\ HasConcept(t, book, r.to)
  BY RelationRows
<1> HIDE DEF C
<1>3. \/ i = 1 /\ u = [t EXCEPT !.related = made]
      \/ i = 2 /\ u = [t EXCEPT !.related = left]
  <2> HIDE DEF made, left
  <2>1. QED
    BY <1>1
<1>4. \E R : /\ u = [t EXCEPT !.related = R]
             /\ R = made \/ (i = 2 /\ R = left)
  <2> HIDE DEF made, left
  <2>1. QED
    BY <1>3
<1>5. PICK R : /\ u = [t EXCEPT !.related = R]
               /\ R = made \/ (i = 2 /\ R = left)
  BY <1>4
<1>6. /\ IsTables(u) /\ u.origins = t.origins /\ u.forms = t.forms /\ u.parts = t.parts
      /\ u.concepts = t.concepts /\ u.members = t.members /\ u.related = R
  BY <1>5 DEF IsTables
<1>7. \A r \in R : r \in t.related \/ r \in C
  BY <1>5
<1>8. \A r : r.book # book => (r \in R <=> r \in t.related)
  BY <1>2, <1>5
<1>9. i = 2 => {r \in R : r.book = book} = C
  <2>1. i = 2 => R = left
    <3> HIDE DEF made, left
    <3>1. QED
      BY <1>3, <1>5, <1>6 DEF IsTables
  <2>2. QED
    BY <1>2, <2>1
<1> HIDE DEF made, left
<1>10. \A b, k : HasConcept(u, b, k) <=> HasConcept(t, b, k)
  BY <1>6 DEF HasConcept
<1>11. \A r \in R : HasConcept(u, r.book, r.from) /\ HasConcept(u, r.book, r.to)
  BY <1>2, <1>7, <1>10 DEF Rooted, RelatedRooted
<1>12. Rooted(u)
  BY <1>6, <1>11 DEF Rooted, FormsRooted, PartsRooted, MembersRooted, RelatedRooted
<1>13. \A b : ClaimedRelations(u, y, b) = ClaimedRelations(t, y, b)
  BY <1>6 DEF ClaimedRelations, HasConcept
<1>14. \A b : b # book /\ RelationsIn(t, y, b) => RelationsIn(u, y, b)
  BY <1>6, <1>8, <1>13 DEF RelationsIn
<1>15. i = 2 => RelationsIn(u, y, book)
  BY <1>6, <1>9, <1>13 DEF RelationsIn, C
<1>16. QED
  BY <1>3, <1>6, <1>12, <1>14, <1>15

LEMMA HeadMembersDeclared ==
    ASSUME NEW book, NEW decls
    PROVE  \A w \in HeadMembers(book, decls) :
              /\ \E d \in OfBook(decls, book) : w.book = book /\ w.key = d.key /\ w.member \in d.members
              /\ \E c \in Claimed(book, decls) : SameKey(w, c)
<1> DEFINE I == InBook(decls, book)
           Own(i) == {x \in decls[i].members :
                         \A j \in I : j < i => ~(decls[j].key = decls[i].key /\ x \in decls[j].members)}
           Row(i, m) == [book |-> book, key |-> decls[i].key, member |-> m, session |-> decls[i].session]
<1>1. HeadMembers(book, decls) = UNION {{Row(i, m) : m \in Own(i)} : i \in I}
  BY DEF HeadMembers
<1>2. \A i \in I : \A m \in Own(i) : m \in decls[i].members
  OBVIOUS
<1>3. \A i, m : Row(i, m).book = book /\ Row(i, m).key = decls[i].key /\ Row(i, m).member = m
  OBVIOUS
<1>4. \A i \in I : decls[i] \in OfBook(decls, book)
  BY DEF OfBook
<1> HIDE DEF Own, Row, I
<1>5. \A w \in HeadMembers(book, decls) : \E d \in OfBook(decls, book) :
          w.book = book /\ w.key = d.key /\ w.member \in d.members
  <2> SUFFICES ASSUME NEW w \in HeadMembers(book, decls)
               PROVE  \E d \in OfBook(decls, book) : w.book = book /\ w.key = d.key /\ w.member \in d.members
    OBVIOUS
  <2>1. PICK i \in I : w \in {Row(i, m) : m \in Own(i)}
    BY <1>1
  <2>2. PICK m \in Own(i) : w = Row(i, m)
    BY <2>1
  <2>3. QED
    BY <1>2, <1>3, <1>4, <2>2
<1>6. \A w \in HeadMembers(book, decls) : \E c \in Claimed(book, decls) : SameKey(w, c)
  <2> SUFFICES ASSUME NEW w \in HeadMembers(book, decls)
               PROVE  \E c \in Claimed(book, decls) : SameKey(w, c)
    OBVIOUS
  <2>1. PICK d \in OfBook(decls, book) : w.book = book /\ w.key = d.key
    BY <1>5
  <2> DEFINE c == [book |-> book, key |-> d.key, meaning |-> First(decls, book, d.key).meaning]
  <2>2. c \in Claimed(book, decls)
    BY ClaimedRows
  <2>3. SameKey(w, c)
    BY <2>1 DEF SameKey
  <2>4. QED
    BY <2>2, <2>3
<1>7. QED
  BY <1>5, <1>6

LEMMA HeadsImported ==
    ASSUME NEW t, IsTables(t), Rooted(t), NEW y, NEW book, NEW i \in DOMAIN ImportHeads(t, y, book),
           NEW u, u = ImportHeads(t, y, book)[i]
    PROVE  /\ IsTables(u) /\ Rooted(u)
           /\ u.origins = t.origins /\ u.forms = t.forms /\ u.parts = t.parts
           /\ u.concepts = t.concepts /\ u.members = t.members /\ u.related = t.related
           /\ \A b : b # book /\ HeadsIn(t, y, b) => HeadsIn(u, y, b)
           /\ i = 5 => HeadsIn(u, y, book)
<1> DEFINE C == Claimed(book, y.heads)
           W == HeadMembers(book, y.heads)
           steps == Reconcile(t.heads, t.variants, book, C, W)
           s == steps[i]
<1>1. DOMAIN steps = 1..5
  <2> HIDE DEF C, W
  <2>1. QED
    BY DEF Reconcile
<1>2. ImportHeads(t, y, book) =
            [j \in 1..5 |-> [t EXCEPT !.heads = steps[j].concepts, !.variants = steps[j].members]]
  <2> HIDE DEF steps
  <2>1. ImportHeads(t, y, book) =
            [j \in DOMAIN steps |-> [t EXCEPT !.heads = steps[j].concepts, !.variants = steps[j].members]]
    BY DEF ImportHeads, steps
  <2>2. QED
    BY <1>1, <2>1
<1>3. /\ i \in 1..5 /\ DOMAIN ImportHeads(t, y, book) = 1..5
      /\ u = [t EXCEPT !.heads = s.concepts, !.variants = s.members]
  <2> HIDE DEF steps
  <2>1. QED
    BY <1>2
<1>5. i \in DOMAIN steps /\ s = steps[i]
  BY <1>1, <1>3
<1>6. /\ \A d \in C : d.book = book
      /\ \A d, e \in C : SameKey(d, e) => d = e
      /\ \A w \in W : \E d \in C : SameKey(w, d)
  BY ClaimedRows, HeadMembersDeclared
<1> HIDE DEF s, C, W
<1>7. /\ \A c : c.book # book => (c \in s.concepts <=> c \in t.heads)
      /\ \A m : m.book # book /\ m \in s.members => m \in t.variants
      /\ i = 5 => /\ {c \in s.concepts : c.book = book} = C
                  /\ \A m \in s.members : m.book = book => \E w \in W : SameMember(m, w)
  BY <1>5, <1>6, Reconciled
<1> HIDE DEF steps
<1>8. /\ IsTables(u) /\ u.origins = t.origins /\ u.forms = t.forms /\ u.parts = t.parts
      /\ u.concepts = t.concepts /\ u.members = t.members /\ u.related = t.related
      /\ u.heads = s.concepts /\ u.variants = s.members
  BY <1>3 DEF IsTables
<1>9. Rooted(u)
  BY <1>8 DEF Rooted, FormsRooted, PartsRooted, MembersRooted, RelatedRooted, HasConcept
<1>10. \A b : b # book /\ HeadsIn(t, y, b) => HeadsIn(u, y, b)
  BY <1>7, <1>8 DEF HeadsIn
<1>11. i = 5 => HeadsIn(u, y, book)
  BY <1>7, <1>8 DEF HeadsIn, C, W
<1>12. QED
  BY <1>3, <1>8, <1>9, <1>10, <1>11

LEMMA DictionaryImported ==
    ASSUME NEW t, IsTables(t), Rooted(t), NEW y, NEW update, NEW u, u = ImportDictionary(t, y, update)[1]
    PROVE  /\ Len(ImportDictionary(t, y, update)) = 1 /\ DOMAIN ImportDictionary(t, y, update) = {1}
           /\ IsTables(u) /\ Rooted(u)
           /\ u.origins = t.origins /\ u.forms = t.forms /\ u.parts = t.parts
           /\ u.concepts = t.concepts /\ u.members = t.members /\ u.related = t.related
           /\ u.heads = t.heads /\ u.variants = t.variants
           /\ CachedIn(u, y)
<1> DEFINE known == {r.word : r \in t.dictionary}
           fresh == {c \in y.cached : c.word \notin known}
           Response(r) == IF update /\ \E c \in y.cached : c.word = r.word
                          THEN CHOOSE c \in y.cached : c.word = r.word ELSE r
           new == {Response(r) : r \in t.dictionary} \cup fresh
<1>1. /\ u = [t EXCEPT !.dictionary = new]
      /\ Len(ImportDictionary(t, y, update)) = 1 /\ DOMAIN ImportDictionary(t, y, update) = {1}
  <2>1. ImportDictionary(t, y, update) = <<[t EXCEPT !.dictionary = new]>>
    BY DEF ImportDictionary
  <2> HIDE DEF new
  <2>2. QED
    BY <2>1
<1>2. \A r : Response(r).word = r.word
  OBVIOUS
<1> HIDE DEF Response
<1>3. \A c \in y.cached : \E r \in new : r.word = c.word
  BY <1>2
<1> HIDE DEF new
<1>4. /\ IsTables(u) /\ u.origins = t.origins /\ u.forms = t.forms /\ u.parts = t.parts
      /\ u.concepts = t.concepts /\ u.members = t.members /\ u.related = t.related
      /\ u.heads = t.heads /\ u.variants = t.variants /\ u.dictionary = new
  BY <1>1 DEF IsTables
<1>5. QED
  BY <1>1, <1>3, <1>4 DEF CachedIn, Rooted, FormsRooted, PartsRooted, MembersRooted, RelatedRooted, HasConcept

-----------------------------------------------------------------------------
\* What the phases leave is what the tables of an import that completed should hold.
LEMMA ConceptsMirror ==
    ASSUME NEW t, NEW y,
           \A b \in BooksOf(y.concepts) : ConceptsIn(t, y, b),
           \A b \in BooksOf(y.heads) : HeadsIn(t, y, b)
    PROVE  ConceptsMirrored(t, y)
<1>1. ASSUME NEW b \in BooksOf(y.concepts)
      PROVE  /\ {c \in t.concepts : c.book = b} = Claimed(b, y.concepts)
             /\ \A m \in t.members : m.book = b =>
                   \E d \in OfBook(y.concepts, b) : /\ d.key = m.key /\ d.session = m.member.session
                                                    /\ m.member.name \in d.members
             /\ \A d \in OfBook(y.concepts, b) : \A n \in d.members :
                   (\E o \in t.origins : o.session = d.session /\ o.name = n) =>
                       \E m \in t.members : /\ m.book = b /\ m.key = d.key
                                            /\ m.member.name = n /\ m.member.session = d.session
  <2>1. /\ {c \in t.concepts : c.book = b} = Claimed(b, y.concepts)
        /\ \A m \in t.members : m.book = b => \E w \in MembersOf(t, b, y.concepts) : SameMember(m, w)
        /\ \A w \in MembersOf(t, b, y.concepts) : \E m \in t.members : SameMember(m, w)
    BY DEF ConceptsIn
  <2>2. \A o \in t.origins : Key(o) \in Keys(t.origins) /\ Key(o).session = o.session /\ Key(o).name = o.name
    BY DEF Keys, Key
  <2>3. ASSUME NEW m \in t.members, m.book = b
        PROVE  \E d \in OfBook(y.concepts, b) : /\ d.key = m.key /\ d.session = m.member.session
                                                /\ m.member.name \in d.members
    <3>1. PICK w \in MembersOf(t, b, y.concepts) : SameMember(m, w)
      BY <2>1, <2>3
    <3>2. PICK d \in OfBook(y.concepts, b) :
             w.key = d.key /\ w.member.session = d.session /\ w.member.name \in d.members
      BY MembersDeclared
    <3>3. QED
      BY <3>1, <3>2 DEF SameMember, SameKey
  <2>4. ASSUME NEW d \in OfBook(y.concepts, b), NEW n \in d.members,
               NEW o \in t.origins, o.session = d.session, o.name = n
        PROVE  \E m \in t.members : /\ m.book = b /\ m.key = d.key
                                    /\ m.member.name = n /\ m.member.session = d.session
    <3>1. \E k \in Keys(t.origins) : k.session = d.session /\ k.name = n
      BY <2>2, <2>4
    <3>2. PICK w \in MembersOf(t, b, y.concepts) :
             w.book = b /\ w.key = d.key /\ w.member.session = d.session /\ w.member.name = n
      BY <3>1, MembersDeclared
    <3>3. PICK m \in t.members : SameMember(m, w)
      BY <2>1
    <3>4. QED
      BY <3>2, <3>3 DEF SameMember, SameKey
  <2>5. QED
    BY <2>1, <2>3, <2>4
<1>2. ASSUME NEW b \in BooksOf(y.heads)
      PROVE  /\ {c \in t.heads : c.book = b} = Claimed(b, y.heads)
             /\ \A v \in t.variants : v.book = b =>
                   \E d \in OfBook(y.heads, b) : d.key = v.key /\ v.member \in d.members
  <2>1. /\ {c \in t.heads : c.book = b} = Claimed(b, y.heads)
        /\ \A v \in t.variants : v.book = b => \E w \in HeadMembers(b, y.heads) : SameMember(v, w)
    BY DEF HeadsIn
  <2>2. ASSUME NEW v \in t.variants, v.book = b
        PROVE  \E d \in OfBook(y.heads, b) : d.key = v.key /\ v.member \in d.members
    <3>1. PICK w \in HeadMembers(b, y.heads) : SameMember(v, w)
      BY <2>1, <2>2
    <3>2. PICK d \in OfBook(y.heads, b) : w.key = d.key /\ w.member \in d.members
      BY HeadMembersDeclared
    <3>3. QED
      BY <3>1, <3>2 DEF SameMember, SameKey
  <2>3. QED
    BY <2>1, <2>2
<1>3. QED
  BY <1>1, <1>2 DEF ConceptsMirrored

LEMMA RelationsMirror ==
    ASSUME NEW t, NEW y, \A r \in y.relations : RelationsIn(t, y, BookOf[r.session])
    PROVE  RelationsMirrored(t, y)
<1> SUFFICES ASSUME NEW r \in y.relations, NEW e \in {<<r.from, r.to>>, <<r.to, r.from>>},
                    NEW b, b = BookOf[r.session],
                    HasConcept(t, b, r.from), HasConcept(t, b, r.to)
             PROVE  [book |-> b, from |-> e[1], to |-> e[2]] \in t.related <=>
                       \E s \in y.relations : /\ BookOf[s.session] = b
                                              /\ \/ e = <<s.from, s.to>>
                                                 \/ e = <<s.to, s.from>> /\ ~s.directed
  BY DEF RelationsMirrored, HasConcept
<1> DEFINE x == [book |-> b, from |-> e[1], to |-> e[2]]
<1>1. /\ e = <<e[1], e[2]>>
      /\ HasConcept(t, b, e[1]) /\ HasConcept(t, b, e[2])
  OBVIOUS
<1>2. x.book = b /\ x.from = e[1] /\ x.to = e[2]
  OBVIOUS
<1>3. \A k, n : (x = [book |-> b, from |-> k, to |-> n]) <=> (e = <<k, n>>)
  <2>1. \A k, n : (x = [book |-> b, from |-> k, to |-> n]) <=> (e[1] = k /\ e[2] = n)
    OBVIOUS
  <2>2. \A k, n : (e = <<k, n>>) <=> (e[1] = k /\ e[2] = n)
    BY <1>1
  <2>3. QED
    BY <2>1, <2>2
<1> HIDE DEF x
<1>4. x \in t.related <=> x \in ClaimedRelations(t, y, b)
  BY <1>2 DEF RelationsIn
<1>5. x \in ClaimedRelations(t, y, b) <=>
         \E s \in y.relations :
            /\ BookOf[s.session] = b /\ HasConcept(t, b, s.from) /\ HasConcept(t, b, s.to)
            /\ \/ x = [book |-> b, from |-> s.from, to |-> s.to]
               \/ x = [book |-> b, from |-> s.to, to |-> s.from] /\ ~s.directed
  BY RelationRows
<1>6. \A s : e = <<s.from, s.to>> \/ e = <<s.to, s.from>> => HasConcept(t, b, s.from) /\ HasConcept(t, b, s.to)
  BY <1>1
<1>7. x \in t.related <=> \E s \in y.relations : /\ BookOf[s.session] = b
                                                 /\ \/ e = <<s.from, s.to>>
                                                    \/ e = <<s.to, s.from>> /\ ~s.directed
  BY <1>3, <1>4, <1>5, <1>6
<1>8. QED
  BY <1>7 DEF x

\* What it means that validate warns of nothing in a book.
LEMMA NoConceptWarned ==
    ASSUME NEW y, NEW b, ConceptWarnings(y, b) = {}
    PROVE  \A d \in OfBook(y.concepts, b) :
              /\ d.meaning = First(y.concepts, b, d.key).meaning
              /\ \A n \in d.members : n \in OriginsBySession(y, d.session)
<1> DEFINE All == OfBook(y.concepts, b)
           Odd == {e \in All : e.meaning # First(y.concepts, b, e.key).meaning}
           Gone(d) == d.members \ OriginsBySession(y, d.session)
           OddOnes == {<<d.key, "meaning">> : d \in Odd}
           GoneOnes(d) == {<<d.key, m>> : m \in Gone(d)}
<1>1. ConceptWarnings(y, b) = OddOnes \cup UNION {GoneOnes(d) : d \in All}
  BY DEF ConceptWarnings
<1> HIDE DEF OddOnes, GoneOnes
<1>2. OddOnes = {} /\ \A d \in All : GoneOnes(d) = {}
  BY <1>1
<1>3. Odd = {} /\ \A d \in All : Gone(d) = {}
  <2> HIDE DEF Odd, Gone
  <2>1. Odd = {}
    BY <1>2 DEF OddOnes
  <2>2. \A d \in All : Gone(d) = {}
    BY <1>2 DEF GoneOnes
  <2>3. QED
    BY <2>1, <2>2
<1>4. QED
  BY <1>3

LEMMA NoHeadWarned ==
    ASSUME NEW y, NEW b, NEW spellings, HeadWarnings(y, b, spellings) = {}
    PROVE  \A d \in OfBook(y.heads, b) :
              /\ d.meaning = First(y.heads, b, d.key).meaning
              /\ \A e \in OfBook(y.heads, b) : \A m : m \in d.members /\ m \in e.members => e.key = d.key
<1> DEFINE All == OfBook(y.heads, b)
           Odd == {e \in All : e.meaning # First(y.heads, b, e.key).meaning}
           Shared(d) == UNION {d.members \cap e.members : e \in {f \in All : f.key # d.key}}
           OddOnes == {<<d.key, "meaning">> : d \in Odd}
           SharedOnes(d) == {<<d.key, m>> : m \in Shared(d)}
           Heads == {<<d.key, "head">> : d \in {e \in All : e.key \notin e.members}}
           GoneOnes == UNION {{<<d.key, m>> : m \in d.members \ spellings} : d \in All}
<1>1. HeadWarnings(y, b, spellings) = OddOnes \cup Heads \cup GoneOnes \cup UNION {SharedOnes(d) : d \in All}
  BY DEF HeadWarnings
<1> HIDE DEF OddOnes, SharedOnes, Heads, GoneOnes
<1>2. OddOnes = {} /\ \A d \in All : SharedOnes(d) = {}
  BY <1>1
<1>3. Odd = {} /\ \A d \in All : Shared(d) = {}
  <2> HIDE DEF Odd, Shared
  <2>1. Odd = {}
    BY <1>2 DEF OddOnes
  <2>2. \A d \in All : Shared(d) = {}
    BY <1>2 DEF SharedOnes
  <2>3. QED
    BY <2>1, <2>2
<1>4. ASSUME NEW d \in All, NEW e \in All, NEW m, m \in d.members, m \in e.members, e.key # d.key
      PROVE  FALSE
  <2>1. m \in Shared(d)
    BY <1>4
  <2>2. QED
    BY <1>3, <2>1
<1>5. QED
  BY <1>3, <1>4

LEMMA NothingIsLeftOut ==
    ASSUME NEW t, NEW y, NEW spellings,
           Keys(y.origins) \subseteq Keys(t.origins),
           \A b \in BooksOf(y.concepts) : ConceptsIn(t, y, b),
           \A r \in y.relations : RelationsIn(t, y, BookOf[r.session]),
           \A b \in BooksOf(y.heads) : HeadsIn(t, y, b)
    PROVE  NothingLeftOut(t, y, spellings)
<1>1. ASSUME NEW b \in BooksOf(y.concepts), ConceptWarnings(y, b) \cup RelationWarnings(y, b) = {}
      PROVE  /\ \A d \in OfBook(y.concepts, b) :
                   /\ [book |-> b, key |-> d.key, meaning |-> d.meaning] \in t.concepts
                   /\ {m.member.name : m \in {n \in t.members : n.book = b /\ n.key = d.key /\ n.member.session = d.session}}
                      = UNION {e.members : e \in {f \in OfBook(y.concepts, b) : f.key = d.key /\ f.session = d.session}}
             /\ \A r \in {s \in y.relations : BookOf[s.session] = b} :
                   [book |-> b, from |-> r.from, to |-> r.to] \in t.related
  <2> DEFINE All == OfBook(y.concepts, b)
  <2>1. /\ {c \in t.concepts : c.book = b} = Claimed(b, y.concepts)
        /\ \A m \in t.members : m.book = b => \E w \in MembersOf(t, b, y.concepts) : SameMember(m, w)
        /\ \A w \in MembersOf(t, b, y.concepts) : \E m \in t.members : SameMember(m, w)
    BY DEF ConceptsIn
  <2>2. ASSUME NEW d \in All
        PROVE  d.meaning = First(y.concepts, b, d.key).meaning
    BY <1>1, NoConceptWarned
  <2>3. ASSUME NEW d \in All, NEW n \in d.members
        PROVE  \E k \in Keys(t.origins) : k.session = d.session /\ k.name = n
    <3>1. n \in OriginsBySession(y, d.session)
      BY <1>1, NoConceptWarned
    <3>2. PICK o \in y.origins : o.session = d.session /\ o.name = n
      BY <3>1 DEF OriginsBySession
    <3>3. Key(o) \in Keys(t.origins) /\ Key(o).session = o.session /\ Key(o).name = o.name
      BY DEF Key, Keys
    <3>4. QED
      BY <3>2, <3>3
  <2>4. ASSUME NEW d \in All
        PROVE  [book |-> b, key |-> d.key, meaning |-> d.meaning] \in t.concepts
    <3> DEFINE c == [book |-> b, key |-> d.key, meaning |-> First(y.concepts, b, d.key).meaning]
    <3>1. c \in Claimed(b, y.concepts)
      BY ClaimedRows
    <3>2. c \in t.concepts
      BY <2>1, <3>1
    <3>3. QED
      BY <2>2, <3>2
  <2>5. ASSUME NEW d \in All
        PROVE  {m.member.name : m \in {n \in t.members : n.book = b /\ n.key = d.key /\ n.member.session = d.session}}
                  = UNION {e.members : e \in {f \in All : f.key = d.key /\ f.session = d.session}}
    <3> DEFINE M == {n \in t.members : n.book = b /\ n.key = d.key /\ n.member.session = d.session}
               N == {m.member.name : m \in M}
               E == {f \in All : f.key = d.key /\ f.session = d.session}
    <3>1. ASSUME NEW m \in M
          PROVE  \E e \in E : m.member.name \in e.members
      <4>1. PICK w \in MembersOf(t, b, y.concepts) : SameMember(m, w)
        BY <2>1
      <4>2. PICK e \in All : w.key = e.key /\ w.member.session = e.session /\ w.member.name \in e.members
        BY MembersDeclared
      <4>3. e.key = d.key /\ e.session = d.session /\ m.member.name \in e.members
        BY <4>1, <4>2 DEF SameMember, SameKey
      <4>4. QED
        BY <4>2, <4>3
    <3>2. ASSUME NEW e \in E, NEW n \in e.members
          PROVE  \E m \in M : m.member.name = n
      <4>1. \E k \in Keys(t.origins) : k.session = e.session /\ k.name = n
        BY <2>3
      <4>2. PICK w \in MembersOf(t, b, y.concepts) :
               w.book = b /\ w.key = e.key /\ w.member.session = e.session /\ w.member.name = n
        BY <4>1, MembersDeclared
      <4>3. PICK m \in t.members : SameMember(m, w)
        BY <2>1
      <4>4. m \in M /\ m.member.name = n
        BY <4>2, <4>3 DEF SameMember, SameKey
      <4>5. QED
        BY <4>4
    <3> HIDE DEF M, E
    <3>3. N \subseteq UNION {e.members : e \in E}
      BY <3>1
    <3>4. UNION {e.members : e \in E} \subseteq N
      BY <3>2
    <3>5. N = UNION {e.members : e \in E}
      BY <3>3, <3>4
    <3>6. QED
      BY <3>5 DEF M, E
  <2>6. ASSUME NEW r \in y.relations, BookOf[r.session] = b
        PROVE  [book |-> b, from |-> r.from, to |-> r.to] \in t.related
    <3>1. {r.from, r.to} \ {d.key : d \in All} = {}
      BY <1>1, <2>6 DEF RelationWarnings
    <3>2. \A k \in {r.from, r.to} : \E d \in All : k = d.key
      BY <3>1
    <3>3. \A k \in {r.from, r.to} : HasConcept(t, b, k)
      <4> SUFFICES ASSUME NEW k \in {r.from, r.to}
                   PROVE  HasConcept(t, b, k)
        OBVIOUS
      <4>1. PICK d \in All : k = d.key
        BY <3>2
      <4>2. [book |-> b, key |-> d.key, meaning |-> d.meaning] \in t.concepts
        BY <2>4
      <4>3. QED
        BY <4>1, <4>2 DEF HasConcept
    <3> DEFINE x == [book |-> b, from |-> r.from, to |-> r.to]
    <3>4. x \in ClaimedRelations(t, y, b)
      BY <2>6, <3>3, RelationRows
    <3>5. RelationsIn(t, y, b)
      BY <2>6
    <3>6. QED
      BY <3>4, <3>5 DEF RelationsIn
  <2>7. QED
    BY <2>4, <2>5, <2>6
<1>2. ASSUME NEW b \in BooksOf(y.heads), HeadWarnings(y, b, spellings) = {}
      PROVE  \A d \in OfBook(y.heads, b) :
                /\ [book |-> b, key |-> d.key, meaning |-> d.meaning] \in t.heads
                /\ \A m \in d.members : \A v \in t.variants : v.book = b /\ v.member = m => v.key = d.key
  <2> DEFINE All == OfBook(y.heads, b)
  <2>1. /\ {c \in t.heads : c.book = b} = Claimed(b, y.heads)
        /\ \A v \in t.variants : v.book = b => \E w \in HeadMembers(b, y.heads) : SameMember(v, w)
    BY DEF HeadsIn
  <2>2. ASSUME NEW d \in All
        PROVE  d.meaning = First(y.heads, b, d.key).meaning
    BY <1>2, NoHeadWarned
  <2>3. ASSUME NEW d \in All
        PROVE  [book |-> b, key |-> d.key, meaning |-> d.meaning] \in t.heads
    <3> DEFINE c == [book |-> b, key |-> d.key, meaning |-> First(y.heads, b, d.key).meaning]
    <3>1. c \in Claimed(b, y.heads)
      BY ClaimedRows
    <3>2. c \in t.heads
      BY <2>1, <3>1
    <3>3. QED
      BY <2>2, <3>2
  <2>4. ASSUME NEW d \in All, NEW e \in All, NEW m, m \in d.members, m \in e.members
        PROVE  d.key = e.key
    BY <1>2, <2>4, NoHeadWarned
  <2>5. ASSUME NEW d \in All, NEW m \in d.members, NEW v \in t.variants, v.book = b, v.member = m
        PROVE  v.key = d.key
    <3>1. PICK w \in HeadMembers(b, y.heads) : SameMember(v, w)
      BY <2>1, <2>5
    <3>2. PICK e \in All : w.key = e.key /\ w.member \in e.members
      BY HeadMembersDeclared
    <3>3. m \in e.members /\ v.key = e.key
      BY <2>5, <3>1, <3>2 DEF SameMember, SameKey
    <3>4. QED
      BY <2>4, <2>5, <3>3
  <2>6. QED
    BY <2>3, <2>5
<1>3. QED
  BY <1>1, <1>2 DEF NothingLeftOut

-----------------------------------------------------------------------------
AfterReading == {"rows", "resolved", "planned", "inserted", "logged", "dictionary", "linked"}
AfterHeads == {"heads"} \cup AfterReading
AfterRelations == {"relations"} \cup AfterHeads
AfterConcepts == {"concepts"} \cup AfterRelations
AfterForms == {"forms", "parts"} \cup AfterConcepts
AfterOrigins == {"origins"} \cup AfterForms
BeforeBooks == {"read", "created", "noted", "origins", "forms"}

\* Every part is one of a note.
PartsNoted(t, rows) == \A p \in t.parts : \E n \in rows : n.word = p.word

\* What each phase has done while nobody else writes: all of the books once it is
\* over, those it lists until then.
RootsView ==
    /\ imp.phase \in AfterOrigins => Keys(roots.origins) \subseteq Keys(tables.origins)
    /\ imp.phase \in AfterForms => FormsMirrored(tables, roots)
    /\ imp.phase = "parts" => \A b \in imp.books : ConceptsIn(tables, roots, b)
    /\ imp.phase \in AfterConcepts => \A b \in BooksOf(roots.concepts) : ConceptsIn(tables, roots, b)
    /\ imp.phase = "concepts" => \A b \in imp.books : RelationsIn(tables, roots, b)
    /\ imp.phase \in AfterRelations => \A r \in roots.relations : RelationsIn(tables, roots, BookOf[r.session])
    /\ imp.phase = "relations" => \A b \in imp.books : HeadsIn(tables, roots, b)
    /\ imp.phase \in AfterHeads => \A b \in BooksOf(roots.heads) : HeadsIn(tables, roots, b)
    /\ imp.phase \in {"dictionary", "linked"} => CachedIn(tables, roots)

RootsOK == roots \in Etymology /\ IsTables(tables) /\ Rooted(tables) /\ PartsNoted(tables, notes)

RootsInv ==
    /\ MirrorInv
    /\ RootsOK
    /\ imp.phase \in BeforeBooks => imp.books = {}
    /\ undisturbed >= 0 => RootsView
    /\ EtymologyMirrored

LEMMA NoneDangles ==
    ASSUME NEW t, NEW rows, Rooted(t), PartsNoted(t, rows)
    PROVE  /\ \A f \in t.forms : f.origin \in Keys(t.origins)
           /\ \A p \in t.parts : /\ p.origin \in Keys(t.origins)
                                 /\ \E n \in rows : n.word = p.word
                                 /\ p.form # Unpinned => \E f \in t.forms :
                                       f.origin = p.origin /\ f.form = p.form
           /\ \A m \in t.members : \E c \in t.concepts : c.book = m.book /\ c.key = m.key
           /\ \A r \in t.related : \A k \in {r.from, r.to} :
                 \E c \in t.concepts : c.book = r.book /\ c.key = k
<1>1. \A f \in t.forms : f.origin \in Keys(t.origins)
  BY DEF Rooted, FormsRooted
<1>2. \A p \in t.parts : /\ p.origin \in Keys(t.origins)
                         /\ \E n \in rows : n.word = p.word
                         /\ p.form # Unpinned => \E f \in t.forms :
                               f.origin = p.origin /\ f.form = p.form
  BY DEF Rooted, PartsRooted, PartsNoted
<1>3. \A m \in t.members : \E c \in t.concepts : c.book = m.book /\ c.key = m.key
  BY DEF Rooted, MembersRooted, SameKey
<1>4. \A r \in t.related : \A k \in {r.from, r.to} :
                 \E c \in t.concepts : c.book = r.book /\ c.key = k
  BY DEF Rooted, RelatedRooted, HasConcept
<1>5. QED
  BY <1>1, <1>2, <1>3, <1>4

\* A step after which no import has just completed.
LEMMA NotDone ==
    ASSUME MirrorInv', RootsOK', imp'.phase # "done" \/ undisturbed' < 1,
           imp'.phase \in BeforeBooks => imp'.books = {},
           undisturbed' >= 0 => RootsView'
    PROVE  RootsInv'
<1>1. ~Completed(1)'
  BY DEF Completed, MirrorInv
<1>2. Rooted(tables') /\ PartsNoted(tables', notes')
  BY DEF RootsOK
<1>3. EtymologyMirrored'
  BY <1>1, <1>2, NoneDangles DEF EtymologyMirrored
<1>4. QED
  BY <1>3 DEF RootsInv

LEMMA NotesKept ==
    ASSUME NEW t, NEW u, NEW rows, NEW next, PartsNoted(t, rows),
           \A p \in u.parts : \E q \in t.parts : p.word = q.word,
           \A n \in rows : \E m \in next : m.word = n.word
    PROVE  PartsNoted(u, next)
BY DEF PartsNoted

\* A phase of which the view says nothing.
LEMMA NoView ==
    ASSUME imp'.phase \in {"idle", "read", "created", "noted", "done", "aborted", "refused"}
    PROVE  RootsView'
BY DEF RootsView, AfterOrigins, AfterForms, AfterConcepts, AfterRelations, AfterHeads, AfterReading

LEMMA WritersKeepRoots ==
    ASSUME RootsInv, MirrorInv',
           \/ \E d \in defs, status \in Statuses : Answer(d, status)
           \/ \E r \in history : Override(r)
           \/ Edit
           \/ \E w \in Words, p \in Places : Register(w, p)
           \/ \E w \in Words, nb \in {NotebookOf[p] : p \in Places} : Unregister(w, nb)
    PROVE  RootsInv'
<1>1. imp' = imp /\ Disturb /\ tables' = tables
  BY DEF Answer, Override, Edit, Register, Unregister, database
<1>2. roots' \in Etymology
  BY DEF RootsInv, RootsOK, Answer, Override, Edit, Register, Unregister
<1>3. RootsOK /\ PartsNoted(tables, notes)
  BY DEF RootsInv, RootsOK
<1>4. ASSUME \A n \in notes : n \in notes'
      PROVE  PartsNoted(tables', notes')
  BY <1>1, <1>3, <1>4 DEF PartsNoted
<1>5. PartsNoted(tables', notes')
  <2>1. ASSUME NEW d \in defs, NEW status \in Statuses, Answer(d, status)
        PROVE  PartsNoted(tables', notes')
    <3>1. \A n \in notes : n \in notes'
      BY <2>1 DEF Answer, MirrorAnswer
    <3>2. QED
      BY <1>4, <3>1
  <2>2. ASSUME NEW r \in history, Override(r)
        PROVE  PartsNoted(tables', notes')
    BY <1>4, <2>2 DEF Override
  <2>3. ASSUME Edit
        PROVE  PartsNoted(tables', notes')
    BY <1>4, <2>3 DEF Edit, database
  <2>4. ASSUME NEW w \in Words, NEW p \in Places, Register(w, p)
        PROVE  PartsNoted(tables', notes')
    BY <1>4, <2>4 DEF Register
  <2>5. ASSUME NEW w \in Words, NEW nb, Unregister(w, nb)
        PROVE  PartsNoted(tables', notes')
    <3>1. CASE notes' = notes
      BY <1>4, <3>1
    <3>2. CASE \E bare : /\ \A p \in tables.parts : \A n \in notes : n.id \in bare => p.word # n.word
                         /\ notes' = {n \in notes : n.id \notin bare}
      BY <1>1, <1>3, <3>2 DEF PartsNoted
    <3>3. QED
      BY <2>5, <3>1, <3>2 DEF Unregister
  <2>6. QED
    BY <2>1, <2>2, <2>3, <2>4, <2>5
<1>6. RootsOK'
  BY <1>1, <1>2, <1>3, <1>5 DEF RootsOK
<1>7. imp'.phase \in BeforeBooks => imp'.books = {}
  BY <1>1 DEF RootsInv
<1>8. CASE Busy
  <2>1. undisturbed' = -1
    BY <1>1, <1>8 DEF Disturb
  <2>2. QED
    BY <1>6, <1>7, <2>1, NotDone
<1>9. CASE ~Busy
  <2>1. undisturbed' = 0 /\ imp'.phase \in {"idle", "done", "aborted", "refused"}
    BY <1>1, <1>9 DEF Disturb, Busy
  <2>2. RootsView'
    BY <2>1, NoView
  <2>3. QED
    BY <1>6, <1>7, <2>1, <2>2, NotDone
<1>10. QED
  BY <1>8, <1>9

LEMMA BeginKeepsRoots ==
    ASSUME RootsInv, MirrorInv', NEW update, NEW truncate, Begin(update, truncate)
    PROVE  RootsInv'
<1>1. /\ imp'.phase = "read" /\ imp'.books = {} /\ roots' = roots
      /\ IF truncate THEN tables' = EmptyTables ELSE tables' = tables /\ notes' = notes
  BY DEF Begin, Idle, sources
<1>2. RootsOK
  BY DEF RootsInv
<1>3. RootsOK'
  <2>1. CASE tables' = tables /\ notes' = notes
    BY <1>1, <1>2, <2>1 DEF RootsOK
  <2>2. CASE tables' = EmptyTables
    <3>1. /\ IsTables(EmptyTables) /\ EmptyTables.forms = {} /\ EmptyTables.parts = {}
          /\ EmptyTables.members = {} /\ EmptyTables.related = {}
      BY DEF EmptyTables, IsTables
    <3>2. Rooted(EmptyTables) /\ PartsNoted(EmptyTables, notes')
      BY <3>1 DEF Rooted, FormsRooted, PartsRooted, MembersRooted, RelatedRooted, PartsNoted
    <3>3. QED
      BY <1>1, <1>2, <2>2, <3>1, <3>2 DEF RootsOK
  <2>3. QED
    BY <1>1, <2>1, <2>2
<1>4. RootsView'
  BY <1>1, NoView
<1>5. QED
  BY <1>1, <1>3, <1>4, NotDone

LEMMA StoppedKeepsRoots ==
    ASSUME MirrorInv', RootsOK', Aborts \/ Refused
    PROVE  RootsInv'
<1>1. imp'.phase \in {"aborted", "refused"}
  BY DEF Aborts, Refused, Idle
<1>2. imp'.phase \notin BeforeBooks /\ RootsView'
  BY <1>1, NoView DEF BeforeBooks
<1>3. QED
  BY <1>1, <1>2, NotDone

\* The steps that leave the tables alone.
LEMMA OthersKeepRoots ==
    ASSUME RootsInv, MirrorInv',
           CreateNotes \/ UpdateNotes \/ ReadRows \/ AutoNotes \/ Resolve \/ InsertLogs \/ DeleteLeftovers \/ StaleLinks
    PROVE  RootsInv'
<1>1. UNCHANGED <<roots, tables, undisturbed>> /\ IsImporter(imp) /\ RootsOK /\ MirrorInv
  BY DEF CreateNotes, UpdateNotes, ReadRows, AutoNotes, Resolve, InsertLogs, DeleteLeftovers, StaleLinks,
         sources, database, RootsInv, MirrorInv
<1>2. \A n \in notes : \E m \in notes' : m.word = n.word
  <2>1. CASE \A n \in notes : n \in notes'
    BY <2>1
  <2>2. CASE \E M : notes' = {Refreshed(n, M) : n \in notes}
    BY <1>1, <2>2, RefreshedRow DEF MirrorInv, RowsOK
  <2>3. QED
    BY <2>1, <2>2 DEF CreateNotes, UpdateNotes, ReadRows, AutoNotes, Resolve, InsertLogs, DeleteLeftovers, StaleLinks,
                      database
<1>3. RootsOK'
  BY <1>1, <1>2, NotesKept DEF RootsOK
<1>4. CASE Aborts \/ Refused
  BY <1>3, <1>4, StoppedKeepsRoots
<1>5. CASE /\ imp'.books = imp.books
           /\ \/ imp.phase \in {"read", "created"} /\ imp'.phase \in {"created", "noted"}
              \/ /\ imp.phase \in AfterHeads /\ imp'.phase \in AfterReading
                 /\ imp'.phase = "linked" => imp.phase = "dictionary"
                 /\ imp'.phase # "dictionary"
  <2>1. imp'.phase # "done"
    BY <1>5 DEF AfterReading
  <2>2. imp'.phase \in BeforeBooks => imp'.books = {}
    BY <1>5 DEF AfterReading, BeforeBooks, RootsInv
  <2>3. undisturbed' >= 0 => RootsView'
    <3>1. CASE imp'.phase \in {"created", "noted"}
      BY <3>1, NoView
    <3>2. CASE imp'.phase \notin {"created", "noted"}
      <4> SUFFICES ASSUME undisturbed >= 0
                   PROVE  RootsView'
        BY <1>1
      <4>1. RootsView /\ imp.phase \in AfterHeads
        BY <1>5, <3>2 DEF RootsInv
      <4>2. /\ imp.phase \in AfterOrigins /\ imp.phase \in AfterForms /\ imp.phase \in AfterConcepts
            /\ imp.phase \in AfterRelations
            /\ imp'.phase \notin {"parts", "concepts", "relations"}
        BY <1>5, <3>2, <4>1 DEF AfterOrigins, AfterForms, AfterConcepts, AfterRelations, AfterHeads, AfterReading
      <4>3. /\ Keys(roots.origins) \subseteq Keys(tables.origins)
            /\ FormsMirrored(tables, roots)
            /\ \A b \in BooksOf(roots.concepts) : ConceptsIn(tables, roots, b)
            /\ \A r \in roots.relations : RelationsIn(tables, roots, BookOf[r.session])
            /\ \A b \in BooksOf(roots.heads) : HeadsIn(tables, roots, b)
            /\ imp.phase = "dictionary" => CachedIn(tables, roots)
        BY <4>1, <4>2 DEF RootsView
      <4>4. QED
        BY <1>1, <1>5, <3>2, <4>2, <4>3 DEF RootsView
    <3>3. QED
      BY <3>1, <3>2
  <2>4. QED
    BY <1>3, <2>1, <2>2, <2>3, NotDone
<1>6. QED
  BY <1>1, <1>4, <1>5 DEF IsImporter, AfterHeads, AfterReading,
         CreateNotes, UpdateNotes, ReadRows, AutoNotes, Resolve, InsertLogs, DeleteLeftovers, StaleLinks

\* A phase, or one book of it, leaves the tables after one of its transactions: the last,
\* or the import stops.
LEMMA PhaseTables ==
    ASSUME IsImporter(imp), NEW from, NEW to, NEW steps, Len(steps) \in DOMAIN steps, Phase(from, to, steps)
    PROVE  /\ imp.phase = from /\ UNCHANGED <<sources, notes, links, logs, serial, calls, undisturbed>>
           /\ \E i \in DOMAIN steps : /\ tables' = steps[i]
                                      /\ \/ Aborts
                                         \/ i = Len(steps) /\ imp'.phase = to /\ imp'.books = imp.books
<1>1. imp.phase = from /\ UNCHANGED <<sources, notes, links, logs, serial, calls, undisturbed>>
  BY DEF Phase
<1>2. \/ tables' = steps[Len(steps)] /\ imp' = [imp EXCEPT !.phase = to]
      \/ \E i \in DOMAIN steps : tables' = steps[i] /\ Aborts
  BY DEF Phase, Goes, Last
<1>3. imp' = [imp EXCEPT !.phase = to] => imp'.phase = to /\ imp'.books = imp.books
  BY DEF IsImporter
<1>4. QED
  BY <1>1, <1>2, <1>3

LEMMA OriginsKeepsRoots ==
    ASSUME RootsInv, MirrorInv', OriginsPhase
    PROVE  RootsInv'
<1> DEFINE steps == ImportOrigins(tables, roots)
<1>1. Len(steps) \in DOMAIN steps
  <2> DEFINE n == [tables EXCEPT !.origins = @ \cup {o \in roots.origins : Key(o) \notin Keys(@)}]
  <2>1. steps = <<n>>
    BY DEF ImportOrigins
  <2> HIDE DEF n, steps
  <2>2. QED
    BY <2>1
<1>2. IsImporter(imp) /\ RootsOK /\ IsTables(tables) /\ Rooted(tables) /\ PartsNoted(tables, notes)
  BY DEF RootsInv, MirrorInv, RootsOK
<1>3. Phase("noted", "origins", steps)
  BY DEF OriginsPhase
<1> HIDE DEF steps
<1>4. PICK i \in DOMAIN steps : /\ tables' = steps[i]
                                /\ Aborts \/ (imp'.phase = "origins" /\ imp'.books = imp.books)
  BY <1>1, <1>2, <1>3, PhaseTables
<1>5. imp.phase = "noted" /\ UNCHANGED <<roots, notes, undisturbed>>
  BY <1>1, <1>2, <1>3, PhaseTables DEF sources
<1>6. /\ IsTables(tables') /\ Rooted(tables') /\ tables'.parts = tables.parts
      /\ Keys(roots.origins) \subseteq Keys(tables'.origins)
  BY <1>2, <1>4, OriginsImported DEF steps
<1>7. RootsOK'
  BY <1>2, <1>5, <1>6 DEF RootsOK, PartsNoted
<1>8. CASE Aborts
  BY <1>7, <1>8, StoppedKeepsRoots
<1>9. CASE imp'.phase = "origins" /\ imp'.books = imp.books
  <2>1. imp'.books = {}
    BY <1>5, <1>9 DEF RootsInv, BeforeBooks
  <2>2. RootsView'
    BY <1>5, <1>6, <1>9 DEF RootsView, AfterForms, AfterConcepts, AfterRelations, AfterHeads, AfterReading
  <2>3. QED
    BY <1>7, <1>9, <2>1, <2>2, NotDone
<1>10. QED
  BY <1>4, <1>8, <1>9

LEMMA FormsKeepsRoots ==
    ASSUME RootsInv, MirrorInv', FormsPhase
    PROVE  RootsInv'
<1> DEFINE steps == ImportForms(tables, roots)
<1>1. Len(steps) = 3 /\ Len(steps) \in DOMAIN steps
  <2> DEFINE a == [tables EXCEPT !.forms = InsertedForms(tables, roots)]
             b == [tables EXCEPT !.forms = UpdatedForms(tables, roots)]
             c == [tables EXCEPT !.forms = UpdatedForms(tables, roots) \ StaleForms(tables, roots),
                                 !.parts = UnpinnedFrom(@, StaleForms(tables, roots))]
  <2>1. steps = <<a, b, c>>
    BY FormsSteps
  <2> HIDE DEF a, b, c, steps
  <2>2. QED
    BY <2>1
<1>2. IsImporter(imp) /\ RootsOK /\ IsTables(tables) /\ Rooted(tables) /\ PartsNoted(tables, notes)
  BY DEF RootsInv, MirrorInv, RootsOK
<1>3. Phase("origins", "forms", steps)
  BY DEF FormsPhase
<1> HIDE DEF steps
<1>4. PICK i \in DOMAIN steps : /\ tables' = steps[i]
                                /\ Aborts \/ (i = 3 /\ imp'.phase = "forms" /\ imp'.books = imp.books)
  BY <1>1, <1>2, <1>3, PhaseTables
<1>5. imp.phase = "origins" /\ UNCHANGED <<roots, notes, undisturbed>>
  BY <1>1, <1>2, <1>3, PhaseTables DEF sources
<1>6. /\ IsTables(tables') /\ Rooted(tables') /\ tables'.origins = tables.origins
      /\ \A p \in tables'.parts : \E q \in tables.parts : p.word = q.word
      /\ i = 3 /\ Keys(roots.origins) \subseteq Keys(tables.origins)
               /\ (\A f \in roots.forms : Key(f) \in Keys(roots.origins)) => FormsMirrored(tables', roots)
  BY <1>2, <1>4, FormsImported DEF steps
<1>7. RootsOK'
  <2>1. PartsNoted(tables', notes')
    BY <1>2, <1>5, <1>6, NotesKept
  <2>2. QED
    BY <1>2, <1>5, <1>6, <2>1 DEF RootsOK
<1>8. CASE Aborts
  BY <1>7, <1>8, StoppedKeepsRoots
<1>9. CASE i = 3 /\ imp'.phase = "forms" /\ imp'.books = imp.books
  <2>1. imp'.books = {}
    BY <1>5, <1>9 DEF RootsInv, BeforeBooks
  <2>2. ASSUME undisturbed' >= 0
        PROVE  RootsView'
    <3>1. Keys(roots.origins) \subseteq Keys(tables.origins)
      BY <1>5, <2>2 DEF RootsInv, RootsView, AfterOrigins
    <3>2. \A f \in roots.forms : Key(f) \in Keys(roots.origins)
      BY <1>2, FormsAssumption DEF RootsOK
    <3>3. FormsMirrored(tables', roots) /\ Keys(roots.origins) \subseteq Keys(tables'.origins)
      BY <1>6, <1>9, <3>1, <3>2
    <3>4. QED
      BY <1>5, <1>9, <3>3 DEF RootsView, AfterConcepts, AfterRelations, AfterHeads, AfterReading
  <2>3. QED
    BY <1>7, <1>9, <2>1, <2>2, NotDone
<1>10. QED
  BY <1>4, <1>8, <1>9

LEMMA PartsKeepsRoots ==
    ASSUME RootsInv, MirrorInv', PartsPhase
    PROVE  RootsInv'
<1> DEFINE noted == [name \in {d.name : d \in roots.parts} |-> NotedAs(name)]
           steps == ImportParts(tables, roots, noted)
<1>1. Len(steps) = 1 /\ DOMAIN steps = {1}
  <2>1. PICK n : n = steps[1]
    OBVIOUS
  <2> HIDE DEF noted
  <2>2. IsTables(tables) /\ Rooted(tables)
    BY DEF RootsInv, RootsOK
  <2>3. QED
    BY <2>1, <2>2, PartsImported
<1>2. IsImporter(imp) /\ RootsOK /\ IsTables(tables) /\ Rooted(tables) /\ PartsNoted(tables, notes)
  BY DEF RootsInv, MirrorInv, RootsOK
<1>3. Phase("forms", "parts", steps)
  BY DEF PartsPhase
<1>4. \A d \in roots.parts : \A w \in noted[d.name] : \E n \in notes : n.word = w
  BY DEF NotedAs
<1> HIDE DEF steps, noted
<1>5. /\ tables' = steps[1]
      /\ Aborts \/ (imp'.phase = "parts" /\ imp'.books = imp.books)
  BY <1>1, <1>2, <1>3, PhaseTables
<1>6. imp.phase = "forms" /\ UNCHANGED <<roots, notes, undisturbed>>
  BY <1>1, <1>2, <1>3, PhaseTables DEF sources
<1>7. /\ IsTables(tables') /\ Rooted(tables') /\ tables'.origins = tables.origins /\ tables'.forms = tables.forms
      /\ \A p \in tables'.parts : \/ \E q \in tables.parts : p.word = q.word
                                  \/ \E d \in roots.parts : p.word \in noted[d.name]
  BY <1>2, <1>5, PartsImported DEF steps
<1>8. RootsOK'
  <2>1. PartsNoted(tables', notes')
    BY <1>2, <1>4, <1>6, <1>7 DEF PartsNoted
  <2>2. QED
    BY <1>2, <1>6, <1>7, <2>1 DEF RootsOK
<1>9. CASE Aborts
  BY <1>8, <1>9, StoppedKeepsRoots
<1>10. CASE imp'.phase = "parts" /\ imp'.books = imp.books
  <2>1. imp'.books = {}
    BY <1>6, <1>10 DEF RootsInv, BeforeBooks
  <2>2. ASSUME undisturbed' >= 0
        PROVE  RootsView'
    <3>1. Keys(roots.origins) \subseteq Keys(tables.origins) /\ FormsMirrored(tables, roots)
      BY <1>6, <2>2 DEF RootsInv, RootsView, AfterOrigins, AfterForms
    <3>2. FormsMirrored(tables', roots) /\ Keys(roots.origins) \subseteq Keys(tables'.origins)
      BY <1>7, <3>1 DEF FormsMirrored
    <3>3. QED
      BY <1>6, <1>10, <2>1, <3>2 DEF RootsView, AfterConcepts, AfterRelations, AfterHeads, AfterReading
  <2>3. QED
    BY <1>8, <1>10, <2>1, <2>2, NotDone DEF BeforeBooks
<1>11. QED
  BY <1>5, <1>9, <1>10

LEMMA ConceptsKeepsRoots ==
    ASSUME RootsInv, MirrorInv', ConceptsPhase
    PROVE  RootsInv'
<1> DEFINE Steps(b) == ImportConcepts(tables, roots, b)
           books == BooksOf(roots.concepts)
<1>1. /\ imp.phase = "parts" /\ UNCHANGED <<roots, notes, undisturbed>>
      /\ \/ /\ imp.books = books
            /\ imp' = [imp EXCEPT !.phase = "concepts", !.books = {}]
            /\ UNCHANGED tables
         \/ \E b \in books \ imp.books :
               \/ tables' = Steps(b)[Len(Steps(b))] /\ imp' = [imp EXCEPT !.books = @ \cup {b}]
               \/ \E i \in DOMAIN Steps(b) : tables' = Steps(b)[i] /\ Aborts
  BY DEF ConceptsPhase, BookPhase, Last, sources
<1> HIDE DEF books
<1>2. IsImporter(imp) /\ RootsOK /\ IsTables(tables) /\ Rooted(tables)
  BY DEF RootsInv, MirrorInv, RootsOK
<1>3. undisturbed >= 0 => /\ Keys(roots.origins) \subseteq Keys(tables.origins)
                          /\ FormsMirrored(tables, roots)
                          /\ \A b \in imp.books : ConceptsIn(tables, roots, b)
  BY <1>1 DEF RootsInv, RootsView, AfterOrigins, AfterForms
<1>4. CASE imp.books = books /\ imp' = [imp EXCEPT !.phase = "concepts", !.books = {}] /\ UNCHANGED tables
  <2>1. imp'.phase = "concepts" /\ imp'.books = {}
    BY <1>2, <1>4 DEF IsImporter
  <2>2. RootsOK'
    BY <1>1, <1>2, <1>4 DEF RootsOK
  <2>3. ASSUME undisturbed' >= 0
        PROVE  RootsView'
    <3>1. /\ Keys(roots.origins) \subseteq Keys(tables.origins)
          /\ FormsMirrored(tables, roots)
          /\ \A b \in books : ConceptsIn(tables, roots, b)
      BY <1>1, <1>3, <1>4, <2>3
    <3>2. QED
      BY <1>1, <1>4, <2>1, <3>1 DEF RootsView, AfterRelations, AfterHeads, AfterReading, books
  <2>4. QED
    BY <2>1, <2>2, <2>3, NotDone
<1>5. ASSUME NEW b \in books \ imp.books, NEW i \in DOMAIN Steps(b), tables' = Steps(b)[i],
             Aborts \/ (i = 5 /\ imp' = [imp EXCEPT !.books = @ \cup {b}])
      PROVE  RootsInv'
  <2>1. /\ IsTables(tables') /\ Rooted(tables')
        /\ tables'.origins = tables.origins /\ tables'.forms = tables.forms /\ tables'.parts = tables.parts
        /\ \A c : c # b /\ ConceptsIn(tables, roots, c) => ConceptsIn(tables', roots, c)
        /\ i = 5 => ConceptsIn(tables', roots, b)
    BY <1>2, <1>5, ConceptsImported
  <2>2. RootsOK'
    BY <1>1, <1>2, <2>1 DEF RootsOK, PartsNoted
  <2>3. CASE Aborts
    BY <2>2, <2>3, StoppedKeepsRoots
  <2>4. CASE i = 5 /\ imp' = [imp EXCEPT !.books = @ \cup {b}]
    <3>1. imp'.phase = "parts" /\ imp'.books = imp.books \cup {b}
      BY <1>1, <1>2, <2>4 DEF IsImporter
    <3>2. ASSUME undisturbed' >= 0
          PROVE  RootsView'
      <4>1. /\ Keys(roots.origins) \subseteq Keys(tables'.origins)
            /\ FormsMirrored(tables', roots)
        BY <1>1, <1>3, <2>1, <3>2 DEF FormsMirrored
      <4>2. \A c \in imp.books \cup {b} : ConceptsIn(tables', roots, c)
        BY <1>1, <1>3, <2>1, <2>4, <3>2
      <4>3. QED
        BY <1>1, <3>1, <4>1, <4>2 DEF RootsView, AfterConcepts, AfterRelations, AfterHeads, AfterReading
    <3>3. QED
      BY <2>2, <3>1, <3>2, NotDone DEF BeforeBooks
  <2>5. QED
    BY <1>5, <2>3, <2>4
<1>6. \A b : Len(Steps(b)) = 5 /\ 5 \in DOMAIN Steps(b)
  BY BookSizes
<1> HIDE DEF Steps
<1>7. QED
  BY <1>1, <1>4, <1>5, <1>6

LEMMA RelationsKeepsRoots ==
    ASSUME RootsInv, MirrorInv', RelationsPhase
    PROVE  RootsInv'
<1> DEFINE Steps(b) == ImportRelations(tables, roots, b)
           books == {BookOf[r.session] : r \in roots.relations}
<1>1. /\ imp.phase = "concepts" /\ UNCHANGED <<roots, notes, undisturbed>>
      /\ \/ /\ imp.books = books
            /\ imp' = [imp EXCEPT !.phase = "relations", !.books = {}]
            /\ UNCHANGED tables
         \/ \E b \in books \ imp.books :
               \/ tables' = Steps(b)[Len(Steps(b))] /\ imp' = [imp EXCEPT !.books = @ \cup {b}]
               \/ \E i \in DOMAIN Steps(b) : tables' = Steps(b)[i] /\ Aborts
  BY DEF RelationsPhase, BookPhase, Last, sources
<1>2. \A r \in roots.relations : BookOf[r.session] \in books
  OBVIOUS
<1> HIDE DEF books
<1>3. IsImporter(imp) /\ RootsOK /\ IsTables(tables) /\ Rooted(tables)
  BY DEF RootsInv, MirrorInv, RootsOK
<1>4. undisturbed >= 0 => /\ Keys(roots.origins) \subseteq Keys(tables.origins)
                          /\ FormsMirrored(tables, roots)
                          /\ \A b \in BooksOf(roots.concepts) : ConceptsIn(tables, roots, b)
                          /\ \A b \in imp.books : RelationsIn(tables, roots, b)
  BY <1>1 DEF RootsInv, RootsView, AfterOrigins, AfterForms, AfterConcepts
<1>5. CASE imp.books = books /\ imp' = [imp EXCEPT !.phase = "relations", !.books = {}] /\ UNCHANGED tables
  <2>1. imp'.phase = "relations" /\ imp'.books = {}
    BY <1>3, <1>5 DEF IsImporter
  <2>2. RootsOK'
    BY <1>1, <1>3, <1>5 DEF RootsOK
  <2>3. ASSUME undisturbed' >= 0
        PROVE  RootsView'
    <3>1. /\ Keys(roots.origins) \subseteq Keys(tables.origins)
          /\ FormsMirrored(tables, roots)
          /\ \A b \in BooksOf(roots.concepts) : ConceptsIn(tables, roots, b)
          /\ \A r \in roots.relations : RelationsIn(tables, roots, BookOf[r.session])
      BY <1>1, <1>2, <1>4, <1>5, <2>3
    <3>2. QED
      BY <1>1, <1>5, <2>1, <3>1 DEF RootsView, AfterHeads, AfterReading
  <2>4. QED
    BY <2>1, <2>2, <2>3, NotDone DEF BeforeBooks
<1>6. ASSUME NEW b \in books \ imp.books, NEW i \in DOMAIN Steps(b), tables' = Steps(b)[i],
             Aborts \/ (i = 2 /\ imp' = [imp EXCEPT !.books = @ \cup {b}])
      PROVE  RootsInv'
  <2>1. /\ IsTables(tables') /\ Rooted(tables')
        /\ tables'.origins = tables.origins /\ tables'.forms = tables.forms /\ tables'.parts = tables.parts
        /\ tables'.concepts = tables.concepts /\ tables'.members = tables.members
        /\ \A c : c # b /\ RelationsIn(tables, roots, c) => RelationsIn(tables', roots, c)
        /\ i = 2 => RelationsIn(tables', roots, b)
    BY <1>3, <1>6, RelationsImported
  <2>2. RootsOK'
    BY <1>1, <1>3, <2>1 DEF RootsOK, PartsNoted
  <2>3. CASE Aborts
    BY <2>2, <2>3, StoppedKeepsRoots
  <2>4. CASE i = 2 /\ imp' = [imp EXCEPT !.books = @ \cup {b}]
    <3>1. imp'.phase = "concepts" /\ imp'.books = imp.books \cup {b}
      BY <1>1, <1>3, <2>4 DEF IsImporter
    <3>2. ASSUME undisturbed' >= 0
          PROVE  RootsView'
      <4>1. /\ Keys(roots.origins) \subseteq Keys(tables'.origins)
            /\ FormsMirrored(tables', roots)
        BY <1>1, <1>4, <2>1, <3>2 DEF FormsMirrored
      <4>2. \A c \in BooksOf(roots.concepts) : ConceptsIn(tables', roots, c)
        BY <1>1, <1>4, <2>1, <3>2, ConceptsStay
      <4>3. \A c \in imp.books \cup {b} : RelationsIn(tables', roots, c)
        BY <1>1, <1>4, <2>1, <2>4, <3>2
      <4>4. QED
        BY <1>1, <3>1, <4>1, <4>2, <4>3 DEF RootsView, AfterRelations, AfterHeads, AfterReading
    <3>3. QED
      BY <2>2, <3>1, <3>2, NotDone DEF BeforeBooks
  <2>5. QED
    BY <1>6, <2>3, <2>4
<1>7. \A b : Len(Steps(b)) = 2 /\ 2 \in DOMAIN Steps(b)
  BY BookSizes
<1> HIDE DEF Steps
<1>8. QED
  BY <1>1, <1>5, <1>6, <1>7

LEMMA HeadsKeepsRoots ==
    ASSUME RootsInv, MirrorInv', HeadsPhase
    PROVE  RootsInv'
<1> DEFINE Steps(b) == ImportHeads(tables, roots, b)
           books == BooksOf(roots.heads)
<1>1. /\ imp.phase = "relations" /\ UNCHANGED <<roots, notes, undisturbed>>
      /\ \/ /\ imp.books = books
            /\ imp' = [imp EXCEPT !.phase = "heads", !.books = {}]
            /\ UNCHANGED tables
         \/ \E b \in books \ imp.books :
               \/ tables' = Steps(b)[Len(Steps(b))] /\ imp' = [imp EXCEPT !.books = @ \cup {b}]
               \/ \E i \in DOMAIN Steps(b) : tables' = Steps(b)[i] /\ Aborts
  BY DEF HeadsPhase, BookPhase, Last, sources
<1> HIDE DEF books
<1>2. IsImporter(imp) /\ RootsOK /\ IsTables(tables) /\ Rooted(tables)
  BY DEF RootsInv, MirrorInv, RootsOK
<1>3. undisturbed >= 0 => /\ Keys(roots.origins) \subseteq Keys(tables.origins)
                          /\ FormsMirrored(tables, roots)
                          /\ \A b \in BooksOf(roots.concepts) : ConceptsIn(tables, roots, b)
                          /\ \A r \in roots.relations : RelationsIn(tables, roots, BookOf[r.session])
                          /\ \A b \in imp.books : HeadsIn(tables, roots, b)
  BY <1>1 DEF RootsInv, RootsView, AfterOrigins, AfterForms, AfterConcepts, AfterRelations
<1>4. CASE imp.books = books /\ imp' = [imp EXCEPT !.phase = "heads", !.books = {}] /\ UNCHANGED tables
  <2>1. imp'.phase = "heads" /\ imp'.books = {}
    BY <1>2, <1>4 DEF IsImporter
  <2>2. RootsOK'
    BY <1>1, <1>2, <1>4 DEF RootsOK
  <2>3. ASSUME undisturbed' >= 0
        PROVE  RootsView'
    <3>1. /\ Keys(roots.origins) \subseteq Keys(tables.origins)
          /\ FormsMirrored(tables, roots)
          /\ \A b \in BooksOf(roots.concepts) : ConceptsIn(tables, roots, b)
          /\ \A r \in roots.relations : RelationsIn(tables, roots, BookOf[r.session])
          /\ \A b \in books : HeadsIn(tables, roots, b)
      BY <1>1, <1>3, <1>4, <2>3
    <3>2. QED
      BY <1>1, <1>4, <2>1, <3>1 DEF RootsView, AfterReading, books
  <2>4. QED
    BY <2>1, <2>2, <2>3, NotDone DEF BeforeBooks
<1>5. ASSUME NEW b \in books \ imp.books, NEW i \in DOMAIN Steps(b), tables' = Steps(b)[i],
             Aborts \/ (i = 5 /\ imp' = [imp EXCEPT !.books = @ \cup {b}])
      PROVE  RootsInv'
  <2>1. /\ IsTables(tables') /\ Rooted(tables')
        /\ tables'.origins = tables.origins /\ tables'.forms = tables.forms /\ tables'.parts = tables.parts
        /\ tables'.concepts = tables.concepts /\ tables'.members = tables.members
        /\ tables'.related = tables.related
        /\ \A c : c # b /\ HeadsIn(tables, roots, c) => HeadsIn(tables', roots, c)
        /\ i = 5 => HeadsIn(tables', roots, b)
    BY <1>2, <1>5, HeadsImported
  <2>2. RootsOK'
    BY <1>1, <1>2, <2>1 DEF RootsOK, PartsNoted
  <2>3. CASE Aborts
    BY <2>2, <2>3, StoppedKeepsRoots
  <2>4. CASE i = 5 /\ imp' = [imp EXCEPT !.books = @ \cup {b}]
    <3>1. imp'.phase = "relations" /\ imp'.books = imp.books \cup {b}
      BY <1>1, <1>2, <2>4 DEF IsImporter
    <3>2. ASSUME undisturbed' >= 0
          PROVE  RootsView'
      <4>1. /\ Keys(roots.origins) \subseteq Keys(tables'.origins)
            /\ FormsMirrored(tables', roots)
        BY <1>1, <1>3, <2>1, <3>2 DEF FormsMirrored
      <4>2. \A c \in BooksOf(roots.concepts) : ConceptsIn(tables', roots, c)
        BY <1>1, <1>3, <2>1, <3>2, ConceptsStay
      <4>3. \A r \in roots.relations : RelationsIn(tables', roots, BookOf[r.session])
        BY <1>1, <1>3, <2>1, <3>2, RelationsStay
      <4>4. \A c \in imp.books \cup {b} : HeadsIn(tables', roots, c)
        BY <1>1, <1>3, <2>1, <2>4, <3>2
      <4>5. QED
        BY <1>1, <3>1, <4>1, <4>2, <4>3, <4>4 DEF RootsView, AfterHeads, AfterReading
    <3>3. QED
      BY <2>2, <3>1, <3>2, NotDone DEF BeforeBooks
  <2>5. QED
    BY <1>5, <2>3, <2>4
<1>6. \A b : Len(Steps(b)) = 5 /\ 5 \in DOMAIN Steps(b)
  BY BookSizes
<1> HIDE DEF Steps
<1>7. QED
  BY <1>1, <1>4, <1>5, <1>6

LEMMA DictionaryKeepsRoots ==
    ASSUME RootsInv, MirrorInv', DictionaryPhase
    PROVE  RootsInv'
<1> DEFINE steps == ImportDictionary(tables, roots, imp.update)
<1>1. Len(steps) = 1 /\ DOMAIN steps = {1}
  <2>1. PICK n : n = steps[1]
    OBVIOUS
  <2>2. IsTables(tables) /\ Rooted(tables)
    BY DEF RootsInv, RootsOK
  <2>3. QED
    BY <2>1, <2>2, DictionaryImported
<1>2. IsImporter(imp) /\ RootsOK /\ IsTables(tables) /\ Rooted(tables)
  BY DEF RootsInv, MirrorInv, RootsOK
<1>3. Phase("logged", "dictionary", steps)
  BY DEF DictionaryPhase
<1> HIDE DEF steps
<1>4. /\ tables' = steps[1]
      /\ Aborts \/ (imp'.phase = "dictionary" /\ imp'.books = imp.books)
  BY <1>1, <1>2, <1>3, PhaseTables
<1>5. imp.phase = "logged" /\ UNCHANGED <<roots, notes, undisturbed>>
  BY <1>1, <1>2, <1>3, PhaseTables DEF sources
<1>6. /\ IsTables(tables') /\ Rooted(tables')
      /\ tables'.origins = tables.origins /\ tables'.forms = tables.forms /\ tables'.parts = tables.parts
      /\ tables'.concepts = tables.concepts /\ tables'.members = tables.members /\ tables'.related = tables.related
      /\ tables'.heads = tables.heads /\ tables'.variants = tables.variants
      /\ CachedIn(tables', roots)
  BY <1>2, <1>4, DictionaryImported DEF steps
<1>7. RootsOK'
  BY <1>2, <1>5, <1>6 DEF RootsOK, PartsNoted
<1>8. CASE Aborts
  BY <1>7, <1>8, StoppedKeepsRoots
<1>9. CASE imp'.phase = "dictionary" /\ imp'.books = imp.books
  <2>1. ASSUME undisturbed' >= 0
        PROVE  RootsView'
    <3>1. Mirrors(tables, roots)
      BY <1>5, <2>1 DEF Mirrors, RootsInv, RootsView, AfterOrigins, AfterForms, AfterConcepts, AfterRelations,
                        AfterHeads, AfterReading
    <3>2. Mirrors(tables', roots)
      BY <1>6, <3>1, MirrorsStay
    <3>3. QED
      BY <1>5, <1>6, <1>9, <3>2 DEF RootsView, Mirrors
  <2>2. QED
    BY <1>7, <1>9, <2>1, NotDone DEF BeforeBooks
<1>10. QED
  BY <1>4, <1>8, <1>9

LEMMA StaleNotesKeepsRoots ==
    ASSUME RootsInv, MirrorInv', StaleNotes
    PROVE  RootsInv'
<1> DEFINE gone == {n \in notes : n.id \in imp.stale}
           parts == {p \in tables.parts : \A n \in gone : n.word # p.word}
<1>1. /\ imp.phase = "linked" /\ imp'.phase = "done"
      /\ UNCHANGED <<defs, roots>> /\ undisturbed' = undisturbed + 1 /\ undisturbed \in Int
      /\ notes' = notes \ gone /\ tables' = [tables EXCEPT !.parts = parts]
  BY DEF StaleNotes, sources, Idle, RootsInv, MirrorInv
<1>2. RootsOK /\ IsTables(tables) /\ Rooted(tables) /\ PartsNoted(tables, notes)
  BY DEF RootsInv, RootsOK
<1>3. \A p \in parts : p \in tables.parts /\ \A n \in gone : n.word # p.word
  OBVIOUS
<1> HIDE DEF gone, parts
<1>4. /\ IsTables(tables')
      /\ tables'.origins = tables.origins /\ tables'.forms = tables.forms /\ tables'.parts = parts
      /\ tables'.concepts = tables.concepts /\ tables'.members = tables.members /\ tables'.related = tables.related
      /\ tables'.heads = tables.heads /\ tables'.variants = tables.variants
      /\ tables'.dictionary = tables.dictionary
  BY <1>1, <1>2 DEF IsTables
<1>5. Rooted(tables')
  BY <1>2, <1>3, <1>4 DEF Rooted, FormsRooted, PartsRooted, MembersRooted, RelatedRooted, HasConcept
<1>6. PartsNoted(tables', notes')
  BY <1>1, <1>2, <1>3, <1>4 DEF PartsNoted
<1>7. RootsOK'
  BY <1>1, <1>2, <1>4, <1>5, <1>6 DEF RootsOK
<1>8. imp'.phase \in BeforeBooks => imp'.books = {}
  BY <1>1 DEF BeforeBooks
<1>9. RootsView'
  BY <1>1, NoView
<1>10. CASE undisturbed < 0
  BY <1>1, <1>7, <1>8, <1>9, <1>10, NotDone
<1>11. CASE undisturbed >= 0
  <2>1. Mirrors(tables, roots) /\ CachedIn(tables, roots)
    BY <1>1, <1>11 DEF Mirrors, RootsInv, RootsView, AfterOrigins, AfterForms, AfterConcepts, AfterRelations,
                       AfterHeads, AfterReading
  <2>2. Mirrors(tables', roots') /\ CachedIn(tables', roots')
    BY <1>1, <1>4, <2>1, MirrorsStay DEF CachedIn
  <2>3. /\ FormsMirrored(tables', roots') /\ ConceptsMirrored(tables', roots') /\ RelationsMirrored(tables', roots')
        /\ \A spellings : NothingLeftOut(tables', roots', spellings)
    BY <2>2, ConceptsMirror, RelationsMirror, NothingIsLeftOut DEF Mirrors
  <2>4. \A c \in roots'.cached : \E r \in tables'.dictionary : r.word = c.word
    BY <2>2 DEF CachedIn
  <2>5. EtymologyMirrored'
    BY <1>5, <1>6, <2>3, <2>4, NoneDangles DEF EtymologyMirrored
  <2>6. QED
    BY <1>7, <1>8, <1>9, <2>5 DEF RootsInv
<1>12. QED
  BY <1>1, <1>10, <1>11

LEMMA RootsInit == Init => RootsInv
<1> SUFFICES ASSUME Init
             PROVE  RootsInv
  OBVIOUS
<1>1. MirrorInv
  BY MirrorInit
<1>2. /\ roots \in Etymology /\ tables = EmptyTables /\ imp.phase = "idle" /\ undisturbed = 0
  BY DEF Init, Idle
<1>3. /\ IsTables(EmptyTables) /\ EmptyTables.forms = {} /\ EmptyTables.parts = {}
      /\ EmptyTables.members = {} /\ EmptyTables.related = {}
  BY DEF EmptyTables, IsTables
<1>4. Rooted(tables) /\ PartsNoted(tables, notes)
  BY <1>2, <1>3 DEF Rooted, FormsRooted, PartsRooted, MembersRooted, RelatedRooted, PartsNoted
<1>5. RootsOK
  BY <1>2, <1>3, <1>4 DEF RootsOK
<1>6. RootsView /\ imp.phase \notin BeforeBooks
  BY <1>2 DEF RootsView, AfterOrigins, AfterForms, AfterConcepts, AfterRelations, AfterHeads, AfterReading, BeforeBooks
<1>7. EtymologyMirrored
  BY <1>2, <1>4, NoneDangles DEF EtymologyMirrored, Completed
<1>8. QED
  BY <1>1, <1>5, <1>6, <1>7 DEF RootsInv

LEMMA RootsStep == RootsInv /\ [Next]_vars => RootsInv'
<1> SUFFICES ASSUME RootsInv, [Next]_vars
             PROVE  RootsInv'
  OBVIOUS
<1>1. MirrorInv'
  BY MirrorStep DEF RootsInv
<1>2. CASE \/ \E d \in defs, status \in Statuses : Answer(d, status)
           \/ \E r \in history : Override(r)
           \/ Edit
           \/ \E w \in Words, p \in Places : Register(w, p)
           \/ \E w \in Words, nb \in {NotebookOf[p] : p \in Places} : Unregister(w, nb)
  BY <1>1, <1>2, WritersKeepRoots
<1>3. CASE (\E update \in BOOLEAN : ImportDB(update)) \/ SyncDB
  BY <1>1, <1>3, BeginKeepsRoots DEF ImportDB, SyncDB
<1>4. CASE Importer
  <2>1. CASE Dies
    <3>1. RootsOK'
      BY <2>1 DEF RootsInv, RootsOK, Dies, sources, database
    <3>2. QED
      BY <1>1, <2>1, <3>1, StoppedKeepsRoots DEF Dies
  <2>2. QED
    BY <1>1, <1>4, <2>1, OthersKeepRoots, OriginsKeepsRoots, FormsKeepsRoots, PartsKeepsRoots, ConceptsKeepsRoots,
       RelationsKeepsRoots, HeadsKeepsRoots, DictionaryKeepsRoots, StaleNotesKeepsRoots DEF Importer
<1>5. CASE UNCHANGED vars
  <2>1. UNCHANGED <<defs, roots, notes, tables, imp, undisturbed>>
    BY <1>5 DEF vars, sources, database
  <2>2. RootsOK' /\ (imp'.phase \in BeforeBooks => imp'.books = {})
    BY <2>1 DEF RootsInv, RootsOK
  <2>3. undisturbed' >= 0 => RootsView'
    BY <2>1 DEF RootsInv, RootsView
  <2>4. EtymologyMirrored'
    BY <2>1 DEF RootsInv, EtymologyMirrored, Completed
  <2>5. QED
    BY <1>1, <2>2, <2>3, <2>4 DEF RootsInv
<1>6. QED
  BY <1>2, <1>3, <1>4, <1>5 DEF Next

\* In no state between two transactions does a row of the etymology name a row that is
\* gone (ImportEtymologyOrigins to ImportDefinitionConcepts, and the deletion of notes),
\* and an import that completes while nobody else writes leaves the origins, the forms, the
\* concepts, their members and relations and the cached words of the files, and of a book
\* validate warns of nothing in, all that it declares.
THEOREM EtymologyIsMirrored == Spec => []EtymologyMirrored
<1>1. RootsInv => EtymologyMirrored
  BY DEF RootsInv
<1>2. QED
  BY <1>1, RootsInit, RootsStep, PTL DEF Spec
=============================================================================
