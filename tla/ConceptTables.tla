---------------------------- MODULE ConceptTables ----------------------------
(***************************************************************************)
(* The etymology and concept tables of the database and what one import    *)
(* does to them.  The YAML files are the truth: rows they declare are made *)
(* or updated, rows they stopped declaring are deleted, as far as the code *)
(* looks.  Every operator takes the tables and the files and gives the     *)
(* tables after each of its transactions, in order: an import that fails   *)
(* has done a prefix of them.                                              *)
(*                                                                         *)
(* A row is named by its unique key.  An origin names its language too, a  *)
(* session its book.  Wording, the order of forms and whether a relation   *)
(* is directed other than by its rows are left out.                        *)
(***************************************************************************)
EXTENDS Naturals, Sequences, FiniteSets, SequencesExt

CONSTANTS
    BookOf,   \* the book of each session
    Unpinned  \* the sense of an origin, or of a reference, that names none

EmptyTables ==
    [origins  |-> {},  \* [session, name, sense, meaning]
     forms    |-> {},  \* [origin, form, note]
     parts    |-> {},  \* [word, nth, origin, form]
     concepts |-> {},  \* [book, key, meaning]
     members  |-> {},  \* [book, key, member], the member an origin
     related  |-> {},  \* [book, from, to]
     heads    |-> {},  \* [book, key, meaning] of the definitions' concepts
     variants |-> {},  \* [book, key, member, session], the member an expression
     dictionary |-> {}]  \* [word, response]

Key(o) == [session |-> o.session, name |-> o.name, sense |-> o.sense]
Keys(rows) == {Key(o) : o \in rows}

\* ImportEtymologyOrigins only inserts.
ImportOrigins(t, y) ==
    <<[t EXCEPT !.origins = @ \cup {o \in y.origins : Key(o) \notin Keys(@)}]>>

\* ON DELETE SET NULL: a part of a deleted form is a part of its origin.
UnpinnedFrom(parts, stale) ==
    {IF \E r \in stale : r.origin = p.origin /\ r.form = p.form
     THEN [p EXCEPT !.form = Unpinned] ELSE p : p \in parts}

\* ImportEtymologyOriginForms: inserts, updates, and then deletes among the
\* forms of the origins for which the files still declare one.
ImportForms(t, y) ==
    LET known    == Keys(t.origins)
        declared == {[origin |-> Key(f), form |-> f.form, note |-> f.note] :
                        f \in {g \in y.forms : Key(g) \in known}}
        Same(a, b) == a.origin = b.origin /\ a.form = b.form
        inserted == t.forms \cup {d \in declared : \A r \in t.forms : ~Same(r, d)}
        updated  == {IF \E d \in declared : Same(r, d)
                     THEN CHOOSE d \in declared : Same(r, d) ELSE r : r \in inserted}
        stale    == {r \in updated : /\ \E d \in declared : d.origin = r.origin
                                     /\ \A d \in declared : ~Same(r, d)}
    IN  <<[t EXCEPT !.forms = inserted], [t EXCEPT !.forms = updated],
          [t EXCEPT !.forms = updated \ stale, !.parts = UnpinnedFrom(@, stale)]>>

\* Of several rows, or titles, the one their order puts first.
Leading(S) == CHOOSE x \in S : TRUE

\* The three tiers by which a reference finds its origin.
Resolved(t, session, ref) ==
    LET named  == {k \in Keys(t.origins) : k.name = ref.name}
        base   == {k \in named : k.session = session}
        pinned == {k \in base : k.sense = ref.sense}
    IN  IF pinned # {} THEN pinned ELSE IF base # {} THEN base ELSE named

\* ImportNoteOriginParts: a position of a note gets a row once, and keeps it.
\* `noted` gives the word whose note a definition's expression finds, or no word.
ImportParts(t, y, noted) ==
    LET bound == UNION {{[word |-> w, nth |-> n, session |-> d.session, ref |-> d.refs[n]] :
                            w \in noted[d.name], n \in DOMAIN d.refs} : d \in y.parts}
        fresh == {b \in bound : /\ Resolved(t, b.session, b.ref) # {}
                                /\ \A p \in t.parts : ~(p.word = b.word /\ p.nth = b.nth)}
        first == {CHOOSE b \in fresh : b.word = p.word /\ b.nth = p.nth : p \in fresh}
        Row(b) == LET o == Leading(Resolved(t, b.session, b.ref))
                  IN  [word |-> b.word, nth |-> b.nth, origin |-> o,
                       form |-> IF \E f \in t.forms : f.origin = o /\ f.form = b.ref.form
                                THEN b.ref.form ELSE Unpinned]
    IN  <<[t EXCEPT !.parts = @ \cup {Row(b) : b \in first}]>>

\* The declarations of one book and, per key, the first of them.
InBook(decls, book) == {i \in DOMAIN decls : BookOf[decls[i].session] = book}
OfBook(decls, book) == {decls[i] : i \in InBook(decls, book)}
First(decls, book, key) ==
    LET same == {i \in InBook(decls, book) : decls[i].key = key}
    IN  decls[CHOOSE i \in same : \A j \in same : i <= j]

\* One row for each key a book declares, the first declaration's.
Claimed(book, decls) ==
    {[book |-> book, key |-> d.key, meaning |-> First(decls, book, d.key).meaning] : d \in OfBook(decls, book)}

SameKey(a, b) == a.book = b.book /\ a.key = b.key
SameMember(a, b) == SameKey(a, b) /\ a.member = b.member

\* The writes of the concept repositories.  A member that has a row keeps it as it
\* is, and a concept that goes takes its members with it.
BatchCreateConcepts(concepts, claimed) ==
    concepts \cup {d \in claimed : \A c \in concepts : ~SameKey(c, d)}
BatchUpdateConcepts(concepts, claimed) ==
    {IF \E d \in claimed : SameKey(c, d) THEN CHOOSE d \in claimed : SameKey(c, d) ELSE c : c \in concepts}
BatchCreateMembers(members, wanted) ==
    members \cup {w \in wanted : \A m \in members : ~SameMember(m, w)}
BatchDeleteMembers(members, claimed, wanted) ==
    {m \in members : (\E d \in claimed : SameKey(m, d)) => \E w \in wanted : SameMember(m, w)}
BatchDeleteConcepts(concepts, book, claimed) ==
    {c \in concepts : c.book # book \/ \E d \in claimed : SameKey(c, d)}

\* reconcileBookConcepts and reconcileBookDefinitionConcepts.
Reconcile(concepts, members, book, claimed, wanted) ==
    LET created == BatchCreateConcepts(concepts, claimed)
        updated == BatchUpdateConcepts(created, claimed)
        joined  == BatchCreateMembers(members, wanted)
        left    == BatchDeleteMembers(joined, claimed, wanted)
        final   == BatchDeleteConcepts(updated, book, claimed)
    IN  <<[concepts |-> created, members |-> members], [concepts |-> updated, members |-> members],
          [concepts |-> updated, members |-> joined], [concepts |-> updated, members |-> left],
          [concepts |-> final, members |-> {m \in left : \E c \in final : SameKey(c, m)}]>>

\* The books some declarations are in.
BooksOf(decls) == {BookOf[decls[i].session] : i \in DOMAIN decls}

\* The members of one book whose origin is in the declaring session; of several
\* senses the leading one.
MembersOf(t, book, decls) ==
    LET At(d, m) == {k \in Keys(t.origins) : k.session = d.session /\ k.name = m}
    IN  UNION {{[book |-> book, key |-> d.key, member |-> Leading(At(d, m))] :
                    m \in {x \in d.members : At(d, x) # {}}} : d \in OfBook(decls, book)}

\* ImportSemanticConcepts for one book that declares a concept.  A concept that
\* goes takes its relations with it.
ImportConcepts(t, y, book) ==
    LET steps == Reconcile(t.concepts, t.members, book, Claimed(book, y.concepts),
                           MembersOf(t, book, y.concepts))
        Has(rows, k) == \E c \in rows : c.book = book /\ c.key = k
    IN  [i \in DOMAIN steps |->
            [t EXCEPT !.concepts = steps[i].concepts, !.members = steps[i].members,
                      !.related = {r \in @ : r.book = book =>
                                        Has(steps[i].concepts, r.from) /\ Has(steps[i].concepts, r.to)}]]

\* Mutant: a symmetric relation gets one row.
OneRowEach(r) == {<<r.from, r.to>>}

\* The rows of a relation: both directions unless it is directed.
RowsOf(r) == IF r.directed THEN {<<r.from, r.to>>} ELSE {<<r.from, r.to>>, <<r.to, r.from>>}

\* ImportConceptRelations for one book that declares a relation.
ImportRelations(t, y, book) ==
    LET Has(k) == \E c \in t.concepts : c.book = book /\ c.key = k
        claimed == {[book |-> book, from |-> p[1], to |-> p[2]] :
                       p \in UNION {RowsOf(r) : r \in {s \in y.relations :
                           BookOf[s.session] = book /\ Has(s.from) /\ Has(s.to)}}}
        created == t.related \cup claimed
    IN  <<[t EXCEPT !.related = created],
          [t EXCEPT !.related = {r \in created : r.book = book => r \in claimed}]>>

\* The expressions every declaration of a head adds to it, with the session of the
\* first that names them.
HeadMembers(book, decls) ==
    LET Names(i, key, m) == decls[i].key = key /\ m \in decls[i].members
    IN  UNION {{[book |-> book, key |-> decls[i].key, member |-> m, session |-> decls[i].session] :
                    m \in {x \in decls[i].members :
                               \A j \in InBook(decls, book) : j < i => ~Names(j, decls[i].key, x)}} :
                        i \in InBook(decls, book)}

\* ImportDefinitionConcepts for one book that declares a concept.
ImportHeads(t, y, book) ==
    LET steps == Reconcile(t.heads, t.variants, book, Claimed(book, y.heads), HeadMembers(book, y.heads))
    IN  [i \in DOMAIN steps |-> [t EXCEPT !.heads = steps[i].concepts, !.variants = steps[i].members]]

\* ImportDictionary: a cached response per word, never deleted.
ImportDictionary(t, y, update) ==
    LET known == {r.word : r \in t.dictionary}
        fresh == {c \in y.cached : c.word \notin known}
        Response(r) == IF update /\ \E c \in y.cached : c.word = r.word
                       THEN CHOOSE c \in y.cached : c.word = r.word ELSE r
    IN  <<[t EXCEPT !.dictionary = {Response(r) : r \in @} \cup fresh]>>

-----------------------------------------------------------------------------
(* The export of the definitions' concepts *)

\* The heads of a book that have a member; one without is written under no session
\* and not read again.
HeadsOf(t, book) == {h \in t.heads : h.book = book /\ \E v \in t.variants : SameKey(v, h)}

\* ExportDefinitionConcepts: the heads of one book under the session of the first
\* of their members.
ExportedHeads(t, book) ==
    LET own(h) == {v \in t.variants : SameKey(v, h)}
        sessions(h) == {v.session : v \in own(h)}
        heads == HeadsOf(t, book)
    IN  [s \in {Leading(sessions(h)) : h \in heads} |->
            {[session |-> s, key |-> h.key, meaning |-> h.meaning, members |-> {v.member : v \in own(h)}] :
                h \in {g \in heads : Leading(sessions(g)) = s}}]

\* WriteConcepts: the sessions of a book one after the other.
WriteConcepts(bySession) ==
    FlattenSeq([i \in DOMAIN SetToSeq(DOMAIN bySession) |-> SetToSeq(bySession[SetToSeq(DOMAIN bySession)[i]])])

-----------------------------------------------------------------------------
(* What "validate" warns of in the files of one book *)

\* loadEtymologyBookView: the origins of a session, senses of one name alike.
OriginsBySession(y, session) == {o.name : o \in {p \in y.origins : p.session = session}}

\* The declarations of a concept agree with the first, and its members are origins
\* of the session that declares it.
ConceptWarnings(y, book) ==
    LET all == OfBook(y.concepts, book)
    IN  {<<d.key, "meaning">> : d \in {e \in all : e.meaning # First(y.concepts, book, e.key).meaning}} \cup
        UNION {{<<d.key, m>> : m \in d.members \ OriginsBySession(y, d.session)} : d \in all}

\* Both ends of a relation are declared somewhere in the book.
RelationWarnings(y, book) ==
    LET declared == {d.key : d \in OfBook(y.concepts, book)}
    IN  UNION {{r.from, r.to} \ declared : r \in {s \in y.relations : BookOf[s.session] = book}}

\* A head agrees with its first declaration, is its own member, has only members the
\* book has, and shares none of them.
HeadWarnings(y, book, spellings) ==
    LET all == OfBook(y.heads, book)
    IN  {<<d.key, "meaning">> : d \in {e \in all : e.meaning # First(y.heads, book, e.key).meaning}} \cup
        {<<d.key, "head">> : d \in {e \in all : e.key \notin e.members}} \cup
        (UNION {{<<d.key, m>> : m \in d.members \ spellings} : d \in all}) \cup
        UNION {{<<d.key, m>> : m \in UNION {d.members \cap e.members : e \in {f \in all : f.key # d.key}}} : d \in all}

-----------------------------------------------------------------------------
\* An import of what was exported of the heads makes the heads again, with all of
\* their members, though the sessions of a head have become one.
HeadsRoundTrip(t, book) ==
    LET written == WriteConcepts(ExportedHeads(t, book))
        steps   == ImportHeads(EmptyTables, [heads |-> written], book)
        Plain(rows) == {[book |-> r.book, key |-> r.key, member |-> r.member] : r \in rows}
    IN  /\ steps[Len(steps)].heads = HeadsOf(t, book)
        /\ Plain(steps[Len(steps)].variants) = Plain({v \in t.variants : v.book = book})

\* The forms of an origin that declares one are the files', and every origin
\* of the files is there.
FormsMirrored(t, y) ==
    /\ Keys(y.origins) \subseteq Keys(t.origins)
    /\ \A f \in y.forms : \E r \in t.forms : r.origin = Key(f) /\ r.form = f.form
    /\ \A f \in y.forms, r \in t.forms : r.origin = Key(f) =>
          \E g \in y.forms : Key(g) = Key(f) /\ g.form = r.form /\ g.note = r.note

\* What the tables of an import that completed should hold, of the books the
\* files declare something in.

ConceptsMirrored(t, y) ==
    /\ \A b \in BooksOf(y.concepts) :
          /\ {c \in t.concepts : c.book = b} = Claimed(b, y.concepts)
          /\ \A m \in t.members : m.book = b =>
                \E d \in OfBook(y.concepts, b) : /\ d.key = m.key /\ d.session = m.member.session
                                                 /\ m.member.name \in d.members
          /\ \A d \in OfBook(y.concepts, b) : \A n \in d.members :
                (\E o \in t.origins : o.session = d.session /\ o.name = n) =>
                    \E m \in t.members : /\ m.book = b /\ m.key = d.key
                                         /\ m.member.name = n /\ m.member.session = d.session
    /\ \A b \in BooksOf(y.heads) :
          /\ {c \in t.heads : c.book = b} = Claimed(b, y.heads)
          /\ \A v \in t.variants : v.book = b =>
                \E d \in OfBook(y.heads, b) : d.key = v.key /\ v.member \in d.members

RelationsMirrored(t, y) ==
    \A r \in y.relations : \A e \in {<<r.from, r.to>>, <<r.to, r.from>>} :
        LET b == BookOf[r.session]
            Has(k) == \E c \in t.concepts : c.book = b /\ c.key = k
        IN  Has(r.from) /\ Has(r.to) =>
              ([book |-> b, from |-> e[1], to |-> e[2]] \in t.related <=>
                  \E s \in y.relations : /\ BookOf[s.session] = b
                                         /\ \/ e = <<s.from, s.to>>
                                            \/ e = <<s.to, s.from>> /\ ~s.directed)

\* Of a book that validate warns of nothing in, the import leaves nothing out: what
\* it skips without a word, a member or a relation that finds no row, is warned of.
NothingLeftOut(t, y, spellings) ==
    /\ \A b \in BooksOf(y.concepts) : ConceptWarnings(y, b) \cup RelationWarnings(y, b) = {} =>
          /\ \A d \in OfBook(y.concepts, b) :
                /\ [book |-> b, key |-> d.key, meaning |-> d.meaning] \in t.concepts
                /\ {m.member.name : m \in {n \in t.members : n.book = b /\ n.key = d.key /\ n.member.session = d.session}}
                   = UNION {e.members : e \in {f \in OfBook(y.concepts, b) : f.key = d.key /\ f.session = d.session}}
          /\ \A r \in {s \in y.relations : BookOf[s.session] = b} :
                [book |-> b, from |-> r.from, to |-> r.to] \in t.related
    /\ \A b \in BooksOf(y.heads) : HeadWarnings(y, b, spellings) = {} =>
          \A d \in OfBook(y.heads, b) :
                /\ [book |-> b, key |-> d.key, meaning |-> d.meaning] \in t.heads
                /\ \A m \in d.members : \A v \in t.variants : v.book = b /\ v.member = m => v.key = d.key
=============================================================================
