------------------------------- MODULE Upkeep --------------------------------
(***************************************************************************)
(* The maintenance commands.  The learning file of a notebook outlives     *)
(* what it was written under: scenes are retitled, a word moves to another *)
(* scene or gets a form of its own, older versions filed it elsewhere.     *)
(* "validate --fix", "assign-ids", "dedup", "merge-concepts" and           *)
(* "recalculate-intervals" rewrite the whole file to follow, between       *)
(* answers and exclusions; each is one step here.                          *)
(*                                                                         *)
(* A notebook is one event of a story, or one session of a definitions     *)
(* book.  Spellings are trimmed and lower case.  Of an interval only the   *)
(* mark of an old exclusion is kept (3650 days; IntervalSchedule has the   *)
(* calculators), of an exclusion that it is there.  Flat histories, which  *)
(* most passes leave alone, and the dictionary numbers are left out.       *)
(***************************************************************************)
EXTENDS Naturals, Sequences, FiniteSets, SequencesExt, FiniteSetsExt

CONSTANTS
    Notebooks,   \* [editions, file, ids]: what the source says over time, the file at
                 \* first, and the ids of the words (None before assign-ids)
    Straight,    \* titles with typographic quotes, and the same titles with plain ones
    OldKeys,     \* the titles that old definitions scenes had, by their position
    MaxAnswers,
    MaxClicks,
    None

VARIABLES
    notebook,
    edition,     \* the source as it is now, a member of the notebook's editions
    ids,         \* of the words, as the source has them
    file,        \* the learning file: a sequence of blocks of scenes of entries
    given,       \* the answers each word got, as <<list, time>>
    excluded,    \* the quizzes each word is excluded from, as the learner was told
    clicks,
    last         \* the last step, if the properties ask for it

vars == <<notebook, edition, ids, file, given, excluded, clicks, last>>

source == notebook.editions[edition]
Story == source.kind = "story"
Scenes == DOMAIN source.scenes
Words == FlattenSeq([s \in Scenes |-> source.scenes[s].words])
WordSet == ToSet(Words)

EntryOf(w) == IF w.defn = None THEN w.expr ELSE w.defn
Spellings(w) == {w.expr, w.defn} \ {None}
SceneOf(w) == CHOOSE s \in Scenes : w \in ToSet(source.scenes[s].words)
TitleOf(w) == source.scenes[SceneOf(w)].title

Norm(title) == IF title \in DOMAIN Straight THEN Straight[title] ELSE title
Same(t, u) == Norm(t) = Norm(u)

-----------------------------------------------------------------------------
(* Entries and logs *)

Lists == {"learned", "reverse", "origin"}
Answers(e) == UNION {{<<l, e[l][k].at>> : k \in DOMAIN e[l]} : l \in Lists}
HasLogs(e) == \E l \in Lists : e[l] # <<>>
IsOrigin(e) == e.type = "origin" \/ e.origin # <<>>
Identity(e) == <<e.name, e.type>>
Stub(name) ==
    [name |-> name, type |-> "word", id |-> None, learned |-> <<>>, reverse |-> <<>>, origin |-> <<>>, skipped |-> {}]

MatchesEntry(e, id, names) ==
    IF id = None \/ e.id = None THEN e.name \in names ELSE e.id = id

NewestFirst(logs) == SortSeq(logs, LAMBDA a, b : a.at > b.at)

\* RecalculateAll: sorted, with the intervals of a replay.
Replayed(logs) == NewestFirst([k \in DOMAIN logs |-> [logs[k] EXCEPT !.marker = FALSE]])
MergeLogs(logs, more) == IF more = <<>> THEN logs ELSE Replayed(logs \o more)

\* Mutant: the recall answers are forgotten.
MergeLearned(e, other) == [e EXCEPT !.learned = MergeLogs(@, other.learned)]

MergeAnswers(e, other) ==
    [e EXCEPT !.learned = MergeLogs(@, other.learned), !.reverse = MergeLogs(@, other.reverse)]

MergeAll(e, other) ==
    [MergeAnswers(e, other) EXCEPT !.origin = MergeLogs(@, other.origin),
                                   !.skipped = @ \cup other.skipped]

MergeOrigin(e, other) ==
    [MergeAll(e, other) EXCEPT !.type = IF other.type = "origin" THEN "origin" ELSE @]

-----------------------------------------------------------------------------
(* Blocks of scenes of entries *)

EntriesOf(blocks) ==
    UNION {UNION {ToSet(blocks[b].scenes[s].exprs) : s \in DOMAIN blocks[b].scenes} : b \in DOMAIN blocks}

OnScenes(F(_, _), blocks) ==
    [b \in DOMAIN blocks |->
        [blocks[b] EXCEPT !.scenes = [s \in DOMAIN @ |-> F(blocks[b], @[s])]]]

OnEntries(F(_), blocks) ==
    OnScenes(LAMBDA block, scene : [scene EXCEPT !.exprs = [k \in DOMAIN @ |-> F(@[k])]], blocks)

Without(seq, drop) == FlattenSeq([k \in DOMAIN seq |-> IF k \in drop THEN <<>> ELSE <<seq[k]>>])
NewScene(title, exprs) == [title |-> title, exprs |-> exprs]

\* The sequence with its i-th element changed; a constructor, as TLC's EXCEPT of a
\* sequence it has not evaluated yet is lost when the sequence grows.
Updated(seq, i, F(_)) == [k \in DOMAIN seq |-> IF k = i THEN F(seq[k]) ELSE seq[k]]

\* x merged into the first element of the same key, or added at the end.
Into(seq, x, Key(_), Merge(_, _)) ==
    LET hits == {k \in DOMAIN seq : Key(seq[k]) = Key(x)}
    IN  IF hits = {} THEN Append(seq, x) ELSE Updated(seq, Min(hits), LAMBDA y : Merge(y, x))

Title(x) == x.title
NormTitle(x) == Norm(x.title)
JoinScene(s, t) == [s EXCEPT !.exprs = @ \o t.exprs]
JoinBlock(b, c) == [b EXCEPT !.scenes = @ \o c.scenes]
NewBlock(title, scene) == [title |-> title, etymology |-> FALSE, scenes |-> <<scene>>]

\* The entries of a block that pass, as places <<scene, entry>> in the order of the file.
PlacesOf(block, Test(_)) ==
    SetToSortSeq({p \in UNION {{s} \X DOMAIN block.scenes[s].exprs : s \in DOMAIN block.scenes} :
                      Test(block.scenes[p[1]].exprs[p[2]])},
                 LAMBDA p, q : p[1] < q[1] \/ (p[1] = q[1] /\ p[2] < q[2]))
AtPlace(block, p) == block.scenes[p[1]].exprs[p[2]]
Changed(block, p, F(_)) ==
    [block EXCEPT !.scenes = Updated(@, p[1], LAMBDA s : [s EXCEPT !.exprs = Updated(@, p[2], F)])]

\* All of the places merged into one of them, and the others gone.
Collect(block, places, target) ==
    LET merged == FoldLeft(LAMBDA e, p : IF p = target THEN e ELSE MergeOrigin(e, AtPlace(block, p)),
                           AtPlace(block, target), places)
        gone(s) == {p[2] : p \in {q \in ToSet(places) : q[1] = s /\ q # target}}
    IN  [block EXCEPT !.scenes =
            [s \in DOMAIN @ |->
                [@[s] EXCEPT !.exprs =
                    Without([k \in DOMAIN @ |-> IF <<s, k>> = target THEN merged ELSE @[k]], gone(s))]]]

NoEmptyScene(block) == [block EXCEPT !.scenes = SelectSeq(@, LAMBDA s : s.exprs # <<>>)]

-----------------------------------------------------------------------------
(* What the source says of a spelling *)

\* Mutant: only the expressions of the words are looked at.
ScenesByExpression(name) == {s \in Scenes : \E w \in ToSet(source.scenes[s].words) : name = w.expr}

ScenesOf(name) == {s \in Scenes : \E w \in ToSet(source.scenes[s].words) : name \in Spellings(w)}

\* The source scene where an origin is met first, or the session.
OriginScene(origin, session) ==
    LET met == {s \in Scenes : \E w \in ToSet(source.scenes[s].words) : origin \in w.origins}
    IN  IF met = {} THEN session ELSE source.scenes[Min(met)].title

\* The concept of a spelling, by its head.
HeadOf(name) ==
    IF \E c \in source.concepts : name \in c.members
    THEN (CHOOSE c \in source.concepts : name \in c.members).head ELSE None

-----------------------------------------------------------------------------
(* The passes of "validate --fix" *)

PromoteList(e, l) ==
    IF e[l] # <<>> /\ Head(e[l]).marker /\ Head(e[l]).type # None
    THEN [e EXCEPT !.skipped = @ \cup {Head(e[l]).type}, ![l][1].marker = FALSE] ELSE e

MigrateLegacySkips(blocks) ==
    OnEntries(LAMBDA e : FoldLeft(PromoteList, e, <<"learned", "reverse", "origin">>), blocks)

\* Blocks of an etymology notebook, whose scenes were sessions, become blocks of a session.
AppendOrigin(e, other) ==
    [e EXCEPT !.learned = @ \o other.learned, !.reverse = @ \o other.reverse,
              !.origin = @ \o other.origin, !.skipped = @ \cup other.skipped]

AddOrigin(blocks, session, e) ==
    LET origin == [e EXCEPT !.type = "origin"]
        scene == NewScene(OriginScene(e.name, session), <<origin>>)
    IN  Into(blocks, NewBlock(session, scene), NormTitle, LAMBDA b, c :
            [b EXCEPT !.scenes = Into(@, scene, NormTitle, LAMBDA s, t :
                [s EXCEPT !.exprs = Into(@, origin, Identity, AppendOrigin)])])

MigrateEtymologyShape(blocks) ==
    LET legacy == SelectSeq(blocks, LAMBDA b : b.etymology /\ b.scenes # <<>>)
        sessions == FlattenSeq([b \in DOMAIN legacy |-> legacy[b].scenes])
    IN  FoldLeft(LAMBDA bs, s : FoldLeft(LAMBDA cs, e : AddOrigin(cs, s.title, e), bs, s.exprs),
                 SelectSeq(blocks, LAMBDA b : ~(b.etymology /\ b.scenes # <<>>)), sessions)

\* Entries of story words go to the last scene that has the word; scenes made for
\* them are in the order of the source here, in any order in the code.
HomeOf(name) == source.scenes[Max(ScenesOf(name))].title

FixMismatchedScenes(blocks) ==
    LET Stays(e, s) == ScenesOf(e.name) # {} => HomeOf(e.name) = s.title
        Move(b) ==
            LET moved == FlattenSeq([k \in DOMAIN b.scenes |->
                             SelectSeq(b.scenes[k].exprs, LAMBDA e : ~Stays(e, b.scenes[k]))])
                stayed == [k \in DOMAIN b.scenes |->
                              [b.scenes[k] EXCEPT !.exprs = SelectSeq(@, LAMBDA e : Stays(e, b.scenes[k]))]]
                Add(scenes, t) ==
                    LET exprs == SelectSeq(moved, LAMBDA e : HomeOf(e.name) = t)
                    IN  IF exprs = <<>> THEN scenes ELSE Into(scenes, NewScene(t, exprs), Title, JoinScene)
            IN  [b EXCEPT !.scenes = FoldLeft(Add, stayed, [s \in Scenes |-> source.scenes[s].title])]
    IN  [k \in DOMAIN blocks |-> IF blocks[k].title = source.title THEN Move(blocks[k]) ELSE blocks[k]]

\* Entries under the expression of a word are renamed to its definition.
FixExpressionNames(blocks) ==
    LET Renamed(scene, e) ==
            LET ws == {k \in DOMAIN Words : /\ TitleOf(Words[k]) = scene.title
                                            /\ Words[k].expr = e.name /\ Words[k].defn # None}
            IN  IF ws = {} THEN e ELSE [e EXCEPT !.name = Words[Max(ws)].defn]
    IN  OnScenes(LAMBDA b, s :
            IF b.title # source.title THEN s
            ELSE [s EXCEPT !.exprs = [k \in DOMAIN @ |-> Renamed(s, @[k])]], blocks)

RenameIndexScenes(blocks) ==
    OnScenes(LAMBDA b, s :
        IF b.title = source.title /\ \E i \in Scenes : OldKeys[i] = s.title
        THEN [s EXCEPT !.title = source.scenes[CHOOSE i \in Scenes : OldKeys[i] = s.title].title]
        ELSE s, blocks)

\* An origin in several scenes is collected in the scene of the source, or, if it
\* is not there, in the one answered last.
LatestAt(e) == Max({0} \cup {a[2] : a \in Answers(e)})

CollectOrigin(name, block) ==
    LET places == PlacesOf(block, LAMBDA e : IsOrigin(e) /\ e.name = name)
        home == {k \in DOMAIN places :
                     Same(block.scenes[places[k][1]].title, OriginScene(name, block.title))}
        At(k) == LatestAt(AtPlace(block, places[k]))
        latest == {k \in DOMAIN places : \A j \in DOMAIN places : At(j) <= At(k)}
    IN  IF Cardinality({p[1] : p \in ToSet(places)}) < 2 THEN block
        ELSE Collect(block, places, places[Min(IF home # {} THEN home ELSE latest)])

\* F for each name of the block; scenes left empty go if anything changed.
ForNames(F(_, _), block) ==
    LET done == FoldSet(F, block, {e.name : e \in EntriesOf(<<block>>)})
    IN  IF done = block THEN block ELSE NoEmptyScene(done)

ConsolidateOrigins(blocks) == [b \in DOMAIN blocks |-> ForNames(CollectOrigin, blocks[b])]

\* A word of a definitions book goes to the one scene that defines it.  (Of two
\* scenes of one title the code takes the last; they are merged below.)
CollectWord(name, block) ==
    LET titles == {source.scenes[s].title : s \in ScenesOf(name)}
        home == source.scenes[Min(ScenesOf(name))].title
        places == PlacesOf(block, LAMBDA e : ~IsOrigin(e) /\ e.name = name)
        there == {k \in DOMAIN places : Same(block.scenes[places[k][1]].title, home)}
        first == places[1]
        collected == Collect(block, places, first)
        scenes == Updated(collected.scenes, first[1], LAMBDA s : [s EXCEPT !.exprs = RemoveAt(@, first[2])])
    IN  IF Cardinality({Norm(t) : t \in titles}) # 1 \/ places = <<>> THEN block
        ELSE IF there # {} THEN Collect(block, places, places[Min(there)])
        ELSE [block EXCEPT !.scenes =
                 Into(scenes, NewScene(home, <<AtPlace(collected, first)>>), NormTitle, JoinScene)]

ConsolidateDefinitions(blocks) ==
    [b \in DOMAIN blocks |->
        IF blocks[b].title = source.title THEN ForNames(CollectWord, blocks[b]) ELSE blocks[b]]

\* The duplicates: blocks and scenes of one title, entries of one name and type in
\* a scene, and then across the scenes of a block.
MergeScene(s, t) ==
    LET Add(es, e) == LET hits == {k \in DOMAIN es : es[k].name = e.name}
                      IN  IF hits = {} THEN Append(es, e) ELSE Updated(es, Max(hits), LAMBDA d : MergeAll(d, e))
    IN  [s EXCEPT !.exprs = FoldLeft(Add, @, t.exprs)]

MergeHistories(blocks) == FoldLeft(LAMBDA bs, b : Into(bs, b, NormTitle, JoinBlock), <<>>, blocks)
MergeScenes(scenes) == FoldLeft(LAMBDA ss, s : Into(ss, s, NormTitle, MergeScene), <<>>, scenes)

\* Mutant: the entries of a scene are left as they are.
LeaveEntries(exprs) == exprs

MergeEntries(exprs) == FoldLeft(LAMBDA es, e : Into(es, e, Identity, MergeAnswers), <<>>, exprs)

MergeAcross(scenes) ==
    LET Again(e, es) == {k \in DOMAIN es : Identity(es[k]) = Identity(e)}
        Add(ss, s) ==
            LET With(e) == LET again == Again(e, s.exprs)
                           IN  IF again = {} THEN e ELSE MergeAnswers(e, s.exprs[Min(again)])
                New(e) == \A k \in DOMAIN ss : Again(e, ss[k].exprs) = {}
            IN  Append([k \in DOMAIN ss |-> [ss[k] EXCEPT !.exprs = [i \in DOMAIN @ |-> With(@[i])]]],
                       [s EXCEPT !.exprs = SelectSeq(@, New)])
    IN  FoldLeft(Add, <<>>, scenes)

FixLearningNotesStructure(blocks) ==
    LET Sorted(bs) == OnEntries(LAMBDA e : [e EXCEPT !.learned = NewestFirst(@)], bs)
        joined == MergeHistories(blocks)
        merged == [b \in DOMAIN joined |-> [joined[b] EXCEPT !.scenes = MergeScenes(@)]]
        single == Sorted(OnScenes(LAMBDA b, s : [s EXCEPT !.exprs = MergeEntries(@)], merged))
    IN  Sorted([b \in DOMAIN single |->
                   IF single[b].etymology THEN single[b] ELSE [single[b] EXCEPT !.scenes = MergeAcross(@)]])

\* Entries of nothing, for no word of the scene, are removed.
FixConsistency(blocks) ==
    OnScenes(LAMBDA b, s :
        [s EXCEPT !.exprs = SelectSeq(@, LAMBDA e :
            \/ HasLogs(e) \/ e.skipped # {}
            \/ /\ Story /\ b.title = source.title
               /\ \E w \in WordSet : TitleOf(w) = s.title /\ e.name \in Spellings(w))], blocks)

BackfillQuizType(blocks) ==
    LET Filled(log) == IF log.usable /\ log.type = None THEN [log EXCEPT !.type = "freeform"] ELSE log
    IN  OnEntries(LAMBDA e : [e EXCEPT !.learned = [k \in DOMAIN @ |-> Filled(@[k])]], blocks)

\* Story words without an entry get an empty one.
CreateMissing(blocks) ==
    LET Has(bs, w) ==
            \E b \in DOMAIN bs : bs[b].title = source.title /\ \E s \in DOMAIN bs[b].scenes :
                bs[b].scenes[s].title = TitleOf(w) /\ \E e \in ToSet(bs[b].scenes[s].exprs) : e.name = EntryOf(w)
        Add(bs, w) ==
            LET scene == NewScene(TitleOf(w), <<Stub(EntryOf(w))>>)
            IN  IF Has(bs, w) THEN bs
                ELSE Into(bs, NewBlock(source.title, scene), Title,
                          LAMBDA b, c : [b EXCEPT !.scenes = Into(@, scene, Title, JoinScene)])
    IN  FoldLeft(Add, blocks, Words)

RecalculateAllIntervals(blocks) ==
    OnEntries(LAMBDA e : [e EXCEPT !.learned = Replayed(@), !.reverse = Replayed(@), !.origin = Replayed(@)], blocks)

ForStory(F(_), blocks) == IF Story THEN F(blocks) ELSE blocks
ForDefinitions(F(_), blocks) == IF Story THEN blocks ELSE F(blocks)

\* Mutant: names are fixed before scenes.
FixedNamesFirst(blocks) ==
    LET p1 == MigrateEtymologyShape(MigrateLegacySkips(blocks))
        p2 == ForStory(FixMismatchedScenes, ForStory(FixExpressionNames, p1))
        p3 == ForDefinitions(ConsolidateDefinitions, ConsolidateOrigins(ForDefinitions(RenameIndexScenes, p2)))
        p4 == BackfillQuizType(FixConsistency(FixLearningNotesStructure(p3)))
    IN  RecalculateAllIntervals(ForStory(CreateMissing, p4))

\* Fix, in its order.
Fixed(blocks) ==
    LET p1 == MigrateEtymologyShape(MigrateLegacySkips(blocks))
        p2 == ForStory(FixExpressionNames, ForStory(FixMismatchedScenes, p1))
        p3 == ForDefinitions(ConsolidateDefinitions, ConsolidateOrigins(ForDefinitions(RenameIndexScenes, p2)))
        p4 == BackfillQuizType(FixConsistency(FixLearningNotesStructure(p3)))
    IN  RecalculateAllIntervals(ForStory(CreateMissing, p4))

-----------------------------------------------------------------------------
(* What "validate" reports, as the block and the place of an entry *)

Report(what, b, p) == [what |-> what, block |-> b, place |-> p]
AllPlaces(block) == ToSet(PlacesOf(block, LAMBDA e : TRUE))

OutOfOrder(e) == \E k \in 2..Len(e.learned) : e.learned[k].at > e.learned[k - 1].at

\* LearningHistory.Validate: answers out of order, and entries of one name, type
\* and id in the scenes of a block.
StructureReports(blocks) ==
    LET Of(b) ==
            LET At(p) == AtPlace(blocks[b], p)
                Key(p) == <<Identity(At(p)), At(p).id>>
                places == AllPlaces(blocks[b])
            IN  {Report("order", b, p) : p \in {q \in places : OutOfOrder(At(q))}} \cup
                {Report("repeated", b, p) : p \in {q \in places : \E r \in places \ {q} : Key(r) = Key(q)}}
    IN  UNION {Of(b) : b \in DOMAIN blocks}

\* Spellings that are in no story and still known: of definitions, and origins.
DefinedNames ==
    UNION {w.origins : w \in WordSet} \cup (IF Story THEN {} ELSE UNION {Spellings(w) : w \in WordSet})

\* Entries of one name in one scene, entries of nothing, and entries of story words
\* where the story has no such scene, or not the word in it.
ConsistencyReports(blocks) ==
    LET Of(b) ==
            LET Name(p) == AtPlace(blocks[b], p).name
                places == AllPlaces(blocks[b])
                told == {p \in places : Story /\ ScenesOf(Name(p)) # {}}
                Here(p) == {s \in Scenes : /\ blocks[b].title = source.title
                                          /\ blocks[b].scenes[p[1]].title = source.scenes[s].title}
            IN  {Report("duplicate", b, p) : p \in {q \in places : \E r \in places :
                     r[1] = q[1] /\ r[2] < q[2] /\ Name(r) = Name(q)}} \cup
                {Report("orphaned", b, p) : p \in {q \in places \ told : Name(q) \notin DefinedNames}} \cup
                {Report("no scene", b, p) : p \in {q \in told : Here(q) = {}}} \cup
                {Report("misplaced", b, p) : p \in {q \in told : Here(q) # {} /\ Here(q) \cap ScenesOf(Name(q)) = {}}}
    IN  UNION {Of(b) : b \in DOMAIN blocks}

\* The warning of a story word that has no entry at its place.
MissingNotes(blocks) ==
    {w \in WordSet : Story /\ ~\E b \in DOMAIN blocks : blocks[b].title = source.title /\
        \E s \in DOMAIN blocks[b].scenes : /\ blocks[b].scenes[s].title = TitleOf(w)
                                           /\ \E e \in ToSet(blocks[b].scenes[s].exprs) : e.name \in Spellings(w)}

\* Validate: what it calls an error and what a warning.
Validate(blocks) ==
    [errors |-> StructureReports(blocks) \cup ConsistencyReports(blocks), warnings |-> MissingNotes(blocks)]

-----------------------------------------------------------------------------
(* The other commands *)

\* AssignSourceIDs: a slug of the expression, numbered if another word has it.
NewIds ==
    LET Assign(acc, w) ==
            LET n == Min({k \in 1..Len(Words) + 1 : <<w.expr, k>> \notin {acc[v.key] : v \in WordSet}})
            IN  IF acc[w.key] # None THEN acc ELSE [acc EXCEPT ![w.key] = <<w.expr, n>>]
    IN  FoldLeft(Assign, ids, Words)

RekeyLearningHistories(blocks, new) ==
    LET IdsOf(name) == {new[w.key] : w \in {v \in WordSet : name \in Spellings(v)}}
    IN  OnEntries(LAMBDA e : IF e.id = None /\ Cardinality(IdsOf(e.name)) = 1
                             THEN [e EXCEPT !.id = CHOOSE i \in IdsOf(e.name) : TRUE] ELSE e, blocks)

\* MergeIDLessDuplicates, in the entries of a scene.
MergeSeries(logs, more) ==
    IF more = <<>> THEN logs
    ELSE NewestFirst(logs \o [k \in DOMAIN more |-> [more[k] EXCEPT !.marker = FALSE]])

MergeFork(e, fork) ==
    [e EXCEPT !.learned = MergeSeries(@, fork.learned), !.reverse = MergeSeries(@, fork.reverse),
              !.origin = MergeSeries(@, fork.origin), !.skipped = @ \cup fork.skipped]

MergeIDLess(exprs) ==
    LET Named(k) == {j \in DOMAIN exprs : exprs[j].name = exprs[k].name}
        Keyed(k) == {j \in Named(k) : exprs[j].id # None}
        Dropped == {k \in DOMAIN exprs : exprs[k].id = None /\ Cardinality(Keyed(k)) = 1}
        Forks(k) == SelectSeq(exprs, LAMBDA e : e.id = None /\ e.name = exprs[k].name)
        Repaired(k) == IF Keyed(k) = {k} THEN FoldLeft(MergeFork, exprs[k], Forks(k)) ELSE exprs[k]
    IN  Without([k \in DOMAIN exprs |-> Repaired(k)], Dropped)

\* mergeConceptsInExpressionList: a member goes into the entry of its head, if the
\* list has one, and becomes that entry if not.
MergeMember(out, head, e) ==
    LET hits == {k \in DOMAIN out : out[k].name = head}
        Sum(a, b) == IF b = <<>> THEN a ELSE NewestFirst(a \o b)
    IN  IF hits = {} THEN out
        ELSE Updated(out, Min(hits), LAMBDA d :
                 [d EXCEPT !.learned = Sum(@, e.learned), !.reverse = Sum(@, e.reverse),
                           !.origin = Sum(@, e.origin), !.skipped = @ \cup e.skipped])

\* rewriteLatestIntervalToMin: the newest log of a head's entry gets the least interval
\* of the members' newest, so an old exclusion stays if each of these is one.
LeastInterval(e, exprs) ==
    LET members == (CHOOSE c \in source.concepts : c.head = e.name).members
        pre == {exprs[Min({k \in DOMAIN exprs : exprs[k].name = m})] :
                    m \in members \cap {exprs[k].name : k \in DOMAIN exprs}}
        Least(logs, l) ==
            LET sorted == NewestFirst(logs)
            IN  IF logs = <<>> THEN logs
                ELSE Updated(sorted, 1, LAMBDA log : [log EXCEPT !.marker =
                         @ /\ \A m \in {p \in pre : p[l] # <<>>} : NewestFirst(m[l])[1].marker])
    IN  [e EXCEPT !.learned = Least(@, "learned"), !.reverse = Least(@, "reverse"), !.origin = Least(@, "origin")]

MergeMembers(exprs) ==
    LET Add(acc, e) ==
            LET head == HeadOf(e.name)
            IN  IF head \in {None, e.name} THEN [acc EXCEPT !.out = Append(@, e)]
                ELSE IF head \in acc.heads THEN [acc EXCEPT !.out = MergeMember(@, head, e)]
                ELSE [out |-> Append(acc.out, [e EXCEPT !.name = head]), heads |-> acc.heads \cup {head}]
        heads == {c.head : c \in source.concepts}
        present == heads \cap {exprs[k].name : k \in DOMAIN exprs}
        out == FoldLeft(Add, [out |-> <<>>, heads |-> present], exprs).out
        First(k) == \A j \in DOMAIN out : out[j].name = out[k].name => j >= k
    IN  [k \in DOMAIN out |-> IF out[k].name \in heads /\ First(k) THEN LeastInterval(out[k], exprs) ELSE out[k]]

-----------------------------------------------------------------------------
(* The live program between the commands *)

\* The entries of a word, in the order of the file, under its titles or, loosely, titles
\* in other quotes.
EntriesAt(w, names, loose) ==
    LET Eq(t, u) == t = u \/ (loose /\ Same(t, u))
        blocks == SelectSeq(file, LAMBDA b : ~b.etymology /\ Eq(b.title, source.title))
        scenes == SelectSeq(FlattenSeq([b \in DOMAIN blocks |-> blocks[b].scenes]),
                            LAMBDA s : Eq(s.title, TitleOf(w)))
    IN  SelectSeq(FlattenSeq([s \in DOMAIN scenes |-> scenes[s].exprs]),
                  LAMBDA e : MatchesEntry(e, ids[w.key], names))

\* GetLogs and GetReverseLogs compare titles without their quotes, IsExpressionSkipped
\* as they are.
ReadLogs(w, l) ==
    LET es == SelectSeq(EntriesAt(w, Spellings(w), TRUE), LAMBDA e : e[l] # <<>>)
    IN  IF es = <<>> THEN <<>> ELSE Head(es)[l]

ReadSkips(w) ==
    LET es == EntriesAt(w, Spellings(w), FALSE)
    IN  IF es = <<>> THEN {} ELSE Head(es).skipped

Clock == Cardinality(UNION {given[k] : k \in DOMAIN given})

\* UpdateOrCreateExpressionWithQuality and its reverse.
Stored(w, l, log) ==
    LET With(e) == [e EXCEPT !.id = IF @ = None THEN ids[w.key] ELSE @, ![l] = <<log>> \o @]
        Hit(b, s, k) == /\ ~file[b].etymology /\ Same(file[b].title, source.title)
                        /\ Same(file[b].scenes[s].title, TitleOf(w))
                        /\ MatchesEntry(file[b].scenes[s].exprs[k], ids[w.key], Spellings(w))
        hits(b) == {p \in UNION {{s} \X DOMAIN file[b].scenes[s].exprs : s \in DOMAIN file[b].scenes} :
                        Hit(b, p[1], p[2])}
        bs == {b \in DOMAIN file : hits(b) # {}}
        scene == NewScene(TitleOf(w), <<With(Stub(EntryOf(w)))>>)
    IN  IF bs # {}
        THEN LET p == PlacesOf(file[Min(bs)], LAMBDA e : TRUE)
                 first == SelectInSeq(p, LAMBDA q : q \in hits(Min(bs)))
             IN  Updated(file, Min(bs), LAMBDA b : Changed(b, p[first], With))
        ELSE Into(file, NewBlock(source.title, scene), NormTitle,
                  LAMBDA b, c : [b EXCEPT !.scenes = Into(@, scene, NormTitle, JoinScene)])

\* The first entry of a name anywhere, or a stub at the place of the word.
WithSkips(blocks, w, name, add, drop) ==
    LET With(e) == [e EXCEPT !.skipped = (@ \cup add) \ drop]
        bs == {b \in DOMAIN blocks : name \in {e.name : e \in EntriesOf(<<blocks[b]>>)}}
        p == PlacesOf(blocks[Min(bs)], LAMBDA e : e.name = name)[1]
        scene == NewScene(TitleOf(w), <<With(Stub(name))>>)
    IN  IF bs # {} THEN Updated(blocks, Min(bs), LAMBDA b : Changed(b, p, With))
        ELSE IF add = {} THEN blocks
        ELSE Into(blocks, NewBlock(source.title, scene), NormTitle,
                  LAMBDA b, c : [b EXCEPT !.scenes = Into(@, scene, NormTitle, JoinScene)])

Members(name) ==
    IF HeadOf(name) = None THEN {name}
    ELSE UNION {c.members : c \in {d \in source.concepts : d.head = HeadOf(name)}}

\* conceptMembersOrSelf: without a reader of the notebooks, the word alone.
MembersOrSelf(name) == {Members(name), {name}}

SkipsOf(w, members, add, drop) ==
    FoldSet(LAMBDA name, blocks : WithSkips(blocks, w, name, add, drop), file, members)

-----------------------------------------------------------------------------
Init ==
    /\ notebook \in Notebooks
    /\ edition = 1
    /\ ids = notebook.ids
    /\ file = notebook.file
    /\ given = [k \in DOMAIN notebook.ids |-> {}]
    /\ excluded = notebook.excluded
    /\ clicks = 0
    /\ last = None

\* What a newest log excludes a word from, until the next answer: an old exclusion,
\* which no click ends.
Marked(w, l) ==
    LET logs == ReadLogs(w, l) IN IF logs # <<>> /\ Head(logs).marker THEN {Head(logs).type} ELSE {}

\* An answer is later than the logs the file starts with.
Answer(w, l) ==
    /\ Clock < MaxAnswers
    /\ LET at == 10 + Clock
       IN  /\ file' = Stored(w, l, [at |-> at, type |-> IF l = "learned" THEN "notebook" ELSE "reverse",
                                    usable |-> FALSE, marker |-> FALSE])
           /\ given' = [given EXCEPT ![w.key] = @ \cup {<<l, at>>}]
    /\ excluded' = [excluded EXCEPT ![w.key] = @ \ (Marked(w, l) \ ReadSkips(w))]
    /\ last' = None
    /\ UNCHANGED <<notebook, edition, ids, clicks>>

\* The learner is told of the words that the click reached.
Click(w, members, add, drop) ==
    /\ clicks < MaxClicks
    /\ clicks' = clicks + 1
    /\ file' = SkipsOf(w, members, add, drop)
    /\ LET clicked == {v \in WordSet : EntryOf(v) \in members}
           marks(k) == UNION {Marked(v, l) : v \in {u \in clicked : u.key = k}, l \in {"learned", "reverse"}}
       IN  excluded' = [k \in DOMAIN excluded |->
                           IF \E v \in clicked : v.key = k THEN ((excluded[k] \cup add) \ drop) \cup marks(k) ELSE excluded[k]]
    /\ last' = None
    /\ UNCHANGED <<notebook, edition, ids, given>>

SkipWord(w, members, type) ==
    /\ type \notin ReadSkips(w)
    /\ Click(w, members, {type}, {})

ResumeWord(w, members, type) ==
    /\ type \in ReadSkips(w)
    /\ Click(w, members, {}, {type})

\* The owner edits the notebook.
Edit ==
    /\ edition < Len(notebook.editions)
    /\ edition' = edition + 1
    /\ last' = None
    /\ UNCHANGED <<notebook, ids, file, given, excluded, clicks>>

Rewrite(blocks, command) ==
    /\ file' = blocks
    /\ last' = command
    /\ UNCHANGED <<notebook, edition, given, excluded, clicks>>

Fix == Rewrite(Fixed(file), "fix") /\ UNCHANGED ids

AssignIDs ==
    /\ ids' = NewIds
    /\ Rewrite(RekeyLearningHistories(file, NewIds), None)

OnLists(F(_)) == OnScenes(LAMBDA b, s : [s EXCEPT !.exprs = F(@)], file)

MergeIDLessDuplicates == Rewrite(OnLists(MergeIDLess), None) /\ UNCHANGED ids

MergeConcepts ==
    /\ ~Story /\ \E e \in EntriesOf(file) : HeadOf(e.name) \notin {None, e.name}
    /\ Rewrite(OnLists(MergeMembers), "merge-concepts")
    /\ UNCHANGED ids

\* recalculate-intervals, and learning-history --recalculate: the answers of the quizzes
\* replayed.  The long interval of an old exclusion goes too, and the exclusion with it.
RecalculateIntervals ==
    /\ file' = OnEntries(LAMBDA e : [e EXCEPT !.learned = Replayed(@), !.reverse = Replayed(@)], file)
    /\ LET marks(k) == UNION {Marked(w, l) \ ReadSkips(w) :
                           w \in {v \in WordSet : v.key = k}, l \in {"learned", "reverse"}}
       IN  excluded' = [k \in DOMAIN excluded |-> excluded[k] \ marks(k)]
    /\ last' = None
    /\ UNCHANGED <<notebook, edition, ids, given, clicks>>

Next ==
    \/ \E w \in WordSet : \/ \E l \in {"learned", "reverse"} : Answer(w, l)
                          \/ \E members \in MembersOrSelf(EntryOf(w)) :
                                 SkipWord(w, members, "notebook") \/ ResumeWord(w, members, "notebook")
    \/ Edit \/ Fix \/ AssignIDs \/ MergeIDLessDuplicates \/ MergeConcepts \/ RecalculateIntervals

Spec == Init /\ [][Next]_vars

-----------------------------------------------------------------------------
(* Properties *)

StoredAnswers(blocks) == UNION {Answers(e) : e \in EntriesOf(blocks)}

\* In each scene the entry of a head stands before those of its members.
HeadsFirst ==
    \A b \in DOMAIN file : \A s \in DOMAIN file[b].scenes :
        LET exprs == file[b].scenes[s].exprs
        IN  \A j, k \in DOMAIN exprs : j < k /\ HeadOf(exprs[j].name) = exprs[k].name => exprs[j].name = exprs[k].name

\* In a scene no answers on an origin stand behind another entry of its name.
OriginsFirst ==
    \A b \in DOMAIN file : \A s \in DOMAIN file[b].scenes :
        LET exprs == file[b].scenes[s].exprs
        IN  \A j, k \in DOMAIN exprs : j < k /\ Identity(exprs[j]) = Identity(exprs[k]) => exprs[k].origin = <<>>

\* No command loses an answer: what a file holds, in whatever scenes, spellings and
\* shapes, is in it after a command, under some entry.  Two commands do, of entries of
\* one scene: merge-concepts drops the answers of a member that stands before its head,
\* and a fix the answers on an origin of an entry it merges into another of its name
\* (it merges those in both directions only).
AnswersKept ==
    [][LET held == StoredAnswers(file) \ StoredAnswers(file')
       IN  /\ last' = "merge-concepts" => (HeadsFirst => held = {})
           /\ last' = "fix" => \A a \in held : a[1] = "origin" /\ ~OriginsFirst
           /\ last' \notin {"merge-concepts", "fix"} => held = {}]_vars

\* A word that shares no spelling with another or with an origin, now or later, and
\* is in no concept.
AllWords == UNION {UNION {ToSet(notebook.editions[i].scenes[s].words) : s \in DOMAIN notebook.editions[i].scenes}
                   : i \in DOMAIN notebook.editions}
Plain(w) == /\ HeadOf(w.expr) = None
            /\ \A v \in AllWords : /\ v.key # w.key => Spellings(v) \cap Spellings(w) = {}
                                  /\ v.origins \cap Spellings(w) = {}

\* A word that has had one form and one scene, under one title: an exclusion that meets
\* an answer in one scene is lost, and one under a title in other quotes is not read,
\* neither before a fix nor after.
Settled(w) ==
    /\ \A i \in DOMAIN notebook.editions : \A s \in DOMAIN notebook.editions[i].scenes :
           \A v \in ToSet(notebook.editions[i].scenes[s].words) :
               v.key = w.key => v.defn = None /\ notebook.editions[i].scenes[s].title = TitleOf(w)
    /\ \A b \in ToSet(notebook.file) : \A s \in ToSet(b.scenes) : Same(s.title, TitleOf(w)) => s.title = TitleOf(w)
SkipsAreRead(w) == ReadSkips(w) = excluded[w.key]

\* A word whose event has kept its title, to the quote, and which has kept its spellings,
\* or in a story got more: a fix does not follow an event that is retitled or a form that
\* is changed or taken back, it gives entries the name of a new form in stories only, and
\* in a block under the title in other quotes it moves nothing to its scene.
Followed(w) ==
    /\ \A b \in ToSet(notebook.file) : Same(b.title, source.title) => b.title = source.title
    /\ \A i \in 1..edition :
           /\ notebook.editions[i].title = source.title
           /\ \A s \in DOMAIN notebook.editions[i].scenes : \A v \in ToSet(notebook.editions[i].scenes[s].words) :
                  v.key = w.key => Spellings(v) = Spellings(w) \/ (Story /\ Spellings(v) \subseteq Spellings(w))

\* After a fix the quizzes find, where the source has the word now, every answer it
\* was given under any title of its scene, any scene of the event and any spelling it
\* still has, and it is excluded from the quizzes the learner was told it is.
FixedIsRead ==
    last = "fix" => \A w \in {v \in WordSet : Plain(v) /\ Followed(v)} :
        /\ \A l \in {"learned", "reverse"} :
               {a \in given[w.key] : a[1] = l} \subseteq {<<l, ReadLogs(w, l)[k].at>> : k \in DOMAIN ReadLogs(w, l)}
        /\ Settled(w) => SkipsAreRead(w)

\* What SkipWord says of an exclusion, that it "is permanent until ResumeWord clears
\* the slot": a fix leaves the words excluded that the learner was told are.
SkipsOutliveFixes == last = "fix" => \A w \in WordSet : Plain(w) => SkipsAreRead(w)

\* No two titles of the event, of blocks of the first file or of their scenes have
\* differed in their quotes alone.
TitlesOf(x) == {x.title} \cup {x.scenes[s].title : s \in DOMAIN x.scenes}
OneTitleEach ==
    LET titles == UNION {TitlesOf(x) : x \in ToSet(notebook.editions) \cup ToSet(notebook.file)}
    IN  \A t, u \in titles : Same(t, u) => t = u

\* A fix settles: run again it changes nothing.  Where titles differ in their quotes it
\* takes two: the first fixes names before it joins what the titles part, and makes
\* notes anew under the title of the source.
FixSettles ==
    last = "fix" => LET again == Fixed(file)
                    IN  /\ OneTitleEach => again = file
                        /\ Fixed(again) = again

\* A spelling that the story tells in several scenes of the event.
Retold(name) == Story /\ Cardinality({Norm(source.scenes[s].title) : s \in ScenesOf(name)}) > 1

\* What validate reports, a fix repairs, unless titles differ in their quotes.  It still
\* reports the entries of words that are gone and of events that have another title now,
\* which keep what was answered; an origin beside a word of its name, which the check of
\* the structure allows and the check of a scene does not; and a spelling that the story
\* tells in several scenes, whose entries the fix merges in one and then makes anew in
\* the others.
FixedIsClean ==
    last = "fix" /\ OneTitleEach =>
        /\ Validate(file).warnings = {}
        /\ \A r \in Validate(file).errors :
               LET scene == file[r.block].scenes[r.place[1]].exprs
                   e == scene[r.place[2]]
               IN  \/ r.what = "orphaned" /\ (HasLogs(e) \/ e.skipped # {})
                   \/ r.what = "duplicate" /\ \E d \in ToSet(scene) \ {e} : d.name = e.name /\ d.type # e.type
                   \/ r.what = "no scene" /\ file[r.block].title # source.title
                   \/ r.what = "repeated" /\ Retold(e.name)
=============================================================================
