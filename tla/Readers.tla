------------------------------- MODULE Readers -------------------------------
(***************************************************************************)
(* What the quizzes serve.  A notebook holds notes, or a journal mistakes  *)
(* (expr is the span, title the entry of the journal); the history file of *)
(* the notebook holds an entry for each word that was answered or          *)
(* excluded; the loaders of the four quizzes read both, and so do the      *)
(* counts on the start page.  Days pass, and the learner answers and       *)
(* excludes what is served, so what one call writes the next ones read.    *)
(*                                                                         *)
(* Spellings are lower case.  The calculators are not repeated here        *)
(* (IntervalSchedule): a good answer waits for one of Intervals, a miss    *)
(* for a day.  Concepts are the families, which share one history; the     *)
(* other kinds are for display.  A note's prose and examples are their     *)
(* number.  A read of a history is one step (HistoryStore has the races).  *)
(***************************************************************************)
EXTENDS Naturals, Sequences, FiniteSets, SequencesExt

CONSTANTS
    Books,       \* the notebooks to choose from, with the files of their histories
    Intervals,   \* days until the next review, after a good answer
    Thresholds,  \* days by the number of good answers, for logs without an interval
    MaxCalls,
    MaxDays,
    None

ASSUME IntervalAssumption == Intervals \subseteq Nat \ {0}

VARIABLES
    book,      \* its notes, in order, and its concepts
    entries,   \* the entries of the learning-history files
    today,
    calls,     \* answers, exclusions and resumptions, bounded by MaxCalls
    verdict,   \* of the last answer of a note in a direction: whether it was right, and
               \* the day on which its interval ends; None if there was no answer
    excluded,  \* the quizzes each note is excluded from, as the learner was told
    split      \* those of them that the latest click changed for a part of its family only

vars == <<book, entries, today, calls, verdict, excluded, split>>

VocabularyQuizzes == {"notebook", "reverse", "freeform"}
QuizTypes == VocabularyQuizzes \cup {"grammar"}
Directions == {"notebook", "reverse", "grammar"}
Notes == DOMAIN book.notes
All == "all sections"

\* The form of a note that cards show and answers are stored under.
EntryOf(n) == IF n.defn = None THEN n.expr ELSE n.defn
Word(i) == EntryOf(book.notes[i])
Spellings(n) == {n.expr, n.defn} \ {None}

\* What the note's entry is called in the history: of a mistake, its id.
StoredName(n) == IF n.kind = "grammar" THEN n.id ELSE EntryOf(n)

\* Where readers look for the note, and where answers and skips of its card go.
PlaceOf(n) == <<n.notebook, n.title, n.scene>>
StoredAt(n) ==
    CASE n.kind = "flashcard" -> <<n.notebook, "flashcards", "">>
      [] n.kind = "grammar"   -> <<n.notebook, "journal", "">>
      [] OTHER                -> PlaceOf(n)

-----------------------------------------------------------------------------
(* Concepts *)

\* The head of the family a spelling belongs to, or the spelling itself.
Canonical(s) ==
    IF \E c \in book.concepts : s \in c.members
    THEN (CHOOSE c \in book.concepts : s \in c.members).head ELSE s
InFamily(s) == \E c \in book.concepts : s \in c.members

\* The family of a card, by either of its forms, in the index of its notebook.
FamilyOf(n) ==
    IF n.notebook # book.conceptBook THEN None
    ELSE IF InFamily(EntryOf(n)) THEN Canonical(EntryOf(n))
    ELSE IF InFamily(n.expr) THEN Canonical(n.expr) ELSE None

-----------------------------------------------------------------------------
(* Entries of the file *)

MatchesEntry(e, id, names) ==
    IF id = None \/ e.id = None THEN e.name \in names ELSE e.id = id

\* The first entry of a set, in the order of the file: entries of a place lie together.
Rank(p) == CHOOSE k \in DOMAIN entries :
               entries[k].place = p /\ \A j \in DOMAIN entries : entries[j].place = p => k <= j
First(hits) ==
    CHOOSE k \in hits : \A j \in hits :
        \/ Rank(entries[k].place) < Rank(entries[j].place)
        \/ entries[k].place = entries[j].place /\ k <= j

At(place, id, names) ==
    {k \in DOMAIN entries : entries[k].place = place /\ MatchesEntry(entries[k], id, names)}

\* GetLogs: the first entry of the note that has any.
GetLogs(n) ==
    LET hits == {k \in At(PlaceOf(n), n.id, Spellings(n)) : entries[k].learned # <<>>}
    IN  IF hits = {} THEN <<>> ELSE entries[First(hits)].learned

\* IsExpressionSkipped: the first entry of the note.
IsExpressionSkipped(n, names, type) ==
    LET hits == At(PlaceOf(n), n.id, names)
    IN  hits # {} /\ type \in entries[First(hits)].skipped

Skipped(n, type) == IsExpressionSkipped(n, Spellings(n), type)

-----------------------------------------------------------------------------
(* Due rules *)

GetThresholdDaysFromCount(n) == IF n \in DOMAIN Thresholds THEN Thresholds[n] ELSE 0
CorrectCount(logs) == Cardinality({k \in DOMAIN logs : logs[k].ok})
HasAnyCorrectAnswer(logs) == CorrectCount(logs) > 0
HasFreeformAnswer(logs) == \E k \in DOMAIN logs : logs[k].type = "freeform"
HasAnyCorrectAnswerInAnyDirection(e) == HasAnyCorrectAnswer(e.learned) \/ HasAnyCorrectAnswer(e.reverse)

Threshold(logs) ==
    IF Head(logs).interval # 0 THEN Head(logs).interval
    ELSE GetThresholdDaysFromCount(CorrectCount(logs))

\* Mutant: misses wait for their interval too.
NeedsReviewByInterval(logs) == logs = <<>> \/ today - Head(logs).day >= Threshold(logs)

\* NeedsForwardReview and NeedsReverseReview, of the logs of their direction.
NeedsReview(logs) ==
    \/ logs = <<>>
    \/ ~Head(logs).ok
    \/ today - Head(logs).day >= Threshold(logs)

\* The same rule on the logs copied to a note (the two differ on the instant only).
NeedsToLearn(logs) == NeedsReview(logs)


\* The single rule of the reverse loaders.
ReverseSeriesDue(e, toggle, studied) ==
    IF e.reverse # <<>> THEN NeedsReview(e.reverse) ELSE studied \/ toggle

IsEligibleForReverseQuiz(n) == n.meaning /\ n.usable

-----------------------------------------------------------------------------
(* Stories and flashcards *)

FilterFlashcards(n, toggle) ==
    LET logs == GetLogs(n)
    IN  /\ ~Skipped(n, "notebook")
        /\ toggle \/ HasAnyCorrectAnswer(logs)
        /\ NeedsToLearn(logs)

\* The same of stories, where a scene without prose is left out.
FilterStories(n, toggle) == FilterFlashcards(n, toggle) /\ n.prose

\* needsReverseReview and needsReverseFlashcardReview: by name, whatever the id.
NeedsReverseReview(n, toggle) ==
    LET hits == At(PlaceOf(n), None, Spellings(n))
    IN  IF hits = {} THEN toggle
        ELSE LET e == entries[First(hits)]
             IN  ReverseSeriesDue(e, toggle, HasFreeformAnswer(e.learned) /\ HasAnyCorrectAnswer(e.learned))

OfKind(kind, notes) == {i \in notes : book.notes[i].kind = kind}

LoadStoryCards(notes, toggle) ==
    {i \in OfKind("story", notes) : FilterStories(book.notes[i], toggle)}
LoadFlashcardCards(notes, toggle) ==
    {i \in OfKind("flashcard", notes) : FilterFlashcards(book.notes[i], toggle)}

ReverseCard(n, toggle) ==
    IsEligibleForReverseQuiz(n) /\ ~Skipped(n, "reverse") /\ NeedsReverseReview(n, toggle)

LoadStoryReverseCards(notes, toggle) ==
    {i \in OfKind("story", notes) : ReverseCard(book.notes[i], toggle)}
LoadFlashcardReverseCards(notes, toggle) ==
    {i \in OfKind("flashcard", notes) : ReverseCard(book.notes[i], toggle)}

\* The counts have loops of their own, and take each word once.
CountStoryDefinitions(notes, toggle) ==
    Cardinality({Word(i) : i \in {j \in OfKind("story", notes) : FilterStories(book.notes[j], toggle)}})
CountFlashcardCards(notes, toggle) ==
    Cardinality({Word(i) : i \in {j \in OfKind("flashcard", notes) : FilterFlashcards(book.notes[j], toggle)}})


CountReverseStoryDefinitions(notes, toggle) ==
    Cardinality({Word(i) : i \in {j \in OfKind("story", notes) :
        /\ IsEligibleForReverseQuiz(book.notes[j])
        /\ ~Skipped(book.notes[j], "reverse")
        /\ NeedsReverseReview(book.notes[j], toggle)}})
CountReverseFlashcardCards(notes, toggle) ==
    Cardinality({Word(i) : i \in {j \in OfKind("flashcard", notes) :
        /\ IsEligibleForReverseQuiz(book.notes[j])
        /\ ~Skipped(book.notes[j], "reverse")
        /\ NeedsReverseReview(book.notes[j], toggle)}})

-----------------------------------------------------------------------------
(* Definitions-only books *)

CanonicalNames(n) == {Canonical(s) : s \in Spellings(n)}

\* needsDefinitionReview and needsDefinitionReverseReview: by name, through the head.
NeedsDefinitionReview(n, toggle, type) ==
    LET hits == At(PlaceOf(n), None, CanonicalNames(n))
    IN  IF hits = {} THEN toggle
        ELSE LET e == entries[First(hits)] studied == HasAnyCorrectAnswerInAnyDirection(e)
             IN  IF type = "reverse" THEN ReverseSeriesDue(e, toggle, studied)
                 ELSE IF studied THEN NeedsReview(e.learned) ELSE toggle

ShouldIncludeDefinition(n, toggle, type) ==
    /\ ~IsExpressionSkipped(n, CanonicalNames(n), type)
    /\ NeedsDefinitionReview(n, toggle, type)

\* The first note of its family in its scene; a note of no family.
FirstOfFamily(i) ==
    InFamily(book.notes[i].expr) =>
        ~\E j \in Notes : /\ j < i /\ PlaceOf(book.notes[j]) = PlaceOf(book.notes[i])
                          /\ book.notes[j].meaning
                          /\ InFamily(book.notes[j].expr)
                          /\ Canonical(book.notes[j].expr) = Canonical(book.notes[i].expr)

CountDefinitionNotes(notes, toggle, type) ==
    Cardinality({i \in OfKind("definitions", notes) :
        /\ book.notes[i].meaning
        /\ FirstOfFamily(i)
        /\ ShouldIncludeDefinition(book.notes[i], toggle, type)})

\* A family is served by the note of its head, the first in the order in which the
\* sections of the book come, which is any order: picks are the outcomes.
HeadNotes(h, notes) == {i \in OfKind("definitions", notes) : book.notes[i].meaning /\ book.notes[i].expr = h}
Picks(notes) ==
    LET heads == {c.head : c \in {d \in book.concepts : HeadNotes(d.head, notes) # {}}}
        firsts(h) == {i \in HeadNotes(h, notes) : \A j \in HeadNotes(h, notes) :
                          PlaceOf(book.notes[j]) = PlaceOf(book.notes[i]) => i <= j}
    IN  {p \in [heads -> notes] : \A h \in heads : p[h] \in firsts(h)}

DefinitionCards(notes, toggle, type, pick) ==
    {i \in OfKind("definitions", notes) :
        /\ book.notes[i].meaning
        /\ InFamily(book.notes[i].expr) => /\ Canonical(book.notes[i].expr) = book.notes[i].expr
                                           /\ pick[book.notes[i].expr] = i
        /\ ShouldIncludeDefinition(book.notes[i], toggle, type)}

LoadDefinitionCards(notes, toggle, pick) == DefinitionCards(notes, toggle, "notebook", pick)
LoadDefinitionReverseCards(notes, toggle, pick) == DefinitionCards(notes, toggle, "reverse", pick)

-----------------------------------------------------------------------------
(* Grammar mistakes *)

\* grammarExpressionsByID: the last entry of the id in the journal's bucket.
GrammarExpressionsByID(n) ==
    LET hits == {k \in DOMAIN entries : /\ entries[k].place = StoredAt(n)
                                        /\ n.id = IF entries[k].id = None THEN entries[k].name ELSE entries[k].id}
    IN  {entries[k] : k \in {j \in hits : \A l \in hits : l <= j}}

GrammarMistakeDue(n) ==
    \A e \in GrammarExpressionsByID(n) : "grammar" \notin e.skipped /\ NeedsReview(e.learned)

\* The blanks of the posts of the journal, or of one of its entries.
LoadGrammarPosts(section) ==
    {i \in Notes : /\ book.notes[i].kind = "grammar" /\ section \in {All, book.notes[i].title}
                   /\ GrammarMistakeDue(book.notes[i])}

\* LoadGrammarStorySummaries: of an entry of the journal, and the sum of them.
EntryDue(title) ==
    Cardinality({i \in OfKind("grammar", Notes) : book.notes[i].title = title /\ GrammarMistakeDue(book.notes[i])})
GrammarReviewCount(section) ==
    IF section # All THEN EntryDue(section)
    ELSE FoldSet(LAMBDA title, sum : sum + EntryDue(title), 0, {book.notes[i].title : i \in Notes})

\* The review page lists every mistake, and says which are excluded.
LoadGrammarMistakes ==
    [i \in OfKind("grammar", Notes) |-> \E e \in GrammarExpressionsByID(book.notes[i]) : "grammar" \in e.skipped]

-----------------------------------------------------------------------------
(* The loaders and the counts *)

\* One card for each word: the one with the most examples, or the first of them.
DeduplicateCards(cards) ==
    {i \in cards : \A j \in cards : Word(j) = Word(i) =>
        \/ book.notes[i].examples > book.notes[j].examples
        \/ book.notes[i].examples = book.notes[j].examples /\ i <= j}

IsHead(i) == FamilyOf(book.notes[i]) \in Spellings(book.notes[i])

\* One card for each family: the head's if it is there, else the first.
CollapseConceptCards(cards) ==
    {i \in cards : FamilyOf(book.notes[i]) = None
        \/ LET kin == {j \in cards : /\ book.notes[j].notebook = book.notes[i].notebook
                                     /\ FamilyOf(book.notes[j]) = FamilyOf(book.notes[i])}
               best == IF \E j \in kin : IsHead(j) THEN {j \in kin : IsHead(j)} ELSE kin
           IN  i \in best /\ \A j \in best : i <= j}

InSectionFilter(section) == {i \in Notes : section \in {All, book.notes[i].title}}

\* The cards LoadCards and LoadReverseCards may serve: an outcome for each pick.
LoadCards(toggle, section) ==
    LET notes == InSectionFilter(section)
    IN  {CollapseConceptCards(DeduplicateCards(
             LoadStoryCards(notes, toggle) \cup LoadFlashcardCards(notes, toggle)
             \cup LoadDefinitionCards(notes, toggle, p))) : p \in Picks(notes)}
LoadReverseCards(toggle, section) ==
    LET notes == InSectionFilter(section)
    IN  {CollapseConceptCards(DeduplicateCards(
             LoadStoryReverseCards(notes, toggle) \cup LoadFlashcardReverseCards(notes, toggle)
             \cup LoadDefinitionReverseCards(notes, toggle, p))) : p \in Picks(notes)}

Load(type, toggle, section) ==
    CASE type = "reverse"  -> LoadReverseCards(toggle, section)
      [] type = "notebook" -> LoadCards(toggle, section)
      [] type = "grammar"  -> {LoadGrammarPosts(section)}

\* LoadNotebookSummaries: ReviewCount and ReverseReviewCount, of the notebook and of a section.
ReviewCount(toggle, section) ==
    LET notes == InSectionFilter(section)
    IN  CountStoryDefinitions(notes, toggle) + CountFlashcardCards(notes, toggle)
        + CountDefinitionNotes(notes, toggle, "notebook")
ReverseReviewCount(toggle, section) ==
    LET notes == InSectionFilter(section)
    IN  CountReverseStoryDefinitions(notes, toggle) + CountReverseFlashcardCards(notes, toggle)
        + CountDefinitionNotes(notes, toggle, "reverse")

Count(type, toggle, section) ==
    CASE type = "reverse"  -> ReverseReviewCount(toggle, section)
      [] type = "notebook" -> ReviewCount(toggle, section)
      [] type = "grammar"  -> GrammarReviewCount(section)

\* The words of the free-form quiz.
LoadStoryWords == {i \in OfKind("story", Notes) : ~Skipped(book.notes[i], "freeform")}
LoadFlashcardWords == {i \in OfKind("flashcard", Notes) : ~Skipped(book.notes[i], "freeform")}
LoadDefinitionWords ==
    {i \in OfKind("definitions", Notes) :
        /\ book.notes[i].meaning
        /\ ~IsExpressionSkipped(book.notes[i], CanonicalNames(book.notes[i]), "freeform")}
OwnWords == LoadStoryWords \cup LoadFlashcardWords \cup LoadDefinitionWords

\* The spellings findMatchingCards compares an answer with; flashcards give one.
Answers(i) == IF book.notes[i].kind = "flashcard" THEN {Word(i)} ELSE Spellings(book.notes[i])

\* appendEtymologyNotebookWords: the words of the etymology notebook nothing else gives.
EtymologyWords ==
    {i \in OfKind("etymology", Notes) :
        /\ \A j \in OwnWords : Word(i) \notin {Word(j)} \cup Answers(j)
        /\ \A j \in OfKind("etymology", Notes) : Word(j) = Word(i) => i <= j}

LoadAllWords == OwnWords \cup EtymologyWords

\* freeformNextReviewDate: the day, or None when the word is due.
FreeformNextReviewDate(n) ==
    LET hits == {k \in DOMAIN entries : entries[k].place = StoredAt(n) /\ entries[k].name = EntryOf(n)}
        logs == IF hits = {} THEN <<>> ELSE entries[First(hits)].learned
    IN  IF logs = <<>> THEN None
        ELSE IF Head(logs).interval = 0 \/ today >= Head(logs).day + Head(logs).interval THEN None
        ELSE Head(logs).day + Head(logs).interval

\* GetFreeformNextReviewDates: the words the page does not let the learner submit.  A
\* second spelling of a dated card may be missing when the first has a card that is due.
GetFreeformNextReviewDates ==
    LET dated == {i \in LoadAllWords : FreeformNextReviewDate(book.notes[i]) # None}
    IN  UNION {Answers(i) : i \in dated} \ UNION {Answers(i) : i \in LoadAllWords \ dated}

-----------------------------------------------------------------------------
(* What the learner does with the cards *)

Entry(place, name, id) ==
    [place |-> place, name |-> name, id |-> id, learned |-> <<>>, reverse |-> <<>>, skipped |-> {}]

Log(ok, type, interval) == [ok |-> ok, type |-> type, interval |-> interval, day |-> today]

\* The head a card's answer is stored under: freeform cards of stories have none.
ConceptHead(i, type) ==
    IF type = "freeform" /\ book.notes[i].kind # "definitions" THEN None ELSE FamilyOf(book.notes[i])

\* SaveResult, SaveReverseResult, SaveFreeformResult and SaveGrammarBlank, through the
\* updater of the file.
Stored(i, type, log) ==
    LET n == book.notes[i]
        head == ConceptHead(i, type)
        name == IF head = None THEN StoredName(n) ELSE head
        names == IF head # None \/ type \in {"freeform", "grammar"} THEN {name} ELSE Spellings(n)
        id == IF head = None THEN n.id ELSE None
        hits == At(StoredAt(n), id, names)
        file == IF hits = {} THEN Append(entries, Entry(StoredAt(n), name, id)) ELSE entries
        k == IF hits = {} THEN Len(file) ELSE First(hits)
    IN  [file EXCEPT ![k].id = IF @ = None THEN id ELSE @,
                     ![k].learned = IF type = "reverse" THEN @ ELSE <<log>> \o @,
                     ![k].reverse = IF type = "notebook" THEN @ ELSE <<log>> \o @]

\* The note, and those of its family in the same scene or with its id, which share its
\* history: two corrections of a journal may have one id.
Series(i, type) ==
    {i} \cup {j \in OfKind("grammar", Notes) : book.notes[j].id = book.notes[i].id} \cup
        {j \in Notes : /\ ConceptHead(i, type) # None
                       /\ ConceptHead(j, type) = ConceptHead(i, type)
                       /\ StoredAt(book.notes[j]) = StoredAt(book.notes[i])}

\* The cards of a quiz that may be on a page.
Served(i, type) ==
    IF type = "freeform" THEN i \in LoadAllWords
    ELSE \E toggle \in BOOLEAN : \E cards \in Load(type, toggle, All) : i \in cards

Answer(i, type, ok, interval) ==
    /\ calls < MaxCalls
    /\ Served(i, type)
    /\ LET log == Log(ok, type, IF ok THEN interval ELSE 1)
       IN  /\ entries' = Stored(i, type, log)
           /\ verdict' = [j \in Notes |-> [d \in Directions |->
                  IF j \in Series(i, type) /\ (type = d \/ (type = "freeform" /\ d # "grammar"))
                  THEN [ok |-> ok, until |-> today + log.interval]
                  ELSE verdict[j][d]]]
    /\ calls' = calls + 1
    /\ UNCHANGED <<book, today, excluded, split>>

\* Mutant: a click reaches the word on the card alone.
MemberAlone(n) == {StoredName(n)}

\* The words of a card's concept, by the form on the card.
Members(n) ==
    IF n.notebook = book.conceptBook /\ InFamily(EntryOf(n))
    THEN (CHOOSE c \in book.concepts : EntryOf(n) \in c.members).members ELSE {StoredName(n)}

\* conceptMembersOrSelf: without a reader of the notebooks, the word alone.
MembersOrSelf(n) == {Members(n), {StoredName(n)}}

Named(n, s, file) == {k \in DOMAIN file : file[k].place[1] = n.notebook /\ file[k].name = s}

\* Notes the learner excludes or resumes with a card.
Together(i) == {j \in Notes : /\ book.notes[j].notebook = book.notes[i].notebook
                              /\ StoredName(book.notes[j]) \in Members(book.notes[i])}

\* The learner is told that a click took effect on all of them; a click that reached
\* the word alone has parted them.
Told(i, told, members, types) ==
    /\ excluded' = [j \in Notes |-> IF j \in Together(i) THEN told[j] ELSE excluded[j]]
    /\ split' = [j \in Notes |->
           IF j \notin Together(i) THEN split[j]
           ELSE IF members = Members(book.notes[i]) THEN split[j] \ types ELSE split[j] \cup types]
    /\ calls' = calls + 1
    /\ UNCHANGED <<book, today, verdict>>

\* SkipWord: stubs for the members without an entry, then the mark on each.  A mistake
\* is excluded from the review page too, which lists those no quiz serves.
SkipWord(i, types, members) ==
    /\ calls < MaxCalls
    /\ book.notes[i].kind = "grammar" \/ \E type \in types : Served(i, type)
    /\ LET n == book.notes[i]
           missing == {s \in members : Named(n, s, entries) = {}}
           stubs == [s \in missing |-> Entry(StoredAt(n), s, None)]
           marked == {First(Named(n, s, entries)) : s \in members \ missing}
           file == [k \in DOMAIN entries |-> IF k \in marked
                                             THEN [entries[k] EXCEPT !.skipped = @ \cup types]
                                             ELSE entries[k]]
       IN  entries' = file \o SetToSeq({[stubs[s] EXCEPT !.skipped = types] : s \in missing})
    /\ Told(i, [j \in Notes |-> excluded[j] \cup types], members, types)

ResumeWord(i, types, members) ==
    /\ calls < MaxCalls
    /\ excluded[i] \cap types # {}
    /\ LET n == book.notes[i]
           marked == {First(Named(n, s, entries)) : s \in {t \in members : Named(n, t, entries) # {}}}
       IN  entries' = [k \in DOMAIN entries |-> IF k \in marked
                                                THEN [entries[k] EXCEPT !.skipped = @ \ types]
                                                ELSE entries[k]]
    /\ Told(i, [j \in Notes |-> excluded[j] \ types], members, types)

DayPasses ==
    /\ today < MaxDays
    /\ today' = today + 1
    /\ UNCHANGED <<book, entries, calls, verdict, excluded, split>>

Init ==
    /\ \E b \in Books : book = b.book /\ entries = b.entries
    /\ today = 0
    /\ calls = 0
    /\ verdict = [i \in Notes |-> [d \in Directions |-> None]]
    /\ excluded = [i \in Notes |-> {}]
    /\ split = [i \in Notes |-> {}]

\* The buttons of a card exclude from one quiz or from all, those of a mistake from its.
Buttons(i) ==
    IF book.notes[i].kind = "grammar" THEN {{"grammar"}}
    ELSE {{t} : t \in VocabularyQuizzes} \cup {VocabularyQuizzes}

Next ==
    \/ \E i \in Notes, type \in QuizTypes, ok \in BOOLEAN, interval \in Intervals :
           Answer(i, type, ok, interval)
    \/ \E i \in Notes : \E types \in Buttons(i), members \in MembersOrSelf(book.notes[i]) :
           SkipWord(i, types, members) \/ ResumeWord(i, types, members)
    \/ DayPasses

Spec == Init /\ [][Next]_vars

-----------------------------------------------------------------------------
(* Properties *)

Sections == {All} \cup {book.notes[i].title : i \in Notes \ OfKind("etymology", Notes)}

\* The family of a note is told in one scene; its word stands in one scene.
FamilyInOneScene(i) ==
    \A j \in Notes : FamilyOf(book.notes[i]) # None /\ FamilyOf(book.notes[j]) = FamilyOf(book.notes[i])
                       => PlaceOf(book.notes[j]) = PlaceOf(book.notes[i])
Alone(i) ==
    /\ FamilyInOneScene(i)
    /\ \A j \in Notes : Word(j) = Word(i) /\ book.notes[j].notebook = book.notes[i].notebook => i = j

\* In the sections asked for, a definitions book tells each word and family once.
ToldOnce(section) == \A i \in OfKind("definitions", InSectionFilter(section)) : Alone(i)


\* The loaders look for a note where its answers and exclusions are stored.  Flashcards
\* are stored under the story "flashcards" and looked for under their notebook's title.
Findable(i) == PlaceOf(book.notes[i]) = StoredAt(book.notes[i]) \/ book.notes[i].kind # "flashcard"


\* A word answered wrong stays in its quiz until it is answered right or excluded, on
\* its own card or on the one of another note of the word or of its family (families
\* of two scenes, and those whose latest click found no reader, apart).
MissesComeBack ==
    \A i \in Notes, type \in Directions :
        /\ book.notes[i].kind # "etymology"
        /\ verdict[i][type] # None /\ ~verdict[i][type].ok
        /\ type \notin excluded[i] \cup split[i]
        /\ FamilyInOneScene(i)
        /\ IF type = "reverse" THEN IsEligibleForReverseQuiz(book.notes[i])
                               ELSE book.notes[i].kind = "story" => book.notes[i].prose
        => \A cards \in Load(type, TRUE, All) : \E j \in cards :
               \/ Word(j) = Word(i)
               \/ FamilyOf(book.notes[j]) # None /\ FamilyOf(book.notes[j]) = FamilyOf(book.notes[i])

\* What the learner excluded from a quiz no loader of that quiz serves, a member of a
\* family as little as its head, until it is resumed.  Left out are a word and a
\* family of two scenes (SkipWord marks one entry, and the card of the other scene is
\* served), flashcards of a title of their own, and families whose latest click found
\* no reader.  The review page of a journal says of exactly the excluded mistakes that
\* they are.
ExcludedStayOut ==
    \A i \in Notes : book.notes[i].kind # "etymology" /\ Alone(i) /\ Findable(i) =>
        /\ \A type \in (excluded[i] \ split[i]) \cap Directions :
               \A cards \in Load(type, TRUE, All) : i \notin cards
        /\ "freeform" \in excluded[i] \ split[i] => i \notin LoadAllWords
        /\ i \in DOMAIN LoadGrammarMistakes => LoadGrammarMistakes[i] = ("grammar" \in excluded[i])
=============================================================================
