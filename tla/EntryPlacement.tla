---------------------------- MODULE EntryPlacement ----------------------------
(***************************************************************************)
(* Where a learning-history file keeps a word.  An entry has a name and,   *)
(* since the migration to ids, the id of a sense; it lies in a place, the  *)
(* scene of a story.  Answers look an entry up at the place of the card,   *)
(* by id or name; the skip and resume buttons by name anywhere in the      *)
(* file; the quiz loaders at the place again.  Calls come one at a time.   *)
(*                                                                         *)
(* A story has one scene here, so the order of the file is the order in    *)
(* which places were created.  Words of a concept (HistoryStore) and the   *)
(* flashcards, whose place the loaders do not look at, are left out.       *)
(***************************************************************************)
EXTENDS Naturals, Sequences

CONSTANTS
    Cards,
    Spellings, \* the names an entry may have
    Scenes,    \* the places of the notebook
    Name,      \* the definition form of a card, or its expression
    Original,  \* the expression of a card that has a definition form, else None
    Sense,     \* the id of a card
    Place,     \* the scene it appears in
    None,
    OldFiles   \* what the file may be before the first call

VARIABLES
    file,      \* the blocks of the file, each a place and its entries
    answered,  \* the cards that were answered
    excluded   \* the cards the learner has excluded and not resumed

vars == <<file, answered, excluded>>

Senses == {Sense[c] : c \in Cards}
Legacy == "before"  \* the answers an entry had before the first call
Entry(name, id, logs) == [name |-> name, id |-> id, logs |-> logs, skipped |-> FALSE]

Entries == [name : Spellings, id : Senses \cup {None}, logs : SUBSET (Cards \cup {Legacy}),
            skipped : BOOLEAN]
Files == Seq([place : Scenes, entries : Seq(Entries)])

ASSUME SenseAssumption == None \notin Senses /\ \A a, b \in Cards : Sense[a] = Sense[b] => a = b
ASSUME NameAssumption ==
    /\ None \notin Spellings /\ Legacy \notin Cards
    /\ \A c \in Cards : /\ Name[c] \in Spellings /\ Original[c] \in Spellings \cup {None}
                        /\ Place[c] \in Scenes
\* Before ids an entry was found by its name at its place, so each had one there.
ASSUME OldFilesAssumption ==
    \A f \in OldFiles :
        /\ f \in Files
        /\ \A a, b \in DOMAIN f : f[a].place = f[b].place => a = b
        /\ \A b \in DOMAIN f : \A i, j \in DOMAIN f[b].entries :
               /\ f[b].entries[i] \in {Entry(n, None, logs) : n \in Spellings, logs \in SUBSET {Legacy}}
               /\ f[b].entries[i].name = f[b].entries[j].name => i = j

\* MatchesEntry: an id decides against a tagged entry, else the name.
MatchesEntry(e, id, names) ==
    IF id = None \/ e.id = None THEN e.name \in names ELSE e.id = id

Positions == UNION {{<<b, i>> : i \in DOMAIN file[b].entries} : b \in DOMAIN file}
At(p) == file[p[1]].entries[p[2]]

\* The one of some positions the loops of the code reach first.
NotAfter(p, q) == p[1] < q[1] \/ (p[1] = q[1] /\ p[2] <= q[2])
Earliest(positions) == CHOOSE p \in positions : \A q \in positions : NotAfter(p, q)

Changed(p, e) == [file EXCEPT ![p[1]].entries[p[2]] = e]

\* findOrCreateStory, findOrCreateScene and the append.
Added(place, e) ==
    IF \E b \in DOMAIN file : file[b].place = place
    THEN [b \in DOMAIN file |-> IF file[b].place = place
                                THEN [file[b] EXCEPT !.entries = Append(@, e)] ELSE file[b]]
    ELSE Append(file, [place |-> place, entries |-> <<e>>])

Names(c) == {Name[c], Original[c]} \ {None}

\* Mutants: the writer looks everywhere in the file; by name alone.
TargetsAnywhere(c) == {p \in Positions : MatchesEntry(At(p), Sense[c], Names(c))}
TargetsByName(c) == {p \in Positions : file[p[1]].place = Place[c] /\ At(p).name \in Names(c)}

\* The entries of the card at its place.
Targets(c) ==
    {p \in Positions : file[p[1]].place = Place[c] /\ MatchesEntry(At(p), Sense[c], Names(c))}

\* UpdateOrCreateExpressionWithQuality: an entry without an id gets the card's.
Answer(c) ==
    /\ file' = IF Targets(c) = {}
               THEN Added(Place[c], Entry(Name[c], Sense[c], {c}))
               ELSE LET p == Earliest(Targets(c))
                    IN  Changed(p, [At(p) EXCEPT !.id = IF @ = None THEN Sense[c] ELSE @,
                                                 !.logs = @ \cup {c}])
    /\ answered' = answered \cup {c}
    /\ UNCHANGED excluded

\* FindExpressionInHistories as SkipWord and ResumeWord call it: without an id.
ByName(c) == {p \in Positions : At(p).name = Name[c]}

\* Mutant: a stub is made although the word has an entry.
AlwaysStub(c) == Added(Place[c], [Entry(Name[c], None, {}) EXCEPT !.skipped = TRUE])

\* SetSkippedAt on the entry, or on a stub without logs at the place of the card.
WithSkip(c) ==
    IF ByName(c) = {}
    THEN Added(Place[c], [Entry(Name[c], None, {}) EXCEPT !.skipped = TRUE])
    ELSE LET p == Earliest(ByName(c)) IN Changed(p, [At(p) EXCEPT !.skipped = TRUE])

SkipWord(c) ==
    /\ file' = WithSkip(c)
    /\ excluded' = excluded \cup {c}
    /\ UNCHANGED answered

\* Mutant: only an entry with answers is resumed.
ClearsStudied(c) ==
    LET studied == {p \in ByName(c) : At(p).logs # {}}
    IN  IF studied = {} THEN file
        ELSE LET p == Earliest(studied) IN Changed(p, [At(p) EXCEPT !.skipped = FALSE])

WithoutSkip(c) ==
    IF ByName(c) = {} THEN file
    ELSE LET p == Earliest(ByName(c)) IN Changed(p, [At(p) EXCEPT !.skipped = FALSE])

ResumeWord(c) ==
    /\ file' = WithoutSkip(c)
    /\ excluded' = excluded \ {c}
    /\ UNCHANGED answered

Init ==
    /\ file \in OldFiles
    /\ answered = {}
    /\ excluded = {}

Next == \E c \in Cards : Answer(c) \/ SkipWord(c) \/ ResumeWord(c)

Spec == Init /\ [][Next]_vars

-----------------------------------------------------------------------------
(* What the quiz loaders read *)

\* GetLogs: the first entry of the card that has logs.
GetLogs(c) ==
    LET hits == {p \in Positions : /\ file[p[1]].place = Place[c]
                                   /\ MatchesEntry(At(p), Sense[c], Names(c))
                                   /\ At(p).logs # {}}
    IN  IF hits = {} THEN {} ELSE At(Earliest(hits)).logs

\* IsExpressionSkipped: the first entry of the card.
IsExpressionSkipped(c) ==
    LET hits == {p \in Positions : /\ file[p[1]].place = Place[c]
                                   /\ MatchesEntry(At(p), Sense[c], Names(c))}
    IN  hits # {} /\ At(Earliest(hits)).skipped

-----------------------------------------------------------------------------
(* Properties *)

\* One block for each place, and one entry for each name and sense in a block: no
\* sequence of answers and skips forks the history of a word.
NoForks ==
    /\ \A a, b \in DOMAIN file : file[a].place = file[b].place => a = b
    /\ \A p, q \in Positions :
           /\ file[p[1]].place = file[q[1]].place
           /\ At(p).name = At(q).name /\ At(p).id = At(q).id
           => p = q

\* Homographs keep their histories apart: an entry with an id has answers of that
\* sense only, beside what the file had before ids.
SensesApart ==
    \A p \in Positions : At(p).id # None =>
        \A c \in Cards : c \in At(p).logs => Sense[c] = At(p).id

\* The loaders see every answer that was given for a card, whatever entry it went
\* to: what is written at a place is read there.
AnswersAreSeen == \A c \in answered : c \in GetLogs(c)

\* A card whose name nothing else in the file can have.
Plain(c) ==
    /\ Original[c] = None
    /\ \A d \in Cards : Name[c] \in Names(d) => d = c
    /\ \A p \in Positions : At(p).name = Name[c] => file[p[1]].place = Place[c]

\* SkipWord and ResumeWord find an entry in another way than the loaders do.  For
\* a word with one form and one place they agree: the loaders leave out exactly
\* the words that are excluded, however answers, skips and resumes alternate.
PlainSkipsAreRead == \A c \in Cards : Plain(c) => (c \in excluded) = IsExpressionSkipped(c)
=============================================================================
