----------------------------- MODULE RelearnPool -----------------------------
(***************************************************************************)
(* The pool of the Relearn quiz (quiz/relearn.go): what was missed lately, *)
(* once each, over the notebooks and histories of Readers.  Building it    *)
(* writes nothing.  A note has the parts of its origin beside what Readers *)
(* says of it: [origin, root], root for a part that is typed so.  The      *)
(* display of the cards is left out.                                       *)
(***************************************************************************)
EXTENDS Readers

CONSTANTS
    Window,     \* how many days back a miss is asked again
    MaxWindow   \* relearnMaxWindowHours, in days

\* clampRelearnWindow: an unset window is a day.
WindowDays == IF Window = 0 THEN 1 ELSE IF Window > MaxWindow THEN MaxWindow ELSE Window

LogsIn(e, format) == IF format = "reverse" THEN e.reverse ELSE e.learned

\* relearnSeries: the entries of a journal's bucket have one series.
Formats(e) == IF e.place[2] = "journal" THEN {"grammar"} ELSE {"notebook", "reverse"}

\* A series that puts its word in the pool: its newest log is a recent miss.
Missed(e, format) ==
    /\ format \in Formats(e)
    /\ LogsIn(e, format) # <<>>
    /\ format \notin e.skipped
    /\ ~Head(LogsIn(e, format)).ok
    /\ Head(LogsIn(e, format)).day >= today - WindowDays

WordKey(e) == [notebook |-> e.place[1], name |-> e.name, id |-> e.id]

\* Mutant: a word missed both ways is asked both ways.
EachDirection ==
    {[key |-> WordKey(entries[k]), format |-> f] : <<k, f>> \in
        {x \in (DOMAIN entries) \X Directions : Missed(entries[x[1]], x[2])}}

\* One candidate for a word of a notebook, whatever scenes and series it was missed
\* in; missed in both directions it is asked in reverse.
CollapseVocabDirections ==
    LET missed(key) == {f \in Directions : \E k \in DOMAIN entries :
                            WordKey(entries[k]) = key /\ Missed(entries[k], f)}
        keys == {key \in {WordKey(entries[k]) : k \in DOMAIN entries} : missed(key) # {}}
        format(key) == IF "notebook" \in missed(key) /\ "reverse" \notin missed(key) THEN "notebook"
                       ELSE CHOOSE f \in missed(key) : f # "notebook"
    IN  {[key |-> key, format |-> format(key)] : key \in keys}

\* The words that have a spelling, the one on the card or the one it came in.
VocabByExpr(name, words) == {i \in words : name \in Answers(i)}

\* resolveWord: by id, else by notebook and spelling, else by spelling alone.  Of several
\* cards the last one loaded is taken, and notebooks are loaded in any order.
ResolveWord(key, words) ==
    LET byID == {i \in words : key.id # None /\ book.notes[i].id = key.id}
        byExpr == VocabByExpr(key.name, words)
        byNotebookExpr == {i \in byExpr : book.notes[i].notebook = key.notebook}
    IN  IF byID # {} THEN byID ELSE IF byNotebookExpr # {} THEN byNotebookExpr ELSE byExpr

\* mergeOriginParts: the parts of more that are not yet there.
MergeOriginParts(parts, more) ==
    FoldLeft(LAMBDA ps, p : IF \E k \in DOMAIN ps : ps[k].origin = p.origin THEN ps ELSE Append(ps, p),
             parts, more)

\* The parts of a word's origin: its own, then those of each note the etymology
\* notebooks have of it.  A word only they have keeps those of its first note.
OriginParts(i) ==
    LET told(n) == n.kind = "etymology" /\ EntryOf(n) \in {Word(i)} \cup Answers(i)
        extra == IF book.notes[i].kind = "etymology" THEN <<>> ELSE SelectSeq(book.notes, told)
    IN  FoldLeft(LAMBDA parts, n : MergeOriginParts(parts, n.parts), book.notes[i].parts, extra)

\* The typed root, or the last part, since prefixes come first.
PrimaryOriginPart(i) ==
    LET parts == OriginParts(i)
        roots == {k \in DOMAIN parts : parts[k].root}
    IN  IF parts = <<>> THEN None
        ELSE IF roots # {} THEN parts[CHOOSE k \in roots : \A j \in roots : k <= j].origin
        ELSE Last(parts).origin

\* The words of each origin, those excluded from other quizzes than free-form too.
OriginFamily(origin, words) == {Word(i) : i \in {j \in words : PrimaryOriginPart(j) = origin}}

\* A member of a family of words is shown as its head, by the index of its notebook.
ConceptFor(key) ==
    IF key.notebook = book.conceptBook /\ InFamily(key.name) THEN Canonical(key.name) ELSE key.name

\* The card of a candidate made from note i: one of its origin's family, or its own.
RelearnCard(c, i) ==
    LET origin == PrimaryOriginPart(i)
    IN  [key |-> c.key, direction |-> c.format, origin |-> origin,
         entry |-> IF origin = None THEN ConceptFor(c.key) ELSE Word(i)]

\* The words of its origin that no card of the origin asks.
RelatedOriginWords(card, pool, words) ==
    OriginFamily(card.origin, words) \ {d.entry : d \in {e \in pool : e.origin = card.origin}}

\* relearnGrammarIndex: the due mistakes of an id, by the loader of the grammar quiz.
RelearnGrammarIndex(key) == {i \in LoadGrammarPosts(All) : book.notes[i].id \in {key.id, key.name}}

\* A card for each mistake of the id, though they share one history.
GrammarCards ==
    UNION {{[key |-> c.key, direction |-> "grammar", origin |-> None, entry |-> Word(i), related |-> {}] :
                i \in RelearnGrammarIndex(c.key)} : c \in {d \in CollapseVocabDirections : d.format = "grammar"}}

\* The pools LoadRelearnPool may return.
LoadRelearnPool ==
    LET words == LoadAllWords
        found == {c \in CollapseVocabDirections : c.format # "grammar" /\ ResolveWord(c.key, words) # {}}
        picks == {p \in [found -> words] : \A c \in found : p[c] \in ResolveWord(c.key, words)}
        pool(p) == {RelearnCard(c, p[c]) : c \in found}
    IN  {{[key |-> card.key, direction |-> card.direction, origin |-> card.origin, entry |-> card.entry,
           related |-> IF card.origin = None THEN {} ELSE RelatedOriginWords(card, pool(p), words)]
              : card \in pool(p)} \cup GrammarCards : p \in picks}

-----------------------------------------------------------------------------
(* Properties *)

\* What the learner was last told of note i in direction d was a miss of the window.
MissedLately(i, d) ==
    /\ verdict[i][d] # None
    /\ ~verdict[i][d].ok
    /\ verdict[i][d].until - 1 >= today - WindowDays

Asks(card, i) ==
    /\ card.key.notebook = book.notes[i].notebook
    /\ card.entry \in {Word(i), FamilyOf(book.notes[i])}

\* "K failed words yield exactly K re-ask cards": a word missed lately and not excluded
\* is asked by one card, in reverse if it was recall that failed, and whatever the pool
\* asks was missed, and is not excluded.  Left out are words excluded from free-form,
\* which the pool cannot resolve, the history from before the run, and, of a word in
\* two scenes, the exclusion, which marks one of its entries (ExcludedStayOut), and a
\* family whose latest click found no reader.
RelearnAsksMisses ==
    \A pool \in LoadRelearnPool :
        /\ \A i \in Notes, d \in Directions :
               MissedLately(i, d) /\ (excluded[i] \cup split[i]) \cap {d, "freeform"} = {} =>
                   LET asked == {card \in pool : Asks(card, i)}
                   IN  /\ Cardinality(asked) = 1
                       /\ d = "reverse" => \A card \in asked : card.direction = "reverse"
        /\ \A card \in pool : \E i \in Notes :
               /\ Asks(card, i)
               /\ \/ verdict[i][card.direction] = None
                  \/ MissedLately(i, card.direction) /\ (Alone(i) => card.direction \notin excluded[i] \ split[i])
=============================================================================
