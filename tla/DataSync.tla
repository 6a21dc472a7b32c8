------------------------------- MODULE DataSync -------------------------------
(***************************************************************************)
(* Keeping the database a mirror of the YAML files: `langner migrate       *)
(* import-db` and `sync-db`, while the server writes answers and edits to  *)
(* both stores.  An import works in transactions; between two of them the  *)
(* server and the editor of the files go on, and it may die.               *)
(*                                                                         *)
(* A word is a usage and its entry, the form answers are filed under;      *)
(* upper and lower case, which the importer folds, are one word.  A place  *)
(* is a scene of a notebook.  Answers are on different days, so an answer  *)
(* is named by its time `at`.  An answer is one record of one list: a      *)
(* free-form answer is two records in the files and two rows, which the    *)
(* quiz type in the importer's key of a log tells apart, here left out.    *)
(* Intervals and qualities, which the importer does not compare, are left  *)
(* out, and so are images and references.  Dry runs write nothing and are  *)
(* left out.                                                               *)
(***************************************************************************)
EXTENDS ConceptTables, Integers, FiniteSetsExt, SequencesExt

CONSTANTS
    EntryOf,     \* the entry of each word; its domain is the words
    WordOf,      \* the word whose usage and entry are both a given entry
    NotebookOf,  \* the notebook of each place; its domain is the places
    None,        \* the id of a definition that has none
    Editions,    \* what the editor may make of the definition files
    Etymology,   \* what the editor may make of the etymology files
    MaxAnswers, MaxEdits, MaxImports

VARIABLES
    defs,     \* the definitions of the YAML files: [place, sense, word, meaning]
    roots,    \* what the etymology files declare
    history,  \* the answers in the learning history: [nb, entry, sense, at, status]
    notes,    \* rows of notes: [id, word, sense, meaning]
    links,    \* rows of notebook_notes: [note, place]
    logs,     \* rows of learning_logs: [id, note, nb, at, status, filed]
    tables,   \* the etymology and concept tables
    imp,      \* the importer
    serial,   \* the next id of a row
    calls,    \* how many answers, edits and imports there were
    undisturbed \* how many imports ran whole since another writer's last write

sources == <<defs, roots, history>>
database == <<notes, links, logs, tables, serial>>
vars == <<sources, database, imp, calls, undisturbed>>

Words == DOMAIN EntryOf
Places == DOMAIN NotebookOf
Statuses == {"understood", "misunderstood"}

ASSUME EditionsAssumption == \A e \in Editions : IsFiniteSet(e) /\ \A d \in e : d.word \in Words
ASSUME FormsAssumption == \A y \in Etymology : \A f \in y.forms : Key(f) \in Keys(y.origins)
ASSUME PairAssumption == \A w \in Words : WordOf[EntryOf[w]] \in Words /\ EntryOf[WordOf[EntryOf[w]]] = EntryOf[w]

\* The importer: the definitions it read (`defs`), the rows it read (`seen`),
\* the notes and links the files claim, what it has yet to write and to delete.
Nothing == [notes |-> {}, links |-> {}, logs |-> {}]
Idle == [phase |-> "idle", update |-> FALSE, defs |-> {}, seen |-> Nothing, records |-> {},
         touched |-> {}, claimed |-> {}, rows |-> {}, stale |-> {}, books |-> {}]
EmptyCalls == [answers |-> 0, edits |-> 0, imports |-> 0]

Init ==
    /\ defs \in Editions
    /\ roots \in Etymology
    /\ history = {}
    /\ notes = {} /\ links = {} /\ logs = {}
    /\ tables = EmptyTables
    /\ imp = Idle
    /\ serial = 1
    /\ calls = EmptyCalls
    /\ undisturbed = 0

NoteKey(n) == <<n.sense, n.word>>

\* Mutant: a word has the place it is met at first, and no other.
FirstPlaceOnly(key) == {(CHOOSE d \in defs : NoteKey(d) = key).place}

\* Every place a word is defined in.
PlacesOf(key) == {d.place : d \in {e \in defs : NoteKey(e) = key}}

\* YAMLNoteRepository.FindAll: the definitions with one id and spelling are one
\* note; what it means is what the first one the walk meets says.
SourceNotes ==
    {[sense |-> key[1], word |-> key[2], meaning |-> (CHOOSE d \in defs : NoteKey(d) = key).meaning,
      places |-> PlacesOf(key)] : key \in {NoteKey(d) : d \in defs}}

NoteIds == {n.id : n \in notes}

\* The unique keys of the table: the pair of usage and entry, and the id of a
\* sense when there is one.
Collides(m, n) == m.word = n.word \/ (m.sense # None /\ m.sense = n.sense)

\* Rows the table takes.
Insertable(new, old) ==
    /\ \A m \in new, n \in old : ~Collides(m, n)
    /\ \A m, n \in new : m # n => ~Collides(m, n)

\* The rows of a batch get the next ids, in the order they are sent.
Numbered(new) == LET s == SetToSeq(new)
                 IN  {[id |-> serial + i - 1, word |-> s[i].word, sense |-> s[i].sense,
                       meaning |-> s[i].meaning] : i \in DOMAIN s}

-----------------------------------------------------------------------------
(* The server and the editor. *)

Busy == imp.phase \notin {"idle", "done", "aborted", "refused"}

\* An import another writer wrote during does not count.
Disturb == undisturbed' = IF Busy THEN -1 ELSE 0

\* ensureNoteExists: the note of an answered card, made when there is none.
\* An id whose word another note holds cannot be inserted: no row then.
NoteOf(sense, word) == {n \in notes : IF sense # None THEN n.sense = sense ELSE n.word = word}

\* DBLearningRepository.Create behind MultiLearningRepository: the row, or only
\* a line in the server's log.
MirrorAnswer(sense, word, nb, at, status) ==
    \/ UNCHANGED <<notes, logs, serial>>
    \/ \E n \in NoteOf(sense, word) :
          /\ logs' = logs \cup {[id |-> serial, note |-> n.id, nb |-> nb, at |-> at,
                                 status |-> status, filed |-> FALSE]}
          /\ serial' = serial + 1
          /\ UNCHANGED notes
    \/ LET n == [id |-> serial, word |-> word, sense |-> sense, meaning |-> None]
       IN  /\ NoteOf(sense, word) = {}
           /\ Insertable({n}, notes)
           /\ notes' = notes \cup {n}
           /\ logs' = logs \cup {[id |-> serial + 1, note |-> n.id, nb |-> nb, at |-> at,
                                  status |-> status, filed |-> FALSE]}
           /\ serial' = serial + 2

\* SaveResult: the learning history first, then the mirror.
Answer(d, status) ==
    LET at == calls.answers + 1
        nb == NotebookOf[d.place]
    IN  /\ calls.answers < MaxAnswers
        /\ history' = history \cup {[nb |-> nb, entry |-> EntryOf[d.word], sense |-> d.sense,
                                     at |-> at, status |-> status]}
        /\ MirrorAnswer(d.sense, d.word, nb, at, status)
        /\ calls' = [calls EXCEPT !.answers = at]
        /\ Disturb
        /\ UNCHANGED <<defs, roots, links, tables, imp>>

\* MultiLearningRepository.UpdateLog: the record, then the row of its day.
Override(r) ==
    LET flipped == CHOOSE s \in Statuses : s # r.status
        rows == {l \in logs : l.at = r.at /\ \E n \in notes :
                    /\ n.id = l.note
                    /\ IF r.sense # None THEN n.sense = r.sense ELSE EntryOf[n.word] = r.entry}
    IN  /\ calls.edits < MaxEdits
        /\ history' = (history \ {r}) \cup {[r EXCEPT !.status = flipped]}
        /\ \/ UNCHANGED logs
           \/ \E l \in rows : logs' = (logs \ {l}) \cup {[l EXCEPT !.status = flipped]}
        /\ calls' = [calls EXCEPT !.edits = @ + 1]
        /\ Disturb
        /\ UNCHANGED <<defs, roots, notes, links, tables, serial, imp>>

\* The learner edits the files.
Edit ==
    /\ calls.edits < MaxEdits
    /\ \/ defs' \in Editions \ {defs} /\ UNCHANGED roots
       \/ roots' \in Etymology \ {roots} /\ UNCHANGED defs
    /\ calls' = [calls EXCEPT !.edits = @ + 1]
    /\ Disturb
    /\ UNCHANGED <<history, database, imp>>

\* RegisterDefinition: the definitions file, then a note with its link.
Register(word, place) ==
    LET d == [place |-> place, sense |-> None, word |-> word, meaning |-> None]
        n == [id |-> serial, word |-> word, sense |-> None, meaning |-> None]
    IN  /\ calls.edits < MaxEdits
        /\ \A e \in defs : e.word # word
        /\ defs' = defs \cup {d}
        /\ \/ UNCHANGED <<notes, links, serial>>
           \/ /\ Insertable({n}, notes)
              /\ notes' = notes \cup {n}
              /\ links' = links \cup {[note |-> serial, place |-> place]}
              /\ serial' = serial + 1
        /\ calls' = [calls EXCEPT !.edits = @ + 1]
        /\ Disturb
        /\ UNCHANGED <<roots, history, logs, tables, imp>>

\* DeleteDefinition: the word leaves the file of the notebook; in the database
\* the link goes, and the note with its answers when that was its last link.
\* Parts of the note keep it from being deleted, and undo the whole call.
Unregister(word, nb) ==
    LET In(place) == NotebookOf[place] = nb
        gone == {l \in links : In(l.place) /\ \E n \in notes : n.id = l.note /\ n.word = word}
        bare == {l.note : l \in gone} \ {l.note : l \in links \ gone}
    IN  /\ calls.edits < MaxEdits
        /\ \E d \in defs : d.word = word /\ In(d.place)
        /\ defs' = {d \in defs : ~(d.word = word /\ In(d.place))}
        /\ \/ UNCHANGED <<notes, links, logs>>
           \/ /\ \A p \in tables.parts : \A n \in notes : n.id \in bare => p.word # n.word
              /\ links' = links \ gone
              /\ notes' = {n \in notes : n.id \notin bare}
              /\ logs' = {l \in logs : l.note \notin bare}
        /\ calls' = [calls EXCEPT !.edits = @ + 1]
        /\ Disturb
        /\ UNCHANGED <<roots, history, tables, serial, imp>>

-----------------------------------------------------------------------------
(* The import. *)

\* A new importer reads the definitions and the notes.  sync-db first empties
\* every table.
Begin(update, truncate) ==
    /\ imp.phase \in {"idle", "done", "aborted", "refused"}
    /\ calls.imports < MaxImports
    /\ calls' = [calls EXCEPT !.imports = @ + 1]
    /\ IF truncate
       THEN notes' = {} /\ links' = {} /\ logs' = {} /\ tables' = EmptyTables
       ELSE UNCHANGED <<notes, links, logs, tables>>
    /\ imp' = [Idle EXCEPT !.phase = "read", !.update = update, !.defs = SourceNotes,
                           !.seen = [Nothing EXCEPT !.notes = notes', !.links = links']]
    /\ undisturbed' = IF imp.phase = "done" THEN undisturbed ELSE 0
    /\ UNCHANGED <<sources, serial>>

\* import-db, told to update what exists or not, and sync-db, which always is.
ImportDB(update) == Begin(update, FALSE)
SyncDB == Begin(TRUE, TRUE)

Goes(phase) == imp' = [imp EXCEPT !.phase = phase]
Aborts == imp' = [Idle EXCEPT !.phase = "aborted"]
\* ... because the table does not take the notes.
Refused == imp' = [Idle EXCEPT !.phase = "refused"]

\* classifyRecord: a definition is new, or the note with its key is its note.
SeenNote(d) == {n \in imp.seen.notes : NoteKey(n) = NoteKey(d)}
Fresh == {d \in imp.defs : SeenNote(d) = {}}

\* BatchCreate of the new notes with their links, all or none.
CreateNotes ==
    LET made == Numbered(Fresh)
        linked == UNION {{[note |-> n.id, place |-> p] : p \in UNION {d.places : d \in
                              {e \in Fresh : NoteKey(e) = NoteKey(n)}}} : n \in made}
    IN  /\ imp.phase = "read"
        /\ IF Insertable(Fresh, notes)
           THEN /\ notes' = notes \cup made
                /\ links' = links \cup linked
                /\ serial' = serial + Cardinality(made)
                /\ imp' = [imp EXCEPT !.phase = "created", !.touched = {n.id : n \in made},
                                      !.claimed = linked]
           ELSE Refused /\ UNCHANGED <<notes, links, serial>>
        /\ UNCHANGED <<sources, logs, tables, calls, undisturbed>>

\* The note as the update leaves it.
Refreshed(n, matched) ==
    IF imp.update /\ \E m \in matched : m.note = n.id
    THEN [n EXCEPT !.meaning = (CHOOSE m \in matched : m.note = n.id).d.meaning]
    ELSE n

\* BatchUpdate of the others: their meaning when asked to, and new links.
UpdateNotes ==
    LET matched == UNION {{[note |-> n.id, d |-> d] : d \in {e \in imp.defs : NoteKey(e) = NoteKey(n)}} :
                              n \in imp.seen.notes}
        wanted == UNION {{[note |-> m.note, place |-> p] : p \in m.d.places} : m \in matched}
        new == wanted \ imp.seen.links
    IN  /\ imp.phase = "created"
        /\ IF \A l \in new : l.note \in NoteIds
           THEN /\ notes' = {Refreshed(n, matched) : n \in notes}
                /\ links' = links \cup new
                /\ imp' = [imp EXCEPT !.phase = "noted", !.defs = {}, !.seen = Nothing,
                                      !.touched = @ \cup {m.note : m \in matched},
                                      !.claimed = @ \cup wanted]
           ELSE Aborts /\ UNCHANGED <<notes, links>>
        /\ UNCHANGED <<sources, logs, tables, serial, calls, undisturbed>>

\* One phase of the etymology import: all of its transactions, or as many as
\* were done when it failed.
Phase(from, to, steps) ==
    /\ imp.phase = from
    /\ \/ tables' = Last(steps) /\ Goes(to)
       \/ \E i \in DOMAIN steps : i < Len(steps) /\ tables' = steps[i] /\ Aborts
    /\ UNCHANGED <<sources, notes, links, logs, serial, calls, undisturbed>>

\* The note an expression of the etymology is: the last with it for its entry
\* or its usage.
NotedAs(name) ==
    LET named == {n \in notes : name \in {n.word, EntryOf[n.word]}}
    IN  {n.word : n \in {m \in named : \A k \in named : k.id <= m.id}}

OriginsPhase == Phase("noted", "origins", ImportOrigins(tables, roots))
FormsPhase == Phase("origins", "forms", ImportForms(tables, roots))
PartsPhase == Phase("forms", "parts", ImportParts(tables, roots, [name \in {d.name : d \in roots.parts} |-> NotedAs(name)]))

\* The same for each book that declares something, in any order.
BookPhase(from, to, books, Steps(_)) ==
    /\ imp.phase = from
    /\ \/ /\ imp.books = books
          /\ imp' = [imp EXCEPT !.phase = to, !.books = {}]
          /\ UNCHANGED tables
       \/ \E b \in books \ imp.books :
             \/ tables' = Last(Steps(b)) /\ imp' = [imp EXCEPT !.books = @ \cup {b}]
             \/ \E i \in DOMAIN Steps(b) : i < Len(Steps(b)) /\ tables' = Steps(b)[i] /\ Aborts
    /\ UNCHANGED <<sources, notes, links, logs, serial, calls, undisturbed>>

ConceptsPhase == BookPhase("parts", "concepts", BooksOf(roots.concepts),
                           LAMBDA b : ImportConcepts(tables, roots, b))
RelationsPhase == BookPhase("concepts", "relations", {BookOf[r.session] : r \in roots.relations},
                            LAMBDA b : ImportRelations(tables, roots, b))
HeadsPhase == BookPhase("relations", "heads", BooksOf(roots.heads),
                        LAMBDA b : ImportHeads(tables, roots, b))

\* lookupByID: by the id of the sense, else by the entry, the note linked to
\* the notebook before the others.
Lookup(seen, sense, entry, nb) ==
    LET pinned == {n \in seen.notes : sense # None /\ n.sense = sense}
        named  == {n \in seen.notes : EntryOf[n.word] = entry}
        linked == {n \in named : \E l \in seen.links : l.note = n.id /\ NotebookOf[l.place] = nb}
        Oldest(S) == {n \in S : \A m \in S : n.id <= m.id}
    IN  IF pinned # {} THEN pinned ELSE IF linked # {} THEN Oldest(linked) ELSE Oldest(named)

\* ImportLearningLogs reads the rows, then the learning history of every
\* notebook a note is linked to.
ReadRows ==
    /\ imp.phase = "heads"
    /\ imp' = [imp EXCEPT !.phase = "rows",
                          !.seen = [notes |-> notes, links |-> links, logs |-> logs]]
    /\ UNCHANGED <<sources, database, calls, undisturbed>>

\* ... makes a note for each expression that has none, and reads the notes
\* again when there were such.
AutoNotes ==
    LET linked == {NotebookOf[l.place] : l \in imp.seen.links}
        records == {r \in history : r.nb \in linked}
        unknown == {r \in records : Lookup(imp.seen, r.sense, r.entry, r.nb) = {}}
        fresh == {[sense |-> r.sense, word |-> WordOf[r.entry], meaning |-> None] : r \in unknown}
    IN  /\ imp.phase = "rows"
        /\ IF Insertable(fresh, notes)
           THEN /\ notes' = notes \cup Numbered(fresh)
                /\ serial' = serial + Cardinality(fresh)
                /\ imp' = [imp EXCEPT !.phase = "resolved", !.records = records,
                                      !.seen = IF fresh = {} THEN @
                                               ELSE [@ EXCEPT !.notes = notes', !.links = links]]
           ELSE Refused /\ UNCHANGED <<notes, serial>>
        /\ UNCHANGED <<sources, links, logs, tables, calls, undisturbed>>

\* Mutant: a record is matched by its note and time alone.
MatchesIgnoringStatus(l, n, r) == l.note = n.id /\ l.nb = r.nb /\ l.at = r.at /\ l.filed

\* Mutant: ... by its notebook, time and status, whatever note it hangs on.
MatchesAnyNote(l, n, r) == l.nb = r.nb /\ l.at = r.at /\ l.status = r.status /\ l.filed

\* logKey: the time of a row the server wrote is finer than the history's.
Matches(l, n, r) ==
    l.note = n.id /\ l.nb = r.nb /\ l.at = r.at /\ l.status = r.status /\ l.filed

\* matchSource pops one row of the key for each record; what is left is stale.
Resolve ==
    LET Of(r) == Lookup(imp.seen, r.sense, r.entry, r.nb)
        matching(r) == {l \in imp.seen.logs : \E n \in Of(r) : Matches(l, n, r)}
        popped == {(CHOOSE l \in matching(r) : \A m \in matching(r) : l.id <= m.id).id :
                       r \in {x \in imp.records : matching(x) # {}}}
    IN  /\ imp.phase = "resolved"
        /\ imp' = [imp EXCEPT
              !.phase = "planned",
              !.touched = @ \cup UNION {{n.id : n \in Of(r)} : r \in imp.records},
              !.rows = UNION {{[note |-> n.id, nb |-> r.nb, at |-> r.at, status |-> r.status] : n \in Of(r)} :
                                  r \in {x \in imp.records : matching(x) = {}}},
              !.stale = {l.id : l \in imp.seen.logs} \ popped,
              !.records = {}, !.seen = Nothing]
        /\ UNCHANGED <<sources, database, calls, undisturbed>>

\* BatchCreate of the logs: a note that is gone fails it.
InsertLogs ==
    LET s == SetToSeq(imp.rows)
    IN  /\ imp.phase = "planned"
        /\ IF \A r \in imp.rows : r.note \in NoteIds
           THEN /\ logs' = logs \cup {[id |-> serial + i - 1, note |-> s[i].note, nb |-> s[i].nb,
                                       at |-> s[i].at, status |-> s[i].status, filed |-> TRUE] :
                                          i \in DOMAIN s}
                /\ serial' = serial + Len(s)
                /\ imp' = [imp EXCEPT !.phase = "inserted", !.rows = {}]
           ELSE Aborts /\ UNCHANGED <<logs, serial>>
        /\ UNCHANGED <<sources, notes, links, tables, calls, undisturbed>>

DeleteLeftovers ==
    /\ imp.phase = "inserted"
    /\ logs' = {l \in logs : l.id \notin imp.stale}
    /\ imp' = [imp EXCEPT !.phase = "logged", !.stale = {}]
    /\ UNCHANGED <<sources, notes, links, tables, serial, calls, undisturbed>>

DictionaryPhase == Phase("logged", "dictionary", ImportDictionary(tables, roots, imp.update))

\* reconcileNotes: of the notes the files claim, links they do not claim ...
StaleLinks ==
    /\ imp.phase = "dictionary"
    /\ links' = {l \in links : l.note \in imp.touched => l \in imp.claimed}
    /\ imp' = [imp EXCEPT !.phase = "linked", !.stale = NoteIds \ imp.touched,
                          !.touched = {}, !.claimed = {}]
    /\ UNCHANGED <<sources, notes, logs, tables, serial, calls, undisturbed>>

\* ... and the notes they do not claim, with every row that needs them.
StaleNotes ==
    LET gone == {n \in notes : n.id \in imp.stale}
    IN  /\ imp.phase = "linked"
        /\ notes' = notes \ gone
        /\ links' = {l \in links : l.note \notin imp.stale}
        /\ logs' = {l \in logs : l.note \notin imp.stale}
        /\ tables' = [tables EXCEPT !.parts = {p \in @ : \A n \in gone : n.word # p.word}]
        /\ imp' = [Idle EXCEPT !.phase = "done", !.update = imp.update]
        /\ undisturbed' = undisturbed + 1
        /\ UNCHANGED <<sources, serial, calls>>

\* The importer dies, or loses the database.
Dies == Busy /\ Aborts /\ UNCHANGED <<sources, database, calls, undisturbed>>

Importer ==
    \/ CreateNotes \/ UpdateNotes
    \/ OriginsPhase \/ FormsPhase \/ PartsPhase \/ ConceptsPhase \/ RelationsPhase \/ HeadsPhase
    \/ ReadRows \/ AutoNotes \/ Resolve \/ InsertLogs \/ DeleteLeftovers
    \/ DictionaryPhase \/ StaleLinks \/ StaleNotes \/ Dies

Next ==
    \/ \E d \in defs, status \in Statuses : Answer(d, status)
    \/ \E r \in history : Override(r)
    \/ Edit
    \/ \E w \in Words, p \in Places : Register(w, p)
    \/ \E w \in Words, nb \in {NotebookOf[p] : p \in Places} : Unregister(w, nb)
    \/ \E update \in BOOLEAN : ImportDB(update)
    \/ SyncDB
    \/ Importer

Spec == Init /\ [][Next]_vars

-----------------------------------------------------------------------------
(* The export and its check, `migrate export-db` and `validate-db`. *)

LinkedIn(n, nb) == {l.place : l \in {k \in links : k.note = n.id /\ NotebookOf[k.place] = nb}}

\* Mutant: a note in two scenes gives its answers to both.
EveryScene(n, nb) == LinkedIn(n, nb)

\* logsClaimed: the scene of a notebook that gets the answers of a note.
ClaimingScene(n, nb) == IF LinkedIn(n, nb) = {} THEN {} ELSE {CHOOSE p \in LinkedIn(n, nb) : TRUE}

\* WriteAll: the answers of each note in each notebook it is linked to.
ExportedLogs ==
    UNION {UNION {{[nb |-> l.nb, entry |-> EntryOf[n.word], place |-> p, log |-> l.id] : p \in ClaimingScene(n, l.nb)} :
                      l \in {k \in logs : k.note = n.id}} : n \in notes}

\* YAMLNoteRepository.WriteAll: a definition for each link.
ExportedNotes ==
    UNION {{[place |-> l.place, sense |-> n.sense, word |-> n.word] : l \in {k \in links : k.note = n.id}} : n \in notes}

\* ExportAll.
ExportAll == [notes |-> ExportedNotes, logs |-> ExportedLogs, words |-> {r.word : r \in tables.dictionary},
              heads |-> [b \in {h.book : h \in tables.heads} |-> ExportedHeads(tables, b)]]

\* ValidateRoundTrip: the definitions of a notebook, and the answers of one entry.
SameDefinitions(export, nb) ==
    Cardinality({x \in export.notes : NotebookOf[x.place] = nb}) = Cardinality({d \in defs : NotebookOf[d.place] = nb})
SameAnswers(export, nb, entry) ==
    Cardinality({x \in export.logs : x.nb = nb /\ x.entry = entry})
        = Cardinality({r \in history : r.nb = nb /\ r.entry = entry})

\* What validate-db, and sync-db at its end, finds different between files and export.
RoundTripDiff(export) ==
    LET notebooks == {NotebookOf[p] : p \in Places}
    IN  {<<nb, "definitions">> : nb \in {n \in notebooks : ~SameDefinitions(export, n)}} \cup
        {<<r.nb, r.entry>> : r \in {q \in history : ~SameAnswers(export, q.nb, q.entry)}} \cup
        (IF Cardinality(export.words) # Cardinality(roots.cached) THEN {"dictionary"} ELSE {})

-----------------------------------------------------------------------------
Completed(n) == imp.phase = "done" /\ undisturbed >= n

\* The state of the database as it is, and the records a note is for.
Stored == [notes |-> notes, links |-> links, logs |-> logs]
NotesOf(r) == Lookup(Stored, r.sense, r.entry, r.nb)
LinkedNotebooks == {NotebookOf[l.place] : l \in links}

\* An import that completes while nobody else writes leaves every definition of
\* the files as one note, linked to exactly the places the files have it in,
\* and, if it was asked to update, with their meaning.
DefinitionsMirrored ==
    Completed(1) =>
        /\ \A d \in defs : \E n \in notes : NoteKey(n) = NoteKey(d)
        /\ UNION {{<<n.sense, n.word, l.place>> : l \in {k \in links : k.note = n.id}} : n \in notes}
           = {<<d.sense, d.word, d.place>> : d \in defs}
        /\ imp.update => \A d \in SourceNotes : \A n \in notes :
               NoteKey(n) = NoteKey(d) => n.meaning = d.meaning

\* And it leaves one row for every answer of the history of a linked notebook,
\* with its time and status, and no row the history does not have.
AnswersMirrored ==
    Completed(1) =>
        /\ \A r \in history : r.nb \in LinkedNotebooks =>
              Cardinality({l \in logs : l.nb = r.nb /\ l.at = r.at /\ l.status = r.status}) = 1
        /\ \A l \in logs : /\ l.filed
                           /\ \E r \in history : l.nb = r.nb /\ l.at = r.at /\ l.status = r.status

\* Two imports make what sync-db makes of an empty database: every note is one
\* of the files or of an answer, and every row hangs on the note its answer is
\* for.  One import is not enough: links are reconciled last, so a link the
\* files dropped still decides which history is read and for which note.
TwoImportsSettle ==
    Completed(2) =>
        /\ \A n \in notes : \/ \E d \in defs : NoteKey(n) = NoteKey(d)
                            \/ \E r \in history : n \in NotesOf(r)
        /\ \A l \in logs : \E r \in history :
              /\ l.nb = r.nb /\ l.at = r.at /\ l.nb \in LinkedNotebooks
              /\ \E n \in NotesOf(r) : l.note = n.id

\* The note of every answer of an entry is linked to the notebook and has its spelling.
Filed(nb, entry) ==
    \A r \in history : r.nb = nb /\ r.entry = entry =>
        \E n \in NotesOf(r) : LinkedIn(n, nb) # {} /\ EntryOf[n.word] = entry

\* After two imports validate-db finds the files in what is exported: the definitions of
\* every notebook, each answer once though its note is in several scenes, unless it is
\* filed under a word the notebook does not have, and the dictionary, unless a
\* cached word is gone from the files.  An import of the exported heads of a book makes
\* them again.
ExportsRoundTrip ==
    /\ Completed(2) =>
        LET export == ExportAll
        IN  \A diff \in RoundTripDiff(export) :
               \/ diff = "dictionary" /\ ~(export.words \subseteq {c.word : c \in roots.cached})
               \/ diff \in {<<r.nb, r.entry>> : r \in {q \in history : ~Filed(q.nb, q.entry)}}
    /\ imp.phase = "done" =>
        \A b \in {h.book : h \in tables.heads} : HeadsRoundTrip(tables, b)

\* No row of the etymology dangles, in any state between two transactions, and the
\* tables mirror the files after an import that completed.
EtymologyMirrored ==
    /\ \A f \in tables.forms : f.origin \in Keys(tables.origins)
    /\ \A p \in tables.parts : /\ p.origin \in Keys(tables.origins)
                               /\ \E n \in notes : n.word = p.word
                               /\ p.form # Unpinned => \E f \in tables.forms :
                                     f.origin = p.origin /\ f.form = p.form
    /\ \A m \in tables.members : \E c \in tables.concepts : c.book = m.book /\ c.key = m.key
    /\ \A r \in tables.related : \A k \in {r.from, r.to} :
          \E c \in tables.concepts : c.book = r.book /\ c.key = k
    /\ Completed(1) => /\ FormsMirrored(tables, roots)
                       /\ ConceptsMirrored(tables, roots)
                       /\ RelationsMirrored(tables, roots)
                       /\ NothingLeftOut(tables, roots, UNION {{d.word, EntryOf[d.word]} : d \in defs})
                       /\ \A c \in roots.cached : \E r \in tables.dictionary : r.word = c.word
=============================================================================
