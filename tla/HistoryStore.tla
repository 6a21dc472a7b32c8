---------------------------- MODULE HistoryStore ----------------------------
(***************************************************************************)
(* The learning history of one notebook: a YAML file that every RPC reads  *)
(* whole, changes in memory and writes back whole (temporary file, then    *)
(* rename), without a lock, and the database rows an answer is copied to   *)
(* afterwards.  Clients are requests the server handles at the same time.  *)
(*                                                                         *)
(* A log is here its identity, its instant and its quiz type; its mark and *)
(* its interval are ReviewChain's.  So an override, which adds no log,     *)
(* writes back what it read.                                               *)
(***************************************************************************)
EXTENDS Naturals, Sequences

CONSTANTS
    Clients,
    Words,
    QuizTypes,   \* subset of {"notebook", "freeform", "reverse"}
    Concept,     \* for every word, the words of its concept, itself included
    Offered,     \* the calls made: subset of {"answer", "skip", "resume", "override"}
    MaxCalls,    \* bound on the calls
    MaxClock     \* bound on the clock

ASSUME WordsAssumption == Words # {}
ASSUME QuizTypesAssumption == QuizTypes \subseteq {"notebook", "freeform", "reverse"}
ASSUME ConceptAssumption ==
    /\ Concept \in [Words -> SUBSET Words]
    /\ \A w \in Words : w \in Concept[w]
    /\ \A v, w \in Words : v \in Concept[w] => Concept[v] = Concept[w]
ASSUME OfferedAssumption == Offered \subseteq {"answer", "skip", "resume", "override"}
ASSUME BoundsAssumption == MaxCalls \in Nat /\ MaxClock \in Nat

VARIABLES
    file,    \* the YAML file: the log lists, newest first, and skipped_at
    db,      \* the rows of learning_logs
    pc,      \* where the handler of each client is
    op,      \* what the client asked for
    sent,    \* LearnedAt, stamped by the service before the file is read
    copy,    \* what the handler read, and then changed
    clock,
    calls,   \* the number of calls so far; names the answers
    reach,   \* the words the handler's skip or resume has changed
    owed,    \* the logs and skips a reply has confirmed (no resume asked since)
    split    \* the slots of concepts that a skip or a resume may have changed in part

vars == <<file, db, pc, op, sent, copy, clock, calls, reach, owed, split>>

Lists == {"learned", "reverse"}
Keys  == Lists \X Words
Log   == [id : Nat, at : Nat, quizType : QuizTypes]
File  == [logs : [Keys -> Seq(Log)], skips : SUBSET (Words \X QuizTypes)]
Op    == [kind : {"none", "answer", "skip", "resume", "override"}, word : Words,
          types : SUBSET QuizTypes, id : Nat]

Empty == [logs |-> [k \in Keys |-> << >>], skips |-> {}]

Ids(s) == {s[i].id : i \in DOMAIN s}

\* The quiz type of an answer.
TypeOf(o) == CHOOSE t \in o.types : TRUE

\* The locals of a handler that does not run.
NoOp == [kind |-> "none", word |-> CHOOSE w \in Words : TRUE, types |-> {}, id |-> 0]

Init ==
    /\ file = Empty
    /\ db = {}
    /\ pc = [c \in Clients |-> "idle"]
    /\ op = [c \in Clients |-> NoOp]
    /\ sent = [c \in Clients |-> 0]
    /\ copy = [c \in Clients |-> Empty]
    /\ clock = 1
    /\ calls = 0
    /\ reach = [c \in Clients |-> {}]
    /\ owed = [logs |-> {}, skips |-> {}]
    /\ split = {}

Goto(c, place) ==
    /\ pc' = [pc EXCEPT ![c] = place]
    /\ UNCHANGED <<op, sent>>

\* The handler returns; its locals are gone.
Return(c) ==
    /\ pc' = [pc EXCEPT ![c] = "idle"]
    /\ op' = [op EXCEPT ![c] = NoOp]
    /\ sent' = [sent EXCEPT ![c] = 0]
    /\ copy' = [copy EXCEPT ![c] = Empty]
    /\ reach' = [reach EXCEPT ![c] = {}]

\* An answer has one quiz type; an override names an answer already given.
Valid(o) ==
    CASE o.kind \in {"skip", "resume"} -> o.types # {}
      [] o.kind = "answer" -> \E t \in QuizTypes : o.types = {t}
      [] o.kind = "override" -> o.id <= calls /\ \E t \in QuizTypes : o.types = {t}

\* Mutant: the word alone.
WordAlone(word, readerFails) == {word}

\* The words a skip or a resume of a word changes.  When the notebooks cannot be
\* read the handler goes on with the word alone.
conceptMembersOrSelf(word, readerFails) == IF readerFails THEN {word} ELSE Concept[word]

\* The slots of skipped_at that a call is about, if it reaches these words.
Slots(o, words) == words \X o.types

\* The handler starts.  SaveResult and its siblings stamp an answer here.
Begin(c, kind, word, types, id) ==
    LET o == [kind |-> kind, word |-> word, types |-> types,
              id |-> CASE kind = "answer"   -> calls + 1
                       [] kind = "override" -> id
                       [] OTHER             -> 0]
    IN  /\ pc[c] = "idle"
        /\ calls < MaxCalls
        /\ Valid(o)
        /\ op' = [op EXCEPT ![c] = o]
        /\ calls' = calls + 1
        /\ sent' = [sent EXCEPT ![c] = clock]
        /\ owed' = IF kind = "resume" THEN [owed EXCEPT !.skips = @ \ Slots(o, Concept[word])]
                                      ELSE owed
        /\ pc' = [pc EXCEPT ![c] = "read"]
        /\ UNCHANGED <<file, db, copy, clock, reach, split>>

\* NewLearningHistories or loadSingleLearningHistory.
Read(c) ==
    /\ pc[c] = "read"
    /\ copy' = [copy EXCEPT ![c] = file]
    /\ Goto(c, IF op[c].kind = "answer" THEN "add" ELSE "edit")
    /\ UNCHANGED <<file, db, clock, calls, reach, owed, split>>

\* Mutant: the log goes to the end of the list.
Appended(f, key, log) == [f EXCEPT !.logs[key] = @ \o <<log>>]

\* A file with one more log, at the head of a list.
Prepended(f, key, log) == [f EXCEPT !.logs[key] = <<log>> \o @]

\* AddRecordWithQuality and its reverse twin stamp the log and put it first.
AddRecord(c, list) ==
    copy' = [copy EXCEPT ![c] = Prepended(@, <<list, op[c].word>>,
                [id |-> op[c].id, at |-> clock, quizType |-> TypeOf(op[c])])]

\* Mutant: a free-form answer is stored like any other.
AddLearnedOnly(c) ==
    /\ pc[c] = "add" /\ TypeOf(op[c]) # "reverse"
    /\ AddRecord(c, "learned")
    /\ Goto(c, "write")
    /\ UNCHANGED <<file, db, clock, calls, reach, owed, split>>

AddLearned(c) ==
    /\ pc[c] = "add" /\ TypeOf(op[c]) # "reverse"
    /\ AddRecord(c, "learned")
    /\ Goto(c, IF TypeOf(op[c]) = "freeform" THEN "pair" ELSE "write")
    /\ UNCHANGED <<file, db, clock, calls, reach, owed, split>>

\* Also the second half of a free-form answer, with a stamp of its own.
AddReverse(c) ==
    /\ \/ pc[c] = "pair"
       \/ pc[c] = "add" /\ TypeOf(op[c]) = "reverse"
    /\ AddRecord(c, "reverse")
    /\ Goto(c, "write")
    /\ UNCHANGED <<file, db, clock, calls, reach, owed, split>>

SetSkips(c, skips) ==
    /\ copy' = [copy EXCEPT ![c] = [@ EXCEPT !.skips = skips]]
    /\ Goto(c, "write")

\* Mutant: every slot of the words is cleared.
ResumeAllTypes(c, words) ==
    op[c].kind = "resume" /\ SetSkips(c, copy[c].skips \ (words \X QuizTypes))

SkipWord(c, words) ==
    op[c].kind = "skip" /\ SetSkips(c, copy[c].skips \cup Slots(op[c], words))
ResumeWord(c, words) ==
    op[c].kind = "resume" /\ SetSkips(c, copy[c].skips \ Slots(op[c], words))

\* UpdateLog: a log that is not there is a reply without a write.
UpdateLog(c) ==
    LET list  == IF TypeOf(op[c]) = "reverse" THEN "reverse" ELSE "learned"
        found == op[c].id \in Ids(copy[c].logs[<<list, op[c].word>>])
    IN  /\ op[c].kind = "override"
        /\ IF found THEN Goto(c, "write") /\ UNCHANGED <<copy, reach>> ELSE Return(c)

\* A skip or a resume changes the whole concept, or the word alone.
EditSkips(c, readerFails) ==
    LET words == conceptMembersOrSelf(op[c].word, readerFails)
    IN  /\ SkipWord(c, words) \/ ResumeWord(c, words)
        /\ reach' = [reach EXCEPT ![c] = words]
        /\ split' = IF readerFails THEN split \cup Slots(op[c], Concept[op[c].word]) ELSE split

Edit(c) ==
    /\ pc[c] = "edit"
    /\ \/ \E readerFails \in BOOLEAN : EditSkips(c, readerFails)
       \/ UpdateLog(c) /\ split' = split
    /\ UNCHANGED <<file, db, clock, calls, owed>>

\* WriteYamlFile.  Only MultiLearningRepository's calls go on to the database.
Write(c) ==
    /\ pc[c] = "write"
    /\ file' = copy[c]
    /\ Goto(c, IF op[c].kind \in {"answer", "override"} THEN "mirror" ELSE "reply")
    /\ UNCHANGED <<db, copy, clock, calls, reach, owed, split>>

\* Mutants: a failed write is taken for a success; is only logged, like a failure
\* of the database.
FailUnnoticed(c) ==
    /\ pc[c] \in {"read", "write"}
    /\ IF pc[c] = "read" THEN Return(c) ELSE Goto(c, "reply") /\ UNCHANGED <<copy, reach>>
    /\ UNCHANGED <<file, db, clock, calls, owed, split>>
FailOnlyLogged(c) ==
    /\ pc[c] \in {"read", "write"}
    /\ IF pc[c] = "write" /\ op[c].kind = "answer"
       THEN Goto(c, "mirror") /\ UNCHANGED <<copy, reach>>
       ELSE Return(c)
    /\ UNCHANGED <<file, db, clock, calls, owed, split>>

\* A read or a write fails: an error reply, the file as it was.
Fail(c) ==
    /\ pc[c] \in {"read", "write"}
    /\ Return(c)
    /\ UNCHANGED <<file, db, clock, calls, owed, split>>

Row(c) == [id |-> op[c].id, word |-> op[c].word, quizType |-> TypeOf(op[c]), at |-> sent[c]]

\* Mutant: the whole call is tried again when the database fails.
MirrorRetries(c) ==
    /\ pc[c] = "mirror"
    /\ \/ /\ db' = IF op[c].kind = "answer" THEN db \cup {Row(c)} ELSE db
          /\ Goto(c, "reply")
       \/ db' = db /\ Goto(c, "read")
    /\ UNCHANGED <<file, copy, clock, calls, reach, owed, split>>

\* The secondary repository; a failure is logged and the call goes on.
Mirror(c) ==
    /\ pc[c] = "mirror"
    /\ db' \in {db, IF op[c].kind = "answer" THEN db \cup {Row(c)} ELSE db}
    /\ Goto(c, "reply")
    /\ UNCHANGED <<file, copy, clock, calls, reach, owed, split>>

\* The logs an answer adds: which lists, whose, which.
Added(o) ==
    {<<list, o.word, o.id>> : list \in {l \in Lists :
        IF l = "learned" THEN "reverse" \notin o.types ELSE "notebook" \notin o.types}}

Reply(c) ==
    /\ pc[c] = "reply"
    /\ owed' = CASE op[c].kind = "answer" -> [owed EXCEPT !.logs = @ \cup Added(op[c])]
                 [] op[c].kind = "skip"   -> [owed EXCEPT !.skips = @ \cup Slots(op[c], reach[c])]
                 [] OTHER                 -> owed
    /\ Return(c)
    /\ UNCHANGED <<file, db, clock, calls, split>>

\* The process dies: the requests in flight are gone, the file and the rows stay.
Crash ==
    /\ pc' = [c \in Clients |-> "idle"]
    /\ op' = [c \in Clients |-> NoOp]
    /\ sent' = [c \in Clients |-> 0]
    /\ copy' = [c \in Clients |-> Empty]
    /\ reach' = [c \in Clients |-> {}]
    /\ UNCHANGED <<file, db, clock, calls, owed, split>>

Tick ==
    /\ clock < MaxClock
    /\ clock' = clock + 1
    /\ UNCHANGED <<file, db, pc, op, sent, copy, calls, reach, owed, split>>

Handle(c) ==
    \/ Read(c) \/ AddLearned(c) \/ AddReverse(c) \/ Edit(c)
    \/ Write(c) \/ Mirror(c) \/ Reply(c)

Next ==
    \/ \E c \in Clients :
           \/ \E kind \in Offered, word \in Words, types \in SUBSET QuizTypes, id \in 0 .. MaxCalls :
                  Begin(c, kind, word, types, id)
           \/ Handle(c)
           \/ Fail(c)
    \/ Crash
    \/ Tick

Spec == Init /\ [][Next]_vars

-----------------------------------------------------------------------------
(* Properties *)

\* The file is well formed, and every instant in it has passed.
TypeOK ==
    /\ file \in File
    /\ db \subseteq [id : Nat, word : Words, quizType : QuizTypes, at : Nat]
    /\ pc \in [Clients -> {"idle", "read", "add", "pair", "edit", "write", "mirror", "reply"}]
    /\ op \in [Clients -> Op]
    /\ sent \in [Clients -> Nat]
    /\ copy \in [Clients -> File]
    /\ clock \in Nat /\ calls \in Nat
    /\ reach \in [Clients -> SUBSET Words]
    /\ split \in SUBSET (Words \X QuizTypes)
    /\ owed \in [logs : SUBSET (Lists \X Words \X Nat), skips : SUBSET (Words \X QuizTypes)]

\* Every reader takes the first log of a list for the latest answer.  However the
\* requests interleave, the lists in the file are newest first.
IsNewestFirst(f) ==
    \A k \in Keys : \A i, j \in DOMAIN f.logs[k] :
        i < j => f.logs[k][j].at <= f.logs[k][i].at
NewestFirst == IsNewestFirst(file)

\* The free-form answers in a list.
FreeformIds(f, key) ==
    {f.logs[key][i].id : i \in {j \in DOMAIN f.logs[key] : f.logs[key][j].quizType = "freeform"}}

\* No race and no crash leaves half of a free-form answer: it is in both lists
\* of its word or in neither.
FreeformInBothLists ==
    \A w \in Words : FreeformIds(file, <<"learned", w>>) = FreeformIds(file, <<"reverse", w>>)

\* The words of a concept are skipped together (what SkipWord calls the skip
\* union), but for those slots a call without its reader has touched: nothing
\* else divides a concept, neither a stale copy written back over the skips of
\* another request nor a call that fails or dies.
IsSkipUnion(f, apart) ==
    \A w \in Words, t \in QuizTypes :
        <<w, t>> \in f.skips => \A v \in Concept[w] : <<v, t>> \in f.skips \cup apart
SkipUnion == IsSkipUnion(file, split)

\* An answer is stored at most once in a list.
StoredOnce ==
    \A k \in Keys : \A i, j \in DOMAIN file.logs[k] :
        i # j => file.logs[k][i].id # file.logs[k][j].id

\* What a reply confirmed is in the file: the answer in each of its lists, and
\* the skip until the word is resumed.
OwedKept ==
    /\ \A x \in owed.logs : x[3] \in Ids(file.logs[<<x[1], x[2]>>])
    /\ owed.skips \subseteq file.skips

\* The database never has an answer the file does not have.
MirrorNeverAhead ==
    \A r \in db : \E l \in Lists : r.id \in Ids(file.logs[<<l, r.word>>])

-----------------------------------------------------------------------------
(* The promise of ReviewLedger *)

Call(place) ==
    CASE place = "idle" -> "idle"
      [] place \in {"mirror", "reply"} -> "applied"
      [] OTHER -> "pending"

Ledger == INSTANCE ReviewLedger WITH
    logs  <- [k \in Keys |-> Ids(file.logs[k])],
    skips <- file.skips,
    call  <- [c \in Clients |-> Call(pc[c])]

\* With one request at a time the store does what the ledger promises.
ImplementsLedger == Ledger!Spec
=============================================================================
