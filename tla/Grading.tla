------------------------------ MODULE Grading ------------------------------
(***************************************************************************)
(* How a batch of answers is graded and stored: the page sends it, one     *)
(* goroutine per answer decides it locally or asks the remote model, with  *)
(* retries, and when all have ended the handler saves one answer after the *)
(* other.  The page may lose the reply and send the batch again while the  *)
(* handler of the first sending still runs.                                *)
(*                                                                         *)
(* What the answers say is left out: an answer has a shape, which decides  *)
(* whether the model is asked, and the model says anything it may say.     *)
(***************************************************************************)
EXTENDS Integers, FiniteSets

CONSTANTS
    Quizzes,           \* subset of {"notebook","reverse","freeform","grammar","relearn"}
    BatchSize,         \* the answers of a batch
    Shapes,            \* subset of {"typed","empty","fix","unknown","circular"}
    MaxRetryAttempts,  \* openai.max_retry_attempts
    Concurrency,       \* grammarGradeConcurrency
    MaxSendings,       \* bound: how often the page sends the batch
    None

ASSUME BoundsAssumption ==
    /\ BatchSize \in Nat \ {0}
    /\ MaxRetryAttempts \in Nat
    /\ Concurrency \in Nat \ {0}
    /\ MaxSendings \in Nat
ASSUME QuizzesAssumption ==
    Quizzes \subseteq {"notebook", "reverse", "freeform", "grammar", "relearn"}
ASSUME NoneAssumption == None \notin {"right", "wrong", "synonym", "accepted"}

VARIABLES
    quiz,     \* the quiz the batch belongs to
    shape,    \* what each answer is like
    accept,   \* accept_synonym_as_correct: the second pass of a reverse batch
    sent,     \* how often the page has sent the batch
    page,     \* "composing", "waiting", "failed" or "shown"
    handler,  \* per sending: "none", "grading", "saving", "replied" or "failed"
    gone,     \* the sendings whose connection is lost: their context is cancelled
    call,     \* per sending and answer: where its goroutine is, requests made
    results,  \* per sending: the grades its goroutines have left
    said,     \* per sending and answer: what was decided for that answer
    next,     \* per sending: the answer that is saved next
    file      \* the logs stored: [item, sending, grade]

vars == <<quiz, shape, accept, sent, page, handler, gone, call, results, said, next, file>>

Sendings  == 1 .. MaxSendings
Indices   == 1 .. BatchSize
Grades    == {"right", "wrong", "synonym", "accepted"}

\* The answers of the batch, in its order; a free-form answer is sent alone.
Items == IF quiz = "freeform" THEN {1} ELSE Indices

-----------------------------------------------------------------------------
(* What can be graded without the model, and what the model may say *)

\* Skipped, or nothing typed: a miss.  The free-form quiz has no skip and asks.
Blank(s) == s = "empty" /\ quiz # "freeform"

\* The correction of a grammar mistake, and no longer the mistake.
AppliesFix(s) == s = "fix" /\ quiz = "grammar"

\* A free-form word that is in no notebook.
UnknownWord(s) == s = "unknown" /\ quiz = "freeform"

LocalGrade(s) ==
    CASE Blank(s) \/ UnknownWord(s) -> "wrong"
      [] AppliesFix(s)              -> "right"
      [] OTHER                      -> None

\* AnswerMeanings, for a meaning; the quality defaults are left out.
MeaningVerdicts == {"right", "wrong"}
\* ValidateWordForm, for a word.
WordFormVerdicts == {"right", "wrong", "synonym"}
\* GradeCorrection, for a sentence.
CorrectionVerdicts == {"right", "wrong"}

\* A free-form meaning that repeats the word may be refused as a self-definition, ...
FreeformVerdicts == MeaningVerdicts \cup {"self-definition"}

\* ... which is overruled when the meaning does not have the word in it.
FreeformGrade(s, verdict) ==
    IF verdict = "self-definition" THEN (IF s = "circular" THEN "wrong" ELSE "right") ELSE verdict

\* The grader of a quiz; a relearn card is graded in the way it was failed in.
Verdicts ==
    CASE quiz = "notebook" -> MeaningVerdicts
      [] quiz = "freeform" -> FreeformVerdicts
      [] quiz = "reverse"  -> WordFormVerdicts
      [] quiz = "grammar"  -> CorrectionVerdicts
      [] quiz = "relearn"  -> MeaningVerdicts \cup WordFormVerdicts

-----------------------------------------------------------------------------
(* The goroutines of one sending *)

\* errgroup cancels the other blanks of a post when one fails.
Cancelled(h) ==
    \/ h \in gone
    \/ quiz = "grammar" /\ \E i \in Items : call[h][i].at = "failed"

\* Mutant: a blank that failed, or waits for nothing, keeps its slot.
SlotsKept(h) == {i \in Items : call[h][i].at # "new" /\ LocalGrade(shape[i]) = None}

InFlight(h) == {i \in Items : call[h][i].at \in {"asking", "pausing"}}

\* The vocabulary quizzes start all goroutines at once; the loop of a grammar
\* post goes in order and waits for a free slot.
MayStart(h, i) ==
    quiz = "grammar" =>
        /\ \A j \in Items : j < i => call[h][j].at # "new"
        /\ Cardinality(InFlight(h)) < Concurrency

\* Mutant: results are appended as the goroutines end.
SlotByArrival(h, i) == Cardinality({j \in Items : call[h][j].at = "graded"}) + 1

\* Each goroutine has the index it was started with.
SlotOf(h, i) == i

Ends(h, i, grade) ==
    /\ call' = [call EXCEPT ![h][i].at = "graded"]
    /\ results' = [results EXCEPT ![h][SlotOf(h, i)] = grade]
    /\ said' = [said EXCEPT ![h][i] = grade]

Fails(h, i) ==
    /\ call' = [call EXCEPT ![h][i].at = "failed"]
    /\ UNCHANGED <<results, said>>

Asks(h, i) ==
    /\ call' = [call EXCEPT ![h][i] = [at |-> "asking", asked |-> @.asked + 1]]
    /\ UNCHANGED <<results, said>>

\* parallelGrade looks at the context before it grades; a grammar post only
\* through the client.
Start(h, i) ==
    /\ call[h][i].at = "new"
    /\ MayStart(h, i)
    /\ IF h \in gone /\ quiz # "grammar" THEN Fails(h, i)
       ELSE IF LocalGrade(shape[i]) # None THEN Ends(h, i, LocalGrade(shape[i]))
       ELSE IF Cancelled(h) THEN Fails(h, i) ELSE Asks(h, i)

\* The model answers.
Judged(h, i) ==
    /\ call[h][i].at = "asking"
    /\ \E verdict \in Verdicts : Ends(h, i, FreeformGrade(shape[i], verdict))

\* A refused connection, a timeout, a 429 or 5xx, or an answer that is no JSON:
\* isRetryableError holds, and the client tries again after a pause, unless it
\* has made all its attempts.
Stumbles(h, i) ==
    /\ call[h][i].at = "asking"
    /\ IF call[h][i].asked > MaxRetryAttempts
       THEN Fails(h, i)
       ELSE call' = [call EXCEPT ![h][i].at = "pausing"] /\ UNCHANGED <<results, said>>

\* Another 4xx, an empty answer or a cancelled context ends the call.
Refused(h, i) == call[h][i].at = "asking" /\ Fails(h, i)

Retries(h, i) ==
    /\ call[h][i].at = "pausing"
    /\ IF Cancelled(h) THEN Fails(h, i) ELSE Asks(h, i)

Goroutine(h, i) ==
    /\ handler[h] = "grading"
    /\ Start(h, i) \/ Judged(h, i) \/ Stumbles(h, i) \/ Refused(h, i) \/ Retries(h, i)
    /\ UNCHANGED <<quiz, shape, accept, sent, page, handler, gone, next, file>>

-----------------------------------------------------------------------------
(* The handler *)

\* What the page makes of the end of the sending it waits for.
Shows(h, to) == page' = IF page = "waiting" /\ sent = h /\ h \notin gone THEN to ELSE page

Errors(h) == {i \in Items : call[h][i].at = "failed"}

\* wg.Wait or group.Wait: when all have ended, one error fails the batch.
Collect(h) ==
    /\ handler[h] = "grading"
    /\ \A i \in Items : call[h][i].at \in {"graded", "failed"}
    /\ IF Errors(h) # {}
       THEN handler' = [handler EXCEPT ![h] = "failed"] /\ Shows(h, "failed")
       ELSE handler' = [handler EXCEPT ![h] = "saving"] /\ UNCHANGED page
    /\ UNCHANGED <<quiz, shape, accept, sent, gone, call, results, said, next, file>>

\* A synonym is stored on the second pass only, and then as correct.
Final(grade) == IF grade = "synonym" /\ accept THEN "accepted" ELSE grade

\* A relearn session stores nothing, nor does an unknown word.
Stores(i, grade) ==
    /\ quiz # "relearn"
    /\ ~UnknownWord(shape[i])
    /\ Final(grade) # "synonym"

Save(h) ==
    LET i == next[h] grade == results[h][i]
    IN  /\ handler[h] = "saving" /\ i \in Items
        /\ file' = file \cup (IF Stores(i, grade)
                              THEN {[item |-> i, sending |-> h, grade |-> Final(grade)]}
                              ELSE {})
        /\ next' = [next EXCEPT ![h] = i + 1]
        /\ UNCHANGED <<quiz, shape, accept, sent, page, handler, gone, call, results, said>>

\* Mutant: a save that failed is logged and the batch goes on.
SaveOnlyLogged(h) ==
    /\ handler[h] = "saving" /\ next[h] \in Items
    /\ next' = [next EXCEPT ![h] = @ + 1]
    /\ UNCHANGED <<quiz, shape, accept, sent, page, handler, gone, call, results, said, file>>

\* A save that fails ends the batch; what is saved before it stays.
SaveFails(h) ==
    /\ handler[h] = "saving" /\ next[h] \in Items
    /\ Stores(next[h], results[h][next[h]])
    /\ handler' = [handler EXCEPT ![h] = "failed"] /\ Shows(h, "failed")
    /\ UNCHANGED <<quiz, shape, accept, sent, gone, call, results, said, next, file>>

Reply(h) ==
    /\ handler[h] = "saving" /\ next[h] \notin Items
    /\ handler' = [handler EXCEPT ![h] = "replied"] /\ Shows(h, "shown")
    /\ UNCHANGED <<quiz, shape, accept, sent, gone, call, results, said, next, file>>

Handle(h) == (\E i \in Items : Goroutine(h, i)) \/ Collect(h) \/ Save(h) \/ SaveFails(h) \/ Reply(h)

-----------------------------------------------------------------------------
(* The page *)

\* The page sends its answers, again too when it was told, or believes, that
\* the last sending failed.
Send ==
    /\ page \in {"composing", "failed"} /\ sent < MaxSendings
    /\ sent' = sent + 1
    /\ page' = "waiting"
    /\ handler' = [handler EXCEPT ![sent + 1] = "grading"]
    /\ UNCHANGED <<quiz, shape, accept, gone, call, results, said, next, file>>

\* The connection is lost: the page sees an error, and the handler's context is
\* cancelled, wherever the handler is.
Lose ==
    /\ page = "waiting"
    /\ page' = "failed"
    /\ gone' = gone \cup {sent}
    /\ UNCHANGED <<quiz, shape, accept, sent, handler, call, results, said, next, file>>

Init ==
    /\ quiz \in Quizzes
    /\ shape \in [Indices -> Shapes]
    /\ \A i \in Indices : /\ shape[i] = "fix" => quiz = "grammar"
                          /\ shape[i] \in {"unknown", "circular"} => quiz = "freeform"
                          /\ i \notin Items => shape[i] = "typed"
    /\ accept \in (IF quiz = "reverse" THEN BOOLEAN ELSE {FALSE})
    /\ sent = 0 /\ page = "composing" /\ gone = {} /\ file = {}
    /\ handler = [h \in Sendings |-> "none"]
    /\ call = [h \in Sendings |-> [i \in Indices |-> [at |-> "new", asked |-> 0]]]
    /\ results = [h \in Sendings |-> [i \in Indices |-> None]]
    /\ said = results
    /\ next = [h \in Sendings |-> 1]

Next == Send \/ Lose \/ \E h \in Sendings : Handle(h)

\* What the program does by itself: it starts and resumes goroutines, ends a
\* call whose context is cancelled, collects, saves and replies.
OwnStep(h) ==
    \/ \E i \in Items : /\ call[h][i].at # "asking" \/ Cancelled(h)
                        /\ Goroutine(h, i)
    \/ Collect(h) \/ Save(h) \/ SaveFails(h) \/ Reply(h)

\* Go runs every goroutine and a write to a file ends. Nothing makes the page
\* send again, nor the model answer: its client has no timeout.
Fairness == \A h \in Sendings : WF_vars(OwnStep(h))

Spec == Init /\ [][Next]_vars /\ Fairness

-----------------------------------------------------------------------------
(* Properties *)

\* Whatever the order the goroutines end in and whatever else failed, an answer
\* is stored with the grade that was given to it, in that sending, and nothing
\* of a batch is stored of which an answer has no grade.
OwnGrades == \A log \in file :
    /\ \A i \in Items : said[log.sending][i] # None
    /\ log.grade = Final(said[log.sending][log.item])

\* When the page shows the results of a batch every answer is stored, as shown,
\* except those it shows as not stored.
ShownIsStored ==
    page = "shown" => \A i \in Items :
        LET grade == said[sent][i]
        IN  Stores(i, grade) =>
                [item |-> i, sending |-> sent, grade |-> Final(grade)] \in file

\* A handler waits for the model that a goroutine asks, and the asking is not
\* cancelled.
AwaitsModel(h) == ~Cancelled(h) /\ \E i \in Items : call[h][i].at = "asking"

\* Every sending ends unless the model stays silent: retries are bounded, a
\* cancelled or failed call frees its slot, and nobody waits for a goroutine
\* that was never started.
EverySendingEnds ==
    \A h \in Sendings : []<>(handler[h] \notin {"grading", "saving"} \/ AwaitsModel(h))
=============================================================================
