---------------------------- MODULE GradingProofs ----------------------------
(***************************************************************************)
(* Theorems of Grading, for batches of every size, any number of sendings, *)
(* retries and slots, and a model that says anything.                      *)
(***************************************************************************)
EXTENDS Grading, TLAPS

\* The records a call may be.
Calls == [at : {"new", "asking", "pausing", "graded", "failed"}, asked : Nat]

TypeOK ==
    /\ quiz \in Quizzes
    /\ shape \in [Indices -> Shapes]
    /\ accept \in BOOLEAN
    /\ sent \in 0 .. MaxSendings
    /\ page \in {"composing", "waiting", "failed", "shown"}
    /\ handler \in [Sendings -> {"none", "grading", "saving", "replied", "failed"}]
    /\ gone \subseteq Sendings
    /\ call \in [Sendings -> [Indices -> Calls]]
    /\ results \in [Sendings -> [Indices -> Grades \cup {None}]]
    /\ said \in [Sendings -> [Indices -> Grades \cup {None}]]
    /\ next \in [Sendings -> Nat \ {0}]
    /\ file \subseteq [item : Indices, sending : Sendings, grade : Grades]

\* Each goroutine has left in its own slot what was decided for its answer.
SlotsInv ==
    /\ results = said
    /\ \A h \in Sendings, i \in Indices : call[h][i].at = "graded" => said[h][i] # None

\* What a handler does once it saves, it does with every answer graded.
AllGraded(h) == \A i \in Items : call[h][i].at = "graded"
SavingInv ==
    /\ \A h \in Sendings : handler[h] \in {"saving", "replied"} => AllGraded(h)
    /\ \A log \in file : /\ AllGraded(log.sending)
                         /\ handler[log.sending] \notin {"none", "grading"}
                         /\ log.grade = Final(said[log.sending][log.item])

\* The log an answer of a sending should leave.
LogOf(h, i) == [item |-> i, sending |-> h, grade |-> Final(said[h][i])]

\* The answers before the next one are stored, all of them after the reply.
StoredInv ==
    /\ \A h \in Sendings : handler[h] \in {"none", "grading"} => next[h] = 1
    /\ \A h \in Sendings : handler[h] \in {"saving", "replied"} =>
           \A i \in Items : i < next[h] /\ Stores(i, said[h][i]) => LogOf(h, i) \in file
    /\ \A h \in Sendings : handler[h] = "replied" => next[h] \notin Items

\* The page shows the results of the last sending, and only after its reply.
PageInv ==
    /\ page # "composing" => sent \in Sendings
    /\ page = "shown" => handler[sent] = "replied"
    /\ \A h \in Sendings : h > sent => handler[h] = "none"

IInv == TypeOK /\ SlotsInv /\ SavingInv /\ StoredInv /\ PageInv

-----------------------------------------------------------------------------
(* One goroutine's step *)

LEMMA ItemsAreIndices == Items \subseteq Indices
BY BoundsAssumption DEF Items, Indices

\* What the model says becomes a grade.
LEMMA JudgedGrades ==
    ASSUME quiz \in Quizzes, NEW s, NEW verdict \in Verdicts
    PROVE  FreeformGrade(s, verdict) \in Grades
BY QuizzesAssumption
   DEF FreeformGrade, Verdicts, MeaningVerdicts, WordFormVerdicts, CorrectionVerdicts,
       FreeformVerdicts, Grades

LEMMA LocalGrades == \A s : LocalGrade(s) \in Grades \cup {None}
BY DEF LocalGrade, Grades

\* The call of answer i becomes rec; a grade, if one was decided, goes to its slot.
Moves(h, i, rec) ==
    /\ call' = [call EXCEPT ![h] = [@ EXCEPT ![i] = rec]]
    /\ \/ rec.at # "graded" /\ UNCHANGED <<results, said>>
       \/ \E grade \in Grades :
              /\ rec.at = "graded"
              /\ results' = [results EXCEPT ![h] = [@ EXCEPT ![i] = grade]]
              /\ said' = [said EXCEPT ![h] = [@ EXCEPT ![i] = grade]]

LEMMA EndsMoves ==
    ASSUME TypeOK, NEW h \in Sendings, NEW i \in Indices, NEW grade \in Grades, Ends(h, i, grade)
    PROVE  \E rec \in Calls : Moves(h, i, rec)
<1>0. call[h][i] \in Calls
  BY DEF TypeOK
<1> DEFINE rec == [call[h][i] EXCEPT !.at = "graded"]
<1>1. rec \in Calls /\ rec.at = "graded"
  BY <1>0 DEF Calls
<1>2. Moves(h, i, rec)
  BY <1>1 DEF Moves, Ends, SlotOf, TypeOK
<1> QED BY <1>1, <1>2

LEMMA FailsMoves ==
    ASSUME TypeOK, NEW h \in Sendings, NEW i \in Indices, Fails(h, i)
    PROVE  \E rec \in Calls : Moves(h, i, rec)
<1>0. call[h][i] \in Calls
  BY DEF TypeOK
<1> DEFINE rec == [call[h][i] EXCEPT !.at = "failed"]
<1>1. rec \in Calls /\ rec.at # "graded"
  BY <1>0 DEF Calls
<1>2. Moves(h, i, rec)
  BY <1>1 DEF Moves, Fails, TypeOK
<1> QED BY <1>1, <1>2

LEMMA AsksMoves ==
    ASSUME TypeOK, NEW h \in Sendings, NEW i \in Indices, Asks(h, i)
    PROVE  \E rec \in Calls : Moves(h, i, rec)
<1>0. call[h][i] \in Calls
  BY DEF TypeOK
<1> DEFINE rec == [at |-> "asking", asked |-> call[h][i].asked + 1]
<1>1. rec \in Calls /\ rec.at # "graded"
  BY <1>0 DEF Calls
<1>2. Moves(h, i, rec)
  BY <1>1 DEF Moves, Asks, TypeOK
<1> QED BY <1>1, <1>2

\* A goroutine that has ended does nothing more, and the others touch no slot but
\* their own.
LEMMA GoroutineMoves ==
    ASSUME TypeOK, NEW h \in Sendings, NEW i \in Items, Goroutine(h, i)
    PROVE  /\ call[h][i].at # "graded"
           /\ \E rec \in Calls : Moves(h, i, rec)
<1>1. i \in Indices
  BY ItemsAreIndices
<1>0. call[h][i] \in Calls
  BY <1>1 DEF TypeOK
<1>2. CASE Start(h, i)
  <2>1. LocalGrade(shape[i]) # None => LocalGrade(shape[i]) \in Grades
    BY LocalGrades
  <2> QED BY <1>1, <1>2, <2>1, EndsMoves, FailsMoves, AsksMoves DEF Start
<1>3. CASE Judged(h, i)
  <2>1. PICK verdict \in Verdicts : Ends(h, i, FreeformGrade(shape[i], verdict))
    BY <1>3 DEF Judged
  <2>2. FreeformGrade(shape[i], verdict) \in Grades
    BY JudgedGrades DEF TypeOK
  <2> QED BY <1>1, <1>3, <2>1, <2>2, EndsMoves DEF Judged
<1>4. CASE Stumbles(h, i)
  <2>1. CASE Fails(h, i)
    BY <1>1, <1>4, <2>1, FailsMoves DEF Stumbles
  <2>2. CASE call' = [call EXCEPT ![h][i].at = "pausing"] /\ UNCHANGED <<results, said>>
    <3> DEFINE rec == [call[h][i] EXCEPT !.at = "pausing"]
    <3>1. rec \in Calls /\ rec.at # "graded"
      BY <1>0 DEF Calls
    <3>2. Moves(h, i, rec)
      BY <1>1, <2>2, <3>1 DEF Moves, TypeOK
    <3> QED BY <1>4, <3>1, <3>2 DEF Stumbles
  <2> QED BY <1>4, <2>1, <2>2 DEF Stumbles
<1>5. CASE Refused(h, i)
  BY <1>1, <1>5, FailsMoves DEF Refused
<1>6. CASE Retries(h, i)
  BY <1>1, <1>6, FailsMoves, AsksMoves DEF Retries
<1> QED BY <1>2, <1>3, <1>4, <1>5, <1>6 DEF Goroutine

-----------------------------------------------------------------------------
(* Every step keeps the invariant *)

LEMMA InitInv == Init => IInv
<1> SUFFICES ASSUME Init PROVE IInv
  OBVIOUS
<1>1. TypeOK
  <2>1. [at |-> "new", asked |-> 0] \in Calls
    BY DEF Calls
  <2>2. call \in [Sendings -> [Indices -> Calls]]
    BY <2>1 DEF Init
  <2>3. results \in [Sendings -> [Indices -> Grades \cup {None}]] /\ said = results
    BY DEF Init
  <2>4. next \in [Sendings -> Nat \ {0}] /\ handler \in [Sendings -> {"none"}]
    BY DEF Init
  <2>5. sent \in 0 .. MaxSendings /\ gone = {} /\ file = {}
    BY BoundsAssumption DEF Init
  <2>6. accept \in BOOLEAN
    BY DEF Init
  <2> QED BY <2>2, <2>3, <2>4, <2>5, <2>6 DEF Init, TypeOK
<1>2. SlotsInv
  BY DEF Init, SlotsInv
<1>3. SavingInv /\ StoredInv /\ PageInv
  BY DEF Init, SavingInv, StoredInv, PageInv
<1> QED BY <1>1, <1>2, <1>3 DEF IInv

\* Only the sending the goroutine belongs to changes, and nothing of it is stored yet.
LEMMA GoroutineInv ==
    ASSUME IInv, NEW h \in Sendings, NEW i \in Items, Goroutine(h, i)
    PROVE  IInv'
<1>1. PICK rec \in Calls : Moves(h, i, rec)
  BY GoroutineMoves DEF IInv
<1>2. i \in Indices
  BY ItemsAreIndices
<1>3. /\ handler[h] = "grading"
      /\ UNCHANGED <<quiz, shape, accept, sent, page, handler, gone, next, file>>
  BY DEF Goroutine
<1>4. Items' = Items
  BY <1>3 DEF Items
<1>5. ASSUME NEW g \in Sendings, g # h
      PROVE  call'[g] = call[g] /\ said'[g] = said[g]
  BY <1>1, <1>5 DEF Moves, IInv, TypeOK
<1>6. TypeOK'
  <2>1. call' \in [Sendings -> [Indices -> Calls]]
    BY <1>1, <1>2 DEF Moves, IInv, TypeOK
  <2>2. /\ results' \in [Sendings -> [Indices -> Grades \cup {None}]]
        /\ said' \in [Sendings -> [Indices -> Grades \cup {None}]]
    <3>1. CASE UNCHANGED <<results, said>>
      BY <3>1 DEF IInv, TypeOK
    <3>2. ASSUME NEW grade \in Grades,
                 results' = [results EXCEPT ![h] = [@ EXCEPT ![i] = grade]],
                 said' = [said EXCEPT ![h] = [@ EXCEPT ![i] = grade]]
          PROVE  /\ results' \in [Sendings -> [Indices -> Grades \cup {None}]]
                 /\ said' \in [Sendings -> [Indices -> Grades \cup {None}]]
      BY <3>2 DEF IInv, TypeOK
    <3> QED BY <1>1, <3>1, <3>2 DEF Moves
  <2> QED BY <1>3, <2>1, <2>2 DEF IInv, TypeOK
<1>7. SlotsInv'
  <2>1. results' = said'
    BY <1>1 DEF Moves, IInv, SlotsInv
  <2>2. ASSUME NEW g \in Sendings, NEW j \in Indices, call'[g][j].at = "graded"
        PROVE  said'[g][j] # None
    <3>1. CASE g = h /\ j = i
      BY <1>1, <1>2, <2>2, <3>1, NoneAssumption DEF Moves, IInv, TypeOK, Grades
    <3>2. CASE g # h \/ j # i
      BY <1>1, <1>2, <2>2, <3>2 DEF Moves, IInv, TypeOK, SlotsInv
    <3> QED BY <3>1, <3>2
  <2> QED BY <2>1, <2>2 DEF SlotsInv
<1>8. SavingInv'
  <2>1. ASSUME NEW g \in Sendings, handler[g] # "grading"
        PROVE  AllGraded(g)' <=> AllGraded(g)
    BY <1>3, <1>4, <1>5, <2>1 DEF AllGraded
  <2>2. ASSUME NEW log \in file
        PROVE  /\ log.sending \in Sendings
               /\ said'[log.sending] = said[log.sending]
    BY <1>3, <1>5, <2>2 DEF IInv, TypeOK, SavingInv
  <2> QED BY <1>3, <2>1, <2>2 DEF IInv, SavingInv, Final
<1>9. StoredInv'
  BY <1>3, <1>4, <1>5 DEF IInv, StoredInv, Stores, UnknownWord, Final, LogOf
<1>10. PageInv'
  BY <1>3 DEF IInv, PageInv, Sendings
<1> QED BY <1>6, <1>7, <1>8, <1>9, <1>10 DEF IInv

\* What a step of the handler of h, or of the page, leaves to be shown.
LEMMA SameSlots ==
    ASSUME IInv, UNCHANGED <<quiz, shape, accept, call, results, said>>
    PROVE  /\ Items' = Items
           /\ SlotsInv'
           /\ \A h \in Sendings : AllGraded(h)' <=> AllGraded(h)
           /\ \A h \in Sendings, i \in Items : LogOf(h, i)' = LogOf(h, i)
           /\ \A i \in Items : \A grade : Stores(i, grade)' <=> Stores(i, grade)
           /\ \A grade : Final(grade)' = Final(grade)
BY DEF IInv, Items, SlotsInv, AllGraded, LogOf, Stores, UnknownWord, Final

LEMMA CollectInv == ASSUME IInv, NEW h \in Sendings, Collect(h) PROVE IInv'
<1>1. PICK to \in {"failed", "saving"} :
        /\ handler[h] = "grading"
        /\ handler' = [handler EXCEPT ![h] = to]
        /\ to = "saving" => AllGraded(h)
        /\ page' = page \/ (page' = "failed" /\ page = "waiting")
        /\ UNCHANGED <<quiz, shape, accept, sent, gone, call, results, said, next, file>>
  <2>1. CASE Errors(h) # {}
    BY <2>1 DEF Collect, Shows
  <2>2. CASE Errors(h) = {}
    <3>1. AllGraded(h)
      BY <2>2 DEF Collect, Errors, AllGraded
    <3> QED BY <2>2, <3>1 DEF Collect
  <2> QED BY <2>1, <2>2
<1>2. TypeOK'
  BY <1>1 DEF IInv, TypeOK, Shows
<1>3. SavingInv'
  BY <1>1, SameSlots DEF IInv, TypeOK, SavingInv
<1>4. StoredInv'
  <2>1. next[h] = 1
    BY <1>1 DEF IInv, StoredInv
  <2>2. \A i \in Items : ~(i < next[h])
    BY <2>1, ItemsAreIndices DEF Indices
  <2>3. \A g \in Sendings : g # h => handler'[g] = handler[g]
    BY <1>1 DEF IInv, TypeOK
  <2>4. handler'[h] = to
    BY <1>1 DEF IInv, TypeOK
  <2> QED BY <1>1, <2>1, <2>2, <2>3, <2>4, SameSlots DEF IInv, StoredInv
<1>5. PageInv'
  <2>1. \A g \in Sendings : g # h => handler'[g] = handler[g]
    BY <1>1 DEF IInv, TypeOK
  <2>2. h <= sent
    BY <1>1 DEF IInv, PageInv, TypeOK, Sendings
  <2> QED BY <1>1, <2>1, <2>2 DEF IInv, PageInv, TypeOK, Sendings
<1> QED BY <1>1, <1>2, <1>3, <1>4, <1>5, SameSlots DEF IInv

LEMMA SaveInv == ASSUME IInv, NEW h \in Sendings, Save(h) PROVE IInv'
<1> DEFINE i == next[h]
<1>1. /\ handler[h] = "saving" /\ i \in Items /\ AllGraded(h)
      /\ file' = file \cup (IF Stores(i, said[h][i]) THEN {LogOf(h, i)} ELSE {})
      /\ next' = [next EXCEPT ![h] = i + 1]
      /\ UNCHANGED <<quiz, shape, accept, sent, page, handler, gone, call, results, said>>
  BY DEF Save, LogOf, IInv, SlotsInv, SavingInv
<1>2. i \in Indices
  BY <1>1, ItemsAreIndices
<1>3. TypeOK'
  <2>1. said[h][i] \in Grades
    BY <1>1, <1>2 DEF IInv, SlotsInv, TypeOK, AllGraded
  <2>2. LogOf(h, i) \in [item : Indices, sending : Sendings, grade : Grades]
    BY <1>2, <2>1 DEF LogOf, Final, Grades
  <2>3. file' \subseteq [item : Indices, sending : Sendings, grade : Grades]
    BY <1>1, <2>2 DEF IInv, TypeOK
  <2>4. next' \in [Sendings -> Nat \ {0}]
    BY <1>1 DEF IInv, TypeOK
  <2> QED BY <1>1, <2>3, <2>4 DEF IInv, TypeOK
<1>4. SavingInv'
  <2> SUFFICES ASSUME NEW log \in file'
               PROVE  /\ log.sending \in Sendings
                      /\ AllGraded(log.sending)
                      /\ handler[log.sending] \notin {"none", "grading"}
                      /\ log.grade = Final(said[log.sending][log.item])
    BY <1>1, SameSlots DEF IInv, SavingInv
  <2>1. CASE log \in file
    BY <2>1 DEF IInv, TypeOK, SavingInv
  <2>2. CASE log = LogOf(h, i)
    BY <1>1, <2>2 DEF LogOf
  <2> QED BY <1>1, <2>1, <2>2
<1>5. StoredInv'
  <2>1. ASSUME NEW g \in Sendings, handler[g] \in {"saving", "replied"},
               NEW j \in Items, j < next'[g], Stores(j, said[g][j])
        PROVE  LogOf(g, j) \in file'
    <3>1. CASE g # h \/ j < i
      BY <1>1, <2>1, <3>1 DEF IInv, TypeOK, StoredInv
    <3>2. CASE g = h /\ j = i
      BY <1>1, <2>1, <3>2
    <3>3. g = h => j <= i
      BY <1>1, <1>2, <2>1, ItemsAreIndices DEF IInv, TypeOK, Indices
    <3> QED BY <3>1, <3>2, <3>3, <1>2, ItemsAreIndices DEF Indices
  <2>2. ASSUME NEW g \in Sendings, handler[g] = "replied" PROVE next'[g] \notin Items
    BY <1>1, <2>2 DEF IInv, TypeOK, StoredInv
  <2>3. ASSUME NEW g \in Sendings, handler[g] \in {"none", "grading"} PROVE next'[g] = 1
    BY <1>1, <2>3 DEF IInv, TypeOK, StoredInv
  <2> QED BY <1>1, <2>1, <2>2, <2>3, SameSlots DEF StoredInv
<1>6. PageInv'
  BY <1>1 DEF IInv, PageInv, Sendings
<1> QED BY <1>1, <1>3, <1>4, <1>5, <1>6, SameSlots DEF IInv

\* A handler that fails or replies stores nothing more.
LEMMA EndInv ==
    ASSUME IInv, NEW h \in Sendings, SaveFails(h) \/ Reply(h) PROVE IInv'
<1>1. PICK to \in {"failed", "replied"} :
        /\ handler[h] = "saving"
        /\ handler' = [handler EXCEPT ![h] = to]
        /\ \/ page' = page
           \/ page = "waiting" /\ sent = h /\ page' = "failed"
           \/ page = "waiting" /\ sent = h /\ page' = "shown" /\ to = "replied"
        /\ to = "replied" => next[h] \notin Items
        /\ UNCHANGED <<quiz, shape, accept, sent, gone, call, results, said, next, file>>
  <2>1. CASE SaveFails(h)
    BY <2>1 DEF SaveFails, Shows
  <2>2. CASE Reply(h)
    BY <2>2 DEF Reply, Shows
  <2> QED BY <2>1, <2>2
<1>2. TypeOK'
  BY <1>1 DEF IInv, TypeOK
<1>3. SavingInv'
  BY <1>1, SameSlots DEF IInv, TypeOK, SavingInv
<1>4. StoredInv'
  BY <1>1, SameSlots DEF IInv, TypeOK, StoredInv
<1>5. PageInv'
  <2>1. \A g \in Sendings : g # h => handler'[g] = handler[g]
    BY <1>1 DEF IInv, TypeOK
  <2>2. handler'[h] = to
    BY <1>1 DEF IInv, TypeOK
  <2>3. h <= sent
    BY <1>1 DEF IInv, PageInv, TypeOK, Sendings
  <2> QED BY <1>1, <2>1, <2>2, <2>3 DEF IInv, PageInv, TypeOK, Sendings
<1> QED BY <1>1, <1>2, <1>3, <1>4, <1>5, SameSlots DEF IInv

LEMMA SendInv == ASSUME IInv, Send PROVE IInv'
<1>1. /\ page # "shown" /\ sent + 1 \in Sendings
      /\ sent' = sent + 1 /\ page' = "waiting"
      /\ handler' = [handler EXCEPT ![sent + 1] = "grading"]
      /\ UNCHANGED <<quiz, shape, accept, gone, call, results, said, next, file>>
  BY BoundsAssumption DEF Send, IInv, TypeOK, Sendings
<1>2. handler[sent + 1] = "none"
  BY <1>1 DEF IInv, PageInv, TypeOK
<1>3. TypeOK'
  <2>1. sent' \in 0 .. MaxSendings
    BY <1>1, BoundsAssumption DEF Sendings
  <2> QED BY <1>1, <2>1 DEF IInv, TypeOK
<1>4. SavingInv'
  BY <1>1, <1>2, SameSlots DEF IInv, TypeOK, SavingInv
<1>5. StoredInv'
  <2>1. next[sent + 1] = 1
    BY <1>1, <1>2 DEF IInv, StoredInv
  <2>2. \A g \in Sendings : g # sent + 1 => handler'[g] = handler[g]
    BY <1>1 DEF IInv, TypeOK
  <2>3. handler'[sent + 1] = "grading"
    BY <1>1 DEF IInv, TypeOK
  <2> QED BY <1>1, <2>1, <2>2, <2>3, SameSlots DEF IInv, StoredInv
<1>6. PageInv'
  BY <1>1 DEF IInv, PageInv, TypeOK, Sendings
<1> QED BY <1>1, <1>3, <1>4, <1>5, <1>6, SameSlots DEF IInv

LEMMA LoseInv == ASSUME IInv, Lose PROVE IInv'
<1>1. /\ page = "waiting" /\ page' = "failed" /\ gone' = gone \cup {sent}
      /\ UNCHANGED <<quiz, shape, accept, sent, handler, call, results, said, next, file>>
  BY DEF Lose
<1>2. TypeOK'
  BY <1>1 DEF IInv, PageInv, TypeOK
<1>3. SavingInv' /\ StoredInv' /\ PageInv'
  BY <1>1, SameSlots DEF IInv, TypeOK, SavingInv, StoredInv, PageInv
<1> QED BY <1>1, <1>2, <1>3, SameSlots DEF IInv

LEMMA NextInv == IInv /\ [Next]_vars => IInv'
<1> SUFFICES ASSUME IInv, [Next]_vars PROVE IInv'
  OBVIOUS
<1>1. CASE UNCHANGED vars
  BY <1>1 DEF vars, IInv, TypeOK, SlotsInv, SavingInv, StoredInv, PageInv, Items, AllGraded,
              Final, LogOf, Stores, UnknownWord
<1> QED BY <1>1, GoroutineInv, CollectInv, SaveInv, EndInv, SendInv, LoseInv DEF Next, Handle

\* The slots, the handlers' progress, the file and the page stay tied to each other.
THEOREM Invariance == Spec => []IInv
BY InitInv, NextInv, PTL DEF Spec

\* Pages, handlers, slots and what was said stay well formed (parallelGrade and the batch handlers).
THEOREM TypeCorrect == Spec => []TypeOK
<1>1. IInv => TypeOK
  BY DEF IInv
<1> QED BY <1>1, Invariance, PTL

\* Grades reach their own answers, whatever the order the goroutines end in and
\* whatever fails, for batches of every size and any number of sendings at once.
THEOREM GradesReachTheirAnswers == Spec => []OwnGrades
<1>1. IInv => OwnGrades
  BY ItemsAreIndices DEF IInv, TypeOK, SlotsInv, SavingInv, AllGraded, OwnGrades
<1> QED BY <1>1, Invariance, PTL

\* What the page shows as stored is stored, as shown.
THEOREM ShownAnswersAreStored == Spec => []ShownIsStored
<1>1. IInv => ShownIsStored
  <2> SUFFICES ASSUME IInv, page = "shown", NEW i \in Items, Stores(i, said[sent][i])
               PROVE  LogOf(sent, i) \in file
    BY DEF ShownIsStored, LogOf
  <2>1. sent \in Sendings /\ handler[sent] = "replied" /\ next[sent] \notin Items
    BY DEF IInv, PageInv, StoredInv
  <2>2. i < next[sent]
    BY <2>1, BoundsAssumption DEF IInv, TypeOK, Items, Indices
  <2> QED BY <2>1, <2>2 DEF IInv, StoredInv
<1> QED BY <1>1, Invariance, PTL
=============================================================================
