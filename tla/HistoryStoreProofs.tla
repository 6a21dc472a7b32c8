------------------------- MODULE HistoryStoreProofs -------------------------
(***************************************************************************)
(* Theorems of HistoryStore.                                               *)
(***************************************************************************)
EXTENDS HistoryStore, TLAPS

\* No log of a file lies in the future.
IsPast(f, now) == \A k \in Keys : \A i \in DOMAIN f.logs[k] : f.logs[k][i].at <= now

\* What every file value of the model is: the one on disk and the copies.
FileInv(f, now, apart) ==
    /\ f \in File
    /\ IsNewestFirst(f)
    /\ IsPast(f, now)
    /\ IsSkipUnion(f, apart)

\* What the handler is in the middle of determines what it was asked for.
OpInv ==
    \A c \in Clients :
        /\ pc[c] \in {"add", "pair"} => op[c].kind = "answer"
        /\ pc[c] = "mirror" => op[c].kind \in {"answer", "override"}
        /\ op[c].kind \in {"answer", "override"} => \E t \in QuizTypes : op[c].types = {t}

\* The copies need the invariant as much as the file: each of them may be
\* written back over it, whatever was written in between.
IInv ==
    /\ TypeOK
    /\ OpInv
    /\ FileInv(file, clock, split)
    /\ \A c \in Clients : FileInv(copy[c], clock, split)

LEMMA PrependedInv ==
    ASSUME NEW now \in Nat, NEW apart, NEW f, FileInv(f, now, apart),
           NEW k \in Keys, NEW log \in Log, log.at = now
    PROVE  FileInv(Prepended(f, k, log), now, apart)
<1> DEFINE g == Prepended(f, k, log)
           s == f.logs[k]
           t == <<log>> \o s
<1>1. f.logs \in [Keys -> Seq(Log)] /\ f.skips \in SUBSET (Words \X QuizTypes)
  BY DEF FileInv, File
<1>2. s \in Seq(Log)
  BY <1>1
<1>3. /\ t \in Seq(Log)
      /\ Len(t) = Len(s) + 1
      /\ t[1] = log
      /\ \A i \in 1 .. Len(t) : i > 1 => t[i] = s[i - 1] /\ i - 1 \in 1 .. Len(s)
  BY <1>2
<1>4. /\ g.logs = [f.logs EXCEPT ![k] = t]
      /\ g.skips = f.skips
      /\ g \in File
  BY <1>1, <1>3 DEF Prepended, FileInv, File
<1>5. \A i \in 1 .. Len(t) : t[i].at <= now
  <2>1. \A i \in 1 .. Len(s) : s[i].at <= now
    BY <1>2 DEF FileInv, IsPast
  <2>2. log.at <= now
    BY DEF Log
  <2> QED BY <1>3, <2>1, <2>2
<1>6. \A i, j \in 1 .. Len(t) : i < j => t[j].at <= t[i].at
  <2>1. \A i, j \in 1 .. Len(s) : i < j => s[j].at <= s[i].at
    BY <1>2 DEF FileInv, IsNewestFirst
  <2> SUFFICES ASSUME NEW i \in 1 .. Len(t), NEW j \in 1 .. Len(t), i < j
               PROVE  t[j].at <= t[i].at
    OBVIOUS
  <2>2. CASE i = 1
    BY <2>2, <1>3, <1>5
  <2>3. CASE i > 1
    <3>1. i - 1 \in 1 .. Len(s) /\ j - 1 \in 1 .. Len(s) /\ i - 1 < j - 1
      BY <2>3, <1>3
    <3>2. t[i] = s[i - 1] /\ t[j] = s[j - 1]
      BY <2>3, <1>3
    <3> QED BY <3>1, <3>2, <2>1
  <2> QED BY <2>2, <2>3
<1>7. DOMAIN t = 1 .. Len(t)
  BY <1>3
<1>8. IsPast(g, now)
  BY <1>1, <1>4, <1>5, <1>7 DEF FileInv, IsPast
<1>9. IsNewestFirst(g)
  BY <1>1, <1>4, <1>6, <1>7 DEF FileInv, IsNewestFirst
<1>10. IsSkipUnion(g, apart)
  BY <1>4 DEF FileInv, IsSkipUnion
<1> QED BY <1>4, <1>8, <1>9, <1>10 DEF FileInv

LEMMA EmptyInv == \A now \in Nat : \A apart : FileInv(Empty, now, apart)
BY DEF FileInv, Empty, File, IsNewestFirst, IsPast, IsSkipUnion, Keys

LEMMA NoOpType == NoOp \in Op
BY WordsAssumption DEF NoOp, Op

\* Time passes and concepts are divided: what held of a file before still holds.
LEMMA Later ==
    ASSUME NEW now \in Nat, NEW later \in Nat, now <= later,
           NEW apart, NEW wider, apart \subseteq wider,
           NEW f, FileInv(f, now, apart)
    PROVE  FileInv(f, later, wider)
<1>1. \A k \in Keys : \A i \in DOMAIN f.logs[k] : f.logs[k][i].at \in Nat
  <2> TAKE k \in Keys
  <2>1. f.logs[k] \in Seq(Log)
    BY DEF FileInv, File
  <2>2. \A i \in DOMAIN f.logs[k] : f.logs[k][i] \in Log
    BY <2>1
  <2> QED BY <2>2 DEF Log
<1>2. IsPast(f, later)
  BY <1>1 DEF FileInv, IsPast
<1>3. IsSkipUnion(f, wider)
  BY DEF FileInv, IsSkipUnion
<1> QED BY <1>2, <1>3 DEF FileInv

\* What divides a concept: only a call that could not read the notebooks.
Divided(apart, o, readerFails) ==
    IF readerFails THEN apart \cup Slots(o, Concept[o.word]) ELSE apart

\* A skip or a resume that reaches a whole concept moves all of it; one that
\* reaches the word alone disturbs its own concept only.
LEMMA SkipsInv ==
    ASSUME NEW now \in Nat, NEW apart, NEW f, FileInv(f, now, apart), NEW o \in Op,
           NEW readerFails \in BOOLEAN, NEW words, words = conceptMembersOrSelf(o.word, readerFails),
           NEW skips \in {f.skips \cup Slots(o, words), f.skips \ Slots(o, words)}
    PROVE  FileInv([f EXCEPT !.skips = skips], now, Divided(apart, o, readerFails))
<1> DEFINE g == [f EXCEPT !.skips = skips]
<1>1. f.logs \in [Keys -> Seq(Log)] /\ f.skips \in SUBSET (Words \X QuizTypes)
  BY DEF FileInv, File
<1>2. o.word \in Words /\ o.types \in SUBSET QuizTypes
  BY DEF Op
<1>3. o.word \in Concept[o.word] /\ Concept[o.word] \subseteq Words
  BY <1>2, ConceptAssumption
<1>4. words \subseteq Concept[o.word] /\ (~readerFails => words = Concept[o.word])
  BY <1>3 DEF conceptMembersOrSelf
<1>5. Slots(o, words) \in SUBSET (Words \X QuizTypes)
  BY <1>2, <1>3, <1>4 DEF Slots
<1>6. g \in File /\ g.logs = f.logs /\ g.skips = skips
  BY <1>1, <1>5 DEF FileInv, File
<1>7. IsNewestFirst(g) /\ IsPast(g, now)
  BY <1>6 DEF FileInv, IsNewestFirst, IsPast
<1>8. ASSUME NEW w \in Words, NEW v \in Concept[w]
      PROVE  w \in Concept[o.word] <=> v \in Concept[o.word]
  <2>1. v \in Words /\ Concept[v] = Concept[w] /\ w \in Concept[w]
    BY <1>8, ConceptAssumption
  <2> QED BY <1>2, <1>8, <2>1, ConceptAssumption
<1>9. IsSkipUnion(g, Divided(apart, o, readerFails))
  <2> SUFFICES ASSUME NEW w \in Words, NEW t \in QuizTypes, <<w, t>> \in skips,
                      NEW v \in Concept[w]
               PROVE  <<v, t>> \in skips \cup Divided(apart, o, readerFails)
    BY <1>6 DEF IsSkipUnion
  <2>1. <<w, t>> \in f.skips => <<v, t>> \in f.skips \cup apart
    BY DEF FileInv, IsSkipUnion
  <2>2. CASE readerFails
    <3>1. CASE v \in Concept[o.word] /\ t \in o.types
      BY <2>2, <3>1 DEF Divided, Slots
    <3>2. CASE ~(v \in Concept[o.word] /\ t \in o.types)
      <4>1. <<w, t>> \notin Slots(o, words) /\ <<v, t>> \notin Slots(o, words)
        BY <1>4, <1>8, <3>2 DEF Slots
      <4> QED BY <2>1, <2>2, <4>1 DEF Divided
    <3> QED BY <3>1, <3>2
  <2>3. CASE ~readerFails
    <3>1. <<w, t>> \in Slots(o, words) <=> <<v, t>> \in Slots(o, words)
      BY <1>4, <1>8, <2>3 DEF Slots
    <3> QED BY <2>1, <2>3, <3>1 DEF Divided
  <2> QED BY <2>2, <2>3
<1> QED BY <1>6, <1>7, <1>9 DEF FileInv

-----------------------------------------------------------------------------

LEMMA InitInv == Init => IInv
<1> SUFFICES ASSUME Init PROVE IInv
  OBVIOUS
<1>1. FileInv(Empty, clock, split)
  BY EmptyInv DEF Init
<1>2. Empty \in File
  BY <1>1 DEF FileInv
<1>3. TypeOK
  BY <1>2, NoOpType DEF Init, TypeOK
<1>4. OpInv
  BY DEF Init, OpInv, NoOp
<1> QED BY <1>1, <1>3, <1>4 DEF Init, IInv

\* A handler that returns forgets its locals; the file stays.
LEMMA ReturnInv ==
    ASSUME IInv, NEW c \in Clients, Return(c), UNCHANGED <<file, db, clock, calls, split>>,
           owed' \in [logs : SUBSET (Lists \X Words \X Nat), skips : SUBSET (Words \X QuizTypes)]
    PROVE  IInv'
<1>1. FileInv(Empty, clock, split) /\ Empty \in File
  BY EmptyInv DEF IInv, TypeOK, FileInv
<1>2. TypeOK'
  BY <1>1, NoOpType DEF IInv, TypeOK, Return
<1>3. OpInv'
  <2> SUFFICES ASSUME NEW d \in Clients PROVE OpInv!(d)'
    BY DEF OpInv
  <2>1. CASE d = c
    BY <2>1 DEF IInv, TypeOK, Return, NoOp
  <2>2. CASE d # c
    BY <2>2 DEF IInv, TypeOK, OpInv, Return
  <2> QED BY <2>1, <2>2
<1>4. \A d \in Clients : FileInv(copy[d], clock, split)'
  <2> SUFFICES ASSUME NEW d \in Clients PROVE FileInv(copy'[d], clock, split)
    BY DEF FileInv, IsNewestFirst, IsPast, IsSkipUnion
  <2> QED BY <1>1 DEF IInv, TypeOK, Return
<1>5. FileInv(file, clock, split)'
  BY DEF IInv, FileInv, IsNewestFirst, IsPast, IsSkipUnion
<1> QED BY <1>2, <1>3, <1>4, <1>5 DEF IInv

\* The prime of what IInv says of the files, pushed down to the variables.
LEMMA FilesPrimed ==
    ASSUME TypeOK', OpInv', FileInv(file', clock', split'),
           \A d \in Clients : FileInv(copy'[d], clock', split')
    PROVE  IInv'
BY DEF IInv, FileInv, IsNewestFirst, IsPast, IsSkipUnion

\* What a step has to show that only changes the copy of one handler.
LEMMA CopyInv ==
    ASSUME IInv, TypeOK', OpInv', NEW c \in Clients, NEW g, FileInv(g, clock, split'),
           copy' = [copy EXCEPT ![c] = g], UNCHANGED <<file, clock>>, split \subseteq split'
    PROVE  IInv'
<1>1. \A f : FileInv(f, clock, split) => FileInv(f, clock', split')
  BY Later DEF IInv, TypeOK
<1>2. \A d \in Clients : FileInv(copy'[d], clock', split')
  BY <1>1 DEF IInv, TypeOK
<1> QED BY <1>1, <1>2, FilesPrimed DEF IInv

\* What a step has to show that leaves the file and the copies alone.
LEMMA SameFilesInv ==
    ASSUME IInv, TypeOK', OpInv', UNCHANGED <<file, copy, clock, split>>
    PROVE  IInv'
BY FilesPrimed DEF IInv

LEMMA NextInv == IInv /\ [Next]_vars => IInv'
<1> SUFFICES ASSUME IInv, [Next]_vars PROVE IInv'
  OBVIOUS
<1>1. ASSUME NEW c \in Clients, NEW kind \in Offered, NEW word \in Words,
             NEW types \in SUBSET QuizTypes, NEW id \in 0 .. MaxCalls,
             Begin(c, kind, word, types, id)
      PROVE  IInv'
  <2> DEFINE o == [kind |-> kind, word |-> word, types |-> types,
                   id |-> CASE kind = "answer"   -> calls + 1
                            [] kind = "override" -> id
                            [] OTHER             -> 0]
  <2>1. /\ Valid(o)
        /\ op' = [op EXCEPT ![c] = o]
        /\ pc' = [pc EXCEPT ![c] = "read"]
        /\ sent' = [sent EXCEPT ![c] = clock]
        /\ calls' = calls + 1
        /\ owed' \in {owed, [owed EXCEPT !.skips = @ \ Slots(o, Concept[word])]}
        /\ UNCHANGED <<file, db, copy, clock, reach, split>>
    BY <1>1 DEF Begin
  <2>2. kind \in {"answer", "skip", "resume", "override"}
    BY OfferedAssumption
  <2>3. o \in Op
    BY <2>2, BoundsAssumption DEF Op, IInv, TypeOK
  <2>4. TypeOK'
    BY <2>1, <2>3 DEF IInv, TypeOK
  <2>5. OpInv'
    <3>1. o.kind \in {"answer", "override"} => \E t \in QuizTypes : o.types = {t}
      BY <2>1, <2>2 DEF Valid
    <3> QED BY <2>1, <3>1 DEF IInv, TypeOK, OpInv
  <2> QED BY <2>1, <2>4, <2>5, SameFilesInv
<1>2. ASSUME NEW c \in Clients, Read(c) PROVE IInv'
  <2>1. TypeOK'
    BY <1>2 DEF IInv, TypeOK, Read, Goto
  <2>2. OpInv'
    BY <1>2 DEF IInv, TypeOK, OpInv, Read, Goto
  <2>3. FileInv(file, clock, split)
    BY DEF IInv
  <2> QED BY <1>2, <2>1, <2>2, <2>3, CopyInv DEF Read
<1>3. ASSUME NEW c \in Clients, AddLearned(c) \/ AddReverse(c) PROVE IInv'
  <2> DEFINE log == [id |-> op[c].id, at |-> clock, quizType |-> TypeOf(op[c])]
  <2>1. PICK list \in Lists :
          /\ AddRecord(c, list)
          /\ pc[c] \in {"add", "pair"}
          /\ \E place \in {"pair", "write"} : Goto(c, place)
          /\ UNCHANGED <<file, db, clock, calls, reach, owed, split>>
    BY <1>3 DEF AddLearned, AddReverse, Lists
  <2>2. log \in Log /\ log.at = clock
    <3>1. TypeOf(op[c]) \in QuizTypes
      BY <2>1 DEF IInv, OpInv, TypeOf
    <3> QED BY <3>1 DEF IInv, TypeOK, Op, Log
  <2>3. <<list, op[c].word>> \in Keys
    BY DEF IInv, TypeOK, Op, Keys
  <2> DEFINE g == Prepended(copy[c], <<list, op[c].word>>, log)
  <2>4. FileInv(g, clock, split)
    BY <2>2, <2>3, PrependedInv DEF IInv, TypeOK
  <2>5. copy' = [copy EXCEPT ![c] = g]
    BY <2>1 DEF AddRecord
  <2>6. TypeOK'
    <3>1. g \in File
      BY <2>4 DEF FileInv
    <3> HIDE DEF g
    <3> QED BY <2>1, <2>5, <3>1 DEF IInv, TypeOK, Goto
  <2>7. OpInv'
    BY <2>1 DEF IInv, TypeOK, OpInv, Goto
  <2> HIDE DEF g
  <2> QED BY <2>1, <2>4, <2>5, <2>6, <2>7, CopyInv
<1>4. ASSUME NEW c \in Clients, Edit(c) PROVE IInv'
  <2>1. ASSUME NEW readerFails \in BOOLEAN, EditSkips(c, readerFails) PROVE IInv'
    <3> DEFINE words == conceptMembersOrSelf(op[c].word, readerFails)
    <3>1. PICK skips \in {copy[c].skips \cup Slots(op[c], words), copy[c].skips \ Slots(op[c], words)} :
            SetSkips(c, skips)
      BY <2>1 DEF EditSkips, SkipWord, ResumeWord
    <3> DEFINE g == [copy[c] EXCEPT !.skips = skips]
    <3>2. op[c] \in Op /\ split' = Divided(split, op[c], readerFails)
      BY <2>1 DEF EditSkips, Divided, IInv, TypeOK
    <3>3. FileInv(g, clock, split')
      BY <3>2, SkipsInv DEF IInv, TypeOK
    <3>4. /\ copy' = [copy EXCEPT ![c] = g]
          /\ reach' = [reach EXCEPT ![c] = words]
          /\ Goto(c, "write")
          /\ UNCHANGED <<file, db, clock, calls, owed>>
      BY <1>4, <2>1, <3>1 DEF Edit, EditSkips, SetSkips
    <3>5. words \in SUBSET Words /\ split' \in SUBSET (Words \X QuizTypes) /\ split \subseteq split'
      <4>1. op[c].word \in Words /\ op[c].types \in SUBSET QuizTypes
        BY <3>2 DEF Op
      <4>2. Concept[op[c].word] \in SUBSET Words
        BY <4>1, ConceptAssumption
      <4> QED BY <3>2, <4>1, <4>2 DEF conceptMembersOrSelf, Divided, Slots, IInv, TypeOK
    <3>6. g \in File
      BY <3>3 DEF FileInv
    <3> HIDE DEF g, words
    <3>7. TypeOK'
      BY <3>4, <3>5, <3>6 DEF IInv, TypeOK, Goto
    <3>8. OpInv'
      BY <3>4 DEF IInv, TypeOK, OpInv, Goto
    <3> QED BY <3>3, <3>4, <3>5, <3>7, <3>8, CopyInv
  <2>2. CASE UpdateLog(c) /\ Goto(c, "write") /\ UNCHANGED <<copy, reach, split>>
    <3>1. TypeOK'
      BY <1>4, <2>2 DEF IInv, TypeOK, Edit, Goto
    <3>2. OpInv'
      BY <1>4, <2>2 DEF IInv, TypeOK, OpInv, Edit, Goto
    <3> QED BY <1>4, <2>2, <3>1, <3>2, SameFilesInv DEF Edit
  <2>3. CASE UpdateLog(c) /\ Return(c) /\ UNCHANGED split
    BY <1>4, <2>3, ReturnInv DEF Edit, IInv, TypeOK
  <2> QED BY <1>4, <2>1, <2>2, <2>3 DEF Edit, UpdateLog
<1>5. ASSUME NEW c \in Clients, Write(c) PROVE IInv'
  <2>1. TypeOK'
    BY <1>5 DEF IInv, TypeOK, Write, Goto
  <2>2. OpInv'
    BY <1>5 DEF IInv, TypeOK, OpInv, Write, Goto
  <2>3. FileInv(file', clock', split') /\ \A d \in Clients : FileInv(copy'[d], clock', split')
    BY <1>5 DEF IInv, Write
  <2> QED BY <2>1, <2>2, <2>3, FilesPrimed
<1>6. ASSUME NEW c \in Clients, Mirror(c) PROVE IInv'
  <2>1. op[c].kind = "answer" => Row(c) \in [id : Nat, word : Words, quizType : QuizTypes, at : Nat]
    BY DEF IInv, TypeOK, OpInv, Op, Row, TypeOf
  <2>2. TypeOK'
    BY <1>6, <2>1 DEF IInv, TypeOK, Mirror, Goto
  <2>3. OpInv'
    BY <1>6 DEF IInv, TypeOK, OpInv, Mirror, Goto
  <2> QED BY <1>6, <2>2, <2>3, SameFilesInv DEF Mirror
<1>7. ASSUME NEW c \in Clients, Reply(c) PROVE IInv'
  <2>1. Slots(op[c], reach[c]) \subseteq Words \X QuizTypes /\ Added(op[c]) \subseteq Lists \X Words \X Nat
    BY DEF IInv, TypeOK, Op, Slots, Added
  <2>2. owed' \in [logs : SUBSET (Lists \X Words \X Nat), skips : SUBSET (Words \X QuizTypes)]
    BY <1>7, <2>1 DEF Reply, IInv, TypeOK
  <2> QED BY <1>7, <2>2, ReturnInv DEF Reply
<1>8. ASSUME NEW c \in Clients, Fail(c) PROVE IInv'
  BY <1>8, ReturnInv DEF Fail, IInv, TypeOK
<1>9. CASE Crash
  <2>1. \A now \in Nat : \A apart : FileInv(Empty, now, apart)
    BY EmptyInv
  <2>2. TypeOK'
    BY <1>9, <2>1, NoOpType DEF IInv, TypeOK, Crash, FileInv
  <2>3. OpInv'
    BY <1>9 DEF OpInv, Crash, NoOp
  <2>4. FileInv(file', clock', split') /\ \A d \in Clients : FileInv(copy'[d], clock', split')
    BY <1>9, <2>1 DEF IInv, TypeOK, Crash
  <2> QED BY <2>2, <2>3, <2>4, FilesPrimed
<1>10. CASE Tick
  <2>1. TypeOK'
    BY <1>10 DEF IInv, TypeOK, Tick
  <2>2. OpInv'
    BY <1>10 DEF IInv, OpInv, Tick
  <2>3. FileInv(file', clock', split') /\ \A d \in Clients : FileInv(copy'[d], clock', split')
    <3>1. clock \in Nat /\ clock' \in Nat /\ clock <= clock' /\ split \subseteq split'
      BY <1>10 DEF IInv, TypeOK, Tick
    <3> QED BY <1>10, <3>1, Later DEF IInv, Tick
  <2> QED BY <2>1, <2>2, <2>3, FilesPrimed
<1>11. CASE UNCHANGED vars
  BY <1>11 DEF vars, IInv, TypeOK, OpInv, FileInv, IsNewestFirst, IsPast, IsSkipUnion
<1> QED BY <1>1, <1>2, <1>3, <1>4, <1>5, <1>6, <1>7, <1>8, <1>9, <1>10, <1>11
        DEF Next, Handle

\* The typing of handlers and the order and concepts of every copy, kept by each step.
THEOREM Invariance == Spec => []IInv
BY InitInv, NextInv, PTL DEF Spec

\* The file stays well formed.
THEOREM TypeCorrect == Spec => []TypeOK
<1>1. IInv => TypeOK
  BY DEF IInv
<1> QED BY <1>1, Invariance, PTL

\* The first log of a list is the latest answer in it, whatever requests
\* interleave, however many there are and wherever they fail.
THEOREM ListsStayNewestFirst == Spec => []NewestFirst
<1>1. IInv => NewestFirst
  BY DEF IInv, FileInv, NewestFirst
<1> QED BY <1>1, Invariance, PTL

\* The words of a concept stay skipped together, although a request may write
\* back skips another one has changed; only a call that could not read the
\* notebooks divides a concept, and it divides no other than its own.
THEOREM ConceptsStaySkippedTogether == Spec => []SkipUnion
<1>1. IInv => SkipUnion
  BY DEF IInv, FileInv, SkipUnion
<1> QED BY <1>1, Invariance, PTL

-----------------------------------------------------------------------------
(* A free-form answer is never stored by half *)

Halves(f, w) == FreeformIds(f, <<"learned", w>>) = FreeformIds(f, <<"reverse", w>>)

\* Between its two AddRecords, and only there, a handler holds half an answer.
HoldsWhole(place, o, g) ==
    /\ place = "pair" => TypeOf(o) = "freeform"
    /\ \A w \in Words :
           IF place = "pair" /\ w = o.word
           THEN FreeformIds(g, <<"learned", w>>)
                    = FreeformIds(g, <<"reverse", w>>) \cup {o.id}
           ELSE Halves(g, w)

PairInv ==
    /\ \A w \in Words : Halves(file, w)
    /\ \A c \in Clients : HoldsWhole(pc[c], op[c], copy[c])

\* The prime of PairInv, pushed down to the variables.
LEMMA PairInvPrimed ==
    PairInv' <=> /\ \A w \in Words : Halves(file', w)
                 /\ \A c \in Clients : HoldsWhole(pc'[c], op'[c], copy'[c])
BY DEF PairInv, HoldsWhole, Halves, FreeformIds, TypeOf

LEMMA PrependedFreeform ==
    ASSUME NEW f \in File, NEW k \in Keys, NEW log \in Log, NEW l \in Keys
    PROVE  FreeformIds(Prepended(f, k, log), l) =
               IF l = k /\ log.quizType = "freeform"
               THEN FreeformIds(f, l) \cup {log.id}
               ELSE FreeformIds(f, l)
<1> DEFINE g == Prepended(f, k, log)
           s == f.logs[k]
           t == <<log>> \o s
<1>1. f.logs \in [Keys -> Seq(Log)]
  BY DEF File
<1>2. g.logs = [f.logs EXCEPT ![k] = t]
  BY <1>1 DEF Prepended, File
<1>3. CASE l # k
  BY <1>1, <1>2, <1>3 DEF FreeformIds
<1>4. CASE l = k
  <2>1. s \in Seq(Log)
    BY <1>1
  <2>2. /\ DOMAIN s = 1 .. Len(s) /\ DOMAIN t = 1 .. (Len(s) + 1) /\ Len(s) \in Nat
        /\ t[1] = log
        /\ \A i \in 1 .. Len(s) : t[i + 1] = s[i]
    BY <2>1
  <2>3. g.logs[k] = t
    BY <1>1, <1>2
  <2> HIDE DEF g, t
  <2>4. \A x : x \in FreeformIds(g, k) <=>
                 \E i \in 1 .. (Len(s) + 1) : t[i].quizType = "freeform" /\ x = t[i].id
    BY <2>2, <2>3 DEF FreeformIds
  <2>5. \A x : x \in FreeformIds(f, k) <=>
                 \E i \in 1 .. Len(s) : s[i].quizType = "freeform" /\ x = s[i].id
    BY <2>2 DEF FreeformIds
  <2>6. ASSUME NEW x
        PROVE  x \in FreeformIds(g, k) <=>
                   \/ log.quizType = "freeform" /\ x = log.id
                   \/ x \in FreeformIds(f, k)
    <3>1. ASSUME NEW i \in 1 .. (Len(s) + 1), t[i].quizType = "freeform", x = t[i].id
          PROVE  \/ log.quizType = "freeform" /\ x = log.id
                 \/ x \in FreeformIds(f, k)
      <4>1. CASE i = 1
        BY <3>1, <4>1, <2>2
      <4>2. CASE i # 1
        <5>1. i - 1 \in 1 .. Len(s) /\ t[i] = s[i - 1]
          BY <4>2, <2>2
        <5> QED BY <3>1, <5>1, <2>5
      <4> QED BY <4>1, <4>2
    <3>2. ASSUME NEW i \in 1 .. Len(s), s[i].quizType = "freeform", x = s[i].id
          PROVE  x \in FreeformIds(g, k)
      <4>1. i + 1 \in 1 .. (Len(s) + 1) /\ t[i + 1] = s[i]
        BY <2>2
      <4> QED BY <3>2, <4>1, <2>4
    <3>3. 1 \in 1 .. (Len(s) + 1)
      BY <2>2
    <3> QED BY <3>1, <3>2, <3>3, <2>2, <2>4, <2>5
  <2>7. CASE log.quizType = "freeform"
    <3>1. FreeformIds(g, k) = FreeformIds(f, k) \cup {log.id}
      BY <2>6, <2>7
    <3> QED BY <3>1, <2>7, <1>4 DEF g
  <2>8. CASE log.quizType # "freeform"
    <3>1. \A x : x \in FreeformIds(g, k) <=> x \in FreeformIds(f, k)
      BY <2>6, <2>8
    <3>2. FreeformIds(g, k) = FreeformIds(f, k)
      BY <3>1 DEF FreeformIds
    <3> QED BY <3>2, <2>8, <1>4 DEF g
  <2> QED BY <2>7, <2>8
<1> QED BY <1>3, <1>4

LEMMA EmptyHalves == \A w \in Words : Halves(Empty, w)
BY DEF Halves, FreeformIds, Empty, Keys, Lists

LEMMA PairInit == Init => PairInv
BY EmptyHalves DEF Init, PairInv, HoldsWhole

LEMMA ReturnPair ==
    ASSUME IInv, PairInv, NEW c \in Clients, Return(c), UNCHANGED file
    PROVE  PairInv'
<1>1. /\ pc' = [pc EXCEPT ![c] = "idle"]
      /\ op' = [op EXCEPT ![c] = NoOp]
      /\ copy' = [copy EXCEPT ![c] = Empty]
  BY DEF Return
<1>2. ASSUME NEW d \in Clients, d # c
      PROVE  pc'[d] = pc[d] /\ op'[d] = op[d] /\ copy'[d] = copy[d]
  BY <1>1, <1>2 DEF IInv, TypeOK
<1>3. pc'[c] = "idle" /\ copy'[c] = Empty
  BY <1>1 DEF IInv, TypeOK
<1>4. HoldsWhole(pc'[c], op'[c], copy'[c])
  BY <1>3, EmptyHalves DEF HoldsWhole
<1> QED BY <1>2, <1>4, PairInvPrimed DEF PairInv

\* A step of c to another place that is not between the halves.
LEMMA MovePair ==
    ASSUME IInv, PairInv, NEW c \in Clients, NEW place, place # "pair", pc[c] # "pair",
           pc' = [pc EXCEPT ![c] = place],
           \A d \in Clients \ {c} : op'[d] = op[d] /\ copy'[d] = copy[d],
           \A w \in Words : Halves(copy'[c], w),
           \A w \in Words : Halves(file', w)
    PROVE  PairInv'
<1>1. pc'[c] = place /\ \A d \in Clients \ {c} : pc'[d] = pc[d]
  BY DEF IInv, TypeOK
<1>2. HoldsWhole(pc'[c], op'[c], copy'[c])
  BY <1>1 DEF HoldsWhole
<1>3. ASSUME NEW d \in Clients, d # c
      PROVE  HoldsWhole(pc'[d], op'[d], copy'[d])
  BY <1>1, <1>3 DEF PairInv
<1> QED BY <1>2, <1>3, PairInvPrimed

LEMMA PairNext == IInv /\ PairInv /\ [Next]_vars => PairInv'
<1> SUFFICES ASSUME IInv, PairInv, [Next]_vars PROVE PairInv'
  OBVIOUS
<1> USE DEF Goto
<1>a. \A w \in Words : Halves(file, w)
  BY DEF PairInv
<1>b. ASSUME NEW c \in Clients, pc[c] # "pair"
      PROVE  \A w \in Words : Halves(copy[c], w)
  BY <1>b DEF PairInv, HoldsWhole
<1>1. ASSUME NEW c \in Clients, NEW kind \in Offered, NEW word \in Words,
             NEW types \in SUBSET QuizTypes, NEW id \in 0 .. MaxCalls,
             Begin(c, kind, word, types, id)
      PROVE  PairInv'
  <2>1. /\ pc[c] = "idle" /\ pc' = [pc EXCEPT ![c] = "read"]
        /\ \A d \in Clients \ {c} : op'[d] = op[d] /\ copy'[d] = copy[d]
        /\ copy'[c] = copy[c] /\ file' = file
    BY <1>1 DEF Begin, IInv, TypeOK
  <2> QED BY <2>1, <1>a, <1>b, MovePair
<1>2. ASSUME NEW c \in Clients, Read(c) PROVE PairInv'
  <2>1. \A w \in Words : Halves(copy'[c], w)
    BY <1>2, <1>a DEF Read, IInv, TypeOK
  <2> QED BY <1>2, <1>a, <2>1, MovePair DEF Read, IInv, TypeOK
<1>3. ASSUME NEW c \in Clients, NEW list \in Lists, AddRecord(c, list),
             pc[c] = "add" \/ pc[c] = "pair"
      PROVE  \A l \in Lists, w \in Words :
                 FreeformIds(copy'[c], <<l, w>>) =
                     IF l = list /\ w = op[c].word /\ TypeOf(op[c]) = "freeform"
                     THEN FreeformIds(copy[c], <<l, w>>) \cup {op[c].id}
                     ELSE FreeformIds(copy[c], <<l, w>>)
  <2> DEFINE log == [id |-> op[c].id, at |-> clock, quizType |-> TypeOf(op[c])]
             k   == <<list, op[c].word>>
  <2>1. TypeOf(op[c]) \in QuizTypes
    BY <1>3 DEF IInv, OpInv, TypeOf
  <2>2. log \in Log /\ k \in Keys /\ copy[c] \in File
    BY <2>1 DEF IInv, TypeOK, Op, Log, Keys
  <2>3. copy'[c] = Prepended(copy[c], k, log)
    BY <1>3 DEF AddRecord, IInv, TypeOK
  <2> TAKE l \in Lists, w \in Words
  <2>4. <<l, w>> \in Keys
    BY DEF Keys
  <2>5. <<l, w>> = k <=> l = list /\ w = op[c].word
    OBVIOUS
  <2>6. log.quizType = TypeOf(op[c]) /\ log.id = op[c].id
    OBVIOUS
  <2> HIDE DEF log, k
  <2> QED BY <2>2, <2>3, <2>4, <2>5, <2>6, PrependedFreeform
<1>4. ASSUME NEW c \in Clients, AddLearned(c) PROVE PairInv'
  <2>1. /\ pc[c] = "add" /\ AddRecord(c, "learned")
        /\ UNCHANGED <<op, file>>
        /\ \A d \in Clients \ {c} : copy'[d] = copy[d] /\ pc'[d] = pc[d]
        /\ pc'[c] = IF TypeOf(op[c]) = "freeform" THEN "pair" ELSE "write"
    BY <1>4 DEF AddLearned, AddRecord, IInv, TypeOK
  <2>2. \A w \in Words : Halves(copy[c], w)
    BY <2>1, <1>b
  <2>3. \A l \in Lists, w \in Words :
                 FreeformIds(copy'[c], <<l, w>>) =
                     IF l = "learned" /\ w = op[c].word /\ TypeOf(op[c]) = "freeform"
                     THEN FreeformIds(copy[c], <<l, w>>) \cup {op[c].id}
                     ELSE FreeformIds(copy[c], <<l, w>>)
    BY <2>1, <1>3 DEF Lists
  <2>4. \A w \in Words :
           IF pc'[c] = "pair" /\ w = op[c].word
           THEN FreeformIds(copy'[c], <<"learned", w>>)
                    = FreeformIds(copy'[c], <<"reverse", w>>) \cup {op[c].id}
           ELSE FreeformIds(copy'[c], <<"learned", w>>) = FreeformIds(copy'[c], <<"reverse", w>>)
    BY <2>1, <2>2, <2>3 DEF Lists, Halves
  <2>5. HoldsWhole(pc'[c], op'[c], copy'[c])
    BY <2>1, <2>4 DEF HoldsWhole, Halves
  <2> QED BY <2>1, <2>5, PairInvPrimed DEF PairInv
<1>5. ASSUME NEW c \in Clients, AddReverse(c) PROVE PairInv'
  <2>1. /\ AddRecord(c, "reverse")
        /\ UNCHANGED <<op, file>>
        /\ \A d \in Clients \ {c} : copy'[d] = copy[d] /\ pc'[d] = pc[d]
        /\ pc'[c] = "write"
        /\ \/ pc[c] = "pair" /\ TypeOf(op[c]) = "freeform"
           \/ pc[c] = "add" /\ TypeOf(op[c]) # "freeform"
    BY <1>5 DEF AddReverse, AddRecord, IInv, TypeOK, PairInv, HoldsWhole
  <2>2. \A l \in Lists, w \in Words :
                 FreeformIds(copy'[c], <<l, w>>) =
                     IF l = "reverse" /\ w = op[c].word /\ TypeOf(op[c]) = "freeform"
                     THEN FreeformIds(copy[c], <<l, w>>) \cup {op[c].id}
                     ELSE FreeformIds(copy[c], <<l, w>>)
    BY <2>1, <1>3 DEF Lists
  <2>3. \A w \in Words :
           IF pc[c] = "pair" /\ w = op[c].word
           THEN FreeformIds(copy[c], <<"learned", w>>)
                    = FreeformIds(copy[c], <<"reverse", w>>) \cup {op[c].id}
           ELSE FreeformIds(copy[c], <<"learned", w>>) = FreeformIds(copy[c], <<"reverse", w>>)
    BY DEF PairInv, HoldsWhole, Halves
  <2>4. \A w \in Words : FreeformIds(copy'[c], <<"learned", w>>) = FreeformIds(copy'[c], <<"reverse", w>>)
    BY <2>1, <2>2, <2>3 DEF Lists
  <2>5. HoldsWhole(pc'[c], op'[c], copy'[c])
    BY <2>1, <2>4 DEF HoldsWhole, Halves
  <2> QED BY <2>1, <2>5, PairInvPrimed DEF PairInv
<1>6. ASSUME NEW c \in Clients, Edit(c) PROVE PairInv'
  <2>1. CASE \E readerFails \in BOOLEAN : EditSkips(c, readerFails)
    <3>1. PICK skips : SetSkips(c, skips)
      BY <2>1 DEF EditSkips, SkipWord, ResumeWord
    <3>2. copy'[c].logs = copy[c].logs
      BY <3>1 DEF SetSkips, IInv, TypeOK, File
    <3>3. \A key : FreeformIds(copy'[c], key) = FreeformIds(copy[c], key)
      BY <3>2 DEF FreeformIds
    <3>4. \A w \in Words : Halves(copy[c], w)
      BY <1>6, <1>b DEF Edit
    <3>5. \A w \in Words : Halves(copy'[c], w)
      BY <3>3, <3>4 DEF Halves
    <3> QED BY <1>6, <1>a, <3>1, <3>5, MovePair DEF Edit, SetSkips, IInv, TypeOK
  <2>2. CASE UpdateLog(c) /\ Goto(c, "write") /\ UNCHANGED <<copy, reach>>
    BY <1>6, <2>2, <1>a, <1>b, MovePair DEF Edit
  <2>3. CASE UpdateLog(c) /\ Return(c)
    BY <1>6, <2>3, ReturnPair DEF Edit
  <2> QED BY <1>6, <2>1, <2>2, <2>3 DEF Edit, UpdateLog
<1>7. ASSUME NEW c \in Clients, Write(c) PROVE PairInv'
  <2>1. \A w \in Words : Halves(file', w)
    BY <1>7, <1>b DEF Write
  <2> QED BY <1>7, <1>b, <2>1, MovePair DEF Write
<1>8. ASSUME NEW c \in Clients, Mirror(c) PROVE PairInv'
  BY <1>8, <1>a, <1>b, MovePair DEF Mirror
<1>9. ASSUME NEW c \in Clients, Reply(c) \/ Fail(c) PROVE PairInv'
  BY <1>9, ReturnPair DEF Reply, Fail
<1>10. CASE Crash
  <2>1. ASSUME NEW c \in Clients PROVE HoldsWhole(pc'[c], op'[c], copy'[c])
    BY <1>10, EmptyHalves DEF Crash, HoldsWhole
  <2> QED BY <1>10, <1>a, <2>1, PairInvPrimed DEF Crash
<1>11. CASE Tick \/ UNCHANGED vars
  BY <1>11, PairInvPrimed DEF Tick, vars, PairInv
<1> QED BY <1>1, <1>2, <1>4, <1>5, <1>6, <1>7, <1>8, <1>9, <1>10, <1>11 DEF Next, Handle

\* A free-form answer is in both lists of its word or in neither, in every
\* interleaving of requests, errors and crashes.
THEOREM FreeformAnswersStayWhole == Spec => []FreeformInBothLists
<1>1. IInv /\ PairInv => FreeformInBothLists
  BY DEF PairInv, Halves, FreeformInBothLists
<1> QED BY <1>1, Invariance, PairInit, PairNext, PTL DEF Spec

-----------------------------------------------------------------------------
(* An answer is stored once, for any number of requests at a time *)

IsStoredOnce(f) ==
    \A k \in Keys : \A i, j \in DOMAIN f.logs[k] : i # j => f.logs[k][i].id # f.logs[k][j].id

\* No list of the file has the answer.
HasNo(f, id) == \A k \in Keys : id \notin Ids(f.logs[k])

\* Answers are numbered as they come, so one that is to come is in no file.
OnlyPast(f, n) == \A k \in Keys : \A id \in Ids(f.logs[k]) : id <= n

OnceFile(f, n) == IsStoredOnce(f) /\ OnlyPast(f, n)

\* A handler with an answer that it has not yet written.
Holds(place, o) == o.kind = "answer" /\ place \in {"read", "add", "pair", "write"}

\* What such a handler's answer may be found in: its own copy, as far as it got,
\* and no other copy, which could be written before or after it.
Unwritten(c) ==
    /\ op[c].id <= calls
    /\ HasNo(file, op[c].id)
    /\ \A d \in Clients \ {c} : /\ HasNo(copy[d], op[c].id)
                                /\ Holds(pc[d], op[d]) => op[d].id # op[c].id
    /\ pc[c] = "add" => HasNo(copy[c], op[c].id)
    /\ pc[c] = "pair" => \A w \in Words : op[c].id \notin Ids(copy[c].logs[<<"reverse", w>>])

OnceInv ==
    /\ OnceFile(file, calls)
    /\ \A c \in Clients : OnceFile(copy[c], calls)
    /\ \A c \in Clients : Holds(pc[c], op[c]) => Unwritten(c)

-----------------------------------------------------------------------------
(* The lists of a file that gets one more log *)

LEMMA PrependedList ==
    ASSUME NEW s \in Seq(Log), NEW log
    PROVE  /\ DOMAIN s = 1 .. Len(s) /\ Len(s) \in Nat
           /\ DOMAIN (<<log>> \o s) = 1 .. (Len(s) + 1)
           /\ (<<log>> \o s)[1] = log
           /\ \A i \in 1 .. Len(s) : (<<log>> \o s)[i + 1] = s[i]
OBVIOUS

LEMMA PrependedIds ==
    ASSUME NEW f \in File, NEW k \in Keys, NEW log \in Log, NEW l \in Keys
    PROVE  Ids(Prepended(f, k, log).logs[l]) =
               IF l = k THEN Ids(f.logs[l]) \cup {log.id} ELSE Ids(f.logs[l])
<1> DEFINE s == f.logs[k]
           t == <<log>> \o s
<1>1. f.logs \in [Keys -> Seq(Log)]
  BY DEF File
<1>2. Prepended(f, k, log).logs = [f.logs EXCEPT ![k] = t]
  BY <1>1 DEF Prepended, File
<1>3. CASE l # k
  BY <1>1, <1>2, <1>3
<1>4. CASE l = k
  <2>1. /\ DOMAIN s = 1 .. Len(s) /\ Len(s) \in Nat
        /\ DOMAIN t = 1 .. (Len(s) + 1)
        /\ t[1] = log
        /\ \A i \in 1 .. Len(s) : t[i + 1] = s[i]
    BY <1>1, PrependedList
  <2>2. Prepended(f, k, log).logs[k] = t
    BY <1>1, <1>2
  <2> HIDE DEF s, t
  <2>3. ASSUME NEW x PROVE x \in Ids(t) <=> x = log.id \/ x \in Ids(s)
    <3>1. ASSUME NEW i \in 1 .. (Len(s) + 1), x = t[i].id PROVE x = log.id \/ x \in Ids(s)
      <4>1. CASE i = 1
        BY <2>1, <3>1, <4>1
      <4>2. CASE i # 1
        <5>1. i - 1 \in 1 .. Len(s) /\ t[i] = s[i - 1]
          BY <2>1, <4>2
        <5> QED BY <2>1, <3>1, <5>1 DEF Ids
      <4> QED BY <4>1, <4>2
    <3>2. ASSUME NEW i \in 1 .. Len(s), x = s[i].id PROVE x \in Ids(t)
      <4>1. i + 1 \in 1 .. (Len(s) + 1) /\ t[i + 1] = s[i]
        BY <2>1
      <4> QED BY <2>1, <3>2, <4>1 DEF Ids
    <3>3. 1 \in 1 .. (Len(s) + 1)
      BY <2>1
    <3> QED BY <2>1, <3>1, <3>2, <3>3 DEF Ids
  <2>4. Ids(t) = Ids(s) \cup {log.id}
    BY <2>3
  <2> QED BY <2>2, <2>4, <1>4 DEF s
<1> QED BY <1>3, <1>4

LEMMA PrependedOnce ==
    ASSUME NEW f \in File, NEW k \in Keys, NEW log \in Log,
           IsStoredOnce(f), log.id \notin Ids(f.logs[k])
    PROVE  IsStoredOnce(Prepended(f, k, log))
<1> DEFINE s == f.logs[k]
           t == <<log>> \o s
           g == Prepended(f, k, log)
<1>1. f.logs \in [Keys -> Seq(Log)]
  BY DEF File
<1>2. g.logs = [f.logs EXCEPT ![k] = t]
  BY <1>1 DEF Prepended, File
<1>3. /\ DOMAIN s = 1 .. Len(s) /\ Len(s) \in Nat
      /\ DOMAIN t = 1 .. (Len(s) + 1)
      /\ t[1] = log
      /\ \A i \in 1 .. Len(s) : t[i + 1] = s[i]
  BY <1>1, PrependedList
<1>4. \A i \in 1 .. Len(s) : s[i].id # log.id
  BY <1>3 DEF Ids
<1>5. \A i, j \in 1 .. Len(s) : i # j => s[i].id # s[j].id
  BY <1>3 DEF IsStoredOnce
<1> HIDE DEF t
<1>6. ASSUME NEW i \in DOMAIN t, NEW j \in DOMAIN t, i # j PROVE t[i].id # t[j].id
  <2>1. \A n \in DOMAIN t : n # 1 => n - 1 \in 1 .. Len(s) /\ t[n] = s[n - 1]
    BY <1>3
  <2>2. CASE i = 1
    BY <1>3, <1>4, <1>6, <2>1, <2>2
  <2>3. CASE j = 1
    BY <1>3, <1>4, <1>6, <2>1, <2>3
  <2>4. CASE i # 1 /\ j # 1
    <3>1. i - 1 # j - 1
      BY <1>3, <1>6
    <3> QED BY <1>5, <2>1, <2>4, <3>1
  <2> QED BY <2>2, <2>3, <2>4
<1>7. ASSUME NEW l \in Keys, NEW i \in DOMAIN g.logs[l], NEW j \in DOMAIN g.logs[l], i # j
      PROVE  g.logs[l][i].id # g.logs[l][j].id
  <2>1. CASE l = k
    BY <1>1, <1>2, <1>6, <1>7, <2>1
  <2>2. CASE l # k
    BY <1>1, <1>2, <1>7, <2>2 DEF IsStoredOnce
  <2> QED BY <2>1, <2>2
<1> QED BY <1>7 DEF IsStoredOnce

LEMMA IdsType == \A f \in File, k \in Keys : Ids(f.logs[k]) \subseteq Nat
<1> TAKE f \in File, k \in Keys
<1>1. f.logs[k] \in Seq(Log)
  BY DEF File
<1>2. \A i \in DOMAIN f.logs[k] : f.logs[k][i] \in Log
  BY <1>1
<1>3. \A log \in Log : log.id \in Nat
  BY DEF Log
<1> QED BY <1>2, <1>3 DEF Ids

LEMMA EmptyHasNone == \A id, n : HasNo(Empty, id) /\ OnceFile(Empty, n)
BY DEF HasNo, OnceFile, IsStoredOnce, OnlyPast, Ids, Empty

LEMMA SameLogs ==
    ASSUME NEW f, NEW g, f.logs = g.logs
    PROVE  /\ \A id : HasNo(f, id) <=> HasNo(g, id)
           /\ \A n : OnceFile(f, n) <=> OnceFile(g, n)
BY DEF HasNo, OnceFile, IsStoredOnce, OnlyPast

-----------------------------------------------------------------------------

LEMMA OnceInit == Init => OnceInv
BY EmptyHasNone DEF Init, OnceInv, Holds

\* The prime of OnceInv, pushed down to the variables.
LEMMA OnceInvPrimed ==
    OnceInv' <=>
        /\ OnceFile(file', calls')
        /\ \A c \in Clients : OnceFile(copy'[c], calls')
        /\ \A c \in Clients : Holds(pc'[c], op'[c]) =>
               /\ op'[c].id <= calls'
               /\ HasNo(file', op'[c].id)
               /\ \A d \in Clients \ {c} : /\ HasNo(copy'[d], op'[c].id)
                                           /\ Holds(pc'[d], op'[d]) => op'[d].id # op'[c].id
               /\ pc'[c] = "add" => HasNo(copy'[c], op'[c].id)
               /\ pc'[c] = "pair" =>
                      \A w \in Words : op'[c].id \notin Ids(copy'[c].logs[<<"reverse", w>>])
BY DEF OnceInv, OnceFile, IsStoredOnce, OnlyPast, Holds, Unwritten, HasNo, Ids

\* A handler c moves on, and holds no answer but the one it held.  Its copy is as it
\* was, empty, or what is in the file; so is the file.
LEMMA MoveOnce ==
    ASSUME IInv, OnceInv, NEW c \in Clients, UNCHANGED calls,
           \A d \in Clients \ {c} : pc'[d] = pc[d] /\ op'[d] = op[d] /\ copy'[d] = copy[d],
           Holds(pc'[c], op'[c]) => Holds(pc[c], op[c]) /\ op'[c] = op[c],
           pc'[c] # "pair",
           pc'[c] = "add" => copy'[c] = file,
           \/ copy'[c].logs \in {copy[c].logs, file.logs, Empty.logs} /\ file' = file
           \/ copy'[c] = copy[c] /\ file' = copy[c] /\ ~Holds(pc'[c], op'[c])
    PROVE  OnceInv'
<1>1. OnceFile(file', calls)
  BY DEF OnceInv
<1>2. OnceFile(copy'[c], calls)
  BY EmptyHasNone, SameLogs DEF OnceInv
<1>3. ASSUME NEW d \in Clients, Holds(pc'[d], op'[d])
      PROVE  /\ Holds(pc[d], op[d]) /\ op'[d] = op[d] /\ Unwritten(d)
             /\ HasNo(file', op[d].id)
             /\ d # c => HasNo(copy'[c], op[d].id)
  <2>1. Holds(pc[d], op[d]) /\ op'[d] = op[d] /\ Unwritten(d)
    BY <1>3 DEF OnceInv
  <2>2. HasNo(file', op[d].id)
    BY <1>3, <2>1 DEF Unwritten
  <2>3. d # c => HasNo(copy'[c], op[d].id)
    BY <2>1, EmptyHasNone, SameLogs DEF Unwritten
  <2> QED BY <2>1, <2>2, <2>3
<1>4. ASSUME NEW d \in Clients, Holds(pc'[d], op'[d]), NEW e \in Clients \ {d}
      PROVE  /\ HasNo(copy'[e], op'[d].id)
             /\ Holds(pc'[e], op'[e]) => op'[e].id # op'[d].id
  <2>1. HasNo(copy'[e], op'[d].id)
    BY <1>3, <1>4 DEF Unwritten
  <2> QED BY <1>3, <1>4, <2>1 DEF Unwritten
<1>5. ASSUME NEW d \in Clients, Holds(pc'[d], op'[d])
      PROVE  /\ pc'[d] = "add" => HasNo(copy'[d], op'[d].id)
             /\ pc'[d] = "pair" =>
                    \A w \in Words : op'[d].id \notin Ids(copy'[d].logs[<<"reverse", w>>])
  <2>1. CASE d = c
    BY <1>3, <1>5, <2>1 DEF Unwritten
  <2>2. CASE d # c
    BY <1>3, <1>5, <2>2 DEF Unwritten
  <2> QED BY <2>1, <2>2
<1> QED BY <1>1, <1>2, <1>3, <1>4, <1>5, OnceInvPrimed DEF OnceInv, Unwritten

LEMMA ReturnOnce ==
    ASSUME IInv, OnceInv, NEW c \in Clients, Return(c), UNCHANGED <<file, calls>>
    PROVE  OnceInv'
<1>1. \A d \in Clients \ {c} : pc'[d] = pc[d] /\ op'[d] = op[d] /\ copy'[d] = copy[d]
  BY DEF Return, IInv, TypeOK
<1>2. pc'[c] = "idle" /\ copy'[c] = Empty
  BY DEF Return, IInv, TypeOK
<1>3. ~Holds(pc'[c], op'[c])
  BY <1>2 DEF Holds
<1> QED BY <1>1, <1>2, <1>3, MoveOnce

\* A new answer has a number that no log has.
LEMMA BeginOnce ==
    ASSUME IInv, OnceInv, NEW c \in Clients, NEW kind \in Offered, NEW word \in Words,
           NEW types \in SUBSET QuizTypes, NEW id \in 0 .. MaxCalls, Begin(c, kind, word, types, id)
    PROVE  OnceInv'
<1>1. /\ pc'[c] = "read" /\ calls' = calls + 1 /\ calls \in Nat
      /\ op'[c].kind = "answer" => op'[c].id = calls + 1
      /\ \A d \in Clients \ {c} : pc'[d] = pc[d] /\ op'[d] = op[d]
      /\ UNCHANGED <<file, copy>>
  BY DEF Begin, IInv, TypeOK
<1>2. ASSUME NEW f \in File, OnceFile(f, calls)
      PROVE  OnceFile(f, calls + 1) /\ HasNo(f, calls + 1)
  <2>1. ASSUME NEW k \in Keys, NEW x \in Ids(f.logs[k])
        PROVE  x <= calls + 1 /\ x # calls + 1
    <3>1. x \in Nat
      BY IdsType
    <3>2. x <= calls
      BY <1>2 DEF OnceFile, OnlyPast
    <3> QED BY <1>1, <3>1, <3>2
  <2>2. HasNo(f, calls + 1)
    BY <2>1 DEF HasNo
  <2>3. OnlyPast(f, calls + 1)
    BY <2>1 DEF OnlyPast
  <2> QED BY <1>2, <2>2, <2>3 DEF OnceFile
<1>3. /\ file \in File /\ OnceFile(file, calls)
      /\ \A d \in Clients : copy[d] \in File /\ OnceFile(copy[d], calls)
  BY DEF IInv, TypeOK, OnceInv
<1>4. ASSUME NEW d \in Clients \ {c}, Holds(pc[d], op[d])
      PROVE  /\ Unwritten(d) /\ op[d].id <= calls + 1 /\ op[d].id # calls + 1
  <2>1. Unwritten(d) /\ op[d].id \in Nat
    BY <1>4 DEF OnceInv, IInv, TypeOK, Op
  <2> QED BY <1>1, <2>1 DEF Unwritten
<1>5. ASSUME NEW d \in Clients, Holds(pc'[d], op'[d])
      PROVE  /\ op'[d].id <= calls + 1
             /\ HasNo(file, op'[d].id)
             /\ \A e \in Clients \ {d} : /\ HasNo(copy[e], op'[d].id)
                                         /\ Holds(pc'[e], op'[e]) => op'[e].id # op'[d].id
             /\ pc'[d] = "add" => HasNo(copy[d], op'[d].id)
             /\ pc'[d] = "pair" =>
                    \A w \in Words : op'[d].id \notin Ids(copy[d].logs[<<"reverse", w>>])
  <2>1. CASE d = c
    <3>1. op'[c].id = calls + 1
      BY <1>1, <1>5, <2>1 DEF Holds
    <3>2. \A e \in Clients : HasNo(copy[e], calls + 1)
      BY <1>2, <1>3
    <3> QED BY <1>1, <1>2, <1>3, <1>4, <2>1, <3>1, <3>2
  <2>2. CASE d # c
    <3>1. Holds(pc[d], op[d]) /\ op'[d] = op[d] /\ pc'[d] = pc[d]
      BY <1>1, <1>5, <2>2
    <3>2. Holds(pc'[c], op'[c]) => op'[c].id = calls + 1
      BY <1>1 DEF Holds
    <3> QED BY <1>1, <1>4, <2>2, <3>1, <3>2 DEF Unwritten
  <2> QED BY <2>1, <2>2
<1> QED BY <1>1, <1>2, <1>3, <1>5, OnceInvPrimed

\* A handler puts its answer in a list of its copy that does not have it yet.
LEMMA AddOnce ==
    ASSUME IInv, OnceInv, NEW c \in Clients, AddLearned(c) \/ AddReverse(c)
    PROVE  OnceInv'
<1> DEFINE o   == op[c]
           log == [id |-> o.id, at |-> clock, quizType |-> TypeOf(o)]
<1>1. /\ pc[c] \in {"add", "pair"}
      /\ o.kind = "answer" /\ o \in Op /\ copy[c] \in File
      /\ Holds(pc[c], o) /\ Unwritten(c)
      /\ TypeOf(o) \in QuizTypes
  BY DEF AddLearned, AddReverse, Holds, IInv, TypeOK, OpInv, OnceInv, TypeOf
<1>2. PICK list \in Lists :
        /\ AddRecord(c, list)
        /\ pc[c] = "pair" => list = "reverse"
        /\ pc' = [pc EXCEPT ![c] = "pair"] => list = "learned"
        /\ \E place \in {"pair", "write"} : pc' = [pc EXCEPT ![c] = place]
        /\ UNCHANGED <<op, file, calls>>
  <2>1. CASE AddLearned(c)
    BY <2>1 DEF AddLearned, Goto, Lists
  <2>2. CASE AddReverse(c)
    <3>1. pc' = [pc EXCEPT ![c] = "write"] /\ pc'[c] = "write"
      BY <2>2 DEF AddReverse, Goto, IInv, TypeOK
    <3>2. pc' # [pc EXCEPT ![c] = "pair"]
      BY <3>1 DEF IInv, TypeOK
    <3> QED BY <2>2, <3>1, <3>2 DEF AddReverse, Lists, Goto
  <2> QED BY <2>1, <2>2
<1> DEFINE k == <<list, o.word>>
           g == Prepended(copy[c], k, log)
<1>3. log \in Log /\ log.id = o.id /\ k \in Keys
  BY <1>1 DEF Log, Op, Keys, IInv, TypeOK
<1>4. copy'[c] = g /\ \A d \in Clients \ {c} : copy'[d] = copy[d] /\ pc'[d] = pc[d]
  BY <1>2 DEF AddRecord, IInv, TypeOK
<1>5. o.id \notin Ids(copy[c].logs[k])
  <2>1. CASE pc[c] = "add"
    BY <1>1, <1>3, <2>1 DEF Unwritten, HasNo
  <2>2. CASE pc[c] = "pair"
    <3>1. list = "reverse" /\ o.word \in Words
      BY <1>1, <1>2, <2>2 DEF Op
    <3> QED BY <1>1, <2>2, <3>1 DEF Unwritten
  <2> QED BY <1>1, <2>1, <2>2
<1>typed. copy[c] \in File /\ k \in Keys /\ log \in Log
  BY <1>1, <1>3
<1> HIDE DEF log, k
<1>ids. \A l \in Keys : Ids(Prepended(copy[c], k, log).logs[l]) =
          IF l = k THEN Ids(copy[c].logs[l]) \cup {log.id} ELSE Ids(copy[c].logs[l])
  BY <1>typed, PrependedIds
<1> HIDE DEF g
<1>6. \A l \in Keys : Ids(g.logs[l]) = IF l = k THEN Ids(copy[c].logs[l]) \cup {o.id}
                                       ELSE Ids(copy[c].logs[l])
  BY <1>3, <1>ids DEF g
<1> USE DEF g
<1>7. IsStoredOnce(g)
  BY <1>1, <1>3, <1>5, PrependedOnce DEF OnceInv, OnceFile
<1> HIDE DEF g
<1>8. OnceFile(copy'[c], calls)
  <2>1. OnlyPast(copy[c], calls) /\ o.id <= calls
    BY <1>1 DEF OnceInv, OnceFile, Unwritten
  <2> QED BY <1>4, <1>6, <1>7, <2>1 DEF OnceFile, OnlyPast
<1>9. ASSUME NEW d \in Clients \ {c}, Holds(pc'[d], op'[d])
      PROVE  /\ op'[d].id <= calls
             /\ HasNo(file, op'[d].id)
             /\ \A e \in Clients \ {d} : /\ HasNo(copy'[e], op'[d].id)
                                         /\ Holds(pc'[e], op'[e]) => op'[e].id # op'[d].id
             /\ pc'[d] = "add" => HasNo(copy'[d], op'[d].id)
             /\ pc'[d] = "pair" =>
                    \A w \in Words : op'[d].id \notin Ids(copy'[d].logs[<<"reverse", w>>])
  <2>1. Unwritten(d) /\ Holds(pc[d], op[d])
    BY <1>2, <1>4, <1>9 DEF OnceInv
  <2>2. op[d].id # o.id /\ HasNo(copy[c], op[d].id)
    BY <1>1, <1>9, <2>1 DEF Unwritten
  <2>3. HasNo(copy'[c], op[d].id)
    BY <1>4, <1>6, <2>2 DEF HasNo
  <2>4. \A e \in Clients \ {d} : Holds(pc'[e], op'[e]) => op'[e].id # op'[d].id
    BY <1>1, <1>2, <1>4, <2>1, <2>2 DEF Unwritten
  <2> QED BY <1>2, <1>4, <1>9, <2>1, <2>3, <2>4 DEF Unwritten
<1>10. ASSUME Holds(pc'[c], op'[c])
       PROVE  /\ op'[c].id <= calls
              /\ HasNo(file, op'[c].id)
              /\ \A e \in Clients \ {c} : /\ HasNo(copy'[e], op'[c].id)
                                          /\ Holds(pc'[e], op'[e]) => op'[e].id # op'[c].id
              /\ pc'[c] = "add" => HasNo(copy'[c], op'[c].id)
              /\ pc'[c] = "pair" =>
                     \A w \in Words : op'[c].id \notin Ids(copy'[c].logs[<<"reverse", w>>])
  <2>1. pc'[c] # "add"
    BY <1>2 DEF IInv, TypeOK
  <2>2. ASSUME pc'[c] = "pair", NEW w \in Words
        PROVE  o.id \notin Ids(copy'[c].logs[<<"reverse", w>>])
    <3>1. list = "learned" /\ pc[c] = "add"
      BY <1>1, <1>2, <2>2 DEF IInv, TypeOK
    <3>2. <<"reverse", w>> \in Keys /\ <<"reverse", w>> # k
      BY <3>1 DEF Keys, Lists, k
    <3>3. o.id \notin Ids(copy[c].logs[<<"reverse", w>>])
      BY <1>1, <3>1, <3>2 DEF Unwritten, HasNo
    <3> QED BY <1>4, <1>6, <3>2, <3>3
  <2> QED BY <1>1, <1>2, <1>4, <2>1, <2>2 DEF Unwritten
<1>11. ASSUME NEW d \in Clients PROVE OnceFile(copy'[d], calls)
  BY <1>4, <1>8, <1>11 DEF OnceInv
<1> QED BY <1>2, <1>9, <1>10, <1>11, OnceInvPrimed DEF OnceInv

LEMMA OnceNext == IInv /\ OnceInv /\ [Next]_vars => OnceInv'
<1> SUFFICES ASSUME IInv, OnceInv, [Next]_vars PROVE OnceInv'
  OBVIOUS
<1> USE DEF Goto
<1>1. ASSUME NEW c \in Clients, Read(c) PROVE OnceInv'
  <2>1. Holds(pc'[c], op'[c]) => Holds(pc[c], op[c])
    BY <1>1 DEF Read, Holds, IInv, TypeOK
  <2> QED BY <1>1, <2>1, MoveOnce DEF Read, IInv, TypeOK
<1>2. ASSUME NEW c \in Clients, Edit(c) PROVE OnceInv'
  <2>1. CASE \E readerFails \in BOOLEAN : EditSkips(c, readerFails)
    <3>1. PICK skips : SetSkips(c, skips) /\ op[c].kind \in {"skip", "resume"}
      BY <2>1 DEF EditSkips, SkipWord, ResumeWord
    <3>2. copy'[c].logs = copy[c].logs
      BY <3>1 DEF SetSkips, IInv, TypeOK, File
    <3>3. ~Holds(pc'[c], op'[c])
      BY <3>1 DEF SetSkips, Holds
    <3> QED BY <1>2, <3>1, <3>2, <3>3, MoveOnce DEF Edit, SetSkips, IInv, TypeOK
  <2>2. CASE UpdateLog(c) /\ Goto(c, "write") /\ UNCHANGED <<copy, reach>>
    <3>1. ~Holds(pc'[c], op'[c])
      BY <2>2 DEF UpdateLog, Holds
    <3> QED BY <1>2, <2>2, <3>1, MoveOnce DEF Edit, IInv, TypeOK
  <2>3. CASE UpdateLog(c) /\ Return(c)
    BY <1>2, <2>3, ReturnOnce DEF Edit
  <2> QED BY <1>2, <2>1, <2>2, <2>3 DEF Edit, UpdateLog
<1>3. ASSUME NEW c \in Clients, Write(c) PROVE OnceInv'
  <2>1. ~Holds(pc'[c], op'[c])
    BY <1>3 DEF Write, Holds, IInv, TypeOK
  <2> QED BY <1>3, <2>1, MoveOnce DEF Write, IInv, TypeOK
<1>4. ASSUME NEW c \in Clients, Mirror(c) PROVE OnceInv'
  <2>1. ~Holds(pc'[c], op'[c])
    BY <1>4 DEF Mirror, Holds, IInv, TypeOK
  <2> QED BY <1>4, <2>1, MoveOnce DEF Mirror, IInv, TypeOK
<1>5. ASSUME NEW c \in Clients, Reply(c) \/ Fail(c) PROVE OnceInv'
  BY <1>5, ReturnOnce DEF Reply, Fail
<1>6. CASE Crash
  <2>1. \A c \in Clients : ~Holds(pc'[c], op'[c]) /\ copy'[c] = Empty
    BY <1>6 DEF Crash, Holds
  <2> QED BY <1>6, <2>1, EmptyHasNone, OnceInvPrimed DEF Crash, OnceInv
<1>7. CASE Tick \/ UNCHANGED vars
  BY <1>7, OnceInvPrimed DEF Tick, vars, OnceInv, Unwritten
<1> QED BY <1>1, <1>2, <1>3, <1>4, <1>5, <1>6, <1>7, BeginOnce, AddOnce DEF Next, Handle

\* Whatever is lost among concurrent requests, no answer is stored a second time.
THEOREM AnswersAreStoredOnce == Spec => []StoredOnce
<1>1. OnceInv => StoredOnce
  BY DEF OnceInv, OnceFile, IsStoredOnce, StoredOnce
<1> QED BY <1>1, Invariance, OnceInit, OnceNext, PTL DEF Spec

-----------------------------------------------------------------------------
(***************************************************************************)
(* With one request at a time HistoryStore keeps what it confirmed, and    *)
(* implements ReviewLedger.                                                *)
(***************************************************************************)

\* Requests come one after the other.
OneClient == \A c, d \in Clients : c = d

\* The answers in each list of a file: the ledger's logs.
LogsOf(f) == [k \in Keys |-> Ids(f.logs[k])]

\* g is f with the answer of o in some of the lists of its word.
IsWith(g, f, o, lists) ==
    /\ g.skips = f.skips
    /\ \A k \in Keys : Ids(g.logs[k]) = IF k[1] \in lists /\ k[2] = o.word
                                        THEN Ids(f.logs[k]) \cup {o.id}
                                        ELSE Ids(f.logs[k])

\* The call o has been applied to f; a skip, to these words.
IsApplied(f, o, words) ==
    /\ o.kind = "answer" => \A l \in Ledger!ListsOf(o.types) : o.id \in Ids(f.logs[<<l, o.word>>])
    /\ o.kind = "skip" => Slots(o, words) \subseteq f.skips

\* What a skip or a resume may reach; other calls reach no slot.
Reachable(o, words) ==
    o.kind \in {"skip", "resume"} => words \in {Concept[o.word], {o.word}}

\* How far the copy g of a handler is from the file f, which no other handler changes.
Advanced(place, o, words, g, f) ==
    /\ place \in {"add", "edit"} => g = f
    /\ place = "pair" => TypeOf(o) = "freeform" /\ IsWith(g, f, o, {"learned"})
    /\ place = "write" => /\ LogsOf(g) = Ledger!WithAnswer(LogsOf(f), o)
                          /\ g.skips = Ledger!WithSkips(f.skips, o, words)
                          /\ Reachable(o, words)
    /\ place \in {"mirror", "reply"} => IsApplied(f, o, words)

IsKept(f, kept) ==
    /\ \A x \in kept.logs : x[3] \in Ids(f.logs[<<x[1], x[2]>>])
    /\ kept.skips \subseteq f.skips

\* A resume takes its slots out of owed before it takes them out of the file.
IsAsked(place, o, kept) ==
    place # "idle" /\ o.kind = "resume" => kept.skips \cap Slots(o, Concept[o.word]) = {}

IsMirrored(f, rows) == \A r \in rows : \E l \in Lists : r.id \in Ids(f.logs[<<l, r.word>>])

SerialInv ==
    /\ \A c \in Clients : Advanced(pc[c], op[c], reach[c], copy[c], file) /\ IsAsked(pc[c], op[c], owed)
    /\ IsKept(file, owed)
    /\ IsMirrored(file, db)

-----------------------------------------------------------------------------

LEMMA OneType ==
    ASSUME NEW o, NEW t \in QuizTypes, o.types = {t}
    PROVE  /\ TypeOf(o) = t
           /\ Ledger!ListsOf(o.types) = CASE t = "notebook" -> {"learned"}
                                          [] t = "reverse"  -> {"reverse"}
                                          [] OTHER          -> Lists
           /\ Added(o) = {<<l, o.word, o.id>> : l \in Ledger!ListsOf(o.types)}
<1>1. TypeOf(o) = t
  BY DEF TypeOf
<1>2. Ledger!ListsOf(o.types) = CASE t = "notebook" -> {"learned"}
                                  [] t = "reverse"  -> {"reverse"}
                                  [] OTHER          -> Lists
  BY QuizTypesAssumption DEF Ledger!ListsOf, Lists
<1>3. {l \in Lists : IF l = "learned" THEN "reverse" \notin o.types ELSE "notebook" \notin o.types}
          = Ledger!ListsOf(o.types)
  BY <1>2 DEF Lists
<1> QED BY <1>1, <1>2, <1>3 DEF Added

\* The prime of SerialInv, pushed down to the variables; with one client the
\* handler that moves is the only one.
LEMMA SerialStep ==
    ASSUME OneClient, NEW c \in Clients,
           Advanced(pc'[c], op'[c], reach'[c], copy'[c], file'), IsAsked(pc'[c], op'[c], owed'),
           IsKept(file', owed'), IsMirrored(file', db')
    PROVE  SerialInv'
<1>1. \A d \in Clients : d = c
  BY DEF OneClient
<1>2. SerialInv' <=>
          /\ \A d \in Clients : /\ Advanced(pc'[d], op'[d], reach'[d], copy'[d], file')
                                /\ IsAsked(pc'[d], op'[d], owed')
          /\ IsKept(file', owed')
          /\ IsMirrored(file', db')
  BY DEF SerialInv, Advanced, IsAsked, IsKept, IsMirrored, IsApplied, IsWith, LogsOf, Ids,
         Slots, Reachable, TypeOf, Ledger!WithAnswer, Ledger!WithSkips, Ledger!ListsOf, Ledger!Slots
<1> QED BY <1>1, <1>2

LEMMA AddedIds ==
    ASSUME IInv, NEW c \in Clients, NEW list \in Lists, AddRecord(c, list), op[c].kind = "answer"
    PROVE  IsWith(copy'[c], copy[c], op[c], {list})
<1> DEFINE log == [id |-> op[c].id, at |-> clock, quizType |-> TypeOf(op[c])]
           k   == <<list, op[c].word>>
<1>1. TypeOf(op[c]) \in QuizTypes
  BY DEF IInv, OpInv, TypeOf
<1>2. log \in Log /\ k \in Keys /\ copy[c] \in File /\ log.id = op[c].id
  BY <1>1 DEF IInv, TypeOK, Op, Log, Keys
<1>3. copy'[c] = Prepended(copy[c], k, log)
  BY DEF AddRecord, IInv, TypeOK
<1>4. \A l \in Keys : l = k <=> l[1] \in {list} /\ l[2] = op[c].word
  BY DEF Keys
<1> HIDE DEF log, k
<1>5. copy'[c].skips = copy[c].skips
  BY <1>2, <1>3 DEF Prepended, File
<1>6. \A l \in Keys : Ids(Prepended(copy[c], k, log).logs[l]) =
          IF l = k THEN Ids(copy[c].logs[l]) \cup {log.id} ELSE Ids(copy[c].logs[l])
  BY <1>2, PrependedIds
<1> QED BY <1>2, <1>3, <1>4, <1>5, <1>6 DEF IsWith

\* A copy with the answer in all its lists is what the ledger writes.
LEMMA AllAdded ==
    ASSUME NEW f, NEW g, NEW o, NEW words, o.kind = "answer",
           IsWith(g, f, o, Ledger!ListsOf(o.types))
    PROVE  /\ LogsOf(g) = Ledger!WithAnswer(LogsOf(f), o)
           /\ g.skips = Ledger!WithSkips(f.skips, o, words)
           /\ Reachable(o, words)
BY DEF IsWith, LogsOf, Ledger!WithAnswer, Ledger!WithSkips, Reachable, Keys, Lists, Ledger!Lists

\* So is one that was only asked to skip, to resume or to override.
LEMMA NoneAdded ==
    ASSUME NEW f, NEW g, NEW o, o.kind # "answer", g.logs = f.logs
    PROVE  LogsOf(g) = Ledger!WithAnswer(LogsOf(f), o)
BY DEF LogsOf, Ledger!WithAnswer, Keys, Lists, Ledger!Lists

\* What the ledger writes keeps all that was there, a resume apart.
LEMMA WrittenKeeps ==
    ASSUME NEW f \in File, NEW g \in File, NEW o \in Op, NEW words,
           LogsOf(g) = Ledger!WithAnswer(LogsOf(f), o), g.skips = Ledger!WithSkips(f.skips, o, words)
    PROVE  /\ \A k \in Keys : Ids(f.logs[k]) \subseteq Ids(g.logs[k])
           /\ o.kind # "resume" => f.skips \subseteq g.skips
           /\ o.kind = "resume" => g.skips = f.skips \ Slots(o, words)
           /\ IsApplied(g, o, words)
<1>1. \A k \in Keys : Ids(g.logs[k]) =
          IF o.kind = "answer" /\ k[2] = o.word /\ k[1] \in Ledger!ListsOf(o.types)
          THEN Ids(f.logs[k]) \cup {o.id}
          ELSE Ids(f.logs[k])
  <2> TAKE k \in Keys
  <2>1. LogsOf(g)[k] = Ids(g.logs[k]) /\ LogsOf(f)[k] = Ids(f.logs[k])
    BY DEF LogsOf
  <2> QED BY <2>1 DEF Ledger!WithAnswer, Keys, Lists, Ledger!Lists
<1>2. /\ o.kind # "resume" => f.skips \subseteq g.skips
      /\ o.kind = "resume" => g.skips = f.skips \ Slots(o, words)
      /\ o.kind = "skip" => Slots(o, words) \subseteq g.skips
  BY DEF Ledger!WithSkips, Ledger!Slots, Slots, Op
<1>3. ASSUME o.kind = "answer", NEW l \in Ledger!ListsOf(o.types)
      PROVE  o.id \in Ids(g.logs[<<l, o.word>>])
  <2>1. <<l, o.word>> \in Keys
    BY <1>3 DEF Ledger!ListsOf, Keys, Lists, Op
  <2> QED BY <1>1, <1>3, <2>1
<1> QED BY <1>1, <1>2, <1>3 DEF IsApplied

-----------------------------------------------------------------------------

LEMMA SerialInit == Init => SerialInv
BY DEF Init, SerialInv, Advanced, IsAsked, IsKept, IsMirrored, Empty

\* The handler of the only request moves, and leaves the file alone.
LEMMA MoveSerial ==
    ASSUME OneClient, IInv, SerialInv, NEW c \in Clients, UNCHANGED <<file, owed, db>>,
           Advanced(pc'[c], op'[c], reach'[c], copy'[c], file),
           (pc[c] # "idle" /\ op'[c] = op[c]) \/ pc'[c] = "idle"
    PROVE  SerialInv'
<1>1. IsAsked(pc'[c], op'[c], owed')
  BY DEF SerialInv, IsAsked
<1> QED BY <1>1, SerialStep DEF SerialInv

LEMMA ReturnSerial ==
    ASSUME OneClient, IInv, SerialInv, NEW c \in Clients, Return(c), UNCHANGED <<file, db>>,
           IsKept(file, owed')
    PROVE  SerialInv'
<1>1. pc'[c] = "idle"
  BY DEF Return, IInv, TypeOK
<1>2. Advanced(pc'[c], op'[c], reach'[c], copy'[c], file') /\ IsAsked(pc'[c], op'[c], owed')
  BY <1>1 DEF Advanced, IsAsked
<1> QED BY <1>2, SerialStep DEF SerialInv

LEMMA AddSerial ==
    ASSUME OneClient, IInv, SerialInv, NEW c \in Clients, AddLearned(c) \/ AddReverse(c)
    PROVE  SerialInv'
<1> USE DEF Goto
<1>1. /\ pc[c] \in {"add", "pair"} /\ op[c].kind = "answer"
      /\ UNCHANGED <<op, file, owed, db>>
      /\ Advanced(pc[c], op[c], reach[c], copy[c], file)
  BY DEF AddLearned, AddReverse, IInv, OpInv, SerialInv
<1>2. PICK t \in QuizTypes : op[c].types = {t}
  BY <1>1 DEF IInv, OpInv
<1>3. /\ TypeOf(op[c]) = t
      /\ Ledger!ListsOf(op[c].types) = CASE t = "notebook" -> {"learned"}
                                         [] t = "reverse"  -> {"reverse"}
                                         [] OTHER          -> Lists
  BY <1>2, OneType
<1>4. Advanced(pc'[c], op'[c], reach'[c], copy'[c], file)
  <2>1. CASE AddLearned(c)
    <3>1. /\ IsWith(copy'[c], copy[c], op[c], {"learned"})
          /\ copy[c] = file
          /\ pc'[c] = IF t = "freeform" THEN "pair" ELSE "write"
          /\ t # "reverse"
      BY <1>1, <1>3, <2>1, AddedIds DEF AddLearned, Lists, Advanced, IInv, TypeOK
    <3>2. CASE t = "freeform"
      BY <1>1, <1>3, <3>1, <3>2 DEF Advanced
    <3>3. CASE t # "freeform"
      <4>1. Ledger!ListsOf(op[c].types) = {"learned"}
        BY <1>3, <3>1, <3>3, QuizTypesAssumption
      <4>2. /\ LogsOf(copy'[c]) = Ledger!WithAnswer(LogsOf(file), op[c])
            /\ copy'[c].skips = Ledger!WithSkips(file.skips, op[c], reach'[c])
            /\ Reachable(op[c], reach'[c])
        <5>1. IsWith(copy'[c], file, op[c], Ledger!ListsOf(op[c].types))
          BY <3>1, <4>1
        <5> QED BY <1>1, <5>1, AllAdded
      <4> QED BY <1>1, <3>1, <3>3, <4>2 DEF Advanced
    <3> QED BY <3>2, <3>3
  <2>2. CASE AddReverse(c)
    <3>1. IsWith(copy'[c], copy[c], op[c], {"reverse"}) /\ pc'[c] = "write"
      BY <1>1, <2>2, AddedIds DEF AddReverse, Lists, IInv, TypeOK
    <3>2. IsWith(copy'[c], file, op[c], Ledger!ListsOf(op[c].types))
      <4>1. CASE pc[c] = "add"
        <5>1. copy[c] = file /\ t = "reverse"
          BY <1>1, <1>3, <2>2, <4>1 DEF AddReverse, Advanced
        <5> QED BY <1>3, <3>1, <5>1
      <4>2. CASE pc[c] = "pair"
        <5>1. IsWith(copy[c], file, op[c], {"learned"}) /\ t = "freeform"
          BY <1>1, <1>3, <4>2 DEF Advanced
        <5>2. Ledger!ListsOf(op[c].types) = {"learned", "reverse"}
          BY <1>3, <5>1 DEF Lists
        <5> QED BY <3>1, <5>1, <5>2 DEF IsWith, Keys, Lists
      <4> QED BY <1>1, <4>1, <4>2
    <3>3. /\ LogsOf(copy'[c]) = Ledger!WithAnswer(LogsOf(file), op[c])
          /\ copy'[c].skips = Ledger!WithSkips(file.skips, op[c], reach'[c])
          /\ Reachable(op[c], reach'[c])
      BY <1>1, <3>2, AllAdded
    <3> QED BY <1>1, <3>1, <3>3 DEF Advanced
  <2> QED BY <2>1, <2>2
<1> QED BY <1>1, <1>4, MoveSerial

LEMMA SerialNext == OneClient /\ IInv /\ SerialInv /\ [Next]_vars => SerialInv'
<1> SUFFICES ASSUME OneClient, IInv, SerialInv, [Next]_vars PROVE SerialInv'
  OBVIOUS
<1> USE DEF Goto
<1>1. ASSUME NEW c \in Clients, NEW kind \in Offered, NEW word \in Words,
             NEW types \in SUBSET QuizTypes, NEW id \in 0 .. MaxCalls,
             Begin(c, kind, word, types, id)
      PROVE  SerialInv'
  <2>1. /\ pc'[c] = "read" /\ UNCHANGED <<file, db, copy>>
        /\ op'[c].kind = kind
        /\ owed' = IF kind = "resume" THEN [owed EXCEPT !.skips = @ \ Slots(op'[c], Concept[op'[c].word])]
                                      ELSE owed
    BY <1>1 DEF Begin, IInv, TypeOK
  <2>2. owed'.logs = owed.logs /\ owed'.skips \subseteq owed.skips
    BY <2>1 DEF IInv, TypeOK
  <2>3. kind = "resume" => owed'.skips \cap Slots(op'[c], Concept[op'[c].word]) = {}
    BY <2>1 DEF IInv, TypeOK
  <2>4. IsKept(file', owed') /\ IsMirrored(file', db')
    BY <2>1, <2>2 DEF SerialInv, IsKept
  <2>5. Advanced(pc'[c], op'[c], reach'[c], copy'[c], file') /\ IsAsked(pc'[c], op'[c], owed')
    BY <2>1, <2>3 DEF Advanced, IsAsked
  <2> QED BY <2>4, <2>5, SerialStep
<1>2. ASSUME NEW c \in Clients, Read(c) PROVE SerialInv'
  <2>1. /\ copy'[c] = file /\ pc'[c] \in {"add", "edit"}
        /\ pc[c] # "idle" /\ op'[c] = op[c] /\ UNCHANGED <<file, owed, db>>
    BY <1>2 DEF Read, IInv, TypeOK
  <2>2. Advanced(pc'[c], op'[c], reach'[c], copy'[c], file)
    BY <2>1 DEF Advanced
  <2> QED BY <2>1, <2>2, MoveSerial
<1>3. ASSUME NEW c \in Clients, Edit(c) PROVE SerialInv'
  <2>1. pc[c] = "edit" /\ copy[c] = file /\ UNCHANGED <<file, owed, db>>
    BY <1>3 DEF Edit, SerialInv, Advanced
  <2>2. ASSUME NEW readerFails \in BOOLEAN, EditSkips(c, readerFails) PROVE SerialInv'
    <3> DEFINE words == conceptMembersOrSelf(op[c].word, readerFails)
    <3>1. PICK skips :
            /\ SetSkips(c, skips)
            /\ op[c].kind \in {"skip", "resume"}
            /\ skips = IF op[c].kind = "skip" THEN copy[c].skips \cup Slots(op[c], words)
                                              ELSE copy[c].skips \ Slots(op[c], words)
      BY <2>2 DEF EditSkips, SkipWord, ResumeWord
    <3>2. /\ copy'[c].logs = file.logs /\ copy'[c].skips = skips
          /\ pc'[c] = "write" /\ op'[c] = op[c] /\ reach'[c] = words
      BY <2>1, <2>2, <3>1 DEF EditSkips, SetSkips, IInv, TypeOK, File
    <3>3. copy'[c].skips = Ledger!WithSkips(file.skips, op[c], words)
      BY <2>1, <3>1, <3>2 DEF Ledger!WithSkips, Ledger!Slots, Slots
    <3>4. Reachable(op[c], words)
      BY DEF Reachable, conceptMembersOrSelf
    <3> HIDE DEF words
    <3>5. Advanced(pc'[c], op'[c], reach'[c], copy'[c], file)
      BY <3>1, <3>2, <3>3, <3>4, NoneAdded DEF Advanced
    <3> QED BY <2>1, <3>2, <3>5, MoveSerial
  <2>3. CASE UpdateLog(c) /\ Goto(c, "write") /\ UNCHANGED <<copy, reach>>
    <3>1. op[c].kind = "override" /\ copy'[c] = file /\ pc'[c] = "write" /\ op'[c] = op[c]
      BY <2>1, <2>3 DEF UpdateLog, IInv, TypeOK
    <3>2. Advanced(pc'[c], op'[c], reach'[c], copy'[c], file)
      BY <3>1, NoneAdded DEF Advanced, Ledger!WithSkips, Reachable
    <3> QED BY <2>1, <3>1, <3>2, MoveSerial
  <2>4. CASE UpdateLog(c) /\ Return(c)
    BY <2>1, <2>4, ReturnSerial DEF SerialInv
  <2> QED BY <1>3, <2>2, <2>3, <2>4 DEF Edit, UpdateLog
<1>4. ASSUME NEW c \in Clients, Write(c) PROVE SerialInv'
  <2>1. /\ pc[c] = "write" /\ file' = copy[c] /\ UNCHANGED <<op, db, owed>>
        /\ pc'[c] \in {"mirror", "reply"}
        /\ LogsOf(file') = Ledger!WithAnswer(LogsOf(file), op[c])
        /\ file'.skips = Ledger!WithSkips(file.skips, op[c], reach[c])
        /\ Reachable(op[c], reach[c]) /\ reach' = reach
        /\ file \in File /\ file' \in File /\ op[c] \in Op
    BY <1>4 DEF Write, SerialInv, Advanced, IInv, TypeOK
  <2>2. /\ \A k \in Keys : Ids(file.logs[k]) \subseteq Ids(file'.logs[k])
        /\ op[c].kind # "resume" => file.skips \subseteq file'.skips
        /\ op[c].kind = "resume" => file'.skips = file.skips \ Slots(op[c], reach[c])
        /\ IsApplied(file', op[c], reach[c])
    BY <2>1, WrittenKeeps
  <2>3. IsKept(file', owed')
    <3>1. \A x \in owed.logs : <<x[1], x[2]>> \in Keys
      BY DEF IInv, TypeOK, Keys
    <3>2. owed.skips \subseteq file'.skips
      <4>1. CASE op[c].kind = "resume"
        <5>1. reach[c] \subseteq Concept[op[c].word]
          BY <2>1, <4>1, ConceptAssumption DEF Reachable, Op
        <5>2. owed.skips \cap Slots(op[c], reach[c]) = {}
          BY <2>1, <4>1, <5>1 DEF SerialInv, IsAsked, Slots
        <5> QED BY <2>2, <4>1, <5>2 DEF SerialInv, IsKept
      <4>2. CASE op[c].kind # "resume"
        BY <2>2, <4>2 DEF SerialInv, IsKept
      <4> QED BY <4>1, <4>2
    <3> QED BY <2>1, <2>2, <3>1, <3>2 DEF SerialInv, IsKept
  <2>4. IsMirrored(file', db')
    <3>1. \A r \in db, l \in Lists : <<l, r.word>> \in Keys
      BY DEF IInv, TypeOK, Keys
    <3> QED BY <2>1, <2>2, <3>1 DEF SerialInv, IsMirrored
  <2>5. Advanced(pc'[c], op'[c], reach'[c], copy'[c], file') /\ IsAsked(pc'[c], op'[c], owed')
    BY <2>1, <2>2 DEF Advanced, IsAsked, SerialInv
  <2> QED BY <2>3, <2>4, <2>5, SerialStep
<1>5. ASSUME NEW c \in Clients, Mirror(c) PROVE SerialInv'
  <2>1. /\ pc[c] = "mirror" /\ pc'[c] = "reply" /\ UNCHANGED <<op, file, reach, owed>>
        /\ db' \in {db, IF op[c].kind = "answer" THEN db \cup {Row(c)} ELSE db}
        /\ IsApplied(file, op[c], reach[c])
    BY <1>5 DEF Mirror, IInv, TypeOK, SerialInv, Advanced
  <2>2. IsMirrored(file', db')
    <3>1. ASSUME op[c].kind = "answer"
          PROVE  \E l \in Lists : Row(c).id \in Ids(file.logs[<<l, Row(c).word>>])
      <4>1. PICK t \in QuizTypes : op[c].types = {t}
        BY <3>1 DEF IInv, OpInv
      <4>2. \E l \in Lists : l \in Ledger!ListsOf(op[c].types)
        BY <4>1, OneType DEF Lists
      <4> QED BY <2>1, <3>1, <4>2 DEF IsApplied, Row
    <3> QED BY <2>1, <3>1 DEF SerialInv, IsMirrored
  <2>3. Advanced(pc'[c], op'[c], reach'[c], copy'[c], file')
    BY <2>1 DEF Advanced
  <2>4. IsAsked(pc'[c], op'[c], owed')
    BY <2>1 DEF IsAsked, SerialInv
  <2> QED BY <2>1, <2>2, <2>3, <2>4, SerialStep DEF SerialInv
<1>6. ASSUME NEW c \in Clients, Reply(c) PROVE SerialInv'
  <2>1. /\ Return(c) /\ UNCHANGED <<file, db>> /\ IsApplied(file, op[c], reach[c])
        /\ IsKept(file, owed)
    BY <1>6 DEF Reply, SerialInv, Advanced
  <2>2. IsKept(file, owed')
    <3>1. CASE op[c].kind = "answer"
      <4>1. PICK t \in QuizTypes : op[c].types = {t}
        BY <3>1 DEF IInv, OpInv
      <4>2. Added(op[c]) = {<<l, op[c].word, op[c].id>> : l \in Ledger!ListsOf(op[c].types)}
        BY <4>1, OneType
      <4>3. owed'.logs = owed.logs \cup Added(op[c]) /\ owed'.skips = owed.skips
        BY <1>6, <3>1 DEF Reply, IInv, TypeOK
      <4> QED BY <2>1, <3>1, <4>2, <4>3 DEF IsKept, IsApplied
    <3>2. CASE op[c].kind = "skip"
      <4>1. owed'.logs = owed.logs /\ owed'.skips = owed.skips \cup Slots(op[c], reach[c])
        BY <1>6, <3>2 DEF Reply, IInv, TypeOK
      <4> QED BY <2>1, <3>2, <4>1 DEF IsKept, IsApplied
    <3>3. CASE op[c].kind \notin {"answer", "skip"}
      BY <1>6, <2>1, <3>3 DEF Reply
    <3> QED BY <3>1, <3>2, <3>3
  <2> QED BY <2>1, <2>2, ReturnSerial
<1>7. ASSUME NEW c \in Clients, Fail(c) PROVE SerialInv'
  BY <1>7, ReturnSerial DEF Fail, SerialInv
<1>8. CASE Crash
  <2>1. ASSUME NEW c \in Clients PROVE SerialInv'
    <3>1. Advanced(pc'[c], op'[c], reach'[c], copy'[c], file') /\ IsAsked(pc'[c], op'[c], owed')
      BY <1>8 DEF Crash, Advanced, IsAsked
    <3> QED BY <1>8, <3>1, SerialStep DEF Crash, SerialInv
  <2>2. CASE Clients = {}
    BY <1>8, <2>2 DEF Crash, SerialInv, IsKept, IsMirrored
  <2> QED BY <2>1, <2>2
<1>9. CASE Tick \/ UNCHANGED vars
  <2>1. UNCHANGED <<file, db, pc, op, reach, copy, owed>>
    BY <1>9 DEF Tick, vars
  <2>2. ASSUME NEW c \in Clients PROVE SerialInv'
    BY <2>1, SerialStep DEF SerialInv
  <2>3. CASE Clients = {}
    BY <2>1, <2>3 DEF SerialInv, IsKept, IsMirrored
  <2> QED BY <2>2, <2>3
<1> QED BY <1>1, <1>2, <1>3, <1>4, <1>5, <1>6, <1>7, <1>8, <1>9, AddSerial DEF Next, Handle

\* With one request at a time, what a reply confirmed is in the file: through failed
\* writes, crashes and resumes, for any number of calls.
THEOREM ConfirmedIsKept == ASSUME OneClient PROVE Spec => []OwedKept
<1>1. SerialInv => OwedKept
  BY DEF SerialInv, IsKept, OwedKept
<1>2. IInv /\ SerialInv /\ [Next]_vars => SerialInv'
  BY SerialNext
<1> QED BY <1>1, <1>2, Invariance, SerialInit, PTL DEF Spec

\* With one request at a time the database has no answer the file lacks.
THEOREM RowsAreInTheFile == ASSUME OneClient PROVE Spec => []MirrorNeverAhead
<1>1. SerialInv => MirrorNeverAhead
  BY DEF SerialInv, IsMirrored, MirrorNeverAhead
<1>2. IInv /\ SerialInv /\ [Next]_vars => SerialInv'
  BY SerialNext
<1> QED BY <1>1, <1>2, Invariance, SerialInit, PTL DEF Spec

-----------------------------------------------------------------------------
(* Every step is a step of the ledger or leaves it alone *)

LedgerCalls == [c \in Clients |-> Call(pc[c])]

LEMMA LedgerInit == Init => Ledger!Init
<1> SUFFICES ASSUME Init PROVE Ledger!Init
  OBVIOUS
<1>1. LogsOf(file) = [k \in Ledger!Lists \X Words |-> {}]
  BY DEF Init, LogsOf, Ids, Empty, Keys, Lists, Ledger!Lists
<1>2. file.skips = {}
  BY DEF Init, Empty
<1>3. LedgerCalls = [c \in Clients |-> "idle"]
  BY DEF Init, LedgerCalls, Call
<1>4. op \in [Clients -> Ledger!Op]
  BY NoOpType DEF Init, Op, Ledger!Op, Ledger!Kinds
<1> QED BY <1>1, <1>2, <1>3, <1>4 DEF Ledger!Init, LogsOf, LedgerCalls

LEMMA LedgerOp == TypeOK => op \in [Clients -> Ledger!Op]
BY DEF TypeOK, Op, Ledger!Op, Ledger!Kinds

LEMMA SameLedgerLogs ==
    ASSUME UNCHANGED file
    PROVE  UNCHANGED <<LogsOf(file), file.skips>>
BY DEF LogsOf, Ids

\* A handler goes to a place: so does its call.
LEMMA CallMoves ==
    ASSUME TypeOK, NEW c \in Clients, NEW place, pc' = [pc EXCEPT ![c] = place]
    PROVE  LedgerCalls' = [LedgerCalls EXCEPT ![c] = Call(place)] /\ LedgerCalls[c] = Call(pc[c])
BY DEF LedgerCalls, TypeOK

LEMMA LedgerNext ==
    ASSUME OneClient, IInv, IInv', SerialInv, [Next]_vars
    PROVE  [Ledger!Next]_(Ledger!vars)
<1> USE DEF Goto
<1>t. TypeOK /\ op \in [Clients -> Ledger!Op] /\ op' \in [Clients -> Ledger!Op]
  BY LedgerOp DEF IInv, TypeOK, Op, Ledger!Op, Ledger!Kinds
\* A step that only moves a handler between places of one call.
<1>s. ASSUME NEW c \in Clients, NEW place, pc' = [pc EXCEPT ![c] = place], Call(place) = Call(pc[c]),
             UNCHANGED <<file, op>>
      PROVE  UNCHANGED Ledger!vars
  <2>1. LedgerCalls' = LedgerCalls
    BY <1>s, <1>t, CallMoves DEF LedgerCalls
  <2> QED BY <1>s, <2>1, SameLedgerLogs DEF Ledger!vars, LogsOf, LedgerCalls
\* A step that ends a call.
<1>r. ASSUME NEW c \in Clients, Return(c), UNCHANGED file, Call(pc[c]) # "idle"
      PROVE  Ledger!Next
  <2>1. LedgerCalls' = [LedgerCalls EXCEPT ![c] = "idle"] /\ LedgerCalls[c] = Call(pc[c])
    BY <1>r, <1>t, CallMoves DEF Return, Call
  <2>2. Ledger!AskedBy(c)
    BY <1>r, <1>t DEF Ledger!AskedBy, Return
  <2>3. LedgerCalls[c] \in {"pending", "applied"}
    BY <1>r, <2>1 DEF Call
  <2> QED BY <1>r, <2>1, <2>2, <2>3, SameLedgerLogs
          DEF Ledger!Next, Ledger!Reply, Ledger!Refuse, LogsOf, LedgerCalls
<1>1. ASSUME NEW c \in Clients, NEW kind \in Offered, NEW word \in Words,
             NEW types \in SUBSET QuizTypes, NEW id \in 0 .. MaxCalls,
             Begin(c, kind, word, types, id)
      PROVE  Ledger!Next
  <2>1. pc[c] = "idle" /\ pc' = [pc EXCEPT ![c] = "read"] /\ UNCHANGED file
    BY <1>1 DEF Begin
  <2>2. op' = [op EXCEPT ![c] = op'[c]]
    <3> DEFINE o == [kind |-> kind, word |-> word, types |-> types,
                     id |-> CASE kind = "answer"   -> calls + 1
                              [] kind = "override" -> id
                              [] OTHER             -> 0]
    <3>1. op' = [op EXCEPT ![c] = o]
      BY <1>1 DEF Begin
    <3> HIDE DEF o
    <3>2. op'[c] = o
      BY <3>1, <1>t
    <3> QED BY <3>1, <3>2
  <2>3. LedgerCalls' = [LedgerCalls EXCEPT ![c] = "pending"] /\ LedgerCalls[c] = "idle"
    <3>1. Call("read") = "pending" /\ Call("idle") = "idle"
      BY DEF Call
    <3> QED BY ZenonT(60), <2>1, <3>1, <1>t, CallMoves
  <2>4. Ledger!Request(c)
    <3>1. Ledger!AskedBy(c)
      BY <2>2, <1>t DEF Ledger!AskedBy
    <3> QED BY <2>1, <2>3, <3>1, SameLedgerLogs DEF Ledger!Request, LogsOf, LedgerCalls
  <2> QED BY <2>4 DEF Ledger!Next
<1>2. ASSUME NEW c \in Clients, Read(c) \/ AddLearned(c) \/ AddReverse(c) \/ Mirror(c)
      PROVE  UNCHANGED Ledger!vars
  <2>1. PICK place : pc' = [pc EXCEPT ![c] = place] /\ Call(place) = Call(pc[c])
    BY <1>2 DEF Read, AddLearned, AddReverse, Mirror, Call
  <2> QED BY <1>2, <1>s, <2>1 DEF Read, AddLearned, AddReverse, Mirror
<1>3. ASSUME NEW c \in Clients, Edit(c)
      PROVE  Ledger!Next \/ UNCHANGED Ledger!vars
  <2>1. CASE Return(c)
    BY <1>3, <1>r, <2>1 DEF Edit, Call
  <2>2. CASE Goto(c, "write")
    BY <1>3, <1>s, <2>2 DEF Edit, Call
  <2> QED BY <1>3, <2>1, <2>2 DEF Edit, EditSkips, SkipWord, ResumeWord, SetSkips, UpdateLog
<1>4. ASSUME NEW c \in Clients, Write(c)
      PROVE  Ledger!Next
  <2>1. /\ pc[c] = "write" /\ file' = copy[c] /\ UNCHANGED op
        /\ LogsOf(copy[c]) = Ledger!WithAnswer(LogsOf(file), op[c])
        /\ copy[c].skips = Ledger!WithSkips(file.skips, op[c], reach[c])
        /\ Reachable(op[c], reach[c])
    BY <1>4 DEF Write, SerialInv, Advanced
  <2>2. PICK place \in {"mirror", "reply"} : pc' = [pc EXCEPT ![c] = place]
    BY <1>4 DEF Write
  <2>3. LedgerCalls' = [LedgerCalls EXCEPT ![c] = "applied"] /\ LedgerCalls[c] = "pending"
    BY <2>1, <2>2, <1>t, CallMoves DEF Call
  <2>4. LogsOf(file)' = LogsOf(copy[c])
    BY <2>1 DEF LogsOf, Ids
  <2>5. \E words \in {Concept[op[c].word], {op[c].word}} :
            copy[c].skips = Ledger!WithSkips(file.skips, op[c], words)
    <3>1. CASE op[c].kind \in {"skip", "resume"}
      BY <2>1, <3>1 DEF Reachable
    <3>2. CASE op[c].kind \notin {"skip", "resume"}
      BY <2>1, <3>2 DEF Ledger!WithSkips
    <3> QED BY <3>1, <3>2
  <2>6. Ledger!TakeEffect(c)
    BY <2>1, <2>3, <2>4, <2>5 DEF Ledger!TakeEffect, LogsOf, LedgerCalls
  <2> QED BY <2>6 DEF Ledger!Next
<1>5. ASSUME NEW c \in Clients, Reply(c) \/ Fail(c)
      PROVE  Ledger!Next
  BY <1>5, <1>r DEF Reply, Fail, Call
<1>6. CASE Crash
  <2>1. LedgerCalls' = [c \in Clients |-> "idle"]
    BY <1>6 DEF Crash, LedgerCalls, Call
  <2>2. UNCHANGED file
    BY <1>6 DEF Crash
  <2> QED BY <2>1, <2>2, <1>t, SameLedgerLogs
          DEF Ledger!Next, Ledger!Crash, LogsOf, LedgerCalls
<1>7. CASE Tick \/ UNCHANGED vars
  <2>1. UNCHANGED <<file, pc, op>>
    BY <1>7 DEF Tick, vars
  <2>2. UNCHANGED LedgerCalls
    BY <2>1 DEF LedgerCalls
  <2> QED BY <2>1, <2>2, SameLedgerLogs DEF Ledger!vars, LogsOf, LedgerCalls
<1> QED BY <1>1, <1>2, <1>3, <1>4, <1>5, <1>6, <1>7 DEF Next, Handle

\* With one request at a time the file that is read, changed in memory and written back
\* whole is the ledger of the abstract specification: each call takes effect at once,
\* between request and reply, or not at all.
THEOREM StoreImplementsLedger == ASSUME OneClient PROVE Spec => ImplementsLedger
<1>1. IInv /\ SerialInv /\ [Next]_vars => SerialInv'
  BY SerialNext
<1>2. IInv /\ IInv' /\ SerialInv /\ [Next]_vars => [Ledger!Next]_(Ledger!vars)
  BY LedgerNext
<1> QED BY <1>1, <1>2, Invariance, SerialInit, LedgerInit, PTL DEF Spec, ImplementsLedger, Ledger!Spec
=============================================================================
