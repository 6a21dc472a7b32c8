---------------------------- MODULE ReviewChain ----------------------------
(***************************************************************************)
(* The review history of ONE expression: its learned_logs (recognition,    *)
(* free-form and grammar answers) and its reverse_logs (recall answers; a  *)
(* free-form answer goes to both), what the quizzes append to them, what   *)
(* the Override and Undo buttons rewrite in them, and what validate --fix  *)
(* makes of them.  One call at a time: HistoryStore has the interleavings. *)
(***************************************************************************)
EXTENDS IntervalSchedule, FiniteSets

CONSTANTS
    Calculators,    \* the algorithms configured: subset of Algorithms
    QuizTypes,      \* for each, the quizzes played: of {"notebook","freeform","reverse"}
    Outcomes,       \* for each, the grades given: records [correct, quality]
    ResponseTimes,
    Waits,          \* by how many ticks the learner waits (beside: until a list is due)
    Overrides,      \* BOOLEAN: do the Override and Undo buttons exist
    KeyKinds,       \* how a click addresses a log: subset of {"day", "instant"}
    Spacing,        \* how many ticks pass, at least, between two answers
    LegacySkip,     \* legacySkipThreshold of the validator
    MaxLogs,        \* bound: logs of one list
    MaxClock        \* bound: the last instant an answer is given at

VARIABLES
    calculator,  \* quiz.algorithm, fixed when the program starts
    learned,   \* learned_logs, newest first
    reverse,   \* reverse_logs, newest first
    skipped,   \* the quiz types in skipped_at
    captured,  \* overrides the page can undo: what it sent and was told
    clock,
    last       \* what the last step did; only the properties read it

ASSUME CalculatorsAssumption == Calculators \subseteq Algorithms
ASSUME QuizTypesAssumption == \A c \in Calculators : QuizTypes[c] \subseteq {"notebook", "freeform", "reverse"}
\* What is not correct has a grade below 3: extractAnswerResult and its relatives see to it.
ASSUME OutcomesAssumption ==
    \A c \in Calculators : \A o \in Outcomes[c] :
        o.correct \in BOOLEAN /\ o.quality \in 1 .. 5 /\ (~o.correct => o.quality < 3)
\* Two answers of one word are never given within a second.
ASSUME SpacingAssumption == Spacing \in Nat /\ Spacing >= SecondTicks
ASSUME BoundsAssumption == Waits \subseteq Nat /\ MaxLogs \in Nat /\ MaxClock \in Nat

vars == <<calculator, learned, reverse, skipped, captured, clock, last>>

Played == QuizTypes[calculator]

Lists == {"learned", "reverse"}

LogOf(at, rt, o, status, quizType) ==
    [at |-> at, rt |-> rt, quality |-> o.quality, status |-> status,
     quizType |-> quizType, interval |-> 0]

PrimaryLogList(quizType) == IF quizType = "reverse" THEN "reverse" ELSE "learned"
LogsOf(list) == IF list = "reverse" THEN reverse ELSE learned

\* Both lists after logs became the value of one of them.
SetLogs(list, logs) ==
    /\ learned' = IF list = "learned" THEN logs ELSE learned
    /\ reverse' = IF list = "reverse" THEN logs ELSE reverse

Prepend(logs, tentative) ==
    <<[tentative EXCEPT !.at = ToSecond(@),
                        !.interval = NextIntervalForWrite(calculator, logs, tentative)]>> \o logs

StatusOf(correct, isKnownWord) ==
    CASE ~correct -> "misunderstood"
      [] correct /\ isKnownWord -> "understood"
      [] OTHER -> "usable"

-----------------------------------------------------------------------------
(* A quiz records an answer *)

\* AddRecordWithQuality or its reverse twin: one list grows.
Record(quizType, o, rt) ==
    LET list == PrimaryLogList(quizType)
        log  == LogOf(clock, rt, o, StatusOf(o.correct, TRUE), quizType)
    IN  /\ Len(LogsOf(list)) < MaxLogs
        /\ SetLogs(list, Prepend(LogsOf(list), log))
        /\ clock' = clock + Spacing
        /\ last' = [op |-> "other"]

\* A free-form answer is recorded in both lists (HistoryStore has the case of
\* the clock moving on between the two stamps).
RecordFreeform(o, rt) ==
    LET log == LogOf(clock, rt, o, StatusOf(o.correct, FALSE), "freeform")
    IN  /\ Len(learned) < MaxLogs /\ Len(reverse) < MaxLogs
        /\ learned' = Prepend(learned, log)
        /\ reverse' = Prepend(reverse, log)
        /\ clock' = clock + Spacing
        /\ last' = [op |-> "other"]

Answer ==
    /\ \E o \in Outcomes[calculator], rt \in ResponseTimes :
           \/ \E quizType \in Played \ {"freeform"} : Record(quizType, o, rt)
           \/ "freeform" \in Played /\ RecordFreeform(o, rt)
    /\ UNCHANGED <<calculator, skipped, captured>>

-----------------------------------------------------------------------------
(* Override and Undo *)

\* What the client sends for a log: its date, or its full timestamp.
KeyOf(kind, log) == [kind |-> kind, value |-> IF kind = "day" THEN Day(log.at) ELSE log.at]
Matches(log, key) == key = KeyOf(key.kind, log)

\* Mutant: the first log is taken, whatever was clicked.
NewestLog(logs, key) == IF logs = << >> THEN 0 ELSE 1

\* The newest log that matches, whatever quiz wrote it; 0 if none does.
IndexLogByLearnedAt(logs, key) ==
    LET hits == {i \in DOMAIN logs : Matches(logs[i], key)}
    IN  IF hits = {} THEN 0 ELSE CHOOSE i \in hits : \A j \in hits : i <= j

Marked(log, correct, quizType) ==
    IF correct
    THEN [log EXCEPT !.quality = 4,
                     !.status = IF quizType = "freeform" THEN "usable" ELSE "understood"]
    ELSE [log EXCEPT !.quality = 1, !.status = "misunderstood"]

\* A free-form change is copied to the log of reverse_logs with the same
\* timestamp, or failing that to the newest one of the same day.
PairIndex(log) ==
    LET exact == IndexLogByLearnedAt(reverse, KeyOf("instant", log))
    IN  IF exact # 0 THEN exact ELSE IndexLogByLearnedAt(reverse, KeyOf("day", log))

\* Mutant: the override stays in learned_logs.
MirrorNothing(log) == reverse

MirrorToPair(log) ==
    IF PairIndex(log) = 0 THEN reverse
    ELSE [reverse EXCEPT ![PairIndex(log)] =
             [@ EXCEPT !.quality = log.quality, !.status = log.status,
                       !.interval = log.interval]]

\* Both lists after the i-th log of quizType's list became log.
Rewrite(quizType, i, log) ==
    LET list == PrimaryLogList(quizType)
    IN  IF quizType = "freeform"
        THEN learned' = [learned EXCEPT ![i] = log] /\ reverse' = MirrorToPair(log)
        ELSE SetLogs(list, [LogsOf(list) EXCEPT ![i] = log])

\* The learner clicks the answer `clicked` that quizType gave.
OverrideLog(quizType, clicked, kind) ==
    LET list == PrimaryLogList(quizType)
        logs == LogsOf(list)
        key  == KeyOf(kind, logs[clicked])
        i    == IndexLogByLearnedAt(logs, key)
        mark == Marked(logs[i], logs[clicked].status = "misunderstood", quizType)
        new  == [mark EXCEPT !.interval =
                    NextIntervalForWrite(calculator, SubSeq(logs, i + 1, Len(logs)), mark)]
    IN  /\ logs[clicked].quizType = quizType
        /\ Rewrite(quizType, i, new)
        /\ captured' = {[quizType |-> quizType, key |-> key, quality |-> logs[i].quality,
                         status |-> logs[i].status, interval |-> logs[i].interval,
                         learned |-> learned, reverse |-> reverse]}
        /\ last' = [op |-> "override", clicked |-> logs[clicked].at, hit |-> logs[i].at]
        /\ UNCHANGED <<calculator, skipped, clock>>

\* Mutant: Undo brings the mark back and leaves the interval.
UndoKeepsInterval(c) ==
    LET logs == LogsOf(PrimaryLogList(c.quizType))
        i    == IndexLogByLearnedAt(logs, c.key)
    IN  /\ i # 0
        /\ Rewrite(c.quizType, i, [logs[i] EXCEPT !.quality = c.quality, !.status = c.status])
        /\ captured' = captured \ {c}
        /\ last' = [op |-> "undo", hit |-> logs[i].at, of |-> c]
        /\ UNCHANGED <<calculator, skipped, clock>>

\* The learner clicks Undo: what the page was told goes back in, addressed by
\* the key the override was addressed by.
UndoOverrideLog(c) ==
    LET list == PrimaryLogList(c.quizType)
        logs == LogsOf(list)
        i    == IndexLogByLearnedAt(logs, c.key)
    IN  /\ i # 0
        /\ Rewrite(c.quizType, i, [logs[i] EXCEPT !.quality = c.quality,
                      !.status = c.status, !.interval = c.interval])
        /\ captured' = captured \ {c}
        /\ last' = [op |-> "undo", hit |-> logs[i].at, of |-> c]
        /\ UNCHANGED <<calculator, skipped, clock>>

-----------------------------------------------------------------------------
(* validate --fix and the passage of time *)

\* A long interval is read as the skip marker of an older version.
IsLegacySkip(logs) == logs # << >> /\ logs[1].interval >= LegacySkip
ClearLegacySkip(logs) == IF IsLegacySkip(logs) THEN [logs EXCEPT ![1].interval = 0] ELSE logs

FixLogs(logs) == RecalculateAll(calculator, ClearLegacySkip(logs))

ValidateFix ==
    /\ skipped' = skipped \cup {logs[1].quizType : logs \in {l \in {learned, reverse} : IsLegacySkip(l)}}
    /\ learned' = FixLogs(learned)
    /\ reverse' = FixLogs(reverse)
    /\ last' = [op |-> "other"]
    /\ UNCHANGED <<calculator, captured, clock>>

\* The instants at which the lists come due.
DueAt == {l[1].at + l[1].interval * TicksPerDay : l \in {learned, reverse} \ {<< >>}}

Wait(until) ==
    /\ until > clock /\ until <= MaxClock
    /\ clock' = until
    /\ last' = [op |-> "other"]
    /\ UNCHANGED <<calculator, learned, reverse, skipped, captured>>

Init ==
    /\ calculator \in Calculators
    /\ learned = << >> /\ reverse = << >>
    /\ skipped = {} /\ captured = {}
    /\ clock = SecondTicks
    /\ last = [op |-> "other"]

ClickOverride ==
    /\ Overrides
    /\ \E quizType \in Played, kind \in KeyKinds :
           \E i \in DOMAIN LogsOf(PrimaryLogList(quizType)) : OverrideLog(quizType, i, kind)

ClickUndo == \E c \in captured : UndoOverrideLog(c)

Next ==
    \/ Answer
    \/ ClickOverride
    \/ ClickUndo
    \/ ValidateFix
    \/ \E until \in {clock + w : w \in Waits} \cup DueAt : Wait(until)

Spec == Init /\ [][Next]_vars

-----------------------------------------------------------------------------
(* Properties *)

Log == [at : Nat, rt : ResponseTimes, quality : Qualities, status : Statuses,
        quizType : Played, interval : Nat \ {0}]

\* Every stored log carries a status, a quality and an interval of at least a day.
TypeOK ==
    /\ learned \in Seq(Log) /\ reverse \in Seq(Log)
    /\ skipped \subseteq Played
    /\ clock \in Nat

\* What the live quiz stored is what validate --fix computes for the same logs
\* later (interval.go says so of NextIntervalForWrite): a fix changes nothing.
StoredIsReplay == RecalculateAll(calculator, learned) = learned /\ RecalculateAll(calculator, reverse) = reverse

\* Whatever was overridden before, one validate --fix leaves lists that the next one
\* leaves alone. ReviewChainProofs proves it, and so no run checks it.
FixIsFinal == \A logs \in {learned, reverse} : FixLogs(FixLogs(logs)) = FixLogs(logs)

Answered(old, new) == old # << >> /\ Len(new) = Len(old) + 1

\* NeedsForwardReview and NeedsReverseReview, for logs that carry an interval.
Due(logs) ==
    \/ logs = << >>
    \/ logs[1].status = "misunderstood"
    \/ (clock - logs[1].at) \div TicksPerDay >= logs[1].interval

\* The loaders count whole days of 24 hours and the guard counts calendar days;
\* still, a word that is served because its interval is over and is answered
\* well always moves to a longer interval, unless it is at the last level.
AdvancesWhenDue(old, new) ==
    (/\ Answered(old, new)
     /\ old[1].status # "misunderstood"
     /\ Due(old)
     /\ new[1].quality >= 3)
    => \/ new[1].interval > old[1].interval
       \/ calculator = "fixed" /\ new[1].interval = FixedIntervals[Len(FixedIntervals)]
DueAnswerAdvances == [][AdvancesWhenDue(learned, learned') /\ AdvancesWhenDue(reverse, reverse')]_vars

\* A good grade never brings the next review closer than the last interval had it,
\* and, counted in calendar days before that interval is over, does not move it out
\* either (the early-review guard); a bad one never pushes it out.
FollowsGrade(old, new) ==
    LET early == CalendarDaysBetween(old[1].at, new[1].at) < old[1].interval
    IN  Answered(old, new) =>
            /\ new[1].quality >= 3 => new[1].interval >= old[1].interval
            /\ new[1].quality < 3 \/ early => new[1].interval <= old[1].interval
IntervalFollowsGrade == [][FollowsGrade(learned, learned') /\ FollowsGrade(reverse, reverse')]_vars

\* An override rewrites the log of the answer that was clicked.
OverrideHitsClicked == last.op = "override" => last.hit = last.clicked

LogAt(logs, at) == CHOOSE i \in DOMAIN logs : logs[i].at = at

\* Undo puts the overridden log back as it was, whatever was answered or fixed
\* in between.
UndoRestoresLog ==
    last.op = "undo" =>
        LET list == PrimaryLogList(last.of.quizType)
            now  == LogsOf(list)
            then == IF list = "reverse" THEN last.of.reverse ELSE last.of.learned
        IN  now[LogAt(now, last.hit)] = then[LogAt(then, last.hit)]

\* The two halves of a free-form answer agree on whether it was right.
HalvesAgree ==
    \A i \in DOMAIN learned : learned[i].quizType = "freeform" =>
        \E j \in DOMAIN reverse :
            /\ reverse[j].at = learned[i].at /\ reverse[j].quizType = "freeform"
            /\ reverse[j].quality = learned[i].quality
            /\ reverse[j].status = learned[i].status
=============================================================================
