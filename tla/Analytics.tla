------------------------------ MODULE Analytics ------------------------------
(***************************************************************************)
(* The analytics pages and the statistics report over the stored history   *)
(* of the word of ReviewChain: a day list, a day's cards, its history and  *)
(* the trends.  They write nothing; each page walks the files anew, so it  *)
(* is an operator over the present state.  The word has no origin logs,    *)
(* its notebook is the only one.  Pages are served in the zone the answers *)
(* were given in; DBRepository is not modelled, no program constructs one. *)
(***************************************************************************)
EXTENDS ReviewChain, FiniteSetsExt

\* The boxes of the charts: the default levels, whatever levels are configured.
DefaultFixedIntervals == <<1, 7, 30, 90, 365, 1095, 1825>>

RecentPatternLength == 5

\* A filter on a quiz type; "" filters nothing.
Filters == {""} \cup Played

IsWrong(a) == a.status = "misunderstood"

\* The elements at some places, in their order.
Selected(seq, hits) ==
    Listed([n \in 1 .. Cardinality(hits) |->
               seq[CHOOSE i \in hits : Cardinality({j \in hits : j <= i}) = n]])

\* A free-form answer has a log in each list, under its own quiz type.
ExpressionAttempts(quizType) ==
    LET all == learned \o reverse
    IN  Selected(all, {i \in DOMAIN all : quizType \in {"", all[i].quizType}})

SeriesOf(quizType) == ExpressionAttempts(quizType)

ByNewest(as) ==
    SortedBy(as, {p \in Pairs(as) : as[p[1]].at > as[p[2]].at})
ByOldest(as) ==
    SortedBy(as, {p \in Pairs(as) :
                      \/ as[p[1]].at < as[p[2]].at
                      \/ as[p[1]].at = as[p[2]].at /\ as[p[1]].quality < as[p[2]].quality})

-----------------------------------------------------------------------------
(* streak.go; as is sorted newest first *)

\* How many attempts at the head of as are all wrong, or all right.
RunLength(as, wrong) == Max({n \in 0 .. Len(as) : \A i \in 1 .. n : IsWrong(as[i]) = wrong})

From(as, i) == SubSeq(as, i, Len(as))

RecentPattern(as) ==
    [p \in 1 .. RecentPatternLength |->
        LET i == RecentPatternLength + 1 - p
        IN  IF i > Len(as) THEN "none" ELSE IF IsWrong(as[i]) THEN "wrong" ELSE "correct"]

CurrentWrongStreak(as) == RunLength(as, TRUE)

PreviousCorrectStreak(as) ==
    IF CurrentWrongStreak(as) = 0 THEN 0
    ELSE RunLength(From(as, CurrentWrongStreak(as) + 1), FALSE)

StreakBeforeAttempt(as, i) ==
    LET before == From(as, i + 1)
    IN  [wrong |-> RunLength(before, TRUE), correct |-> RunLength(before, FALSE)]

-----------------------------------------------------------------------------
(* yaml_repository.go *)

OnDay(as, day) == Selected(as, {i \in DOMAIN as : Day(as[i].at) = day})
DaysOf(as) == {Day(as[i].at) : i \in DOMAIN as}
QuizTypesOf(as) == {as[i].quizType : i \in DOMAIN as}

Rollup(as, day) ==
    LET own == OnDay(as, day)
    IN  [date |-> day, total |-> Len(own), wrong |-> Cardinality({i \in DOMAIN own : IsWrong(own[i])}),
         quizTypes |-> QuizTypesOf(own)]

\* The cutoff is an instant: the oldest day of a range may be cut short.
DailySummaries(rangeDays, quizType) ==
    LET cutoff == clock - rangeDays * TicksPerDay
        all == ExpressionAttempts(quizType)
        as == Selected(all, {i \in DOMAIN all : rangeDays = 0 \/ all[i].at >= cutoff})
    IN  {Rollup(as, day) : day \in DaysOf(as)}

\* Mutant: the card starts at the first miss of the day.
CardOfFirstMiss(quizType, day) ==
    LET as  == ByNewest(SeriesOf(quizType))
        hit == CHOOSE i \in DOMAIN as :
                  /\ IsWrong(as[i]) /\ Day(as[i].at) = day
                  /\ \A j \in i + 1 .. Len(as) : ~(IsWrong(as[j]) /\ Day(as[j].at) = day)
        fromHit == From(as, hit)
    IN  [quizType |-> quizType, learnedAt |-> as[hit].at, recentPattern |-> RecentPattern(fromHit),
         currentWrongStreak |-> CurrentWrongStreak(fromHit),
         previousCorrectStreak |-> PreviousCorrectStreak(fromHit),
         skipped |-> quizType \in skipped]

\* One card for each quiz type the word was missed in that day, from the last
\* miss of the day on backwards.
CardOf(quizType, day) ==
    LET as  == ByNewest(SeriesOf(quizType))
        hit == CHOOSE i \in DOMAIN as :
                  /\ IsWrong(as[i]) /\ Day(as[i].at) = day
                  /\ \A j \in 1 .. i - 1 : ~(IsWrong(as[j]) /\ Day(as[j].at) = day)
        fromHit == From(as, hit)
    IN  [quizType |-> quizType, learnedAt |-> as[hit].at, recentPattern |-> RecentPattern(fromHit),
         currentWrongStreak |-> CurrentWrongStreak(fromHit),
         previousCorrectStreak |-> PreviousCorrectStreak(fromHit),
         skipped |-> quizType \in skipped]

NoDay == -1

\* The neighbours of a day among the days that have attempts.
AdjacentDates(days, day) ==
    [previous |-> Max({NoDay} \cup {d \in days : d < day}),
     next |-> LET later == {d \in days : d > day} IN IF later = {} THEN NoDay ELSE Min(later)]

DayDetail(day, quizType) ==
    LET as     == ExpressionAttempts(quizType)
        missed == {as[i].quizType : i \in {j \in DOMAIN as : IsWrong(as[j]) /\ Day(as[j].at) = day}}
    IN  [summary |-> Rollup(as, day),
         wrongWords |-> {CardOf(type, day) : type \in missed},
         adjacent |-> AdjacentDates(DaysOf(as), day)]

\* The panel of one quiz type: its attempts, each with the streak before it.
WordHistory(quizType) ==
    LET as == ByNewest(ExpressionAttempts(quizType))
    IN  [currentWrongStreak |-> CurrentWrongStreak(as),
         attempts |-> [i \in DOMAIN as |->
             [date |-> as[i].at, result |-> IF IsWrong(as[i]) THEN "wrong" ELSE "correct",
              before |-> StreakBeforeAttempt(as, i)]]]

-----------------------------------------------------------------------------
(* trends.go *)

IsRetained(a) == a.status \in {"understood", "usable"}
IsMastered(a) == a.status = "usable"

\* The highest box whose interval is still within the stored one.
LevelBox(a) == Max({1} \cup {b \in DOMAIN DefaultFixedIntervals : DefaultFixedIntervals[b] <= a.interval})

\* The attempts of a series, oldest first, with what each of them changed.
Flags(quizType) ==
    LET as == ByOldest(SeriesOf(quizType))
    IN  {[seq |-> i, attempt |-> as[i],
          crossing |-> IsRetained(as[i]) /\ ~(i > 1 /\ IsRetained(as[i - 1])),
          levelUp |-> i > 1 /\ LevelBox(as[i]) > LevelBox(as[i - 1]),
          lapse   |-> i > 1 /\ LevelBox(as[i]) < LevelBox(as[i - 1])] : i \in DOMAIN as}

AllFlags(quizType) ==
    UNION {Flags(type) : type \in IF quizType = "" THEN Played ELSE {quizType}}

\* Mutant: the window ends where its last day begins.
EndOfDayBefore(end) == end * TicksPerDay

\* Both ends are days, the last one is counted whole.
EndExclusive(end) == (end + 1) * TicksPerDay

InRange(f, start, end) == f.attempt.at >= start * TicksPerDay /\ f.attempt.at < EndExclusive(end)

\* The word counts once among the tested and the learned.
Aggregate(flags) ==
    [attempts |-> Cardinality(flags),
     wordsTested |-> IF flags = {} THEN 0 ELSE 1,
     wordsLearned |-> IF \E f \in flags : f.crossing THEN 1 ELSE 0,
     levelUps |-> Cardinality({f \in flags : f.levelUp}),
     lapses |-> Cardinality({f \in flags : f.lapse})]

BucketOf(flags, day) == Aggregate({f \in flags : Day(f.attempt.at) = day})

\* Where the word stands at the end of the range: mastered if the last attempt
\* of any of its quiz types is, never correct if no attempt was right.
ComputeBacklog(quizType, end) ==
    LET before == {f \in AllFlags(quizType) : f.attempt.at < EndExclusive(end)}
        final(f) == \A g \in before : g.attempt.quizType = f.attempt.quizType => g.seq <= f.seq
    IN  CASE before = {} -> "none"
          [] \E f \in before : final(f) /\ IsMastered(f.attempt) -> "mastered"
          [] before # {} /\ \A f \in before : IsWrong(f.attempt) -> "never_correct"
          [] OTHER -> "in_progress"

ComputeTrends(quizType, start, end) ==
    LET flags == {f \in AllFlags(quizType) : InRange(f, start, end)}
    IN  [buckets |-> [day \in {Day(f.attempt.at) : f \in flags} |-> BucketOf(flags, day)],
         summary |-> Aggregate(flags),
         backlog |-> ComputeBacklog(quizType, end)]

-----------------------------------------------------------------------------
(* statistics: the report of "langner analyze" over learned_logs, a month at a   *)
(* time                                                                          *)

\* The length of a month, short enough for the runs to reach the next one.
DaysPerMonth == 2
MonthOf(a) == Day(a.at) \div DaysPerMonth

AllMonths == -1
MatchesFilter(a, month) == month \in {AllMonths, MonthOf(a)}

\* The successful answers, oldest first; the first of them, in whichever month it
\* is, learned the word, and the others relearned it.
ProcessExpression(month) ==
    LET old   == Backwards(learned)
        right == Selected(old, {i \in DOMAIN old : ~IsWrong(old[i])})
    IN  {[month |-> MonthOf(right[i]), nth |-> i, kind |-> IF i = 1 THEN "new word" ELSE "relearn"] :
            i \in {j \in DOMAIN right : MatchesFilter(right[j], month)}}

Report(events, key) ==
    [kind \in {"new word", "relearn"} |->
        LET own == {e \in events : e.month = key /\ e.kind = kind}
        IN  [count |-> Cardinality(own), unique |-> IF own = {} THEN 0 ELSE 1]]

\* A row for each month that has successful answers.
CalculateStatistics(month) ==
    LET events == ProcessExpression(month)
    IN  [key \in {e.month : e \in events} |-> Report(events, key)]

-----------------------------------------------------------------------------
(* Properties *)

Today == Day(clock)

\* The trends of one day alone: one bucket, or none.
TrendsOfDay(quizType, day) == ComputeTrends(quizType, day, day)

\* The pages agree about a day: the row of the day list, the summary over the
\* day's cards and the trends of that day count the same attempts, there are
\* cards if something was missed, and "previous" and "next" walk the day list.
DayAgrees(quizType, day) ==
    LET rows   == DailySummaries(0, quizType)
        detail == DayDetail(day, quizType)
        trends == TrendsOfDay(quizType, day)
    IN  /\ detail.summary.total > 0 => detail.summary \in rows
        /\ detail.summary.total = 0 => \A r \in rows : r.date # day
        /\ trends.summary.attempts = detail.summary.total
        /\ DOMAIN trends.buckets \subseteq {day}
        /\ (detail.summary.wrong = 0) = (detail.wrongWords = {})
        /\ \A r \in rows : r.date < day => r.date <= detail.adjacent.previous
        /\ \A r \in rows : r.date > day => r.date >= detail.adjacent.next /\ detail.adjacent.next > day

\* Whoever was right once was counted as learned on some day, and only they.
LearnedAgrees(quizType) ==
    LET trends == ComputeTrends(quizType, 0, Today)
    IN  (trends.summary.wordsLearned = 1) = (trends.backlog \in {"in_progress", "mastered"})

\* The report of one month is the row the whole report has for it, a word is new
\* once, and it is new if the trends count it as learned from those answers.
StatisticsAgree ==
    LET all == CalculateStatistics(AllMonths)
        new == {key \in DOMAIN all : all[key]["new word"].count > 0}
    IN  /\ \A month \in 0 .. Today \div DaysPerMonth :
              LET alone == CalculateStatistics(month)
              IN  /\ DOMAIN alone = DOMAIN all \cap {month}
                  /\ month \in DOMAIN all => alone[month] = all[month]
        /\ Cardinality(new) <= 1
        /\ \A key \in new : \A other \in DOMAIN all : key <= other
        /\ (new # {}) = (\E type \in Played \cap {"notebook", "freeform"} :
                            ComputeTrends(type, 0, Today).summary.wordsLearned = 1)

ReportsAgree ==
    /\ \A quizType \in Filters :
        /\ \A day \in 0 .. Today : DayAgrees(quizType, day)
        /\ LearnedAgrees(quizType)
    /\ StatisticsAgree

\* A card tells of its miss what the word's panel tells: the miss is there, the
\* streak of the card is the streak before it and the miss itself, and the card
\* of the newest attempt shows the panel's own streak.
CardTellsHistory ==
    \A day \in 0 .. Today : \A c \in DayDetail(day, "").wrongWords :
        LET panel == WordHistory(c.quizType)
        IN  \E i \in DOMAIN panel.attempts :
                LET e == panel.attempts[i]
                IN  /\ e.date = c.learnedAt /\ e.result = "wrong"
                    /\ \A j \in 1 .. i - 1 : Day(panel.attempts[j].date) = day =>
                           panel.attempts[j].result = "correct"
                    /\ c.currentWrongStreak = e.before.wrong + 1
                    /\ e.before.wrong = 0 => c.previousCorrectStreak = e.before.correct
                    /\ i = 1 => c.currentWrongStreak = panel.currentWrongStreak
=============================================================================
