-------------------------- MODULE IntervalSchedule --------------------------
(***************************************************************************)
(* The spaced-repetition arithmetic of notebook/interval.go and            *)
(* notebook/sm2.go.  A log list is a sequence, newest log first, of        *)
(* records                                                                 *)
(*                                                                         *)
(*   [at, rt, quality, status, quizType, interval]                         *)
(*                                                                         *)
(* at is an instant in ticks: TicksPerDay ticks make a calendar day and    *)
(* SecondTicks of them a second, the precision a date keeps when it is     *)
(* written to YAML.  rt is the response time.  The easiness factor is kept *)
(* in hundredths, so the products below are exact; the float64 of the code *)
(* can land one day higher when the exact product is a whole number.       *)
(* override_interval is left out: no writer of the program sets it to      *)
(* anything but zero.                                                      *)
(***************************************************************************)
EXTENDS Integers, Sequences, FiniteSets

CONSTANTS
    FixedIntervals,  \* the levels, in days, of the fixed algorithm
    TicksPerDay,
    SecondTicks

ASSUME FixedIntervalsAssumption ==
    /\ FixedIntervals \in Seq(Nat \ {0})
    /\ FixedIntervals # << >>
ASSUME TicksAssumption ==
    /\ TicksPerDay \in Nat \ {0}
    /\ SecondTicks \in Nat \ {0}
    /\ TicksPerDay % SecondTicks = 0

\* quiz.algorithm of the configuration: the calculator the operators are given.
Algorithms == {"sm2", "fixed"}

Statuses  == {"misunderstood", "understood", "usable"}
Qualities == 0 .. 5

Larger(a, b)  == IF a < b THEN b ELSE a
Smaller(a, b) == IF a < b THEN a ELSE b
CeilDiv(a, b) == (a + b - 1) \div b

Day(at) == at \div TicksPerDay

\* What a date is after it went through a YAML file: whole seconds.
ToSecond(at) == at - (at % SecondTicks)

-----------------------------------------------------------------------------
(* sm2.go *)

DefaultEasinessFactor == 250
MinEasinessFactor     == 130

\* The delta of the shifted grade: 5 for a quality of 4 or more, and so on.
EasinessDelta(quality) ==
    CASE quality = 0 -> -54
      [] quality = 1 -> -32
      [] quality = 2 -> -14
      [] quality = 3 -> 0
      [] OTHER       -> 10

\* The replay resets the streak before a wrong answer gets here, so the scaled
\* penalty for a streak above two is never taken; it is left out.
UpdateEasinessFactor(ef, quality) ==
    Larger(ef + EasinessDelta(quality), MinEasinessFactor)

\* The 0.6 and 0.7 multipliers need a streak a lapse has already reset.
CalculateLapseInterval(last) == Larger(1, CeilDiv(last, 2))

Grow(last, ef) == CeilDiv(last * ef, 100)

CalculateNextInterval(last, ef, quality, streak) ==
    CASE quality < 3                      -> CalculateLapseInterval(last)
      [] quality >= 3 /\ last > 0         -> Grow(last, ef)
      [] quality >= 3 /\ last = 0         -> CASE streak = 1 -> 3
                                               [] streak = 2 -> 10
                                               [] OTHER      -> Grow(10, ef)

-----------------------------------------------------------------------------
(* FixedLevelCalculator *)

QualityToLevelDelta(quality) ==
    CASE quality >= 5 -> 2
      [] quality \in {3, 4} -> 1
      [] OTHER -> -1

\* The last level whose interval is not above the stored one, else the first.
LevelFromInterval(last) ==
    LET reached == {l \in DOMAIN FixedIntervals : FixedIntervals[l] <= last}
    IN  IF reached = {} THEN 1
        ELSE CHOOSE l \in reached : \A m \in reached : m <= l

CalculateFixedInterval(last, quality) ==
    LET level == (IF last > 0 THEN LevelFromInterval(last) ELSE 1)
                     + QualityToLevelDelta(quality)
    IN  FixedIntervals[Larger(1, Smaller(level, Len(FixedIntervals)))]

-----------------------------------------------------------------------------
(* The replay shared by the live write and by validate --fix *)

StatusRank(status) ==
    CASE status = "misunderstood" -> 1
      [] status = "understood"    -> 2
      [] OTHER                    -> 3
QuizTypeRank(quizType) ==
    CASE quizType = "freeform" -> 1
      [] quizType = "notebook" -> 2
      [] OTHER                 -> 3

TieBefore(a, b) ==
    \/ a.rt < b.rt
    \/ a.rt = b.rt /\ a.quality < b.quality
    \/ /\ a.rt = b.rt /\ a.quality = b.quality
       /\ StatusRank(a.status) < StatusRank(b.status)
    \/ /\ a.rt = b.rt /\ a.quality = b.quality /\ a.status = b.status
       /\ QuizTypeRank(a.quizType) < QuizTypeRank(b.quizType)

\* A tie is broken the same way in both directions.
LearningRecordBefore(a, b, ascending) ==
    \/ a.at # b.at /\ (IF ascending THEN a.at < b.at ELSE a.at > b.at)
    \/ a.at = b.at /\ TieBefore(a, b)

\* A function over 1 .. n as the sequence it is: TLC then computes each element once.
Listed(f) == << >> \o f

\* From the last to the first.
Backwards(logs) == [n \in 1 .. Len(logs) |-> logs[Len(logs) + 1 - n]]

Pairs(seq) == (DOMAIN seq) \X (DOMAIN seq)

\* Where each element goes when seq is sorted: behind those that go before it and, of
\* the others, those it was behind.  before holds <<i, j>> if the i-th goes before the
\* j-th; sort.Slice leaves lists of up to twelve in this order, as it inserts one by one.
Places(seq, before) ==
    Listed([i \in DOMAIN seq |-> Cardinality({j \in DOMAIN seq :
                <<j, i>> \in before \/ (j <= i /\ <<i, j>> \notin before)})])

SortedBy(seq, before) ==
    LET place == Places(seq, before)
    IN  Listed([n \in DOMAIN seq |-> seq[CHOOSE i \in DOMAIN seq : place[i] = n]])

Sorted(logs, ascending) ==
    SortedBy(logs, {p \in Pairs(logs) :
                        LearningRecordBefore(logs[p[1]], logs[p[2]], ascending)})

OldestFirst(logs) == Sorted(logs, TRUE)
NewestFirst(logs) == Sorted(logs, FALSE)

\* A log without a quality gets one from its status, and SM-2 (only) lowers
\* the quality of a misunderstood log that claims to be a good answer.
ReplayQuality(c, log) ==
    CASE log.quality = 0 -> IF log.status = "misunderstood" THEN 1 ELSE 4
      [] /\ c = "sm2"
         /\ log.status = "misunderstood"
         /\ log.quality >= 3 -> 2
      [] OTHER -> log.quality

CalendarDaysBetween(from, to) == Larger(0, Day(to) - Day(from))

\* Mutants: no guard; off by one day.
NoGuard(quality, last, elapsed, next) == next
GuardOneDayLong(quality, last, elapsed, next) ==
    IF quality >= 3 /\ last > 0 /\ elapsed <= last /\ next > last THEN last ELSE next

\* A correct answer before the previous interval has elapsed never advances it.
EarlyReviewGuard(quality, last, elapsed, next) ==
    IF quality >= 3 /\ last > 0 /\ elapsed < last /\ next > last
    THEN last
    ELSE next

\* One log of the replay: prev is the state after the log before it.
ReplayStep(c, prev, log) ==
    LET quality == ReplayQuality(c, log)
        streak  == IF quality >= 3 THEN prev.streak + 1 ELSE 0
        ef      == UpdateEasinessFactor(prev.ef, quality)
        next    == IF c = "sm2"
                   THEN CalculateNextInterval(prev.last, ef, quality, streak)
                   ELSE CalculateFixedInterval(prev.last, quality)
    IN  [ef |-> ef, streak |-> streak, at |-> log.at,
         last |-> EarlyReviewGuard(quality, prev.last, CalendarDaysBetween(prev.at, log.at), next)]

ReplayStart == [ef |-> DefaultEasinessFactor, streak |-> 0, at |-> 0, last |-> 0]

\* The states of the loop, before the first log and after each.
Replay(c, sorted) ==
    LET after[i \in 0 .. Len(sorted)] ==
            IF i = 0 THEN ReplayStart ELSE ReplayStep(c, after[i - 1], sorted[i])
    IN  after

Replayed(c, sorted) ==
    LET after == Replay(c, sorted)
    IN  Listed([i \in DOMAIN sorted |-> [sorted[i] EXCEPT !.quality = ReplayQuality(c, sorted[i]),
                                                          !.interval = after[i].last]])

RecalculateAll(c, logs) == NewestFirst(Replayed(c, OldestFirst(logs)))

\* Mutant: the live write continues from the stored interval of the newest log
\* and forgets when that log was written.
NextIntervalForgetsDate(c, logs, tentative) ==
    LET prev == [ef |-> DefaultEasinessFactor, streak |-> Len(logs), at |-> 0,
                 last |-> IF logs = << >> THEN 0 ELSE logs[1].interval]
    IN  ReplayStep(c, prev, tentative).last

\* The interval the live quiz stores with a new log: that of the first log of
\* the replayed chain that carries the new log's instant.
NextIntervalForWrite(c, logs, tentative) ==
    LET replayed == RecalculateAll(c, <<tentative>> \o logs)
        same     == {i \in DOMAIN replayed : replayed[i].at = tentative.at}
    IN  replayed[CHOOSE i \in same : \A j \in same : i <= j].interval

=============================================================================
