---------------------------- MODULE ReplayProofs ----------------------------
(***************************************************************************)
(* What sorting and replaying do to a list of any length.                  *)
(***************************************************************************)
EXTENDS IntervalSchedule, FiniteSetTheorems, SequenceTheorems, WellFoundedInduction, TLAPS

-----------------------------------------------------------------------------
(* Lists and numbers *)

\* A set of numbers has a least one: what the inductions below rest on.
LEMMA LeastNumber ==
    ASSUME NEW T, T \subseteq Nat, T # {}
    PROVE  \E n \in T : \A m \in T : n <= m
<1>1. \E n \in T : \A m \in T : ~(<<m, n>> \in OpToRel(<, Nat))
  BY NatLessThanWellFounded, WFMin
<1>2. \E n \in T : \A m \in T : ~(m < n)
  BY <1>1, Zenon DEF OpToRel
<1> QED BY <1>2

LEMMA ListedIs == ASSUME NEW S, NEW f \in Seq(S) PROVE Listed(f) = f
BY ConcatEmptySeq DEF Listed

\* A non-empty set of indices has a greatest one.
LEMMA GreatestIndex ==
    ASSUME NEW n \in Nat, NEW T, T \subseteq 1 .. n, T # {}
    PROVE  \E m \in T : \A k \in T : k <= m
<1> DEFINE Mirror == {k \in 0 .. n : n - k \in T}
<1>1. Mirror \subseteq Nat
  OBVIOUS
<1>2. Mirror # {}
  <2>1. PICK k \in T : TRUE
    OBVIOUS
  <2>2. n - k \in 0 .. n /\ n - (n - k) = k
    OBVIOUS
  <2> QED BY <2>1, <2>2
<1>3. PICK k \in Mirror : \A j \in Mirror : k <= j
  BY <1>1, <1>2, LeastNumber
<1>4. ASSUME NEW j \in T PROVE j <= n - k
  <2>1. n - j \in Mirror
    <3>1. j \in 1 .. n
      OBVIOUS
    <3>2. n - j \in 0 .. n /\ n - (n - j) = j
      BY <3>1
    <3> QED BY <3>2
  <2>2. k <= n - j /\ k \in 0 .. n /\ j \in 1 .. n
    BY <1>3, <2>1
  <2> HIDE DEF Mirror
  <2> QED BY <2>2
<1>5. n - k \in T
  BY <1>3
<1> QED BY <1>4, <1>5

-----------------------------------------------------------------------------
(* Sorting a list that is in order already *)

IsNewestFirst(logs) == \A i, j \in DOMAIN logs : i < j => logs[j].at < logs[i].at
IsOldestFirst(logs) == \A i, j \in DOMAIN logs : i < j => logs[i].at < logs[j].at

LEMMA BackwardsIs ==
    ASSUME NEW S, NEW logs \in Seq(S)
    PROVE  /\ Backwards(logs) \in Seq(S) /\ Len(Backwards(logs)) = Len(logs)
           /\ \A i \in 1 .. Len(logs) : Backwards(logs)[i] = logs[Len(logs) + 1 - i]
BY DEF Backwards

LEMMA SortReverses ==
    ASSUME NEW S, NEW logs \in Seq(S), \A l \in S : l.at \in Nat, NEW ascending \in BOOLEAN,
           IF ascending THEN IsNewestFirst(logs) ELSE IsOldestFirst(logs)
    PROVE  Sorted(logs, ascending) = Backwards(logs)
<1> DEFINE N == Len(logs)
           before == {p \in Pairs(logs) :
                          LearningRecordBefore(logs[p[1]], logs[p[2]], ascending)}
           Below(i) == {j \in DOMAIN logs : <<j, i>> \in before \/ (j <= i /\ <<i, j>> \notin before)}
           places == [i \in DOMAIN logs |-> Cardinality(Below(i))]
           place == Places(logs, before)
           At(n) == CHOOSE i \in DOMAIN logs : place[i] = n
           sorted == [n \in DOMAIN logs |-> logs[At(n)]]
<1>1. N \in Nat /\ DOMAIN logs = 1 .. N /\ \A i \in 1 .. N : logs[i].at \in Nat
  OBVIOUS
<1>2. \A i, j \in 1 .. N : i # j => (<<j, i>> \in before <=> i < j)
  <2>1. \A i, j \in 1 .. N : i # j => (LearningRecordBefore(logs[j], logs[i], ascending) <=> i < j)
    BY <1>1 DEF LearningRecordBefore, IsNewestFirst, IsOldestFirst
  <2>2. \A i, j \in 1 .. N : <<j, i>> \in before <=> LearningRecordBefore(logs[j], logs[i], ascending)
    BY <1>1 DEF Pairs
  <2> HIDE DEF before, N
  <2> QED BY <2>1, <2>2
<1>3. place = Listed(places) /\ Sorted(logs, ascending) = Listed(sorted)
  BY DEF Sorted, SortedBy, Places
<1> HIDE DEF N, place, before
<1>4. ASSUME NEW i \in 1 .. N PROVE Cardinality(Below(i)) = N + 1 - i
  <2>1. Below(i) = i .. N
    BY <1>1, <1>2
  <2>2. Cardinality(i .. N) = N - i + 1
    BY <1>1, FS_Interval
  <2>3. N - i + 1 = N + 1 - i
    BY <1>1
  <2> QED BY <2>1, <2>2, <2>3
<1> HIDE DEF Below
<1>5. places = [i \in 1 .. N |-> N + 1 - i]
  BY <1>1, <1>4
<1> HIDE DEF places
<1>6. place = [i \in 1 .. N |-> N + 1 - i]
  <2>1. places \in Seq(Nat)
    BY <1>1, <1>5
  <2> QED BY <1>3, <1>5, <2>1, ListedIs
<1>7. ASSUME NEW n \in 1 .. N
      PROVE  At(n) = N + 1 - n
  <2>1. \A i \in DOMAIN logs : place[i] = n <=> i = N + 1 - n
    BY <1>1, <1>6
  <2>2. N + 1 - n \in DOMAIN logs
    BY <1>1
  <2> QED BY <2>1, <2>2
<1> HIDE DEF At
<1>8. sorted = Backwards(logs)
  BY <1>1, <1>7 DEF Backwards, N
<1> HIDE DEF sorted
<1>9. Listed(sorted) = sorted
  BY <1>8, BackwardsIs, ListedIs
<1> QED BY <1>3, <1>8, <1>9


-----------------------------------------------------------------------------
(* The replay *)

\* The recursion of Replay has a solution, for a list of any length.
LEMMA ReplayIs ==
    ASSUME NEW c, NEW s, Len(s) \in Nat
    PROVE  /\ Replay(c, s)[0] = ReplayStart
           /\ \A i \in 1 .. Len(s) : Replay(c, s)[i] = ReplayStep(c, Replay(c, s)[i - 1], s[i])
<1> DEFINE Solves(f, n) ==
               f = [i \in 0 .. n |-> IF i = 0 THEN ReplayStart ELSE ReplayStep(c, f[i - 1], s[i])]
           Unsolved == {n \in Nat : ~\E f : Solves(f, n)}
<1>1. ASSUME NEW n \in Nat, \A m \in Nat : m < n => \E f : Solves(f, m)
      PROVE  \E f : Solves(f, n)
  <2>1. CASE n = 0
    <3> DEFINE f == [i \in 0 .. 0 |-> ReplayStart]
    <3>1. \A i \in 0 .. 0 : i = 0
      OBVIOUS
    <3>2. Solves(f, 0)
      BY <3>1
    <3> QED BY <2>1, <3>2
  <2>2. CASE n # 0
    <3>1. PICK f : Solves(f, n - 1)
      BY <1>1, <2>2
    <3> DEFINE g == [i \in 0 .. n |-> IF i = n THEN ReplayStep(c, f[n - 1], s[n]) ELSE f[i]]
    <3>2. \A i \in 0 .. n - 1 : f[i] = IF i = 0 THEN ReplayStart ELSE ReplayStep(c, f[i - 1], s[i])
      BY <3>1
    <3>3. ASSUME NEW i \in 0 .. n
          PROVE  g[i] = IF i = 0 THEN ReplayStart ELSE ReplayStep(c, g[i - 1], s[i])
      <4>1. CASE i = n
        <5>1. g[i - 1] = f[n - 1] /\ g[i] = ReplayStep(c, f[n - 1], s[n])
          BY <2>2, <4>1
        <5> QED BY <2>2, <4>1, <5>1
      <4>2. CASE i # n
        <5>1. i \in 0 .. n - 1 /\ g[i] = f[i] /\ (i # 0 => g[i - 1] = f[i - 1])
          BY <4>2
        <5> QED BY <3>2, <5>1
      <4> QED BY <4>1, <4>2
    <3>4. g = [i \in 0 .. n |-> g[i]]
      OBVIOUS
    <3> HIDE DEF g
    <3>5. Solves(g, n)
      BY <3>3, <3>4
    <3> QED BY <3>5
  <2> QED BY <2>1, <2>2
<1> HIDE DEF Solves
<1>2. Unsolved = {}
  <2>1. SUFFICES ASSUME Unsolved # {} PROVE FALSE
    OBVIOUS
  <2>2. PICK n \in Unsolved : \A m \in Unsolved : n <= m
    BY <2>1, LeastNumber
  <2>3. \A m \in Nat : m < n => \E f : Solves(f, m)
    BY <2>2
  <2> QED BY <1>1, <2>2, <2>3
<1>3. \E f : Solves(f, Len(s))
  BY <1>2
<1>4. Replay(c, s) = CHOOSE f : Solves(f, Len(s))
  BY DEF Replay, Solves
<1>5. Solves(Replay(c, s), Len(s))
  BY <1>3, <1>4
<1> QED BY <1>5 DEF Solves

\* Two logs that the replay cannot tell apart, and two states of it.
SameLog(c, a, b) == ReplayQuality(c, a) = ReplayQuality(c, b) /\ Day(a.at) = Day(b.at)
SameState(p, q) ==
    p.ef = q.ef /\ p.streak = q.streak /\ p.last = q.last /\ Day(p.at) = Day(q.at)

LEMMA StepSame ==
    ASSUME NEW c, NEW p, NEW q, NEW a, NEW b, SameState(p, q), SameLog(c, a, b)
    PROVE  SameState(ReplayStep(c, p, a), ReplayStep(c, q, b))
BY DEF SameState, SameLog, ReplayStep, CalendarDaysBetween

\* A replay goes on where the replay of a shorter list ended.
LEMMA ReplaySame ==
    ASSUME NEW c, NEW s, NEW t, Len(s) \in Nat, Len(t) \in Nat, Len(s) <= Len(t),
           \A i \in 1 .. Len(s) : SameLog(c, s[i], t[i])
    PROVE  \A i \in 0 .. Len(s) : SameState(Replay(c, s)[i], Replay(c, t)[i])
<1> DEFINE Differ == {i \in 0 .. Len(s) : ~SameState(Replay(c, s)[i], Replay(c, t)[i])}
<1>1. SUFFICES ASSUME Differ # {} PROVE FALSE
  OBVIOUS
<1>2. PICK i \in Differ : \A j \in Differ : i <= j
  <2>1. Differ \subseteq Nat
    OBVIOUS
  <2> QED BY <1>1, <2>1, LeastNumber
<1>3. i # 0
  BY ReplayIs DEF SameState
<1>4. i \in 1 .. Len(s) /\ i \in 1 .. Len(t) /\ i - 1 \in 0 .. Len(s)
  BY <1>3
<1>5. SameState(Replay(c, s)[i - 1], Replay(c, t)[i - 1])
  BY <1>2, <1>4
<1>6. /\ Replay(c, s)[i] = ReplayStep(c, Replay(c, s)[i - 1], s[i])
      /\ Replay(c, t)[i] = ReplayStep(c, Replay(c, t)[i - 1], t[i])
  BY <1>4, ReplayIs
<1> QED BY <1>2, <1>4, <1>5, <1>6, StepSame

\* The level of an interval is the last that is not longer.
LEMMA LevelIs ==
    ASSUME NEW last \in Nat
    PROVE  /\ LevelFromInterval(last) \in DOMAIN FixedIntervals
           /\ \A m \in DOMAIN FixedIntervals :
                  FixedIntervals[m] <= last => m <= LevelFromInterval(last)
           /\ FixedIntervals[LevelFromInterval(last)] > last => LevelFromInterval(last) = 1
<1> DEFINE reached == {l \in DOMAIN FixedIntervals : FixedIntervals[l] <= last}
<1>1. /\ FixedIntervals \in Seq(Nat \ {0}) /\ Len(FixedIntervals) \in Nat
      /\ DOMAIN FixedIntervals = 1 .. Len(FixedIntervals) /\ 1 \in DOMAIN FixedIntervals
  BY FixedIntervalsAssumption
<1>2. CASE reached = {}
  BY <1>1, <1>2 DEF LevelFromInterval
<1>3. CASE reached # {}
  <2>1. \E l \in reached : \A m \in reached : m <= l
    BY <1>1, <1>3, GreatestIndex
  <2>2. LevelFromInterval(last) = CHOOSE l \in reached : \A m \in reached : m <= l
    BY <1>3 DEF LevelFromInterval
  <2>3. /\ LevelFromInterval(last) \in reached
        /\ \A m \in reached : m <= LevelFromInterval(last)
    BY <2>1, <2>2
  <2>4. FixedIntervals[LevelFromInterval(last)] \in Nat
    BY <1>1, <2>3
  <2> QED BY <2>3, <2>4
<1> QED BY <1>2, <1>3

Levels == {FixedIntervals[l] : l \in DOMAIN FixedIntervals}

\* The easiness is at least 1.3; a fixed algorithm knows no interval but its levels.
StateOK(c, p) ==
    /\ p.ef \in Int /\ p.ef >= 130 /\ p.streak \in Nat /\ p.last \in Nat /\ p.at \in Nat
    /\ c # "sm2" /\ p.last # 0 => p.last \in Levels

\* A product of whole numbers grows with its second factor.
LEMMA GrowIs ==
    ASSUME NEW last \in Nat, last # 0, NEW ef \in Int, ef >= 130
    PROVE  Grow(last, ef) \in Nat /\ Grow(last, ef) > last
<1>1. last * ef \in Int /\ last * ef >= 130 * last
  OBVIOUS
<1> QED BY <1>1 DEF Grow, CeilDiv

LEMMA FixedIs ==
    ASSUME NEW last \in Nat, NEW quality \in Nat
    PROVE  CalculateFixedInterval(last, quality) \in (Nat \ {0}) \cap Levels
<1> DEFINE level == (IF last > 0 THEN LevelFromInterval(last) ELSE 1) + QualityToLevelDelta(quality)
           L == Len(FixedIntervals)
           i == Larger(1, Smaller(level, L))
<1>1. /\ FixedIntervals \in Seq(Nat \ {0}) /\ L \in Nat /\ DOMAIN FixedIntervals = 1 .. L
      /\ 1 <= L
  BY FixedIntervalsAssumption
<1>2. level \in Int
  <2>1. LevelFromInterval(last) \in 1 .. L
    BY <1>1, LevelIs
  <2>2. QualityToLevelDelta(quality) \in Int
    BY DEF QualityToLevelDelta
  <2> QED BY <1>1, <2>1, <2>2
<1> HIDE DEF level, L
<1>3. i \in 1 .. L
  BY <1>1, <1>2 DEF Larger, Smaller
<1>4. CalculateFixedInterval(last, quality) = FixedIntervals[i]
  BY DEF CalculateFixedInterval, level, L
<1> QED BY <1>1, <1>3, <1>4 DEF Levels

\* A state of the replay has an easiness of at least 1.3 and, after a log, an
\* interval of at least a day.
LEMMA StepTypes ==
    ASSUME NEW c \in Algorithms, NEW p, StateOK(c, p), NEW log, log.at \in Nat,
           ReplayQuality(c, log) \in Nat
    PROVE  StateOK(c, ReplayStep(c, p, log)) /\ ReplayStep(c, p, log).last # 0
<1> DEFINE quality == ReplayQuality(c, log)
           streak == IF quality >= 3 THEN p.streak + 1 ELSE 0
           ef == UpdateEasinessFactor(p.ef, quality)
           next == IF c = "sm2" THEN CalculateNextInterval(p.last, ef, quality, streak)
                   ELSE CalculateFixedInterval(p.last, quality)
           elapsed == CalendarDaysBetween(p.at, log.at)
           last == EarlyReviewGuard(quality, p.last, elapsed, next)
<1>1. ReplayStep(c, p, log) = [ef |-> ef, streak |-> streak, at |-> log.at, last |-> last]
  BY DEF ReplayStep
<1>2. streak \in Nat /\ (quality >= 3 => streak >= 1)
  BY DEF StateOK
<1>3. ef \in Int /\ ef >= 130
  BY DEF StateOK, UpdateEasinessFactor, EasinessDelta, Larger, MinEasinessFactor
<1> HIDE DEF quality, streak, ef
<1>4. next \in Nat /\ next # 0
  <2>1. CASE c = "sm2" /\ quality < 3
    <3>1. \A l \in Nat : CalculateLapseInterval(l) \in Nat /\ CalculateLapseInterval(l) >= 1
      BY DEF CalculateLapseInterval, CeilDiv, Larger
    <3>2. next = CalculateLapseInterval(p.last)
      <4>1. quality < 3 /\ ~(quality >= 3)
        BY <2>1 DEF quality
      <4> QED BY <2>1, <4>1 DEF CalculateNextInterval
    <3> QED BY <3>1, <3>2 DEF StateOK
  <2>2. CASE c = "sm2" /\ quality >= 3 /\ p.last > 0
    <3>1. next = Grow(p.last, ef)
      BY <2>2 DEF CalculateNextInterval, quality
    <3> QED BY <1>3, <2>2, <3>1, GrowIs DEF StateOK
  <2>3. CASE c = "sm2" /\ quality >= 3 /\ p.last = 0
    <3>1. next = CASE streak = 1 -> 3 [] streak = 2 -> 10 [] OTHER -> Grow(10, ef)
      BY <2>3 DEF CalculateNextInterval, quality
    <3> QED BY <1>3, <3>1, GrowIs
  <2>4. CASE c # "sm2"
    BY <2>4, FixedIs DEF StateOK, quality
  <2> QED BY <2>1, <2>2, <2>3, <2>4 DEF StateOK, quality
<1> HIDE DEF next, elapsed
<1>5. last \in Nat /\ last # 0 /\ (c # "sm2" => last \in Levels)
  <2>1. c # "sm2" => next \in Levels
    BY FixedIs DEF StateOK, quality, next
  <2> QED BY <1>4, <2>1 DEF EarlyReviewGuard, StateOK
<1> QED BY <1>1, <1>2, <1>3, <1>5 DEF StateOK

-----------------------------------------------------------------------------
(* The replay of a list that is newest first *)

LogIn(times, types) == [at : Nat, rt : times, quality : Qualities, status : Statuses,
                        quizType : types, interval : Nat]

\* The state after the i-th log; the (Len(logs) + 1)-th is the start.
After(c, logs, i) == Replay(c, Backwards(logs))[Len(logs) + 1 - i]

Rated(c, log, state) == [log EXCEPT !.quality = ReplayQuality(c, log), !.interval = state.last]

LEMMA RatedIs ==
    ASSUME NEW c, NEW times, NEW types, NEW l \in LogIn(times, types), NEW p, p.last \in Nat
    PROVE  /\ Rated(c, l, p) \in LogIn(times, types) /\ Rated(c, l, p).at = l.at
           /\ Rated(c, l, p).interval = p.last
           /\ l.quality = ReplayQuality(c, l) /\ l.interval = p.last => Rated(c, l, p) = l
<1>1. ReplayQuality(c, l) \in Qualities
  BY DEF LogIn, ReplayQuality, Qualities
<1> DEFINE q == ReplayQuality(c, l)
           r == Rated(c, l, p)
<1>2. r = [l EXCEPT !.quality = q, !.interval = p.last]
  BY DEF Rated
<1> HIDE DEF q, r
<1>3. /\ r.at = l.at /\ r.rt = l.rt /\ r.status = l.status /\ r.quizType = l.quizType
      /\ r.quality = q /\ r.interval = p.last
  BY <1>2 DEF LogIn
<1>4. r \in LogIn(times, types)
  BY <1>1, <1>2 DEF LogIn, q
<1>5. l.quality = q /\ l.interval = p.last => r = l
  BY <1>2 DEF LogIn
<1> QED BY <1>3, <1>4, <1>5 DEF q, r

LEMMA AfterIs ==
    ASSUME NEW c, NEW S, NEW logs \in Seq(S)
    PROVE  /\ After(c, logs, Len(logs) + 1) = ReplayStart
           /\ \A i \in DOMAIN logs : After(c, logs, i) = ReplayStep(c, After(c, logs, i + 1), logs[i])
<1> DEFINE N == Len(logs)
           old == Backwards(logs)
<1>1. N \in Nat /\ DOMAIN logs = 1 .. N /\ Len(old) = N /\ \A i \in 1 .. N : old[i] = logs[N + 1 - i]
  BY BackwardsIs
<1> HIDE DEF old, N
<1>2. /\ Replay(c, old)[0] = ReplayStart
      /\ \A i \in 1 .. N : Replay(c, old)[i] = ReplayStep(c, Replay(c, old)[i - 1], old[i])
  BY <1>1, ReplayIs
<1>3. After(c, logs, N + 1) = ReplayStart
  <2>1. N + 1 - (N + 1) = 0
    BY <1>1
  <2> QED BY <1>2, <2>1 DEF After, old, N
<1>4. ASSUME NEW i \in 1 .. N
      PROVE  After(c, logs, i) = ReplayStep(c, After(c, logs, i + 1), logs[i])
  <2>1. PICK k \in 1 .. N : N + 1 - i = k /\ N + 1 - (i + 1) = k - 1 /\ N + 1 - k = i
    BY <1>1
  <2>2. Replay(c, old)[k] = ReplayStep(c, Replay(c, old)[k - 1], logs[i])
    BY <1>1, <1>2, <2>1
  <2>3. After(c, logs, i) = Replay(c, old)[k] /\ After(c, logs, i + 1) = Replay(c, old)[k - 1]
    BY <2>1 DEF After, old, N
  <2> QED BY <2>2, <2>3
<1> QED BY <1>1, <1>3, <1>4 DEF N

\* Newer logs do not change what the replay says of the older ones.
LEMMA AfterSame ==
    ASSUME NEW c, NEW S, NEW logs \in Seq(S), NEW more \in Seq(S), NEW d \in Nat,
           Len(more) = Len(logs) + d,
           \A i \in DOMAIN logs : SameLog(c, logs[i], more[i + d])
    PROVE  \A i \in 1 .. Len(logs) + 1 : SameState(After(c, logs, i), After(c, more, i + d))
<1> DEFINE s == Backwards(logs)
           t == Backwards(more)
           N == Len(logs)
<1>1. /\ N \in Nat /\ DOMAIN logs = 1 .. N /\ Len(more) = N + d
      /\ Len(s) = N /\ Len(t) = N + d
      /\ \A i \in 1 .. N : s[i] = logs[N + 1 - i]
      /\ \A i \in 1 .. N + d : t[i] = more[N + d + 1 - i]
  <2>1. Len(s) = N /\ \A i \in 1 .. N : s[i] = logs[N + 1 - i]
    BY BackwardsIs
  <2>2. Len(t) = Len(more) /\ \A i \in 1 .. Len(more) : t[i] = more[Len(more) + 1 - i]
    BY BackwardsIs
  <2>3. N \in Nat /\ DOMAIN logs = 1 .. N /\ Len(more) = N + d
    OBVIOUS
  <2> HIDE DEF s, t, N
  <2>4. Len(t) = N + d /\ \A i \in 1 .. N + d : t[i] = more[N + d + 1 - i]
    BY <2>2, <2>3
  <2> QED BY <2>1, <2>3, <2>4
<1> HIDE DEF s, t, N
<1>2. ASSUME NEW i \in 1 .. N PROVE SameLog(c, s[i], t[i])
  <2>1. N + 1 - i \in 1 .. N /\ i \in 1 .. N + d /\ N + 1 - i + d = N + d + 1 - i
    BY <1>1
  <2>2. s[i] = logs[N + 1 - i] /\ t[i] = more[N + 1 - i + d]
    BY <1>1, <2>1
  <2>3. SameLog(c, logs[N + 1 - i], more[N + 1 - i + d])
    BY <1>1, <2>1
  <2> QED BY <2>2, <2>3
<1>3. \A i \in 0 .. N : SameState(Replay(c, s)[i], Replay(c, t)[i])
  <2>1. Len(s) \in Nat /\ Len(t) \in Nat /\ Len(s) <= Len(t)
    BY <1>1
  <2>2. \A i \in 1 .. Len(s) : SameLog(c, s[i], t[i])
    BY <1>1, <1>2
  <2>3. \A i \in 0 .. Len(s) : SameState(Replay(c, s)[i], Replay(c, t)[i])
    BY <2>1, <2>2, ReplaySame, ZenonT(60)
  <2> QED BY <1>1, <2>3
<1>4. ASSUME NEW i \in 1 .. N + 1
      PROVE  SameState(After(c, logs, i), After(c, more, i + d))
  <2>1. N + 1 - i \in 0 .. N /\ N + d + 1 - (i + d) = N + 1 - i
    BY <1>1
  <2>2. After(c, logs, i) = Replay(c, s)[N + 1 - i]
    BY DEF After, s, N
  <2>3. After(c, more, i + d) = Replay(c, t)[N + 1 - i]
    BY <1>1, <2>1 DEF After, t
  <2> QED BY <1>3, <2>1, <2>2, <2>3
<1> QED BY <1>4 DEF N

LEMMA AfterTypes ==
    ASSUME NEW c \in Algorithms, NEW S, NEW logs \in Seq(S),
           \A l \in S : l.at \in Nat /\ ReplayQuality(c, l) \in Nat
    PROVE  /\ \A i \in 1 .. Len(logs) + 1 : StateOK(c, After(c, logs, i))
           /\ \A i \in DOMAIN logs : After(c, logs, i).last # 0
<1> DEFINE N == Len(logs)
           State(k) == After(c, logs, N + 1 - k)
           Bad == {k \in 0 .. N : ~StateOK(c, State(k))}
<1>1. N \in Nat /\ DOMAIN logs = 1 .. N /\ \A i \in 1 .. N : logs[i] \in S
  OBVIOUS
<1> HIDE DEF N
<1>2. /\ State(0) = ReplayStart
      /\ \A k \in 1 .. N : State(k) = ReplayStep(c, State(k - 1), logs[N + 1 - k])
  <2>1. After(c, logs, N + 1) = ReplayStart
    BY AfterIs DEF N
  <2>2. \A i \in 1 .. N : After(c, logs, i) = ReplayStep(c, After(c, logs, i + 1), logs[i])
    BY <1>1, AfterIs DEF N
  <2>3. State(0) = ReplayStart
    <3>1. N + 1 - 0 = N + 1
      BY <1>1
    <3> QED BY <2>1, <3>1
  <2>4. ASSUME NEW k \in 1 .. N
        PROVE  State(k) = ReplayStep(c, State(k - 1), logs[N + 1 - k])
    <3>1. PICK i \in 1 .. N : N + 1 - k = i /\ N + 1 - (k - 1) = i + 1
      BY <1>1
    <3>2. State(k) = After(c, logs, i) /\ State(k - 1) = After(c, logs, i + 1)
      BY <3>1
    <3> QED BY <2>2, <3>1, <3>2
  <2> QED BY <2>3, <2>4
<1>3. StateOK(c, State(0))
  BY <1>2 DEF StateOK, ReplayStart, DefaultEasinessFactor
<1> HIDE DEF State
<1>4. ASSUME NEW k \in 1 .. N, StateOK(c, State(k - 1))
      PROVE  StateOK(c, State(k)) /\ State(k).last # 0
  <2>1. N + 1 - k \in 1 .. N
    BY <1>1
  <2>2. logs[N + 1 - k] \in S
    BY <1>1, <2>1
  <2> QED BY <1>2, <1>4, <2>2, StepTypes
<1>5. Bad = {}
  <2>1. SUFFICES ASSUME Bad # {} PROVE FALSE
    OBVIOUS
  <2>2. PICK k \in Bad : \A j \in Bad : k <= j
    <3>1. Bad \subseteq Nat
      OBVIOUS
    <3> QED BY <2>1, <3>1, LeastNumber
  <2>3. k \in 1 .. N /\ k - 1 \in 0 .. N
    BY <1>1, <1>3
  <2>4. StateOK(c, State(k - 1))
    BY <2>2, <2>3
  <2> QED BY <1>4, <2>2, <2>3, <2>4
<1>6. ASSUME NEW i \in 1 .. N + 1 PROVE StateOK(c, After(c, logs, i))
  <2>1. N + 1 - i \in 0 .. N /\ N + 1 - (N + 1 - i) = i
    BY <1>1
  <2>2. StateOK(c, State(N + 1 - i))
    BY <1>5, <2>1
  <2> QED BY <2>1, <2>2 DEF State
<1>7. ASSUME NEW i \in 1 .. N PROVE After(c, logs, i).last # 0
  <2>1. PICK k \in 1 .. N : k = N + 1 - i /\ N + 1 - k = i /\ k - 1 \in 0 .. N
    BY <1>1
  <2>2. StateOK(c, State(k - 1))
    BY <1>5, <2>1
  <2>3. State(k).last # 0
    BY <1>4, <2>2
  <2> QED BY <2>1, <2>3 DEF State
<1> QED BY <1>1, <1>6, <1>7 DEF N

\* A list that is newest first is recalculated in place: no log moves or changes its
\* date, each gets the interval of its state.
LEMMA RecalculateIs ==
    ASSUME NEW c \in Algorithms, NEW times, NEW types, NEW logs \in Seq(LogIn(times, types)),
           IsNewestFirst(logs)
    PROVE  RecalculateAll(c, logs) =
               [i \in 1 .. Len(logs) |-> Rated(c, logs[i], After(c, logs, i))]
<1> DEFINE N == Len(logs)
           L == LogIn(times, types)
           old == Backwards(logs)
           state == Replay(c, old)
           rated == [i \in 1 .. N |-> Rated(c, old[i], state[i])]
<1>1. N \in Nat /\ DOMAIN logs = 1 .. N /\ \A i \in 1 .. N : logs[i] \in L
  OBVIOUS
<1>2. \A l \in L : l.at \in Nat /\ l.quality \in Nat /\ l.status \in Statuses
  BY DEF LogIn, Qualities
<1>3. OldestFirst(logs) = old
  BY <1>2, SortReverses DEF OldestFirst
<1>4. old \in Seq(L) /\ Len(old) = N /\ \A i \in 1 .. N : old[i] = logs[N + 1 - i]
  BY BackwardsIs
<1> HIDE DEF L, old, N
<1>5. Replayed(c, old) = Listed(rated)
  <2>1. DOMAIN old = 1 .. N
    BY <1>4
  <2> QED BY <2>1, Zenon DEF Replayed, Rated
<1>6. \A l \in L : \A p : StateOK(c, p) => Rated(c, l, p) \in L /\ Rated(c, l, p).at = l.at
  <2>1. \A p : StateOK(c, p) => p.last \in Nat
    BY DEF StateOK
  <2>2. ASSUME NEW l \in LogIn(times, types), NEW p, p.last \in Nat
        PROVE  Rated(c, l, p) \in LogIn(times, types) /\ Rated(c, l, p).at = l.at
    <3> HIDE DEF rated, state
    <3>1. Rated(c, l, p) \in LogIn(times, types)
      BY <2>2, RatedIs
    <3>2. Rated(c, l, p).at = l.at
      BY DEF Rated, LogIn
    <3> QED BY <3>1, <3>2
  <2> QED BY <2>1, <2>2 DEF L
<1>7. \A i \in 1 .. N : state[i] = After(c, logs, N + 1 - i)
  <2>1. ASSUME NEW i \in 1 .. N PROVE N + 1 - (N + 1 - i) = i
    BY <1>1
  <2> QED BY <2>1 DEF After, old, N
<1>8. \A i \in 1 .. N : StateOK(c, After(c, logs, i))
  <2>1. \A l \in L : ReplayQuality(c, l) \in Nat
    BY DEF L, LogIn, ReplayQuality, Qualities
  <2> QED BY <1>1, <1>2, <2>1, AfterTypes DEF L, N
<1> HIDE DEF state
<1>9. \A i \in 1 .. N : rated[i] \in L /\ rated[i].at = old[i].at /\ StateOK(c, state[i])
  <2>1. ASSUME NEW i \in 1 .. N PROVE StateOK(c, state[i]) /\ old[i] \in L
    <3>1. N + 1 - i \in 1 .. N
      BY <1>1
    <3> QED BY <1>1, <1>4, <1>7, <1>8, <3>1
  <2> QED BY <1>6, <2>1
<1>10. rated \in Seq(L) /\ Len(rated) = N
  BY <1>1, <1>9
<1>11. IsOldestFirst(rated)
  <2>1. ASSUME NEW i \in 1 .. N, NEW j \in 1 .. N, i < j PROVE old[i].at < old[j].at
    <3>1. N + 1 - i \in 1 .. N /\ N + 1 - j \in 1 .. N /\ N + 1 - j < N + 1 - i
      BY <1>1, <2>1
    <3> QED BY <1>1, <1>4, <3>1 DEF IsNewestFirst
  <2> QED BY <1>9, <2>1 DEF IsOldestFirst
<1>12. NewestFirst(rated) = Backwards(rated)
  BY <1>2, <1>10, <1>11, SortReverses DEF NewestFirst
<1>13. Listed(rated) = rated
  BY <1>10, ListedIs
<1>14. ASSUME NEW i \in 1 .. N
       PROVE  rated[N + 1 - i] = Rated(c, logs[i], After(c, logs, i))
  <2>1. N + 1 - i \in 1 .. N /\ N + 1 - (N + 1 - i) = i
    BY <1>1
  <2> QED BY <1>4, <1>7, <2>1
<1> HIDE DEF rated
<1>15. Backwards(rated) = [i \in 1 .. N |-> Rated(c, logs[i], After(c, logs, i))]
  BY <1>10, <1>14 DEF Backwards
<1> QED BY <1>3, <1>5, <1>12, <1>13, <1>15 DEF RecalculateAll, N

-----------------------------------------------------------------------------
(* What the live quiz writes *)

\* Every log carries the grade and the interval a replay gives it.
IsReplayed(c, logs) ==
    \A i \in DOMAIN logs : /\ logs[i].quality = ReplayQuality(c, logs[i])
                           /\ logs[i].interval = After(c, logs, i).last

LEMMA FixLeaves ==
    ASSUME NEW c \in Algorithms, NEW times, NEW types, NEW logs \in Seq(LogIn(times, types)),
           IsNewestFirst(logs), IsReplayed(c, logs)
    PROVE  RecalculateAll(c, logs) = logs
<1>1. \A i \in 1 .. Len(logs) : logs[i] \in LogIn(times, types)
  OBVIOUS
<1>2. \A i \in 1 .. Len(logs) : Rated(c, logs[i], After(c, logs, i)) = logs[i]
  <2>1. \A l \in LogIn(times, types) : l.interval \in Nat
    BY DEF LogIn
  <2> QED BY <1>1, <2>1, RatedIs DEF IsReplayed
<1> QED BY <1>2, RecalculateIs

\* A list with one newer log.
LEMMA ChainIs ==
    ASSUME NEW L, NEW logs \in Seq(L), NEW log \in L
    PROVE  /\ <<log>> \o logs \in Seq(L) /\ Len(<<log>> \o logs) = Len(logs) + 1
           /\ (<<log>> \o logs)[1] = log
           /\ \A i \in DOMAIN logs : (<<log>> \o logs)[i + 1] = logs[i]
           /\ \A i \in DOMAIN (<<log>> \o logs) : i # 1 =>
                  i - 1 \in DOMAIN logs /\ (<<log>> \o logs)[i] = logs[i - 1]
<1>1. <<log>> \in Seq(L) /\ Len(<<log>>) = 1 /\ <<log>>[1] = log
  OBVIOUS
<1>2. /\ <<log>> \o logs \in Seq(L) /\ Len(<<log>> \o logs) = 1 + Len(logs)
      /\ \A i \in 1 .. 1 + Len(logs) :
             (<<log>> \o logs)[i] = IF i <= 1 THEN <<log>>[i] ELSE logs[i - 1]
  BY <1>1, ConcatProperties
<1> QED BY <1>1, <1>2

LEMMA ChainIsNewestFirst ==
    ASSUME NEW L, NEW logs \in Seq(L), NEW log \in L, \A l \in L : l.at \in Nat,
           IsNewestFirst(logs), \A i \in DOMAIN logs : logs[i].at < log.at
    PROVE  IsNewestFirst(<<log>> \o logs)
<1> DEFINE chain == <<log>> \o logs
<1>1. ASSUME NEW i \in DOMAIN chain, NEW j \in DOMAIN chain, i < j
      PROVE  chain[j].at < chain[i].at
  <2>1. j # 1 /\ i \in Nat /\ j \in Nat
    BY <1>1, ChainIs
  <2>2. CASE i = 1
    BY <2>1, <2>2, ChainIs
  <2>3. CASE i # 1
    <3>1. i - 1 < j - 1
      BY <1>1, <2>1
    <3>2. /\ i - 1 \in DOMAIN logs /\ chain[i] = logs[i - 1]
          /\ j - 1 \in DOMAIN logs /\ chain[j] = logs[j - 1]
      BY <2>1, <2>3, ChainIs
    <3> QED BY <3>1, <3>2 DEF IsNewestFirst
  <2> QED BY <2>2, <2>3
<1> QED BY <1>1 DEF IsNewestFirst

\* The interval of a new log is one step from the state of the logs it joins.
LEMMA WriteIs ==
    ASSUME NEW c \in Algorithms, NEW times, NEW types, NEW logs \in Seq(LogIn(times, types)),
           IsNewestFirst(logs), NEW log \in LogIn(times, types),
           \A i \in DOMAIN logs : logs[i].at < log.at
    PROVE  NextIntervalForWrite(c, logs, log) = ReplayStep(c, After(c, logs, 1), log).last
<1> DEFINE L == LogIn(times, types)
           chain == <<log>> \o logs
           replayed == RecalculateAll(c, chain)
           same == {i \in DOMAIN replayed : replayed[i].at = log.at}
           N == Len(logs)
<1>1. \A l \in L : l.at \in Nat
  BY DEF LogIn
<1>2. /\ chain \in Seq(L) /\ Len(chain) = N + 1 /\ N \in Nat /\ chain[1] = log
      /\ DOMAIN logs = 1 .. N
      /\ \A i \in 1 .. N : chain[i + 1] = logs[i]
      /\ \A i \in 1 .. N + 1 : i # 1 => i - 1 \in 1 .. N /\ chain[i] = logs[i - 1]
  BY ChainIs
<1>3. IsNewestFirst(chain)
  BY <1>1, ChainIsNewestFirst
<1>4. NextIntervalForWrite(c, logs, log)
        = replayed[CHOOSE i \in same : \A j \in same : i <= j].interval
  BY Zenon DEF NextIntervalForWrite
<1> HIDE DEF chain, N
<1>5. replayed = [i \in 1 .. N + 1 |-> Rated(c, chain[i], After(c, chain, i))]
  <2>1. RecalculateAll(c, chain)
          = [i \in 1 .. Len(chain) |-> Rated(c, chain[i], After(c, chain, i))]
    <3>1. chain \in Seq(LogIn(times, types))
      BY <1>2
    <3> HIDE DEF replayed, same
    <3> QED BY <1>3, <3>1, RecalculateIs
  <2> QED BY <1>2, <2>1
<1>6. \A i \in 1 .. N + 1 : chain[i] \in L
  BY <1>2
<1>7. \A i \in 1 .. N + 1 : /\ replayed[i].at = chain[i].at
                            /\ replayed[i].interval = After(c, chain, i).last
  BY ZenonT(60), <1>5, <1>6 DEF Rated, LogIn
<1>8. same = {1}
  <2>1. DOMAIN replayed = 1 .. N + 1
    BY <1>5
  <2>2. \A i \in 1 .. N + 1 : i # 1 => replayed[i].at < log.at
    BY ZenonT(60), <1>2, <1>7
  <2>3. log.at \in Nat /\ replayed[1].at = log.at /\ 1 \in 1 .. N + 1
    BY <1>1, <1>2, <1>7
  <2> HIDE DEF replayed
  <2> QED BY <2>1, <2>2, <2>3
<1> HIDE DEF same, replayed
<1>9. (CHOOSE i \in same : \A j \in same : i <= j) = 1
  BY <1>8
<1>10. NextIntervalForWrite(c, logs, log) = After(c, chain, 1).last
  <2>1. 1 \in 1 .. N + 1
    BY <1>2
  <2> QED BY <1>4, <1>7, <1>9, <2>1
<1>11. After(c, chain, 1) = ReplayStep(c, After(c, chain, 2), log)
  <2>1. 1 \in DOMAIN chain /\ 1 + 1 = 2
    BY <1>2
  <2>2. \A i \in DOMAIN chain :
            After(c, chain, i) = ReplayStep(c, After(c, chain, i + 1), chain[i])
    BY ZenonT(60), <1>2, AfterIs
  <2>3. After(c, chain, 1) = ReplayStep(c, After(c, chain, 1 + 1), chain[1])
    BY <2>1, <2>2
  <2> QED BY <1>2, <2>1, <2>3
<1>12. SameState(After(c, logs, 1), After(c, chain, 2))
  <2>1. \A i \in DOMAIN logs : SameLog(c, logs[i], chain[i + 1])
    BY <1>2 DEF SameLog
  <2>2. \A i \in 1 .. Len(logs) + 1 : SameState(After(c, logs, i), After(c, chain, i + 1))
    BY <1>2, <2>1, AfterSame DEF N
  <2> QED BY <1>2, <2>2 DEF N
<1> QED BY <1>10, <1>11, <1>12, StepSame DEF SameState, SameLog

\* The list that was replayed and gets a log with the interval of its state still is.
LEMMA PrependIsReplayed ==
    ASSUME NEW c \in Algorithms, NEW L, NEW logs \in Seq(L), NEW log \in L,
           IsReplayed(c, logs), log.quality = ReplayQuality(c, log),
           log.interval = ReplayStep(c, After(c, logs, 1), log).last
    PROVE  IsReplayed(c, <<log>> \o logs)
<1> DEFINE chain == <<log>> \o logs
           N == Len(logs)
<1>1. /\ chain \in Seq(L) /\ Len(chain) = N + 1 /\ N \in Nat /\ chain[1] = log
      /\ DOMAIN logs = 1 .. N /\ DOMAIN chain = 1 .. N + 1
      /\ \A i \in 1 .. N : chain[i + 1] = logs[i]
      /\ \A i \in 1 .. N + 1 : i # 1 => i - 1 \in 1 .. N /\ chain[i] = logs[i - 1]
  BY ChainIs
<1> HIDE DEF chain
<1>2. \A i \in 1 .. N + 1 : SameState(After(c, logs, i), After(c, chain, i + 1))
  <2>1. \A i \in DOMAIN logs : SameLog(c, logs[i], chain[i + 1])
    BY <1>1 DEF SameLog
  <2> QED BY <1>1, <2>1, AfterSame
<1>3. After(c, chain, 1).last = log.interval
  <2>1. After(c, chain, 1) = ReplayStep(c, After(c, chain, 2), log)
    <3>1. 1 \in DOMAIN chain /\ 1 + 1 = 2
      BY <1>1
    <3>2. \A i \in DOMAIN chain :
              After(c, chain, i) = ReplayStep(c, After(c, chain, i + 1), chain[i])
      BY <1>1, AfterIs
    <3>3. After(c, chain, 1) = ReplayStep(c, After(c, chain, 1 + 1), chain[1])
      BY <3>1, <3>2
    <3> QED BY <1>1, <3>1, <3>3
  <2>2. SameState(After(c, logs, 1), After(c, chain, 2))
    BY <1>1, <1>2
  <2> QED BY <2>1, <2>2, StepSame DEF SameState, SameLog
<1>4. ASSUME NEW i \in 1 .. N + 1, i # 1
      PROVE  /\ chain[i].quality = ReplayQuality(c, chain[i])
             /\ chain[i].interval = After(c, chain, i).last
  <2>1. i - 1 \in 1 .. N /\ i - 1 \in 1 .. N + 1 /\ i - 1 + 1 = i /\ chain[i] = logs[i - 1]
    BY <1>1, <1>4
  <2>2. SameState(After(c, logs, i - 1), After(c, chain, i))
    BY <1>2, <2>1
  <2> QED BY <1>1, <2>1, <2>2 DEF IsReplayed, SameState
<1> QED BY <1>1, <1>3, <1>4 DEF IsReplayed, chain

-----------------------------------------------------------------------------
(* Seconds and days *)

LEMMA QuotientIs ==
    ASSUME NEW a \in Nat, NEW d \in Nat \ {0}
    PROVE  /\ a \div d \in Nat /\ a % d \in 0 .. d - 1
           /\ a = d * (a \div d) + (a % d)
OBVIOUS

\* The quotient is the only number that fits.
LEMMA QuotientIsUnique ==
    ASSUME NEW d \in Nat \ {0}, NEW q \in Int, NEW r \in 0 .. d - 1, NEW a \in Nat, a = d * q + r
    PROVE  a \div d = q
<1> DEFINE p == a \div d
           s == a % d
<1>1. p \in Nat /\ s \in 0 .. d - 1 /\ a = d * p + s
  BY QuotientIs
<1> HIDE DEF p, s
<1>2. d * (p - q) = d * p - d * q
  BY <1>1
<1>3. d * (p - q) = r - s
  BY <1>1, <1>2
<1>4. ASSUME NEW k \in Int, k >= 1 PROVE d * k >= d
  BY <1>4
<1>5. ASSUME NEW k \in Int, k <= -1 PROVE d * k <= -d
  BY <1>5
<1>6. p - q \in Int /\ ~(p - q >= 1) /\ ~(p - q <= -1)
  BY <1>1, <1>3, <1>4, <1>5
<1>7. p = q
  BY <1>1, <1>6
<1> QED BY <1>7 DEF p

\* The date of an answer loses its fraction of a second, and keeps its order and day.
LEMMA SecondsPass ==
    ASSUME NEW a \in Nat, NEW b \in Nat, a + SecondTicks <= b
    PROVE  ToSecond(a) < ToSecond(b)
<1>1. a % SecondTicks \in 0 .. SecondTicks - 1 /\ b % SecondTicks \in 0 .. SecondTicks - 1
  BY TicksAssumption, QuotientIs
<1>2. ToSecond(a) <= a /\ ToSecond(b) > b - SecondTicks
  BY <1>1, TicksAssumption DEF ToSecond
<1> QED BY <1>1, <1>2, TicksAssumption DEF ToSecond

LEMMA SecondsStay ==
    ASSUME NEW a \in Nat, NEW b \in Nat, a <= b
    PROVE  ToSecond(a) <= ToSecond(b) /\ ToSecond(a) \in Nat /\ ToSecond(a) <= a
<1> DEFINE d == SecondTicks
           p == a \div d
           q == b \div d
<1>1. /\ d \in Nat \ {0} /\ p \in Nat /\ q \in Nat
      /\ a % d \in 0 .. d - 1 /\ b % d \in 0 .. d - 1
      /\ a = d * p + (a % d) /\ b = d * q + (b % d)
  BY TicksAssumption, QuotientIs
<1>2. ToSecond(a) = d * p /\ ToSecond(b) = d * q
  <2>1. d * p \in Nat /\ d * q \in Nat
    BY <1>1
  <2>2. \A x, y, z \in Nat : x = y + z => x - z = y
    OBVIOUS
  <2>3. a % d \in Nat /\ b % d \in Nat
    BY <1>1
  <2>4. a = d * p + (a % d) /\ b = d * q + (b % d)
    BY <1>1
  <2> DEFINE x == d * p
             y == d * q
             r == a % d
             s == b % d
  <2>5. ToSecond(a) = a - r /\ ToSecond(b) = b - s
    BY DEF ToSecond
  <2>6. x \in Nat /\ y \in Nat /\ r \in Nat /\ s \in Nat /\ a = x + r /\ b = y + s
    BY <2>1, <2>3, <2>4
  <2> HIDE DEF x, y, r, s
  <2>7. ToSecond(a) = x /\ ToSecond(b) = y
    BY <2>2, <2>5, <2>6
  <2> QED BY <2>7 DEF x, y
<1>3. p <= q
  <2> DEFINE r == a % d
             s == b % d
  <2>1. /\ d \in Nat \ {0} /\ p \in Nat /\ q \in Nat /\ r \in 0 .. d - 1 /\ s \in 0 .. d - 1
        /\ a = d * p + r /\ b = d * q + s
    BY <1>1
  <2> HIDE DEF d, p, q, r, s
  <2>2. \A x, y, z \in Nat : y >= z + 1 => x * y >= x * z + x
    OBVIOUS
  <2>3. \A x, y \in Nat : x * y \in Nat
    OBVIOUS
  <2>4. p >= q + 1 => d * p >= d * q + d
    BY <2>1, <2>2
  <2>5. d * p \in Nat /\ d * q \in Nat
    BY <2>1, <2>3
  <2>6. \A x, y \in Nat : x >= y + d => ~(x + r <= y + s)
    BY <2>1
  <2> QED BY <2>1, <2>4, <2>5, <2>6
<1>4. d * p <= d * q
  BY <1>1, <1>3
<1>5. d * p \in Nat /\ d * q \in Nat /\ d * p <= a
  <2>1. d * p \in Nat /\ d * q \in Nat
    BY <1>1
  <2> HIDE DEF d, p, q
  <2> QED BY <1>1, <2>1
<1> QED BY <1>2, <1>4, <1>5

LEMMA SameDay == ASSUME NEW a \in Nat PROVE Day(ToSecond(a)) = Day(a)
<1> DEFINE d == SecondTicks
           D == TicksPerDay
           k == D \div d
           p == a \div d
           q == p \div k
<1>1. d \in Nat \ {0} /\ D \in Nat \ {0} /\ D % d = 0
  BY TicksAssumption
<1>2. k \in Nat /\ D = d * k + 0
  BY <1>1, QuotientIs
<1>3. k # 0
  BY <1>1, <1>2
<1>4. p \in Nat /\ a % d \in 0 .. d - 1 /\ a = d * p + (a % d)
  BY <1>1, QuotientIs
<1>5. q \in Nat /\ p % k \in 0 .. k - 1 /\ p = k * q + (p % k)
  BY <1>2, <1>3, <1>4, QuotientIs
<1> DEFINE r == p % k
           s == a % d
<1> HIDE DEF d, D, k, p, q, r, s
<1>6. /\ d \in Nat \ {0} /\ k \in Nat \ {0} /\ q \in Nat /\ r \in 0 .. k - 1 /\ s \in 0 .. d - 1
      /\ D = d * k /\ p = k * q + r /\ a = d * p + s
  BY <1>1, <1>2, <1>3, <1>4, <1>5 DEF r, s
<1>7. d * p = D * q + d * r
  <2>1. \A x, y, z, u \in Int : u * (x * y + z) = (u * x) * y + u * z
    OBVIOUS
  <2>2. k \in Int /\ q \in Int /\ r \in Int /\ d \in Int
    BY <1>6
  <2>3. d * (k * q + r) = (d * k) * q + d * r
    BY <2>1, <2>2
  <2> QED BY <1>6, <2>3
<1>8. /\ d * p \in Nat /\ D * q \in Nat /\ d * r \in Nat /\ s \in Nat /\ D \in Nat \ {0}
      /\ d * r \in 0 .. D - 1 /\ d * r + s \in 0 .. D - 1
  <2>1. \A x, y \in Nat : x * y \in Nat
    OBVIOUS
  <2>2. p \in Nat /\ D \in Nat \ {0} /\ r \in Nat /\ s \in Nat
    BY <1>1, <1>4, <1>6
  <2>3. d * p \in Nat /\ D * q \in Nat /\ d * r \in Nat
    BY <1>6, <2>1, <2>2
  <2>4. \A x, y, z \in Nat : y <= z - 1 => x * y + x <= x * z
    OBVIOUS
  <2>5. d * r + d <= D
    <3>1. r <= k - 1 /\ r \in Nat /\ k \in Nat /\ d \in Nat
      BY <1>6
    <3>2. d * r + d <= d * k
      BY <2>4, <3>1
    <3> QED BY <1>6, <3>2
  <2>6. \A x \in Nat : x + d <= D => x \in 0 .. D - 1 /\ x + s \in 0 .. D - 1
    BY <1>6, <2>2
  <2> QED BY <2>2, <2>3, <2>5, <2>6
<1>9. ToSecond(a) = d * p
  <2>1. \A x, y, z \in Nat : x = y + z => x - z = y
    OBVIOUS
  <2>2. a - s = d * p
    BY <1>6, <1>8, <2>1
  <2> QED BY <2>2 DEF ToSecond, d, s
<1>10. a = D * q + (d * r + s)
  <2>1. \A x, y, z, u, v \in Nat : x = u + v /\ y = x + z => y = u + (v + z)
    OBVIOUS
  <2> QED BY <1>6, <1>7, <1>8, <2>1
<1>11. (d * p) \div D = q
  BY <1>6, <1>7, <1>8, QuotientIsUnique
<1>12. a \div D = q
  BY <1>6, <1>8, <1>10, QuotientIsUnique
<1> QED BY <1>9, <1>11, <1>12 DEF Day, D

\* Whole days of 24 hours that have passed are never more than the calendar's.
LEMMA DaysPass ==
    ASSUME NEW a \in Nat, NEW b \in Nat, a <= b
    PROVE  (b - a) \div TicksPerDay <= CalendarDaysBetween(a, b)
<1> DEFINE D == TicksPerDay
           p == a \div D
           q == b \div D
           n == (b - a) \div D
<1>1. /\ D \in Nat \ {0} /\ b - a \in Nat
      /\ p \in Nat /\ a % D \in 0 .. D - 1 /\ a = D * p + (a % D)
      /\ q \in Nat /\ b % D \in 0 .. D - 1 /\ b = D * q + (b % D)
      /\ n \in Nat /\ (b - a) % D \in 0 .. D - 1 /\ b - a = D * n + ((b - a) % D)
  <2>1. D \in Nat \ {0} /\ b - a \in Nat
    BY TicksAssumption
  <2> HIDE DEF D
  <2> QED BY <2>1, QuotientIs
<1>2. n <= q - p
  <2> DEFINE r == a % D
             s == b % D
             t == (b - a) % D
  <2>1. SUFFICES ASSUME n >= q - p + 1 PROVE FALSE
    BY <1>1
  <2>2. \A k \in Int : k >= 1 => D * k >= D
    BY <1>1
  <2>3. D * (n - (q - p)) >= D
    BY <1>1, <2>1, <2>2
  <2>4. D * (n - (q - p)) = D * n - D * q + D * p
    BY <1>1
  <2>5. D * n \in Int /\ D * q \in Int /\ D * p \in Int
    BY <1>1
  <2> HIDE DEF D, p, q, n, r, s, t
  <2>6. r \in 0 .. D - 1 /\ s \in 0 .. D - 1 /\ t \in 0 .. D - 1 /\ D \in Nat
    BY <1>1 DEF r, s, t
  <2>7. a = D * p + r /\ b = D * q + s /\ b - a = D * n + t
    BY <1>1 DEF r, s, t
  <2> QED BY <2>3, <2>4, <2>5, <2>6, <2>7
<1> HIDE DEF D, p, q, n
<1>3. CalendarDaysBetween(a, b) = Larger(0, q - p)
  BY DEF CalendarDaysBetween, Day, D, p, q
<1>4. n <= Larger(0, q - p)
  BY <1>1, <1>2 DEF Larger
<1> QED BY <1>3, <1>4 DEF n, D

-----------------------------------------------------------------------------
(* Grades *)

\* The configured intervals do not shrink.
LevelsAscend == \A l, m \in DOMAIN FixedIntervals : l <= m => FixedIntervals[l] <= FixedIntervals[m]

\* A level up or down from an interval that is one of the levels.
LEMMA FixedFollowsGrade ==
    ASSUME LevelsAscend, NEW last \in Levels, NEW quality \in Nat
    PROVE  /\ quality >= 3 => \/ CalculateFixedInterval(last, quality) > last
                              \/ /\ CalculateFixedInterval(last, quality) = last
                                 /\ last = FixedIntervals[Len(FixedIntervals)]
           /\ quality < 3 => CalculateFixedInterval(last, quality) <= last
<1> DEFINE F == FixedIntervals
           L == Len(F)
           here == LevelFromInterval(last)
           delta == QualityToLevelDelta(quality)
           i == Larger(1, Smaller(here + delta, L))
<1>1. /\ F \in Seq(Nat \ {0}) /\ L \in Nat /\ DOMAIN F = 1 .. L /\ 1 <= L
      /\ \A l \in 1 .. L : F[l] \in Nat \ {0}
  BY FixedIntervalsAssumption
<1>2. last \in Nat /\ last > 0
  BY <1>1 DEF Levels
<1>3. /\ here \in 1 .. L
      /\ \A m \in 1 .. L : F[m] <= last => m <= here
  BY <1>1, <1>2, LevelIs
<1>4. F[here] = last
  <2>1. PICK l \in 1 .. L : last = F[l]
    BY <1>1 DEF Levels
  <2>2. l <= here
    BY <1>2, <1>3, <2>1
  <2>3. F[l] <= F[here]
    BY <1>1, <1>3, <2>2 DEF LevelsAscend
  <2>4. F[here] > last => here = 1
    BY <1>2, LevelIs
  <2>5. ~(F[here] > last)
    BY <1>1, <1>2, <1>3, <2>1, <2>2, <2>4
  <2> QED BY <1>1, <1>2, <1>3, <2>1, <2>3, <2>5
<1>5. /\ delta \in Int /\ (quality >= 3 => delta >= 1) /\ (quality < 3 => delta = -1)
  BY DEF QualityToLevelDelta
<1>6. CalculateFixedInterval(last, quality) = F[i]
  BY <1>2 DEF CalculateFixedInterval
<1> HIDE DEF F, L, here, delta
<1>7. /\ i \in 1 .. L
      /\ quality >= 3 => i > here \/ (i = here /\ here = L)
      /\ quality < 3 => i <= here
  BY <1>1, <1>3, <1>5 DEF Larger, Smaller
<1> HIDE DEF i
<1>8. CASE quality >= 3
  <2>1. i > here => F[i] > last
    BY <1>1, <1>2, <1>3, <1>7
  <2> QED BY <1>4, <1>6, <1>7, <1>8, <2>1 DEF F, L
<1>9. CASE quality < 3
  <2>1. F[i] <= F[here]
    BY <1>1, <1>3, <1>7, <1>9 DEF LevelsAscend, F
  <2> QED BY <1>4, <1>6, <1>9, <2>1
<1> QED BY <1>8, <1>9

\* One log after another: a good grade never shortens the interval and lengthens one
\* that is over, unless there is no longer level; before it is over, and with a bad
\* grade, nothing is lengthened.
LEMMA StepFollowsGrade ==
    ASSUME NEW c \in Algorithms, c # "sm2" => LevelsAscend, NEW p, StateOK(c, p), p.last # 0,
           NEW log, log.at \in Nat, ReplayQuality(c, log) \in Nat
    PROVE  LET quality == ReplayQuality(c, log)
               early   == CalendarDaysBetween(p.at, log.at) < p.last
               last    == ReplayStep(c, p, log).last
           IN  /\ quality >= 3 => last >= p.last
               /\ quality < 3 \/ early => last <= p.last
               /\ quality >= 3 /\ ~early =>
                      \/ last > p.last
                      \/ c # "sm2" /\ last = FixedIntervals[Len(FixedIntervals)]
<1> DEFINE quality == ReplayQuality(c, log)
           streak == IF quality >= 3 THEN p.streak + 1 ELSE 0
           ef == UpdateEasinessFactor(p.ef, quality)
           next == IF c = "sm2" THEN CalculateNextInterval(p.last, ef, quality, streak)
                   ELSE CalculateFixedInterval(p.last, quality)
           elapsed == CalendarDaysBetween(p.at, log.at)
           last == EarlyReviewGuard(quality, p.last, elapsed, next)
<1>1. ReplayStep(c, p, log).last = last
  BY DEF ReplayStep
<1>2. p.last \in Nat /\ p.last > 0 /\ quality \in Nat
  BY DEF StateOK
<1>3. ef \in Int /\ ef >= 130
  BY DEF StateOK, UpdateEasinessFactor, EasinessDelta, Larger, MinEasinessFactor
<1>4. elapsed \in Int
  <2>1. \A at \in Nat : Day(at) \in Int
    BY TicksAssumption, QuotientIs DEF Day
  <2>2. Day(p.at) \in Int /\ Day(log.at) \in Int
    BY <2>1 DEF StateOK
  <2> QED BY <2>2 DEF CalendarDaysBetween, Larger
<1> HIDE DEF ef, streak, elapsed
<1>5. /\ next \in Nat
      /\ quality < 3 => next <= p.last
      /\ quality >= 3 => \/ next > p.last
                         \/ /\ c # "sm2" /\ next = p.last
                            /\ p.last = FixedIntervals[Len(FixedIntervals)]
  <2>1. CASE c = "sm2" /\ quality < 3
    <3>1. \A l \in Nat : l > 0 => CalculateLapseInterval(l) \in Nat /\ CalculateLapseInterval(l) <= l
      BY DEF CalculateLapseInterval, CeilDiv, Larger
    <3>2. next = CalculateLapseInterval(p.last)
      BY <2>1 DEF CalculateNextInterval
    <3> HIDE DEF next, quality
    <3> QED BY <1>2, <2>1, <3>1, <3>2
  <2>2. CASE c = "sm2" /\ quality >= 3
    <3>1. next = Grow(p.last, ef)
      BY <1>2, <2>2 DEF CalculateNextInterval, quality
    <3> HIDE DEF next, quality
    <3> QED BY <1>2, <1>3, <2>2, <3>1, GrowIs
  <2>3. CASE c # "sm2"
    <3>1. next = CalculateFixedInterval(p.last, quality) /\ p.last \in Levels
      BY <2>3 DEF StateOK
    <3> HIDE DEF next, quality
    <3> QED BY <1>2, <2>3, <3>1, FixedIs, FixedFollowsGrade
  <2> HIDE DEF quality
  <2> QED BY <1>2, <2>1, <2>2, <2>3
<1> HIDE DEF next
<1>6. /\ quality >= 3 => last >= p.last
      /\ quality < 3 \/ elapsed < p.last => last <= p.last
      /\ quality >= 3 /\ ~(elapsed < p.last) =>
             \/ last > p.last
             \/ c # "sm2" /\ last = FixedIntervals[Len(FixedIntervals)]
  <2> HIDE DEF quality
  <2>1. last = IF quality >= 3 /\ p.last > 0 /\ elapsed < p.last /\ next > p.last THEN p.last ELSE next
    BY DEF EarlyReviewGuard
  <2> QED BY <1>2, <1>4, <1>5, <2>1
<1> HIDE DEF last
<1> QED BY <1>1, <1>6 DEF elapsed, quality

=============================================================================
