-------------------------- MODULE ReviewChainProofs --------------------------
(***************************************************************************)
(* The review history of a word, for every length of its lists: the live   *)
(* quiz stores what a fix recomputes, intervals follow grades, and an      *)
(* override, its undoing and the free-form halves stay together.           *)
(***************************************************************************)
EXTENDS ReviewChain, ReplayProofs

-----------------------------------------------------------------------------
(* A list of the history *)

\* A stored log has an interval, and a grade that the replay leaves.
StoredLog(c) == {l \in LogIn(ResponseTimes, QuizTypes[c]) :
                    l.interval # 0 /\ l.quality = ReplayQuality(c, l)}

\* The logs come newest first, each from a second before the present one.
IsHistory(c, now, logs) ==
    /\ logs \in Seq(StoredLog(c))
    /\ IsNewestFirst(logs)
    /\ \A i \in DOMAIN logs : logs[i].at < ToSecond(now)

LEMMA HistoryIs ==
    ASSUME NEW c, NEW now, NEW logs, IsHistory(c, now, logs)
    PROVE  /\ logs \in Seq(LogIn(ResponseTimes, QuizTypes[c]))
           /\ Len(logs) \in Nat /\ DOMAIN logs = 1 .. Len(logs)
           /\ \A i \in DOMAIN logs :
                  /\ logs[i] \in StoredLog(c) /\ logs[i] \in LogIn(ResponseTimes, QuizTypes[c])
                  /\ logs[i].at \in Nat /\ logs[i].interval \in Nat \ {0}
                  /\ logs[i].quality = ReplayQuality(c, logs[i])
                  /\ logs[i].quality \in Qualities /\ logs[i].status \in Statuses
                  /\ logs[i].quizType \in QuizTypes[c] /\ logs[i].rt \in ResponseTimes
<1>1. logs \in Seq(StoredLog(c))
  BY DEF IsHistory
<1>2. ASSUME NEW i \in DOMAIN logs PROVE logs[i] \in StoredLog(c)
  BY <1>1
<1>3. StoredLog(c) \subseteq LogIn(ResponseTimes, QuizTypes[c])
  BY DEF StoredLog
<1>4. logs \in Seq(LogIn(ResponseTimes, QuizTypes[c]))
  BY <1>1, <1>3
<1>5. \A l \in StoredLog(c) :
          /\ l.at \in Nat /\ l.interval \in Nat \ {0} /\ l.quality = ReplayQuality(c, l)
          /\ l.quality \in Qualities /\ l.status \in Statuses
          /\ l.quizType \in QuizTypes[c] /\ l.rt \in ResponseTimes
  BY DEF StoredLog, LogIn
<1> QED BY <1>1, <1>2, <1>3, <1>4, <1>5

\* Time passes.
LEMMA HistoryLasts ==
    ASSUME NEW c, NEW now \in Nat, NEW later \in Nat, now <= later, NEW logs,
           IsHistory(c, now, logs)
    PROVE  IsHistory(c, later, logs)
<1>1. ToSecond(now) <= ToSecond(later) /\ ToSecond(now) \in Nat /\ ToSecond(later) \in Nat
  BY SecondsStay
<1> QED BY <1>1, HistoryIs DEF IsHistory

\* A replay takes any list of the history; its states are typed.
LEMMA HistoryStates ==
    ASSUME NEW c \in Calculators, NEW now, NEW logs, IsHistory(c, now, logs)
    PROVE  /\ \A i \in 1 .. Len(logs) + 1 : StateOK(c, After(c, logs, i))
           /\ \A i \in DOMAIN logs : After(c, logs, i).last # 0
<1>1. \A l \in LogIn(ResponseTimes, QuizTypes[c]) : l.at \in Nat /\ ReplayQuality(c, l) \in Nat
  BY DEF LogIn, ReplayQuality, Qualities
<1>2. c \in Algorithms
  BY CalculatorsAssumption
<1> QED BY <1>1, <1>2, HistoryIs, AfterTypes

\* A draft as it is stored: to the second, with its interval.
Stored(c, logs, draft) ==
    [draft EXCEPT !.at = ToSecond(@), !.interval = NextIntervalForWrite(c, logs, draft)]

\* What an answer adds to a list.
LEMMA AnswerIs ==
    ASSUME NEW c \in Calculators, NEW now \in Nat, NEW logs, IsHistory(c, now, logs),
           NEW o \in Outcomes[c], NEW rt \in ResponseTimes, NEW quizType \in QuizTypes[c],
           NEW status \in Statuses, status = "misunderstood" <=> ~o.correct
    PROVE  LET log == Stored(c, logs, LogOf(now, rt, o, status, quizType))
           IN  /\ log \in StoredLog(c)
               /\ log.at = ToSecond(now) /\ log.quality = o.quality /\ log.status = status
               /\ log.quizType = quizType
               /\ log.interval = ReplayStep(c, After(c, logs, 1), log).last
               /\ IsHistory(c, now + Spacing, <<log>> \o logs)
<1> DEFINE draft == LogOf(now, rt, o, status, quizType)
           log == Stored(c, logs, draft)
           L == LogIn(ResponseTimes, QuizTypes[c])
<1>1. c \in Algorithms /\ o.quality \in 1 .. 5 /\ o.correct \in BOOLEAN /\ (~o.correct => o.quality < 3)
  BY CalculatorsAssumption, OutcomesAssumption
<1>2. /\ draft \in L /\ draft.at = now /\ draft.quality = o.quality /\ draft.status = status
      /\ draft.rt = rt /\ draft.quizType = quizType
  BY <1>1 DEF LogOf, LogIn, Qualities
<1>3. ReplayQuality(c, draft) = draft.quality
  BY <1>1, <1>2 DEF ReplayQuality
<1>4. ToSecond(now) \in Nat /\ ToSecond(now) <= now
  BY SecondsStay
<1>5. \A i \in DOMAIN logs : logs[i].at < ToSecond(now) /\ logs[i].at < draft.at
  BY <1>2, <1>4, HistoryIs DEF IsHistory
<1> DEFINE interval == NextIntervalForWrite(c, logs, draft)
<1>6. interval = ReplayStep(c, After(c, logs, 1), draft).last
  BY <1>1, <1>2, <1>5, HistoryIs, WriteIs DEF IsHistory
<1>7. interval \in Nat /\ interval # 0
  <2>1. StateOK(c, After(c, logs, 1)) 
    BY HistoryIs, HistoryStates
  <2>2. ReplayQuality(c, draft) \in Nat
    BY <1>1, <1>2, <1>3
  <2> QED BY <1>1, <1>2, <1>6, <2>1, <2>2, StepTypes DEF StateOK
<1>8. log = [draft EXCEPT !.at = ToSecond(@), !.interval = interval]
  BY DEF Stored
<1> HIDE DEF draft, log, interval
<1>9. /\ log \in L /\ log.at = ToSecond(now) /\ log.interval = interval
      /\ log.quality = draft.quality /\ log.status = draft.status /\ log.quizType = draft.quizType
  BY <1>2, <1>4, <1>7, <1>8 DEF LogIn
<1>10. ReplayQuality(c, log) = ReplayQuality(c, draft)
  BY <1>9 DEF ReplayQuality
<1>11. log \in StoredLog(c)
  BY <1>3, <1>7, <1>9, <1>10 DEF StoredLog
<1>12. SameLog(c, draft, log)
  BY <1>2, <1>9, <1>10, SameDay DEF SameLog
<1>13. log.interval = ReplayStep(c, After(c, logs, 1), log).last
  <2>1. SameState(After(c, logs, 1), After(c, logs, 1))
    BY DEF SameState
  <2> QED BY <1>6, <1>9, <1>12, <2>1, StepSame DEF SameState
<1>14. IsHistory(c, now + Spacing, <<log>> \o logs)
  <2> DEFINE chain == <<log>> \o logs
  <2>1. logs \in Seq(StoredLog(c)) /\ \A l \in StoredLog(c) : l.at \in Nat
    BY DEF IsHistory, StoredLog, LogIn
  <2>2. chain \in Seq(StoredLog(c))
    BY <1>11, <2>1, ChainIs
  <2>3. IsNewestFirst(chain)
    BY <1>5, <1>9, <1>11, <2>1, ChainIsNewestFirst DEF IsHistory
  <2>4. ToSecond(now) < ToSecond(now + Spacing) /\ ToSecond(now + Spacing) \in Nat
    <3>1. now + Spacing \in Nat /\ now + SecondTicks <= now + Spacing
      BY SpacingAssumption, TicksAssumption
    <3> QED BY <3>1, SecondsPass, SecondsStay
  <2>5. ASSUME NEW i \in DOMAIN chain PROVE chain[i].at < ToSecond(now + Spacing)
    <3>1. CASE i = 1
      <4>1. chain[1] = log
        BY <1>11, <2>1, ChainIs
      <4> HIDE DEF chain
      <4> QED BY <1>9, <2>4, <3>1, <4>1
    <3>2. CASE i # 1
      <4>1. i - 1 \in DOMAIN logs /\ chain[i] = logs[i - 1]
        BY <1>11, <2>1, <3>2, ChainIs
      <4>2. logs[i - 1].at \in Nat /\ logs[i - 1].at < ToSecond(now)
        BY <1>5, <4>1, HistoryIs
      <4> QED BY <1>4, <2>4, <4>1, <4>2
    <3> QED BY <3>1, <3>2
  <2> QED BY <2>2, <2>3, <2>5 DEF IsHistory
<1> QED BY <1>2, <1>9, <1>11, <1>13, <1>14 DEF draft, log

\* The validator forgets the interval it reads as a skip, and nothing else.
LEMMA ClearIs ==
    ASSUME NEW times, NEW types, NEW logs \in Seq(LogIn(times, types))
    PROVE  /\ ClearLegacySkip(logs) \in Seq(LogIn(times, types))
           /\ Len(ClearLegacySkip(logs)) = Len(logs)
           /\ \A i \in DOMAIN logs :
                  /\ ClearLegacySkip(logs)[i].at = logs[i].at
                  /\ ClearLegacySkip(logs)[i].rt = logs[i].rt
                  /\ ClearLegacySkip(logs)[i].quality = logs[i].quality
                  /\ ClearLegacySkip(logs)[i].status = logs[i].status
                  /\ ClearLegacySkip(logs)[i].quizType = logs[i].quizType
<1>1. CASE ~IsLegacySkip(logs)
  BY <1>1 DEF ClearLegacySkip
<1>2. CASE IsLegacySkip(logs)
  <2> DEFINE cleared == [logs[1] EXCEPT !.interval = 0]
             new == [logs EXCEPT ![1] = cleared]
  <2>1. 1 \in DOMAIN logs /\ logs[1] \in LogIn(times, types)
    BY <1>2 DEF IsLegacySkip
  <2>2. /\ cleared \in LogIn(times, types) /\ cleared.at = logs[1].at /\ cleared.rt = logs[1].rt
        /\ cleared.quality = logs[1].quality /\ cleared.status = logs[1].status
        /\ cleared.quizType = logs[1].quizType
    BY <2>1 DEF LogIn
  <2>3. ClearLegacySkip(logs) = new
    BY <1>2 DEF ClearLegacySkip
  <2> HIDE DEF cleared
  <2>4. /\ new \in Seq(LogIn(times, types)) /\ Len(new) = Len(logs)
        /\ \A i \in DOMAIN logs : new[i] = IF i = 1 THEN cleared ELSE logs[i]
    BY <2>1, <2>2
  <2> QED BY <2>2, <2>3, <2>4
<1> QED BY <1>1, <1>2

\* Two logs of one answer: only an override and a fix tell them apart.
SameAnswer(a, b) == a.at = b.at /\ a.rt = b.rt /\ a.quizType = b.quizType

\* What a fix makes of a list: grades stay, every interval becomes that of the replay.
LEMMA FixIs ==
    ASSUME NEW c \in Calculators, NEW now, NEW logs, IsHistory(c, now, logs), NEW new,
           new = RecalculateAll(c, ClearLegacySkip(logs))
    PROVE  /\ IsHistory(c, now, new) /\ Len(new) = Len(logs) /\ DOMAIN new = DOMAIN logs
           /\ \A i \in DOMAIN logs : /\ SameAnswer(new[i], logs[i])
                                     /\ new[i].quality = logs[i].quality
                                     /\ new[i].status = logs[i].status
           /\ IsReplayed(c, new)
           /\ IsReplayed(c, logs) => new = logs
<1> DEFINE cleared == ClearLegacySkip(logs)
           L == LogIn(ResponseTimes, QuizTypes[c])
           N == Len(logs)
<1>1. /\ c \in Algorithms /\ logs \in Seq(L) /\ N \in Nat /\ DOMAIN logs = 1 .. N
      /\ IsNewestFirst(logs)
      /\ \A i \in 1 .. N : /\ logs[i] \in L /\ logs[i].quality = ReplayQuality(c, logs[i])
                           /\ logs[i].at < ToSecond(now)
  BY CalculatorsAssumption, HistoryIs DEF IsHistory
<1>2. /\ cleared \in Seq(L) /\ Len(cleared) = N /\ DOMAIN cleared = 1 .. N
      /\ \A i \in 1 .. N : /\ cleared[i] \in L
                           /\ cleared[i].at = logs[i].at /\ cleared[i].rt = logs[i].rt
                           /\ cleared[i].quality = logs[i].quality
                           /\ cleared[i].status = logs[i].status
                           /\ cleared[i].quizType = logs[i].quizType
                           /\ ReplayQuality(c, cleared[i]) = ReplayQuality(c, logs[i])
  <2>1. /\ cleared \in Seq(L) /\ Len(cleared) = N
        /\ \A i \in 1 .. N : /\ cleared[i].at = logs[i].at /\ cleared[i].rt = logs[i].rt
                             /\ cleared[i].quality = logs[i].quality
                             /\ cleared[i].status = logs[i].status
                             /\ cleared[i].quizType = logs[i].quizType
    BY <1>1, ClearIs
  <2> HIDE DEF cleared, L, N
  <2>2. DOMAIN cleared = 1 .. N /\ \A i \in 1 .. N : cleared[i] \in L
    BY <2>1
  <2> QED BY <2>1, <2>2 DEF ReplayQuality
<1> HIDE DEF cleared, N
<1>3. IsNewestFirst(cleared)
  BY <1>1, <1>2 DEF IsNewestFirst
<1>4. new = [i \in 1 .. N |-> Rated(c, cleared[i], After(c, cleared, i))]
  <2>1. new = [i \in 1 .. Len(cleared) |-> Rated(c, cleared[i], After(c, cleared, i))]
    BY <1>1, <1>2, <1>3, RecalculateIs DEF cleared
  <2> QED BY <1>2, <2>1
<1>5. \A i \in 1 .. N : After(c, cleared, i).last \in Nat \ {0}
  <2>1. \A l \in L : l.at \in Nat /\ ReplayQuality(c, l) \in Nat
    BY DEF LogIn, ReplayQuality, Qualities
  <2>2. \A i \in 1 .. N : StateOK(c, After(c, cleared, i)) /\ After(c, cleared, i).last # 0
    BY <1>1, <1>2, <2>1, AfterTypes
  <2> QED BY <2>2 DEF StateOK
<1>6. ASSUME NEW i \in 1 .. N
      PROVE  /\ new[i] \in StoredLog(c) /\ SameAnswer(new[i], logs[i])
             /\ new[i].quality = logs[i].quality /\ new[i].status = logs[i].status
             /\ new[i].interval = After(c, cleared, i).last
             /\ ReplayQuality(c, new[i]) = ReplayQuality(c, logs[i])
  <2> DEFINE q == ReplayQuality(c, cleared[i])
             t == After(c, cleared, i).last
  <2>1. new[i] = [cleared[i] EXCEPT !.quality = q, !.interval = t]
    BY <1>4 DEF Rated
  <2>2. q = cleared[i].quality /\ q \in Qualities /\ t \in Nat /\ t # 0 /\ cleared[i] \in L
    <3>1. cleared[i].quality \in Qualities
      BY <1>2 DEF LogIn
    <3> QED BY <1>1, <1>2, <1>5, <3>1
  <2> HIDE DEF q, t
  <2>3. /\ new[i] \in L /\ new[i].at = cleared[i].at /\ new[i].rt = cleared[i].rt
        /\ new[i].quizType = cleared[i].quizType /\ new[i].status = cleared[i].status
        /\ new[i].quality = q /\ new[i].interval = t
    BY <2>1, <2>2 DEF LogIn
  <2>4. ReplayQuality(c, new[i]) = ReplayQuality(c, cleared[i])
    BY <2>2, <2>3 DEF ReplayQuality
  <2>5. new[i] \in StoredLog(c)
    BY <1>1, <1>2, <2>2, <2>3, <2>4 DEF StoredLog
  <2> QED BY <1>2, <2>2, <2>3, <2>4, <2>5 DEF SameAnswer, t
<1>7. new \in Seq(StoredLog(c)) /\ Len(new) = N /\ DOMAIN new = 1 .. N
  BY <1>1, <1>4, <1>6
<1>8. IsHistory(c, now, new)
  <2>1. \A i \in 1 .. N : new[i].at = logs[i].at
    BY <1>6 DEF SameAnswer
  <2>2. IsNewestFirst(new)
    BY <1>1, <1>7, <2>1 DEF IsNewestFirst
  <2>3. \A i \in DOMAIN new : new[i].at < ToSecond(now)
    BY <1>1, <1>7, <2>1
  <2> HIDE DEF L
  <2> QED BY <1>7, <2>2, <2>3 DEF IsHistory
<1>9. ASSUME NEW old, old \in Seq(L), Len(old) = N, DOMAIN old = 1 .. N,
             \A i \in 1 .. N : old[i].at = logs[i].at
                               /\ ReplayQuality(c, old[i]) = ReplayQuality(c, logs[i])
      PROVE  \A i \in 1 .. N : After(c, cleared, i).last = After(c, old, i).last
  <2>1. /\ cleared \in Seq(L) /\ old \in Seq(L) /\ 0 \in Nat /\ Len(old) = Len(cleared) + 0
        /\ \A i \in DOMAIN cleared : SameLog(c, cleared[i], old[i + 0])
    BY <1>1, <1>2, <1>9 DEF SameLog
  <2>2. \A i \in 1 .. Len(cleared) + 1 : SameState(After(c, cleared, i), After(c, old, i + 0))
    <3> HIDE DEF L
    <3> QED BY ONLY <2>1, AfterSame
  <2>3. ASSUME NEW i \in 1 .. N PROVE After(c, cleared, i).last = After(c, old, i).last
    <3>1. i \in 1 .. N + 1 /\ i + 0 = i
      BY <1>1
    <3> QED BY <1>2, <2>2, <3>1 DEF SameState
  <2> QED BY <2>3
<1>10. IsReplayed(c, new)
  <2>1. new \in Seq(L)
    BY <1>7 DEF StoredLog
  <2>2. \A i \in 1 .. N : After(c, cleared, i).last = After(c, new, i).last
    BY <1>6, <1>7, <1>9, <2>1 DEF SameAnswer
  <2> QED BY <1>1, <1>6, <1>7, <2>2 DEF IsReplayed
<1>11. ASSUME IsReplayed(c, logs) PROVE new = logs
  <2>1. \A i \in 1 .. N : After(c, cleared, i).last = After(c, logs, i).last
    BY <1>1, <1>9 DEF N
  <2>2. ASSUME NEW i \in 1 .. N PROVE new[i] = logs[i]
    <3>1. /\ new[i] \in L /\ logs[i] \in L
          /\ new[i].interval = logs[i].interval /\ new[i].quality = logs[i].quality
          /\ new[i].status = logs[i].status /\ new[i].at = logs[i].at /\ new[i].rt = logs[i].rt
          /\ new[i].quizType = logs[i].quizType
      BY <1>1, <1>6, <1>11, <2>1 DEF IsReplayed, SameAnswer, StoredLog
    <3> QED BY <3>1 DEF LogIn
  <2> QED BY <1>1, <1>7, <2>2
<1> QED BY <1>1, <1>6, <1>7, <1>8, <1>10, <1>11 DEF N

\* One log of a list changes, and keeps its date.
LEMMA RewriteIs ==
    ASSUME NEW c, NEW now, NEW logs, IsHistory(c, now, logs), NEW i \in DOMAIN logs,
           NEW log \in StoredLog(c), log.at = logs[i].at, NEW new, new = [logs EXCEPT ![i] = log]
    PROVE  /\ IsHistory(c, now, new) /\ Len(new) = Len(logs) /\ DOMAIN new = DOMAIN logs
           /\ new[i] = log /\ \A j \in DOMAIN logs : j # i => new[j] = logs[j]
<1>1. /\ new \in Seq(StoredLog(c)) /\ Len(new) = Len(logs) /\ DOMAIN new = DOMAIN logs
      /\ new[i] = log /\ \A j \in DOMAIN logs : j # i => new[j] = logs[j]
  BY DEF IsHistory
<1>2. \A j \in DOMAIN logs : new[j].at = logs[j].at
  BY <1>1
<1> QED BY <1>1, <1>2 DEF IsHistory, IsNewestFirst

-----------------------------------------------------------------------------
(* Override and Undo *)

\* The newest log with the key is found, if there is one.
LEMMA IndexIs ==
    ASSUME NEW S, NEW logs \in Seq(S), NEW key
    PROVE  /\ \/ IndexLogByLearnedAt(logs, key) = 0
              \/ /\ IndexLogByLearnedAt(logs, key) \in DOMAIN logs
                 /\ Matches(logs[IndexLogByLearnedAt(logs, key)], key)
           /\ \A i \in DOMAIN logs :
                  Matches(logs[i], key) => IndexLogByLearnedAt(logs, key) \in DOMAIN logs
           /\ 0 \notin DOMAIN logs
<1> DEFINE hits == {i \in DOMAIN logs : Matches(logs[i], key)}
           Least == CHOOSE i \in hits : \A j \in hits : i <= j
<1>1. IndexLogByLearnedAt(logs, key) = IF hits = {} THEN 0 ELSE Least
  BY DEF IndexLogByLearnedAt
<1>2. hits # {} => Least \in hits
  <2>1. hits \subseteq Nat
    OBVIOUS
  <2> HIDE DEF hits
  <2>2. hits # {} => \E i \in hits : \A j \in hits : i <= j
    BY <2>1, LeastNumber
  <2> QED BY <2>2
<1>3. \A i \in hits : i \in DOMAIN logs /\ Matches(logs[i], key)
  OBVIOUS
<1>4. \A i \in DOMAIN logs : Matches(logs[i], key) => i \in hits
  OBVIOUS
<1> HIDE DEF hits, Least
<1> QED BY <1>1, <1>2, <1>3, <1>4

\* An instant is the date of one log.
LEMMA InstantIs ==
    ASSUME NEW c, NEW now, NEW logs, IsHistory(c, now, logs), NEW at
    PROVE  /\ \A i \in DOMAIN logs : logs[i].at = at =>
                  IndexLogByLearnedAt(logs, [kind |-> "instant", value |-> at]) = i
           /\ IndexLogByLearnedAt(logs, [kind |-> "instant", value |-> at]) # 0 =>
                  \E i \in DOMAIN logs : logs[i].at = at
<1> DEFINE key == [kind |-> "instant", value |-> at]
<1>1. \A log : Matches(log, key) <=> log.at = at
  BY DEF Matches, KeyOf
<1>2. logs \in Seq(StoredLog(c)) /\ IsNewestFirst(logs)
  BY DEF IsHistory
<1> HIDE DEF key
<1>3. \A i, j \in DOMAIN logs : logs[i].at = logs[j].at => i = j
  <2>1. \A i \in DOMAIN logs : i \in Nat /\ logs[i].at \in Nat
    BY HistoryIs
  <2>2. \A i, j \in DOMAIN logs : i < j => logs[j].at < logs[i].at
    BY <1>2 DEF IsNewestFirst
  <2>3. ASSUME NEW i \in DOMAIN logs, NEW j \in DOMAIN logs, logs[i].at = logs[j].at
        PROVE  i = j
    BY <2>1, <2>2, <2>3
  <2> QED BY <2>3
<1> QED BY <1>1, <1>2, <1>3, IndexIs DEF key

\* A grade the replay leaves alone.
Graded(c, quality, status) ==
    /\ quality \in Qualities /\ status \in Statuses
    /\ quality # 0 /\ ~(c = "sm2" /\ status = "misunderstood" /\ quality >= 3)

\* A log with another grade and another interval.
Remarked(log, quality, status, interval) ==
    [log EXCEPT !.quality = quality, !.status = status, !.interval = interval]

LEMMA MarkIs ==
    ASSUME NEW c, NEW log \in StoredLog(c), NEW quality, NEW status, Graded(c, quality, status),
           NEW interval \in Nat \ {0}
    PROVE  LET new == Remarked(log, quality, status, interval)
           IN  /\ new \in StoredLog(c) /\ SameAnswer(new, log)
               /\ new.quality = quality /\ new.status = status /\ new.interval = interval
<1> DEFINE L == LogIn(ResponseTimes, QuizTypes[c])
           new == Remarked(log, quality, status, interval)
<1>0. new = [log EXCEPT !.quality = quality, !.status = status, !.interval = interval]
  BY DEF Remarked
<1> HIDE DEF new
<1>1. log \in L /\ quality \in Qualities /\ status \in Statuses
  BY DEF StoredLog, Graded
<1>2. /\ new \in L /\ new.at = log.at /\ new.rt = log.rt /\ new.quizType = log.quizType
      /\ new.quality = quality /\ new.status = status /\ new.interval = interval
  BY <1>0, <1>1 DEF LogIn
<1>3. new.quality = ReplayQuality(c, new)
  BY <1>2 DEF Graded, ReplayQuality
<1>4. new \in StoredLog(c) /\ SameAnswer(new, log)
  BY <1>2, <1>3 DEF StoredLog, SameAnswer
<1> QED BY <1>2, <1>4 DEF new

LEMMA StoredIsGraded ==
    ASSUME NEW c, NEW log \in StoredLog(c)
    PROVE  Graded(c, log.quality, log.status) /\ log.interval \in Nat \ {0}
           /\ log.quizType \in QuizTypes[c]
<1>1. log \in LogIn(ResponseTimes, QuizTypes[c]) /\ log.quality = ReplayQuality(c, log)
      /\ log.interval # 0
  BY DEF StoredLog
<1>2. log.quality \in Qualities /\ log.status \in Statuses /\ log.interval \in Nat
      /\ log.quizType \in QuizTypes[c]
  BY <1>1 DEF LogIn
<1> QED BY <1>1, <1>2 DEF Graded, ReplayQuality, Qualities

\* The interval of an overridden log is replayed from the logs before it.
LEMMA IntervalOfMark ==
    ASSUME NEW c \in Calculators, NEW now, NEW logs, IsHistory(c, now, logs),
           NEW i \in DOMAIN logs, NEW mark \in StoredLog(c), mark.at = logs[i].at
    PROVE  NextIntervalForWrite(c, SubSeq(logs, i + 1, Len(logs)), mark) \in Nat \ {0}
<1> DEFINE older == SubSeq(logs, i + 1, Len(logs))
           N == Len(logs)
           L == LogIn(ResponseTimes, QuizTypes[c])
<1>1. /\ c \in Algorithms /\ logs \in Seq(L) /\ N \in Nat /\ DOMAIN logs = 1 .. N
      /\ i \in 1 .. N /\ IsNewestFirst(logs)
  BY CalculatorsAssumption, HistoryIs DEF IsHistory
<1>2. \A l \in L : l.at \in Nat /\ ReplayQuality(c, l) \in Nat
  BY DEF LogIn, ReplayQuality, Qualities
<1>3. /\ older \in Seq(L) /\ Len(older) = N - i /\ DOMAIN older = 1 .. N - i
      /\ \A j \in 1 .. N - i : older[j] = logs[i + j]
  <2> HIDE DEF L
  <2>1. i + 1 \in 1 .. N + 1 /\ N \in i .. N
    BY <1>1
  <2>2. older \in Seq(L) /\ Len(older) = N - i
    BY <1>1, <2>1
  <2>3. \A j \in 1 .. N - i : older[j] = logs[i + j]
    BY <1>1, <2>1
  <2> QED BY <1>1, <2>2, <2>3
<1> HIDE DEF older, N
<1>4. IsNewestFirst(older) /\ \A j \in DOMAIN older : older[j].at < mark.at
  <2>1. \A j \in 1 .. N - i : i + j \in 1 .. N /\ i < i + j
    BY <1>1
  <2>2. \A j \in 1 .. N - i : older[j].at < logs[i].at
    BY <1>1, <1>3, <2>1 DEF IsNewestFirst
  <2>3. ASSUME NEW j \in 1 .. N - i, NEW k \in 1 .. N - i, j < k
        PROVE  older[k].at < older[j].at
    <3>1. i + j < i + k
      BY <1>1, <2>3
    <3> QED BY <1>1, <1>3, <2>1, <3>1 DEF IsNewestFirst
  <2> QED BY <1>3, <2>2, <2>3 DEF IsNewestFirst
<1>5. mark \in L
  BY DEF StoredLog
<1>6. NextIntervalForWrite(c, older, mark) = ReplayStep(c, After(c, older, 1), mark).last
  BY <1>1, <1>3, <1>4, <1>5, WriteIs
<1>7. StateOK(c, After(c, older, 1))
  <2>1. \A j \in 1 .. Len(older) + 1 : StateOK(c, After(c, older, j))
    BY <1>1, <1>2, <1>3, AfterTypes
  <2>2. 1 \in 1 .. Len(older) + 1
    BY <1>1, <1>3
  <2> QED BY <2>1, <2>2
<1> HIDE DEF L
<1>8. ReplayStep(c, After(c, older, 1), mark).last \in Nat \ {0}
  BY <1>1, <1>2, <1>5, <1>7, StepTypes DEF StateOK
<1> QED BY <1>6, <1>8 DEF older, N

-----------------------------------------------------------------------------
(* The inductive invariant *)

\* What the page was told of an overridden log is a grade and an interval of a log.
ToldOK(c, k) ==
    k.quizType \in QuizTypes[c] /\ Graded(c, k.quality, k.status) /\ k.interval \in Nat \ {0}

HistoryInv ==
    /\ calculator \in Calculators /\ clock \in Nat /\ skipped \subseteq Played
    /\ IsHistory(calculator, clock, learned) /\ IsHistory(calculator, clock, reverse)
    /\ \A k \in captured : ToldOK(calculator, k)

LEMMA ListIs ==
    ASSUME HistoryInv, NEW quizType
    PROVE  IsHistory(calculator, clock, LogsOf(PrimaryLogList(quizType)))
BY DEF HistoryInv, LogsOf

\* The logs of the list after are those before, one for one.
OneForOne(old, new) ==
    DOMAIN new = DOMAIN old /\ \A i \in DOMAIN old : SameAnswer(new[i], old[i])

LEMMA SameIsOneForOne == ASSUME NEW logs PROVE OneForOne(logs, logs)
BY DEF OneForOne, SameAnswer

\* A log is rewritten, and for a free-form answer its other half.
LEMMA RewriteStep ==
    ASSUME HistoryInv, NEW quizType, NEW i \in DOMAIN LogsOf(PrimaryLogList(quizType)),
           NEW log \in StoredLog(calculator),
           SameAnswer(log, LogsOf(PrimaryLogList(quizType))[i]), Rewrite(quizType, i, log)
    PROVE  /\ IsHistory(calculator, clock, learned') /\ OneForOne(learned, learned')
           /\ IsHistory(calculator, clock, reverse') /\ OneForOne(reverse, reverse')
<1> DEFINE c == calculator
           Good(new, old) == IsHistory(c, clock, new) /\ OneForOne(old, new)
<1>1. \A logs : IsHistory(c, clock, logs) => Good(logs, logs)
  BY SameIsOneForOne
<1>2. ASSUME NEW logs, IsHistory(c, clock, logs), NEW j \in DOMAIN logs,
             NEW l \in StoredLog(c), SameAnswer(l, logs[j]), NEW new, new = [logs EXCEPT ![j] = l]
      PROVE  Good(new, logs)
  <2>1. l.at = logs[j].at
    BY <1>2 DEF SameAnswer
  <2>2. /\ IsHistory(c, clock, new) /\ DOMAIN new = DOMAIN logs
        /\ new[j] = l /\ \A k \in DOMAIN logs : k # j => new[k] = logs[k]
    BY <1>2, <2>1, RewriteIs
  <2> QED BY <1>2, <2>2 DEF OneForOne, SameAnswer
<1>3. IsHistory(c, clock, learned) /\ IsHistory(c, clock, reverse)
  BY DEF HistoryInv
<1>4. CASE quizType = "freeform"
  <2>1. learned' = [learned EXCEPT ![i] = log] /\ reverse' = MirrorToPair(log)
        /\ LogsOf(PrimaryLogList(quizType)) = learned
    BY <1>4 DEF Rewrite, PrimaryLogList, LogsOf
  <2>2. Good(learned', learned)
    BY <1>2, <1>3, <2>1
  <2>3. Good(reverse', reverse)
    <3> DEFINE j == PairIndex(log)
               half == Remarked(reverse[j], log.quality, log.status, log.interval)
    <3>1. CASE j = 0
      <4>1. reverse' = reverse
        BY <2>1, <3>1 DEF MirrorToPair
      <4> QED BY <1>1, <1>3, <4>1
    <3>2. CASE j # 0
      <4>1. reverse \in Seq(StoredLog(c))
        BY <1>3 DEF IsHistory
      <4>2. j \in DOMAIN reverse /\ reverse[j] \in StoredLog(c)
        BY <3>2, <4>1, IndexIs DEF PairIndex
      <4>3. reverse' = [reverse EXCEPT ![j] = half]
        BY <2>1, <3>2 DEF MirrorToPair, Remarked
      <4>4. Graded(c, log.quality, log.status) /\ log.interval \in Nat \ {0}
        BY StoredIsGraded
      <4> HIDE DEF j
      <4>5. half \in StoredLog(c) /\ SameAnswer(half, reverse[j])
        BY <4>2, <4>4, MarkIs
      <4> HIDE DEF half
      <4> QED BY <1>2, <1>3, <4>2, <4>3, <4>5
    <3> QED BY <3>1, <3>2
  <2> QED BY <2>2, <2>3
<1>5. CASE quizType # "freeform"
  <2>1. CASE quizType = "reverse"
    <3>1. learned' = learned /\ reverse' = [reverse EXCEPT ![i] = log]
          /\ LogsOf(PrimaryLogList(quizType)) = reverse
      BY <1>5, <2>1 DEF Rewrite, PrimaryLogList, LogsOf, SetLogs
    <3> QED BY <1>1, <1>2, <1>3, <3>1
  <2>2. CASE quizType # "reverse"
    <3>1. reverse' = reverse /\ learned' = [learned EXCEPT ![i] = log]
          /\ LogsOf(PrimaryLogList(quizType)) = learned
      BY <1>5, <2>2 DEF Rewrite, PrimaryLogList, LogsOf, SetLogs
    <3> QED BY <1>1, <1>2, <1>3, <3>1
  <2> QED BY <2>1, <2>2
<1> QED BY <1>4, <1>5

-----------------------------------------------------------------------------
(* What each step does to the lists *)

\* A list gets an answer, or none.
Grows(c, now, old, new) ==
    \/ new = old
    \/ \E log \in StoredLog(c) :
           /\ new = <<log>> \o old /\ log.at = ToSecond(now)
           /\ log.interval = ReplayStep(c, After(c, old, 1), log).last

\* What an outcome can be stored as.
Verdicts(o) == {StatusOf(o.correct, TRUE), StatusOf(o.correct, FALSE)}

\* One answer is added to a list.
Adds(c, now, o, quizType, status, old, new) ==
    \E log \in StoredLog(c) :
        /\ new = <<log>> \o old
        /\ log.at = ToSecond(now) /\ log.quality = o.quality
        /\ log.status = status /\ log.quizType = quizType
        /\ log.interval = ReplayStep(c, After(c, old, 1), log).last
        /\ IsHistory(c, now + Spacing, new)

LEMMA PrependIs ==
    ASSUME calculator \in Calculators, clock \in Nat, NEW logs,
           IsHistory(calculator, clock, logs), NEW o \in Outcomes[calculator],
           NEW rt \in ResponseTimes, NEW quizType \in Played,
           NEW status \in Verdicts(o)
    PROVE  Adds(calculator, clock, o, quizType, status, logs,
                Prepend(logs, LogOf(clock, rt, o, status, quizType)))
<1> DEFINE draft == LogOf(clock, rt, o, status, quizType)
           log == Stored(calculator, logs, draft)
<1>1. status \in Statuses /\ (status = "misunderstood" <=> ~o.correct)
  BY OutcomesAssumption DEF StatusOf, Statuses, Verdicts
<1>2. quizType \in QuizTypes[calculator]
  BY DEF Played
<1>3. Prepend(logs, draft) = <<log>> \o logs
  BY DEF Prepend, Stored
<1>5. /\ log \in StoredLog(calculator)
      /\ log.at = ToSecond(clock) /\ log.quality = o.quality /\ log.status = status
      /\ log.quizType = quizType
      /\ log.interval = ReplayStep(calculator, After(calculator, logs, 1), log).last
      /\ IsHistory(calculator, clock + Spacing, <<log>> \o logs)
  BY <1>1, <1>2, AnswerIs
<1> HIDE DEF draft, log
<1>6. Adds(calculator, clock, o, quizType, status, logs, Prepend(logs, draft))
  BY <1>3, <1>5 DEF Adds
<1> QED BY <1>6 DEF draft

LEMMA AnswerStep ==
    ASSUME HistoryInv, Answer
    PROVE  /\ HistoryInv' /\ calculator' = calculator /\ captured' = captured
           /\ Grows(calculator, clock, learned, learned')
           /\ Grows(calculator, clock, reverse, reverse')
<1> DEFINE c == calculator
           later == clock + Spacing
<1>1. /\ c \in Calculators /\ clock \in Nat /\ skipped \subseteq Played
      /\ IsHistory(c, clock, learned) /\ IsHistory(c, clock, reverse)
      /\ \A k \in captured : ToldOK(c, k)
  BY DEF HistoryInv
<1>2. later \in Nat /\ \A logs : IsHistory(c, clock, logs) => IsHistory(c, later, logs)
  <2>1. later \in Nat /\ clock <= later
    BY <1>1, SpacingAssumption
  <2> QED BY <1>1, <2>1, HistoryLasts
<1>3. calculator' = calculator /\ captured' = captured /\ skipped' = skipped
  BY DEF Answer
<1>4. PICK o \in Outcomes[c], rt \in ResponseTimes :
          \/ \E quizType \in Played \ {"freeform"} : Record(quizType, o, rt)
          \/ "freeform" \in Played /\ RecordFreeform(o, rt)
  BY DEF Answer
<1>5. ASSUME NEW quizType \in Played, NEW status \in Verdicts(o),
             NEW logs, IsHistory(c, clock, logs),
             NEW new, new = Prepend(logs, LogOf(clock, rt, o, status, quizType))
      PROVE  IsHistory(c, later, new) /\ Grows(c, clock, logs, new)
  <2>1. Adds(c, clock, o, quizType, status, logs, new)
    BY <1>1, <1>5, PrependIs
  <2> QED BY <2>1 DEF Grows, Adds
<1> DEFINE Result ==
               /\ IsHistory(c, later, learned') /\ Grows(c, clock, learned, learned')
               /\ IsHistory(c, later, reverse') /\ Grows(c, clock, reverse, reverse')
               /\ clock' = later
<1>6. Result
  <2>1. ASSUME NEW quizType \in Played \ {"freeform"}, Record(quizType, o, rt)
        PROVE  Result
    <3> DEFINE log == LogOf(clock, rt, o, StatusOf(o.correct, TRUE), quizType)
    <3>1. clock' = later
      BY <2>1 DEF Record
    <3>2. CASE quizType = "reverse"
      <4>1. learned' = learned /\ reverse' = Prepend(reverse, log)
        BY <2>1, <3>2 DEF Record, PrimaryLogList, SetLogs, LogsOf
      <4>2. IsHistory(c, later, reverse') /\ Grows(c, clock, reverse, reverse')
        BY <1>1, <1>5, <4>1 DEF Verdicts
      <4>3. IsHistory(c, later, learned') /\ Grows(c, clock, learned, learned')
        BY <1>1, <1>2, <4>1 DEF Grows
      <4> QED BY <3>1, <4>2, <4>3
    <3>3. CASE quizType # "reverse"
      <4>1. reverse' = reverse /\ learned' = Prepend(learned, log)
        BY <2>1, <3>3 DEF Record, PrimaryLogList, SetLogs, LogsOf
      <4>2. IsHistory(c, later, learned') /\ Grows(c, clock, learned, learned')
        BY <1>1, <1>5, <4>1 DEF Verdicts
      <4>3. IsHistory(c, later, reverse') /\ Grows(c, clock, reverse, reverse')
        BY <1>1, <1>2, <4>1 DEF Grows
      <4> QED BY <3>1, <4>2, <4>3
    <3> QED BY <3>2, <3>3
  <2>2. CASE "freeform" \in Played /\ RecordFreeform(o, rt)
    <3> DEFINE log == LogOf(clock, rt, o, StatusOf(o.correct, FALSE), "freeform")
    <3>1. clock' = later /\ learned' = Prepend(learned, log) /\ reverse' = Prepend(reverse, log)
      BY <2>2 DEF RecordFreeform
    <3> QED BY <1>1, <1>5, <2>2, <3>1 DEF Verdicts
  <2> QED BY <1>4, <2>1, <2>2
<1>7. HistoryInv'
  <2>1. Played' = Played
    BY <1>3 DEF Played
  <2> QED BY <1>1, <1>2, <1>3, <1>6, <2>1 DEF HistoryInv
<1> QED BY <1>3, <1>6, <1>7

\* An override rewrites the log its key finds and remembers what it was.
LEMMA OverrideIs ==
    ASSUME HistoryInv, NEW quizType \in Played, NEW kind,
           NEW clicked \in DOMAIN LogsOf(PrimaryLogList(quizType)),
           OverrideLog(quizType, clicked, kind)
    PROVE  LET logs == LogsOf(PrimaryLogList(quizType))
               key  == KeyOf(kind, logs[clicked])
               i    == IndexLogByLearnedAt(logs, key)
           IN  /\ i \in DOMAIN logs /\ logs[i] \in StoredLog(calculator)
               /\ \E log \in StoredLog(calculator) :
                      SameAnswer(log, logs[i]) /\ Rewrite(quizType, i, log)
               /\ logs[clicked].quizType = quizType
               /\ captured' = {[quizType |-> quizType, key |-> key, quality |-> logs[i].quality,
                                status |-> logs[i].status, interval |-> logs[i].interval,
                                learned |-> learned, reverse |-> reverse]}
               /\ last' = [op |-> "override", clicked |-> logs[clicked].at, hit |-> logs[i].at]
               /\ UNCHANGED <<calculator, skipped, clock>>
<1> DEFINE list == PrimaryLogList(quizType)
           logs == LogsOf(list)
           key  == KeyOf(kind, logs[clicked])
           i    == IndexLogByLearnedAt(logs, key)
           correct == logs[clicked].status = "misunderstood"
           mark == Marked(logs[i], correct, quizType)
           interval == NextIntervalForWrite(calculator, SubSeq(logs, i + 1, Len(logs)), mark)
           new  == [mark EXCEPT !.interval = interval]
<1>1. /\ logs[clicked].quizType = quizType
      /\ Rewrite(quizType, i, new)
      /\ captured' = {[quizType |-> quizType, key |-> key, quality |-> logs[i].quality,
                       status |-> logs[i].status, interval |-> logs[i].interval,
                       learned |-> learned, reverse |-> reverse]}
      /\ last' = [op |-> "override", clicked |-> logs[clicked].at, hit |-> logs[i].at]
      /\ UNCHANGED <<calculator, skipped, clock>>
  BY Zenon DEF OverrideLog
<1>2. IsHistory(calculator, clock, logs) /\ clicked \in DOMAIN logs /\ calculator \in Calculators
  BY ListIs DEF HistoryInv
<1>3. Matches(logs[clicked], key)
  BY DEF Matches, KeyOf
<1> HIDE DEF logs, key, list
<1>4. logs \in Seq(StoredLog(calculator))
  BY <1>2 DEF IsHistory
<1>5. i \in DOMAIN logs
  BY <1>2, <1>3, <1>4, IndexIs
<1>6. logs[i] \in StoredLog(calculator)
  BY <1>4, <1>5
<1> HIDE DEF i
<1>7. /\ mark \in StoredLog(calculator) /\ SameAnswer(mark, logs[i])
      /\ \A t \in Nat \ {0} : [mark EXCEPT !.interval = t] \in StoredLog(calculator)
                              /\ SameAnswer([mark EXCEPT !.interval = t], logs[i])
  <2>1. logs[i].interval \in Nat \ {0} /\ logs[i] \in LogIn(ResponseTimes, QuizTypes[calculator])
    BY <1>6, StoredIsGraded DEF StoredLog
  <2>2. ASSUME NEW q, NEW s, Graded(calculator, q, s), NEW m,
               m = [logs[i] EXCEPT !.quality = q, !.status = s]
        PROVE  /\ m \in StoredLog(calculator) /\ SameAnswer(m, logs[i])
               /\ \A t \in Nat \ {0} : [m EXCEPT !.interval = t] \in StoredLog(calculator)
                                       /\ SameAnswer([m EXCEPT !.interval = t], logs[i])
    <3>1. \A t : [m EXCEPT !.interval = t] = Remarked(logs[i], q, s, t)
      BY <2>1, <2>2 DEF Remarked, LogIn
    <3>2. m = Remarked(logs[i], q, s, logs[i].interval)
      BY <2>1, <2>2 DEF Remarked, LogIn
    <3>3. \A t \in Nat \ {0} : Remarked(logs[i], q, s, t) \in StoredLog(calculator)
                               /\ SameAnswer(Remarked(logs[i], q, s, t), logs[i])
      BY <1>6, <2>2, MarkIs
    <3> QED BY <2>1, <3>1, <3>2, <3>3
  <2>3. CASE correct
    <3> DEFINE s == IF quizType = "freeform" THEN "usable" ELSE "understood"
    <3>1. mark = [logs[i] EXCEPT !.quality = 4, !.status = s]
      BY <2>3 DEF Marked
    <3>2. Graded(calculator, 4, s)
      BY DEF Graded, Qualities, Statuses
    <3> HIDE DEF mark, s
    <3> QED BY <2>2, <3>1, <3>2
  <2>4. CASE ~correct
    <3>1. mark = [logs[i] EXCEPT !.quality = 1, !.status = "misunderstood"]
      BY <2>4 DEF Marked
    <3>2. Graded(calculator, 1, "misunderstood")
      BY DEF Graded, Qualities, Statuses
    <3> HIDE DEF mark
    <3> QED BY <2>2, <3>1, <3>2
  <2> QED BY <2>3, <2>4
<1> HIDE DEF mark
<1>8. interval \in Nat \ {0}
  BY <1>2, <1>5, <1>7, IntervalOfMark DEF SameAnswer
<1> HIDE DEF interval
<1>9. new \in StoredLog(calculator) /\ SameAnswer(new, logs[i])
  BY <1>7, <1>8
<1> HIDE DEF new
<1>10. \E log \in StoredLog(calculator) : SameAnswer(log, logs[i]) /\ Rewrite(quizType, i, log)
  BY <1>1, <1>9
<1> QED BY <1>1, <1>5, <1>6, <1>10 DEF i, key, logs, list

\* An undo puts the grade and the interval it was told back into the log its key finds.
LEMMA UndoIs ==
    ASSUME HistoryInv, NEW k \in captured, UndoOverrideLog(k)
    PROVE  LET logs == LogsOf(PrimaryLogList(k.quizType))
               i    == IndexLogByLearnedAt(logs, k.key)
               log  == Remarked(logs[i], k.quality, k.status, k.interval)
           IN  /\ i \in DOMAIN logs /\ logs[i] \in StoredLog(calculator)
               /\ log \in StoredLog(calculator) /\ SameAnswer(log, logs[i])
               /\ Rewrite(k.quizType, i, log)
               /\ captured' = captured \ {k}
               /\ last' = [op |-> "undo", hit |-> logs[i].at, of |-> k]
               /\ UNCHANGED <<calculator, skipped, clock>>
<1> DEFINE list == PrimaryLogList(k.quizType)
           logs == LogsOf(list)
           i    == IndexLogByLearnedAt(logs, k.key)
           log  == Remarked(logs[i], k.quality, k.status, k.interval)
<1>1. /\ i # 0 /\ Rewrite(k.quizType, i, log)
      /\ captured' = captured \ {k}
      /\ last' = [op |-> "undo", hit |-> logs[i].at, of |-> k]
      /\ UNCHANGED <<calculator, skipped, clock>>
  BY Zenon DEF UndoOverrideLog, Remarked
<1>2. IsHistory(calculator, clock, logs) /\ ToldOK(calculator, k)
  BY ListIs DEF HistoryInv
<1> HIDE DEF logs, list
<1>3. logs \in Seq(StoredLog(calculator))
  BY <1>2 DEF IsHistory
<1>4. i \in DOMAIN logs
  BY <1>1, <1>3, IndexIs
<1>5. logs[i] \in StoredLog(calculator)
  BY <1>3, <1>4
<1>6. log \in StoredLog(calculator) /\ SameAnswer(log, logs[i])
  BY <1>2, <1>5, MarkIs DEF ToldOK
<1> HIDE DEF log, i
<1> QED BY <1>1, <1>4, <1>5, <1>6 DEF log, i, logs, list

LEMMA OverrideStep ==
    ASSUME HistoryInv, ClickOverride
    PROVE  /\ HistoryInv' /\ UNCHANGED <<calculator, clock>>
           /\ OneForOne(learned, learned') /\ OneForOne(reverse, reverse')
<1> USE DEF HistoryInv
<1>1. PICK quizType \in Played, kind \in KeyKinds :
          \E clicked \in DOMAIN LogsOf(PrimaryLogList(quizType)) :
              OverrideLog(quizType, clicked, kind)
  BY DEF ClickOverride
<1>2. PICK clicked \in DOMAIN LogsOf(PrimaryLogList(quizType)) : OverrideLog(quizType, clicked, kind)
  BY <1>1
<1> DEFINE logs == LogsOf(PrimaryLogList(quizType))
           i == IndexLogByLearnedAt(logs, KeyOf(kind, logs[clicked]))
           told == [quizType |-> quizType, key |-> KeyOf(kind, logs[clicked]),
                    quality |-> logs[i].quality, status |-> logs[i].status,
                    interval |-> logs[i].interval, learned |-> learned, reverse |-> reverse]
<1>3. /\ i \in DOMAIN logs /\ logs[i] \in StoredLog(calculator)
      /\ \E log \in StoredLog(calculator) : SameAnswer(log, logs[i]) /\ Rewrite(quizType, i, log)
      /\ captured' = {told}
      /\ UNCHANGED <<calculator, skipped, clock>>
  BY <1>2, OverrideIs
<1>4. PICK log \in StoredLog(calculator) : SameAnswer(log, logs[i]) /\ Rewrite(quizType, i, log)
  BY <1>3
<1>5. /\ IsHistory(calculator, clock, learned') /\ OneForOne(learned, learned')
      /\ IsHistory(calculator, clock, reverse') /\ OneForOne(reverse, reverse')
  BY <1>3, <1>4, RewriteStep
<1>6. ToldOK(calculator, told)
  <2>1. Graded(calculator, logs[i].quality, logs[i].status) /\ logs[i].interval \in Nat \ {0}
    BY <1>3, StoredIsGraded
  <2> HIDE DEF logs, i
  <2> QED BY <2>1 DEF ToldOK, Played
<1> HIDE DEF told, logs, i
<1>7. HistoryInv'
  BY <1>3, <1>5, <1>6 DEF Played
<1> QED BY <1>3, <1>5, <1>7

LEMMA UndoStep ==
    ASSUME HistoryInv, ClickUndo
    PROVE  /\ HistoryInv' /\ UNCHANGED <<calculator, clock>>
           /\ OneForOne(learned, learned') /\ OneForOne(reverse, reverse')
<1> USE DEF HistoryInv
<1>1. PICK k \in captured : UndoOverrideLog(k)
  BY DEF ClickUndo
<1> DEFINE logs == LogsOf(PrimaryLogList(k.quizType))
           i == IndexLogByLearnedAt(logs, k.key)
           log == Remarked(logs[i], k.quality, k.status, k.interval)
<1>2. /\ i \in DOMAIN logs /\ log \in StoredLog(calculator) /\ SameAnswer(log, logs[i])
      /\ Rewrite(k.quizType, i, log) /\ captured' = captured \ {k}
      /\ UNCHANGED <<calculator, skipped, clock>>
  BY <1>1, UndoIs
<1> HIDE DEF log, i
<1>3. /\ IsHistory(calculator, clock, learned') /\ OneForOne(learned, learned')
      /\ IsHistory(calculator, clock, reverse') /\ OneForOne(reverse, reverse')
  BY <1>2, RewriteStep
<1> HIDE DEF logs
<1>4. HistoryInv'
  BY <1>2, <1>3 DEF Played
<1> QED BY <1>2, <1>3, <1>4

LEMMA FixStep ==
    ASSUME HistoryInv, ValidateFix
    PROVE  /\ HistoryInv' /\ UNCHANGED <<calculator, clock, captured>>
           /\ OneForOne(learned, learned') /\ OneForOne(reverse, reverse')
           /\ \A i \in DOMAIN learned : learned'[i].quality = learned[i].quality
                                        /\ learned'[i].status = learned[i].status
           /\ \A i \in DOMAIN reverse : reverse'[i].quality = reverse[i].quality
                                        /\ reverse'[i].status = reverse[i].status
           /\ IsReplayed(calculator, learned) => learned' = learned
           /\ IsReplayed(calculator, reverse) => reverse' = reverse
<1> USE DEF HistoryInv
<1>1. /\ learned' = RecalculateAll(calculator, ClearLegacySkip(learned))
      /\ reverse' = RecalculateAll(calculator, ClearLegacySkip(reverse))
      /\ UNCHANGED <<calculator, clock, captured>>
      /\ skipped' = skipped \cup
             {logs[1].quizType : logs \in {l \in {learned, reverse} : IsLegacySkip(l)}}
  BY DEF ValidateFix, FixLogs
<1>2. ASSUME NEW logs, IsHistory(calculator, clock, logs), NEW new,
             new = RecalculateAll(calculator, ClearLegacySkip(logs))
      PROVE  /\ IsHistory(calculator, clock, new) /\ OneForOne(logs, new)
             /\ \A i \in DOMAIN logs : new[i].quality = logs[i].quality
                                       /\ new[i].status = logs[i].status
             /\ IsReplayed(calculator, logs) => new = logs
  <2>1. /\ IsHistory(calculator, clock, new) /\ DOMAIN new = DOMAIN logs
        /\ \A i \in DOMAIN logs : /\ SameAnswer(new[i], logs[i])
                                  /\ new[i].quality = logs[i].quality
                                  /\ new[i].status = logs[i].status
        /\ IsReplayed(calculator, logs) => new = logs
    BY <1>2, FixIs
  <2> QED BY <2>1 DEF OneForOne
<1>3. skipped' \subseteq Played
  <2>1. ASSUME NEW l \in {learned, reverse}, IsLegacySkip(l) PROVE l[1].quizType \in Played
    <3>1. IsHistory(calculator, clock, l) /\ l # << >>
      BY <2>1 DEF IsLegacySkip
    <3>2. 1 \in DOMAIN l
      BY <3>1 DEF IsHistory
    <3> QED BY <3>1, <3>2, HistoryIs DEF Played
  <2> QED BY <1>1, <2>1
<1>4. HistoryInv'
  BY <1>1, <1>2, <1>3 DEF Played
<1> QED BY <1>1, <1>2, <1>4

LEMMA WaitStep ==
    ASSUME HistoryInv, NEW until \in {clock + w : w \in Waits} \cup DueAt, Wait(until)
    PROVE  HistoryInv' /\ UNCHANGED <<calculator, learned, reverse, captured>>
<1> USE DEF HistoryInv
<1>1. /\ UNCHANGED <<calculator, learned, reverse, skipped, captured>>
      /\ clock' = until /\ until > clock
  BY DEF Wait
<1>2. until \in Nat
  <2>1. \A w \in Waits : clock + w \in Nat
    BY BoundsAssumption
  <2>2. ASSUME NEW l \in {learned, reverse} \ {<< >>}
        PROVE  l[1].at + l[1].interval * TicksPerDay \in Nat
    <3>1. IsHistory(calculator, clock, l) /\ 1 \in DOMAIN l
      BY <2>2 DEF IsHistory
    <3>2. l[1].at \in Nat /\ l[1].interval \in Nat
      BY <3>1, HistoryIs
    <3> QED BY <3>2, TicksAssumption
  <2> QED BY <2>1, <2>2 DEF DueAt
<1>3. /\ IsHistory(calculator, until, learned) /\ IsHistory(calculator, until, reverse)
  <2>1. clock \in Nat /\ clock <= until
    BY <1>1, <1>2
  <2> QED BY <1>2, <2>1, HistoryLasts
<1> QED BY <1>1, <1>2, <1>3 DEF Played

LEMMA InitHistory == Init => HistoryInv
<1> SUFFICES ASSUME Init PROVE HistoryInv
  OBVIOUS
<1>1. ASSUME NEW c, NEW now PROVE IsHistory(c, now, << >>)
  BY DEF IsHistory, IsNewestFirst
<1> QED BY <1>1, TicksAssumption DEF Init, HistoryInv

LEMMA NextHistory == HistoryInv /\ [Next]_vars => HistoryInv'
<1> SUFFICES ASSUME HistoryInv, [Next]_vars PROVE HistoryInv'
  OBVIOUS
<1>1. CASE Answer
  BY <1>1, AnswerStep
<1>2. CASE ClickOverride
  BY <1>2, OverrideStep
<1>3. CASE ClickUndo
  BY <1>3, UndoStep
<1>4. CASE ValidateFix
  BY <1>4, FixStep
<1>5. CASE \E until \in {clock + w : w \in Waits} \cup DueAt : Wait(until)
  BY <1>5, WaitStep
<1>6. CASE UNCHANGED vars
  BY <1>6 DEF HistoryInv, vars, Played
<1> QED BY <1>1, <1>2, <1>3, <1>4, <1>5, <1>6 DEF Next

LEMMA HistoryInvariant == Spec => []HistoryInv
BY InitHistory, NextHistory, PTL DEF Spec

\* Whatever is answered, overridden, undone and fixed, every stored log has a grade, a
\* status and an interval of at least a day (AddRecordWithQuality in learning_history.go,
\* OverrideLog and UndoOverrideLog in learning_history_updater.go).
THEOREM TypeCorrect == Spec => []TypeOK
<1>1. HistoryInv => TypeOK
  <2> SUFFICES ASSUME HistoryInv PROVE TypeOK
    OBVIOUS
  <2>1. StoredLog(calculator) \subseteq Log
    <3>1. ASSUME NEW l \in StoredLog(calculator) PROVE l \in Log
      BY DEF StoredLog, LogIn, Log, Played
    <3> QED BY <3>1
  <2>2. learned \in Seq(Log) /\ reverse \in Seq(Log)
    BY <2>1 DEF HistoryInv, IsHistory
  <2> QED BY <2>2 DEF HistoryInv, TypeOK
<1> QED BY <1>1, HistoryInvariant, PTL

-----------------------------------------------------------------------------
(* Without overrides the stored lists are what the replay computes *)

ReplayInv ==
    /\ HistoryInv
    /\ captured = {}
    /\ IsReplayed(calculator, learned) /\ IsReplayed(calculator, reverse)

LEMMA GrowsReplayed ==
    ASSUME NEW c \in Calculators, NEW now, NEW old, IsHistory(c, now, old), IsReplayed(c, old),
           NEW new, Grows(c, now, old, new)
    PROVE  IsReplayed(c, new)
<1>1. ASSUME NEW log \in StoredLog(c), new = <<log>> \o old,
             log.interval = ReplayStep(c, After(c, old, 1), log).last
      PROVE  IsReplayed(c, new)
  <2>1. /\ c \in Algorithms /\ old \in Seq(LogIn(ResponseTimes, QuizTypes[c]))
        /\ log \in LogIn(ResponseTimes, QuizTypes[c]) /\ log.quality = ReplayQuality(c, log)
    BY CalculatorsAssumption, HistoryIs DEF StoredLog
  <2>2. IsReplayed(c, <<log>> \o old)
    BY <1>1, <2>1, PrependIsReplayed
  <2> QED BY <1>1, <2>2
<1> QED BY <1>1 DEF Grows

\* Only an answer changes a list: a fix leaves it.
LEMMA QuietStep ==
    ASSUME Overrides = FALSE, ReplayInv, [Next]_vars
    PROVE  /\ ReplayInv'
           /\ Grows(calculator, clock, learned, learned')
           /\ Grows(calculator, clock, reverse, reverse')
<1>1. HistoryInv /\ HistoryInv'
  BY NextHistory DEF ReplayInv
<1>2. /\ calculator' = calculator /\ captured' = captured
      /\ Grows(calculator, clock, learned, learned')
      /\ Grows(calculator, clock, reverse, reverse')
  <2>1. CASE Answer
    BY <1>1, <2>1, AnswerStep
  <2>2. CASE ClickOverride
    BY <2>2 DEF ClickOverride
  <2>3. CASE ClickUndo
    BY <2>3 DEF ClickUndo, ReplayInv
  <2>4. CASE ValidateFix
    BY <1>1, <2>4, FixStep DEF ReplayInv, Grows
  <2>5. CASE \E until \in {clock + w : w \in Waits} \cup DueAt : Wait(until)
    BY <1>1, <2>5, WaitStep DEF Grows
  <2>6. CASE UNCHANGED vars
    BY <2>6 DEF vars, Grows
  <2> QED BY <2>1, <2>2, <2>3, <2>4, <2>5, <2>6 DEF Next
<1>3. IsReplayed(calculator, learned') /\ IsReplayed(calculator, reverse')
  <2>1. /\ calculator \in Calculators
        /\ IsHistory(calculator, clock, learned) /\ IsReplayed(calculator, learned)
        /\ IsHistory(calculator, clock, reverse) /\ IsReplayed(calculator, reverse)
    BY <1>1 DEF HistoryInv, ReplayInv
  <2> QED BY <1>2, <2>1, GrowsReplayed
<1> QED BY <1>1, <1>2, <1>3 DEF ReplayInv

LEMMA ReplayInvariant == ASSUME Overrides = FALSE PROVE Spec => []ReplayInv
<1>1. Init => ReplayInv
  <2> SUFFICES ASSUME Init PROVE ReplayInv
    OBVIOUS
  <2>1. IsReplayed(calculator, << >>)
    BY DEF IsReplayed
  <2> QED BY <2>1, InitHistory DEF Init, ReplayInv
<1>2. ReplayInv /\ [Next]_vars => ReplayInv'
  BY QuietStep
<1> QED BY <1>1, <1>2, PTL DEF Spec

\* As long as no answer was overridden, validate --fix recomputes for lists of every
\* length what the live quiz stored one answer at a time: it changes nothing
\* (nextIntervalForWrite and RecalculateAll, interval.go).
THEOREM FixChangesNothing == ASSUME Overrides = FALSE PROVE Spec => []StoredIsReplay
<1>1. ReplayInv => StoredIsReplay
  <2> SUFFICES ASSUME ReplayInv PROVE StoredIsReplay
    OBVIOUS
  <2>1. ASSUME NEW logs, IsHistory(calculator, clock, logs), IsReplayed(calculator, logs)
        PROVE  RecalculateAll(calculator, logs) = logs
    <3>1. /\ calculator \in Algorithms /\ IsNewestFirst(logs)
          /\ logs \in Seq(LogIn(ResponseTimes, QuizTypes[calculator]))
      BY <2>1, HistoryIs, CalculatorsAssumption DEF IsHistory, ReplayInv, HistoryInv
    <3> QED BY <2>1, <3>1, FixLeaves
  <2> QED BY <2>1 DEF ReplayInv, HistoryInv, StoredIsReplay
<1> QED BY <1>1, ReplayInvariant, PTL

\* The log an answer puts on top follows from the one that was there.
LEMMA GrowsByGrade ==
    ASSUME NEW c \in Calculators, c # "sm2" => LevelsAscend, NEW now \in Nat, NEW old,
           IsHistory(c, now, old), IsReplayed(c, old), NEW new, Grows(c, now, old, new),
           Answered(old, new)
    PROVE  LET quality == new[1].quality
               early   == CalendarDaysBetween(old[1].at, new[1].at) < old[1].interval
           IN  /\ new[1].at = ToSecond(now)
               /\ old[1].at \in Nat /\ old[1].at < ToSecond(now)
               /\ old[1].interval \in Nat /\ quality \in Nat
               /\ quality >= 3 => new[1].interval >= old[1].interval
               /\ quality < 3 \/ early => new[1].interval <= old[1].interval
               /\ quality >= 3 /\ ~early =>
                      \/ new[1].interval > old[1].interval
                      \/ c # "sm2" /\ new[1].interval = FixedIntervals[Len(FixedIntervals)]
<1> DEFINE state == After(c, old, 1)
<1>1. /\ c \in Algorithms /\ Len(old) \in Nat /\ Len(old) >= 1 /\ 1 \in DOMAIN old
      /\ old \in Seq(LogIn(ResponseTimes, QuizTypes[c])) /\ old \in Seq(StoredLog(c))
  <2>1. c \in Algorithms /\ old \in Seq(StoredLog(c)) /\ old # << >>
    BY CalculatorsAssumption DEF IsHistory, Answered
  <2> QED BY <2>1, HistoryIs
<1>2. PICK log \in StoredLog(c) :
           /\ new = <<log>> \o old /\ log.at = ToSecond(now)
           /\ log.interval = ReplayStep(c, state, log).last
  <2>1. new # old
    BY <1>1 DEF Answered
  <2> QED BY <2>1 DEF Grows
<1>3. new[1] = log
  BY <1>1, <1>2, ChainIs
<1>4. StateOK(c, state) /\ state.last # 0 /\ state.last = old[1].interval
  <2>1. 1 \in 1 .. Len(old) + 1
    BY <1>1
  <2> HIDE DEF state
  <2>2. state.last = old[1].interval
    BY <1>1 DEF IsReplayed, state
  <2> QED BY <1>1, <2>1, <2>2, HistoryStates DEF state
<1>5. state.at = old[1].at
  <2>1. \A i \in DOMAIN old : After(c, old, i) = ReplayStep(c, After(c, old, i + 1), old[i])
    BY <1>1, AfterIs
  <2>2. state = ReplayStep(c, After(c, old, 1 + 1), old[1])
    BY <1>1, <2>1
  <2> HIDE DEF state
  <2> QED BY <2>2 DEF ReplayStep
<1>6. /\ log.at \in Nat /\ log.quality \in Nat /\ log.quality = ReplayQuality(c, log)
      /\ old[1].at \in Nat /\ old[1].at < ToSecond(now) /\ old[1].interval \in Nat
  <2>1. old[1].at \in Nat /\ old[1].at < ToSecond(now) /\ old[1].interval \in Nat
    BY <1>1, HistoryIs DEF IsHistory
  <2> QED BY <2>1 DEF StoredLog, LogIn, Qualities
<1> HIDE DEF state
<1> DEFINE early == CalendarDaysBetween(old[1].at, log.at) < old[1].interval
<1>7. /\ log.quality >= 3 => log.interval >= old[1].interval
      /\ log.quality < 3 \/ early => log.interval <= old[1].interval
      /\ log.quality >= 3 /\ ~early =>
             \/ log.interval > old[1].interval
             \/ c # "sm2" /\ log.interval = FixedIntervals[Len(FixedIntervals)]
  BY <1>1, <1>2, <1>4, <1>5, <1>6, StepFollowsGrade
<1> QED BY <1>2, <1>3, <1>6, <1>7

\* Grades move the next review the way they should, however many answers came before:
\* a good one never brings it closer, and out only when the last interval is over by
\* the calendar; a bad one never pushes it out (the early review guard of
\* RecalculateAll, interval.go).
THEOREM GradesMoveTheInterval ==
    ASSUME Overrides = FALSE, "fixed" \in Calculators => LevelsAscend
    PROVE  Spec => IntervalFollowsGrade
<1>1. ReplayInv /\ [Next]_vars =>
          [FollowsGrade(learned, learned') /\ FollowsGrade(reverse, reverse')]_vars
  <2> SUFFICES ASSUME ReplayInv, [Next]_vars
               PROVE  FollowsGrade(learned, learned') /\ FollowsGrade(reverse, reverse')
    OBVIOUS
  <2>1. /\ calculator \in Calculators /\ (calculator # "sm2" => LevelsAscend) /\ clock \in Nat
        /\ IsHistory(calculator, clock, learned) /\ IsReplayed(calculator, learned)
        /\ IsHistory(calculator, clock, reverse) /\ IsReplayed(calculator, reverse)
    BY CalculatorsAssumption DEF ReplayInv, HistoryInv, Algorithms
  <2>2. Grows(calculator, clock, learned, learned') /\ Grows(calculator, clock, reverse, reverse')
    BY QuietStep
  <2>3. ASSUME NEW old, IsHistory(calculator, clock, old), IsReplayed(calculator, old),
               NEW new, Grows(calculator, clock, old, new)
        PROVE  FollowsGrade(old, new)
    BY <2>1, <2>3, GrowsByGrade DEF FollowsGrade
  <2> QED BY <2>1, <2>2, <2>3
<1> QED BY <1>1, ReplayInvariant, PTL DEF Spec, IntervalFollowsGrade

\* The loaders count whole days of 24 hours, the guard counts calendar days. Still a
\* word that is served because its interval is over, and is answered well, moves to a
\* longer interval, unless it is at the last level (NeedsForwardReview,
\* NeedsReverseReview and the early review guard).
THEOREM DueWordsAdvance ==
    ASSUME Overrides = FALSE, "fixed" \in Calculators => LevelsAscend
    PROVE  Spec => DueAnswerAdvances
<1>1. ReplayInv /\ [Next]_vars =>
          [AdvancesWhenDue(learned, learned') /\ AdvancesWhenDue(reverse, reverse')]_vars
  <2> SUFFICES ASSUME ReplayInv, [Next]_vars
               PROVE  AdvancesWhenDue(learned, learned') /\ AdvancesWhenDue(reverse, reverse')
    OBVIOUS
  <2>1. /\ calculator \in Calculators /\ (calculator # "sm2" => LevelsAscend) /\ clock \in Nat
        /\ IsHistory(calculator, clock, learned) /\ IsReplayed(calculator, learned)
        /\ IsHistory(calculator, clock, reverse) /\ IsReplayed(calculator, reverse)
        /\ (calculator # "sm2" => calculator = "fixed")
    BY CalculatorsAssumption DEF ReplayInv, HistoryInv, Algorithms
  <2>2. Grows(calculator, clock, learned, learned') /\ Grows(calculator, clock, reverse, reverse')
    BY QuietStep
  <2>3. ASSUME NEW old, IsHistory(calculator, clock, old), IsReplayed(calculator, old),
               NEW new, Grows(calculator, clock, old, new)
        PROVE  AdvancesWhenDue(old, new)
    <3> SUFFICES ASSUME Answered(old, new), old[1].status # "misunderstood", Due(old),
                        new[1].quality >= 3
                 PROVE  \/ new[1].interval > old[1].interval
                        \/ calculator = "fixed"
                           /\ new[1].interval = FixedIntervals[Len(FixedIntervals)]
      BY DEF AdvancesWhenDue
    <3>1. (clock - old[1].at) \div TicksPerDay >= old[1].interval
      BY DEF Due, Answered
    <3> DEFINE elapsed == CalendarDaysBetween(old[1].at, new[1].at)
    <3>2. /\ new[1].at = ToSecond(clock) /\ old[1].at \in Nat /\ old[1].at < ToSecond(clock)
          /\ old[1].interval \in Nat
          /\ ~(elapsed < old[1].interval) =>
                 \/ new[1].interval > old[1].interval
                 \/ calculator # "sm2" /\ new[1].interval = FixedIntervals[Len(FixedIntervals)]
      BY <2>1, <2>3, GrowsByGrade
    <3>3. old[1].at <= clock /\ ToSecond(clock) \in Nat
      BY <2>1, <3>2, SecondsStay
    <3>4. elapsed = CalendarDaysBetween(old[1].at, clock)
      BY <2>1, <3>2, SameDay DEF CalendarDaysBetween
    <3>5. (clock - old[1].at) \div TicksPerDay <= elapsed
      BY <2>1, <3>2, <3>3, <3>4, DaysPass
    <3>6. elapsed \in Int /\ (clock - old[1].at) \div TicksPerDay \in Int
      <4>1. clock - old[1].at \in Nat
        BY <2>1, <3>2, <3>3
      <4>2. \A at \in Nat : Day(at) \in Int
        BY TicksAssumption, QuotientIs DEF Day
      <4>3. (clock - old[1].at) \div TicksPerDay \in Nat
        BY <4>1, TicksAssumption, QuotientIs
      <4>4. Day(clock) \in Int /\ Day(old[1].at) \in Int
        BY <2>1, <3>2, <4>2
      <4> HIDE DEF elapsed
      <4> QED BY <3>4, <4>3, <4>4 DEF CalendarDaysBetween, Larger
    <3> DEFINE days == (clock - old[1].at) \div TicksPerDay
    <3> HIDE DEF elapsed, days
    <3>7. ~(elapsed < old[1].interval)
      BY <3>1, <3>2, <3>5, <3>6 DEF days
    <3> QED BY <2>1, <3>2, <3>7
  <2> QED BY <2>1, <2>2, <2>3
<1> QED BY <1>1, ReplayInvariant, PTL DEF Spec, DueAnswerAdvances

-----------------------------------------------------------------------------
(* A fix settles *)

\* Whatever was overridden before, one validate --fix leaves lists that the next leaves
\* alone (RecalculateAll, interval.go, and recalculateAllIntervals, validator.go).
THEOREM OneFixSettles == Spec => []FixIsFinal
<1>1. HistoryInv => FixIsFinal
  <2> SUFFICES ASSUME HistoryInv PROVE FixIsFinal
    OBVIOUS
  <2>1. /\ calculator \in Calculators
        /\ IsHistory(calculator, clock, learned) /\ IsHistory(calculator, clock, reverse)
    BY DEF HistoryInv
  <2>2. ASSUME NEW logs, IsHistory(calculator, clock, logs)
        PROVE  FixLogs(FixLogs(logs)) = FixLogs(logs)
    <3>1. IsHistory(calculator, clock, FixLogs(logs)) /\ IsReplayed(calculator, FixLogs(logs))
      BY <2>1, <2>2, FixIs DEF FixLogs
    <3> DEFINE new == FixLogs(logs)
    <3> HIDE DEF new
    <3>2. IsHistory(calculator, clock, new) /\ IsReplayed(calculator, new)
      BY <3>1 DEF new
    <3>3. FixLogs(new) = new
      BY <2>1, <3>2, FixIs DEF FixLogs
    <3> QED BY <3>3 DEF new
  <2> QED BY <2>1, <2>2 DEF FixIsFinal
<1> QED BY <1>1, HistoryInvariant, PTL

-----------------------------------------------------------------------------
(* Overrides addressed by an instant *)

\* An override that names an instant rewrites the log of the answer that was clicked:
\* dates in the file are whole seconds, and no two logs of a list share one
\* (indexLogByLearnedAt, learning_history_updater.go).
THEOREM OverridesHit == ASSUME KeyKinds \subseteq {"instant"} PROVE Spec => []OverrideHitsClicked
<1>1. Init => OverrideHitsClicked
  BY DEF Init, OverrideHitsClicked
<1>2. HistoryInv /\ OverrideHitsClicked /\ [Next]_vars => OverrideHitsClicked'
  <2> SUFFICES ASSUME HistoryInv, OverrideHitsClicked, [Next]_vars PROVE OverrideHitsClicked'
    OBVIOUS
  <2>1. CASE Answer
    <3>1. PICK o \in Outcomes[calculator], rt \in ResponseTimes :
              \/ \E quizType \in Played \ {"freeform"} : Record(quizType, o, rt)
              \/ RecordFreeform(o, rt)
      BY <2>1 DEF Answer
    <3>2. last' = [op |-> "other"]
      BY <3>1, Zenon DEF Record, RecordFreeform
    <3> QED BY <3>2 DEF OverrideHitsClicked
  <2>2. CASE ClickOverride
    <3>1. PICK quizType \in Played, kind \in KeyKinds :
              \E clicked \in DOMAIN LogsOf(PrimaryLogList(quizType)) :
                  OverrideLog(quizType, clicked, kind)
      BY <2>2 DEF ClickOverride
    <3>2. PICK clicked \in DOMAIN LogsOf(PrimaryLogList(quizType)) :
              OverrideLog(quizType, clicked, kind)
      BY <3>1
    <3> DEFINE logs == LogsOf(PrimaryLogList(quizType))
               i == IndexLogByLearnedAt(logs, KeyOf(kind, logs[clicked]))
    <3>3. last' = [op |-> "override", clicked |-> logs[clicked].at, hit |-> logs[i].at]
      BY <3>2, OverrideIs
    <3>4. KeyOf(kind, logs[clicked]) = [kind |-> "instant", value |-> logs[clicked].at]
      BY DEF KeyOf
    <3>5. IsHistory(calculator, clock, logs)
      BY ListIs
    <3> HIDE DEF logs
    <3>6. i = clicked
      BY <3>4, <3>5, InstantIs DEF logs
    <3> QED BY <3>3, <3>6 DEF OverrideHitsClicked
  <2>3. CASE ClickUndo
    BY <2>3 DEF ClickUndo, UndoOverrideLog, OverrideHitsClicked
  <2>4. CASE ValidateFix
    BY <2>4 DEF ValidateFix, OverrideHitsClicked
  <2>5. CASE \E until \in {clock + w : w \in Waits} \cup DueAt : Wait(until)
    BY <2>5 DEF Wait, OverrideHitsClicked
  <2>6. CASE UNCHANGED vars
    BY <2>6 DEF vars, OverrideHitsClicked
  <2> QED BY <2>1, <2>2, <2>3, <2>4, <2>5, <2>6 DEF Next
<1> QED BY <1>1, <1>2, HistoryInvariant, PTL DEF Spec

\* A rewrite that keeps to one quiz leaves no free-form answer with a half of its own.
LEMMA RewriteHalves ==
    ASSUME HistoryInv, HalvesAgree, NEW quizType,
           NEW i \in DOMAIN LogsOf(PrimaryLogList(quizType)), NEW log \in StoredLog(calculator),
           SameAnswer(log, LogsOf(PrimaryLogList(quizType))[i]),
           LogsOf(PrimaryLogList(quizType))[i].quizType = quizType, Rewrite(quizType, i, log)
    PROVE  HalvesAgree'
<1> DEFINE c == calculator
           Half(l, r) == /\ r.at = l.at /\ r.quizType = "freeform"
                         /\ r.quality = l.quality /\ r.status = l.status
<1>1. IsHistory(c, clock, learned) /\ IsHistory(c, clock, reverse)
  BY DEF HistoryInv
<1>2. \A k \in DOMAIN learned : learned[k].quizType = "freeform" =>
          \E j \in DOMAIN reverse : Half(learned[k], reverse[j])
  BY DEF HalvesAgree
<1>3. SUFFICES \A k \in DOMAIN learned' : (learned')[k].quizType = "freeform" =>
          \E j \in DOMAIN reverse' : Half((learned')[k], (reverse')[j])
  BY DEF HalvesAgree
<1>4. CASE quizType = "freeform"
  <2>1. /\ learned' = [learned EXCEPT ![i] = log] /\ reverse' = MirrorToPair(log)
        /\ i \in DOMAIN learned /\ learned[i].quizType = "freeform" /\ log.at = learned[i].at
    BY <1>4 DEF Rewrite, PrimaryLogList, LogsOf, SameAnswer
  <2>2. PICK half \in DOMAIN reverse : Half(learned[i], reverse[half])
    BY <1>2, <2>1
  <2>3. PairIndex(log) = half /\ half # 0
    <3>1. KeyOf("instant", log) = [kind |-> "instant", value |-> log.at]
      BY DEF KeyOf
    <3>2. IndexLogByLearnedAt(reverse, KeyOf("instant", log)) = half
      BY <1>1, <2>1, <2>2, <3>1, InstantIs
    <3>3. half # 0
      BY <1>1, HistoryIs
    <3> QED BY <3>2, <3>3 DEF PairIndex
  <2> DEFINE pair == Remarked(reverse[half], log.quality, log.status, log.interval)
  <2>4. reverse' = [reverse EXCEPT ![half] = pair]
    BY <2>1, <2>3 DEF MirrorToPair, Remarked
  <2>5. /\ pair \in StoredLog(c) /\ pair.at = reverse[half].at /\ pair.quizType = "freeform"
        /\ pair.quality = log.quality /\ pair.status = log.status
    <3>1. reverse[half] \in StoredLog(c)
      BY <1>1, HistoryIs
    <3>2. Graded(c, log.quality, log.status) /\ log.interval \in Nat \ {0}
      BY StoredIsGraded
    <3>3. /\ pair \in StoredLog(c) /\ SameAnswer(pair, reverse[half])
          /\ pair.quality = log.quality /\ pair.status = log.status
      BY <3>1, <3>2, MarkIs
    <3> QED BY <2>2, <3>3 DEF SameAnswer
  <2> HIDE DEF pair
  <2>6. /\ DOMAIN learned' = DOMAIN learned /\ (learned')[i] = log
        /\ \A k \in DOMAIN learned : k # i => (learned')[k] = learned[k]
    BY <1>1, <2>1, RewriteIs
  <2>7. /\ DOMAIN reverse' = DOMAIN reverse /\ (reverse')[half] = pair
        /\ \A j \in DOMAIN reverse : j # half => (reverse')[j] = reverse[j]
    BY <1>1, <2>4, <2>5, RewriteIs
  <2>8. ASSUME NEW k \in DOMAIN learned, k # i, learned[k].quizType = "freeform"
        PROVE  \E j \in DOMAIN reverse' : Half((learned')[k], (reverse')[j])
    <3>1. PICK j \in DOMAIN reverse : Half(learned[k], reverse[j])
      BY <1>2, <2>8
    <3>2. learned[k].at # learned[i].at
      BY <1>1, <2>1, <2>8, InstantIs
    <3>3. j # half
      BY <2>2, <3>1, <3>2
    <3> QED BY <2>6, <2>7, <2>8, <3>1, <3>3
  <2>9. Half(log, pair)
    BY <2>1, <2>2, <2>5
  <2> QED BY <2>6, <2>7, <2>8, <2>9
<1>5. CASE quizType = "reverse"
  <2>1. /\ learned' = learned /\ reverse' = [reverse EXCEPT ![i] = log]
        /\ i \in DOMAIN reverse /\ reverse[i].quizType = "reverse" /\ log.at = reverse[i].at
    BY <1>5 DEF Rewrite, PrimaryLogList, LogsOf, SetLogs, SameAnswer
  <2>2. /\ DOMAIN reverse' = DOMAIN reverse
        /\ \A j \in DOMAIN reverse : j # i => (reverse')[j] = reverse[j]
    BY <1>1, <2>1, RewriteIs
  <2>3. \A j \in DOMAIN reverse : reverse[j].quizType = "freeform" => j # i
    BY <2>1
  <2> QED BY <1>2, <2>1, <2>2, <2>3
<1>6. CASE quizType # "freeform" /\ quizType # "reverse"
  <2>1. /\ reverse' = reverse /\ learned' = [learned EXCEPT ![i] = log]
        /\ i \in DOMAIN learned /\ log.quizType # "freeform" /\ log.at = learned[i].at
    BY <1>6 DEF Rewrite, PrimaryLogList, LogsOf, SetLogs, SameAnswer
  <2>2. /\ DOMAIN learned' = DOMAIN learned /\ (learned')[i] = log
        /\ \A k \in DOMAIN learned : k # i => (learned')[k] = learned[k]
    BY <1>1, <2>1, RewriteIs
  <2> QED BY <1>2, <2>1, <2>2
<1> QED BY <1>4, <1>5, <1>6

\* So does an answer.
LEMMA AnswerHalves ==
    ASSUME HistoryInv, HalvesAgree, Answer
    PROVE  HalvesAgree'
<1> DEFINE c == calculator
           Half(l, r) == /\ r.at = l.at /\ r.quizType = "freeform"
                         /\ r.quality = l.quality /\ r.status = l.status
<1>1. /\ c \in Calculators /\ clock \in Nat
      /\ IsHistory(c, clock, learned) /\ IsHistory(c, clock, reverse)
      /\ learned \in Seq(StoredLog(c)) /\ reverse \in Seq(StoredLog(c))
  BY DEF HistoryInv, IsHistory
<1>2. \A k \in DOMAIN learned : learned[k].quizType = "freeform" =>
          \E j \in DOMAIN reverse : Half(learned[k], reverse[j])
  BY DEF HalvesAgree
<1>3. SUFFICES \A k \in DOMAIN learned' : (learned')[k].quizType = "freeform" =>
          \E j \in DOMAIN reverse' : Half((learned')[k], (reverse')[j])
  BY DEF HalvesAgree
<1>4. PICK o \in Outcomes[c], rt \in ResponseTimes :
          \/ \E quizType \in Played \ {"freeform"} : Record(quizType, o, rt)
          \/ "freeform" \in Played /\ RecordFreeform(o, rt)
  BY DEF Answer
<1>5. ASSUME NEW quizType \in Played, NEW status \in Verdicts(o), NEW logs, IsHistory(c, clock, logs)
      PROVE  Adds(c, clock, o, quizType, status, logs,
                  Prepend(logs, LogOf(clock, rt, o, status, quizType)))
  BY <1>1, <1>5, PrependIs
<1>6. ASSUME NEW quizType \in Played \ {"freeform"}, Record(quizType, o, rt)
      PROVE  \A k \in DOMAIN learned' : (learned')[k].quizType = "freeform" =>
                 \E j \in DOMAIN reverse' : Half((learned')[k], (reverse')[j])
  <2> DEFINE draft == LogOf(clock, rt, o, StatusOf(o.correct, TRUE), quizType)
  <2>1. CASE quizType = "reverse"
    <3>1. learned' = learned /\ reverse' = Prepend(reverse, draft)
      BY <1>6, <2>1 DEF Record, PrimaryLogList, SetLogs, LogsOf
    <3>2. PICK log \in StoredLog(c) : reverse' = <<log>> \o reverse
      <4>1. Adds(c, clock, o, quizType, StatusOf(o.correct, TRUE), reverse, reverse')
        BY <1>1, <1>5, <3>1 DEF Verdicts
      <4> QED BY <4>1 DEF Adds
    <3> HIDE DEF draft
    <3>3. \A j \in DOMAIN reverse : j + 1 \in DOMAIN reverse' /\ (reverse')[j + 1] = reverse[j]
      BY <1>1, <3>1, <3>2, ChainIs
    <3> QED BY <1>2, <3>1, <3>3
  <2>2. CASE quizType # "reverse"
    <3>1. reverse' = reverse /\ learned' = Prepend(learned, draft)
      BY <1>6, <2>2 DEF Record, PrimaryLogList, SetLogs, LogsOf
    <3>2. PICK log \in StoredLog(c) : learned' = <<log>> \o learned /\ log.quizType = quizType
      <4>1. Adds(c, clock, o, quizType, StatusOf(o.correct, TRUE), learned, learned')
        BY <1>1, <1>5, <3>1 DEF Verdicts
      <4> QED BY <4>1 DEF Adds
    <3> HIDE DEF draft
    <3>3. /\ (learned')[1] = log
          /\ \A k \in DOMAIN learned' : k # 1 =>
                 k - 1 \in DOMAIN learned /\ (learned')[k] = learned[k - 1]
      BY <1>1, <3>1, <3>2, ChainIs
    <3>4. quizType # "freeform"
      OBVIOUS
    <3>5. ASSUME NEW k \in DOMAIN learned', (learned')[k].quizType = "freeform"
          PROVE  \E j \in DOMAIN reverse' : Half((learned')[k], (reverse')[j])
      <4>1. k - 1 \in DOMAIN learned /\ (learned')[k] = learned[k - 1]
        BY <3>2, <3>3, <3>4, <3>5
      <4> QED BY <1>2, <3>1, <3>5, <4>1
    <3> QED BY <3>5
  <2> QED BY <2>1, <2>2
<1>7. CASE "freeform" \in Played /\ RecordFreeform(o, rt)
  <2> DEFINE draft == LogOf(clock, rt, o, StatusOf(o.correct, FALSE), "freeform")
             Fresh(log) == /\ log.at = ToSecond(clock) /\ log.quality = o.quality
                           /\ log.status = StatusOf(o.correct, FALSE)
                           /\ log.quizType = "freeform"
  <2>1. learned' = Prepend(learned, draft) /\ reverse' = Prepend(reverse, draft)
    BY <1>7 DEF RecordFreeform
  <2>2. PICK l \in StoredLog(c) : learned' = <<l>> \o learned /\ Fresh(l)
    <3>1. Adds(c, clock, o, "freeform", StatusOf(o.correct, FALSE), learned, learned')
      BY <1>1, <1>5, <1>7, <2>1 DEF Verdicts
    <3> QED BY <3>1 DEF Adds
  <2>3. PICK r \in StoredLog(c) : reverse' = <<r>> \o reverse /\ Fresh(r)
    <3>1. Adds(c, clock, o, "freeform", StatusOf(o.correct, FALSE), reverse, reverse')
      BY <1>1, <1>5, <1>7, <2>1 DEF Verdicts
    <3> QED BY <3>1 DEF Adds
  <2> HIDE DEF draft
  <2>4. /\ (learned')[1] = l
        /\ \A k \in DOMAIN learned' : k # 1 =>
               k - 1 \in DOMAIN learned /\ (learned')[k] = learned[k - 1]
    BY <1>1, <2>1, <2>2, ChainIs
  <2>5. /\ 1 \in DOMAIN reverse' /\ (reverse')[1] = r
        /\ \A j \in DOMAIN reverse : j + 1 \in DOMAIN reverse' /\ (reverse')[j + 1] = reverse[j]
    BY <1>1, <2>1, <2>3, ChainIs
  <2>6. Half(l, r)
    BY <2>2, <2>3
  <2> QED BY <1>2, <2>4, <2>5, <2>6
<1> QED BY <1>4, <1>6, <1>7

\* The list the overridden log was in, as it was.
ThenOf(k) == IF PrimaryLogList(k.quizType) = "reverse" THEN k.reverse ELSE k.learned

\* The page remembers the log it overrode: that quiz's, at that instant, as it was; the
\* log of that instant is still an answer to the same question.
ToldOf(k, j) ==
    /\ j \in DOMAIN ThenOf(k)
    /\ k.key = [kind |-> "instant", value |-> ThenOf(k)[j].at]
    /\ ThenOf(k)[j].quizType = k.quizType
    /\ k.quality = ThenOf(k)[j].quality /\ k.status = ThenOf(k)[j].status
    /\ k.interval = ThenOf(k)[j].interval
    /\ LET now == LogsOf(PrimaryLogList(k.quizType))
       IN  \A i \in DOMAIN now :
               now[i].at = ThenOf(k)[j].at => SameAnswer(now[i], ThenOf(k)[j])

ToldSince(k) ==
    IsHistory(calculator, clock, ThenOf(k)) /\ \E j \in DOMAIN ThenOf(k) : ToldOf(k, j)

OverrideInv ==
    /\ HistoryInv
    /\ \A k \in captured : ToldSince(k)
    /\ HalvesAgree
    /\ UndoRestoresLog

\* A step adds at most an answer of the present second to a list.
Comes(now, old, new) ==
    \A i \in DOMAIN new : \/ new[i].at = ToSecond(now)
                          \/ \E j \in DOMAIN old : SameAnswer(new[i], old[j])

LEMMA ComesIs ==
    ASSUME NEW c, NEW now, NEW old, IsHistory(c, now, old), NEW new
    PROVE  /\ OneForOne(old, new) => Comes(now, old, new)
           /\ Grows(c, now, old, new) => Comes(now, old, new)
<1>1. ASSUME OneForOne(old, new) PROVE Comes(now, old, new)
  BY <1>1 DEF OneForOne, Comes
<1>2. ASSUME Grows(c, now, old, new) PROVE Comes(now, old, new)
  <2>1. CASE new = old
    BY <2>1 DEF Comes, SameAnswer
  <2>2. ASSUME NEW log \in StoredLog(c), new = <<log>> \o old, log.at = ToSecond(now)
        PROVE  Comes(now, old, new)
    <3>1. old \in Seq(StoredLog(c))
      BY DEF IsHistory
    <3>2. /\ new[1] = log
          /\ \A i \in DOMAIN new : i # 1 => i - 1 \in DOMAIN old /\ new[i] = old[i - 1]
      BY <2>2, <3>1, ChainIs
    <3> QED BY <2>2, <3>2 DEF Comes, SameAnswer
  <2> QED BY <1>2, <2>1, <2>2 DEF Grows
<1> QED BY <1>1, <1>2

LEMMA ToldLasts ==
    ASSUME HistoryInv, NEW k, ToldSince(k), calculator' = calculator, clock' \in Nat,
           clock <= clock', Comes(clock, learned, learned'), Comes(clock, reverse, reverse')
    PROVE  ToldSince(k)'
<1> DEFINE then == ThenOf(k)
           list == PrimaryLogList(k.quizType)
           now  == LogsOf(list)
<1>1. clock \in Nat /\ IsHistory(calculator, clock, then)
  BY DEF HistoryInv, ToldSince
<1>2. PICK j \in DOMAIN then : ToldOf(k, j)
  BY DEF ToldSince
<1>3. IsHistory(calculator, clock', then)
  BY <1>1, HistoryLasts
<1>4. Comes(clock, now, now')
  BY DEF LogsOf
<1>5. then[j].at < ToSecond(clock) /\ then[j].at \in Nat /\ ToSecond(clock) \in Nat
  BY <1>1, HistoryIs, SecondsStay DEF IsHistory
<1>6. \A i \in DOMAIN now : now[i].at = then[j].at => SameAnswer(now[i], then[j])
  BY <1>2 DEF ToldOf
<1> HIDE DEF now
<1>7. ASSUME NEW i \in DOMAIN now', (now')[i].at = then[j].at
      PROVE  SameAnswer((now')[i], then[j])
  <2>1. PICK m \in DOMAIN now : SameAnswer((now')[i], now[m])
    BY <1>4, <1>5, <1>7 DEF Comes
  <2>2. SameAnswer(now[m], then[j])
    BY <1>6, <1>7, <2>1 DEF SameAnswer
  <2> QED BY <2>1, <2>2 DEF SameAnswer
<1>8. ToldOf(k, j)'
  <2>1. /\ j \in DOMAIN then /\ k.key = [kind |-> "instant", value |-> then[j].at]
        /\ then[j].quizType = k.quizType
        /\ k.quality = then[j].quality /\ k.status = then[j].status
        /\ k.interval = then[j].interval
    BY <1>2 DEF ToldOf
  <2> QED BY <1>7, <2>1 DEF ToldOf, now, LogsOf, ThenOf
<1> QED BY <1>3, <1>8 DEF ToldSince, ThenOf

\* What the undo found and what it leaves.
LEMMA UndoRestores ==
    ASSUME OverrideInv, HistoryInv', NEW k \in captured, UndoOverrideLog(k)
    PROVE  UndoRestoresLog' /\ HalvesAgree'
<1> DEFINE list == PrimaryLogList(k.quizType)
           logs == LogsOf(list)
           then == ThenOf(k)
           i    == IndexLogByLearnedAt(logs, k.key)
           log  == Remarked(logs[i], k.quality, k.status, k.interval)
<1>1. /\ i \in DOMAIN logs /\ logs[i] \in StoredLog(calculator)
      /\ log \in StoredLog(calculator) /\ SameAnswer(log, logs[i])
      /\ Rewrite(k.quizType, i, log) /\ captured' = captured \ {k}
      /\ last' = [op |-> "undo", hit |-> logs[i].at, of |-> k]
      /\ UNCHANGED <<calculator, skipped, clock>>
  BY UndoIs DEF OverrideInv
<1>2. /\ IsHistory(calculator, clock, then) /\ IsHistory(calculator, clock, logs)
      /\ ToldSince(k)
  BY ListIs DEF OverrideInv, ToldSince
<1>3. PICK j \in DOMAIN then : ToldOf(k, j)
  BY <1>2 DEF ToldSince
<1> DEFINE at == then[j].at
<1>4. logs[i].at = at
  <2>1. k.key = [kind |-> "instant", value |-> at]
    BY <1>3 DEF ToldOf
  <2> HIDE DEF logs, at
  <2>2. i # 0
    BY <1>1, <1>2, HistoryIs
  <2>3. PICK m \in DOMAIN logs : logs[m].at = at
    BY <1>2, <2>1, <2>2, InstantIs
  <2>4. i = m
    BY <1>2, <2>1, <2>3, InstantIs
  <2> QED BY <2>3, <2>4
<1>5. SameAnswer(logs[i], then[j]) /\ then[j].quizType = k.quizType
  BY <1>1, <1>3, <1>4 DEF ToldOf
<1>6. HalvesAgree'
  <2>1. logs[i].quizType = k.quizType
    BY <1>5 DEF SameAnswer
  <2> HIDE DEF log, i
  <2> QED BY <1>1, <2>1, RewriteHalves DEF OverrideInv
<1>7. log = then[j]
  <2> DEFINE L == LogIn(ResponseTimes, QuizTypes[calculator])
  <2>1. logs[i] \in L /\ then[j] \in L /\ log \in L
    BY <1>1, <1>2, HistoryIs DEF StoredLog
  <2>2. /\ log.at = then[j].at /\ log.rt = then[j].rt /\ log.quizType = then[j].quizType
    BY <1>1, <1>5 DEF SameAnswer
  <2>3. /\ log.quality = k.quality /\ log.status = k.status /\ log.interval = k.interval
    BY <2>1 DEF Remarked, LogIn
  <2>4. k.quality = then[j].quality /\ k.status = then[j].status /\ k.interval = then[j].interval
    BY <1>3 DEF ToldOf
  <2> HIDE DEF log, then
  <2> QED BY <2>1, <2>2, <2>3, <2>4 DEF LogIn
<1>8. i \in DOMAIN logs' /\ (logs')[i] = log
  <2> HIDE DEF log, i
  <2>1. CASE k.quizType = "reverse"
    <3>1. reverse' = [reverse EXCEPT ![i] = log] /\ i \in DOMAIN reverse
      BY <1>1, <2>1 DEF Rewrite, PrimaryLogList, LogsOf, SetLogs
    <3> QED BY <2>1, <3>1 DEF PrimaryLogList, LogsOf
  <2>2. CASE k.quizType # "reverse"
    <3>1. learned' = [learned EXCEPT ![i] = log] /\ i \in DOMAIN learned
      BY <1>1, <2>2 DEF Rewrite, PrimaryLogList, LogsOf, SetLogs
    <3> QED BY <2>2, <3>1 DEF PrimaryLogList, LogsOf
  <2> QED BY <2>1, <2>2
<1>9. IsHistory(calculator, clock, logs')
  BY <1>1 DEF HistoryInv, LogsOf
<1>10. ASSUME NEW s, IsHistory(calculator, clock, s), NEW n \in DOMAIN s
       PROVE  LogAt(s, s[n].at) = n
  <2>1. \A m \in DOMAIN s : s[m].at = s[n].at => m = n
    BY <1>10, InstantIs
  <2> QED BY <2>1 DEF LogAt
<1> HIDE DEF log, i
<1>11. LogAt(then, at) = j /\ LogAt(logs', at) = i
  <2>1. (logs')[i].at = at
    BY <1>7, <1>8
  <2> HIDE DEF logs, then
  <2> QED BY <1>2, <1>8, <1>9, <1>10, <2>1
<1>12. last'.op = "undo" /\ last'.hit = at /\ last'.of = k
  BY <1>1, <1>4
<1>13. UndoRestoresLog'
  <2>1. (logs')[LogAt(logs', at)] = then[LogAt(then, at)]
    BY <1>7, <1>8, <1>11
  <2> QED BY <1>12, <2>1 DEF UndoRestoresLog, ThenOf, LogsOf
<1> QED BY <1>6, <1>13

LEMMA OverrideRemembers ==
    ASSUME KeyKinds \subseteq {"instant"}, OverrideInv, HistoryInv', ClickOverride
    PROVE  (\A k \in captured' : ToldSince(k)') /\ HalvesAgree'
<1>1. PICK quizType \in Played, kind \in KeyKinds :
          \E clicked \in DOMAIN LogsOf(PrimaryLogList(quizType)) :
              OverrideLog(quizType, clicked, kind)
  BY DEF ClickOverride
<1>2. PICK clicked \in DOMAIN LogsOf(PrimaryLogList(quizType)) : OverrideLog(quizType, clicked, kind)
  BY <1>1
<1> DEFINE logs == LogsOf(PrimaryLogList(quizType))
           key == KeyOf(kind, logs[clicked])
           i == IndexLogByLearnedAt(logs, key)
           k == [quizType |-> quizType, key |-> key,
                 quality |-> logs[i].quality, status |-> logs[i].status,
                 interval |-> logs[i].interval, learned |-> learned, reverse |-> reverse]
<1>3. /\ \E log \in StoredLog(calculator) : SameAnswer(log, logs[i]) /\ Rewrite(quizType, i, log)
      /\ captured' = {k} /\ logs[clicked].quizType = quizType
      /\ UNCHANGED <<calculator, skipped, clock>>
  BY <1>2, OverrideIs DEF OverrideInv
<1>4. PICK log \in StoredLog(calculator) : SameAnswer(log, logs[i]) /\ Rewrite(quizType, i, log)
  BY <1>3
<1>5. IsHistory(calculator, clock, logs)
  BY ListIs DEF OverrideInv
<1>6. key = [kind |-> "instant", value |-> logs[clicked].at]
  BY DEF KeyOf
<1>7. i = clicked
  <2> HIDE DEF logs, key
  <2>1. clicked \in DOMAIN logs
    BY DEF logs
  <2> QED BY <1>5, <1>6, <2>1, InstantIs
<1> HIDE DEF i
<1>8. HalvesAgree'
  BY <1>3, <1>4, <1>7, RewriteHalves DEF OverrideInv
<1>9. ThenOf(k) = logs /\ k.quizType = quizType
  BY DEF ThenOf, LogsOf
<1>10. ToldSince(k)
  <2>1. /\ k.key = [kind |-> "instant", value |-> logs[clicked].at]
        /\ k.quality = logs[clicked].quality /\ k.status = logs[clicked].status
        /\ k.interval = logs[clicked].interval
    BY <1>6, <1>7
  <2>2. \A m \in DOMAIN logs : logs[m].at = logs[clicked].at => m = clicked
    BY <1>5, InstantIs
  <2> HIDE DEF k
  <2>3. ToldOf(k, clicked)
    BY <1>3, <1>9, <2>1, <2>2 DEF ToldOf, SameAnswer
  <2> QED BY <1>5, <1>9, <2>3 DEF ToldSince
<1> HIDE DEF k
<1>11. /\ Comes(clock, learned, learned') /\ Comes(clock, reverse, reverse')
       /\ IsHistory(calculator, clock, learned) /\ IsHistory(calculator, clock, reverse)
       /\ clock \in Nat
  <2>1. OneForOne(learned, learned') /\ OneForOne(reverse, reverse')
    BY OverrideStep DEF OverrideInv
  <2> QED BY <2>1, ComesIs DEF OverrideInv, HistoryInv
<1>12. PICK told : told = k
  OBVIOUS
<1>13. ToldSince(told)'
  <2>1. clock' \in Nat /\ clock <= clock' /\ calculator' = calculator
    BY <1>3, <1>11
  <2> QED BY <1>10, <1>11, <1>12, <2>1, ToldLasts DEF OverrideInv
<1>14. captured' = {told}
  BY <1>3, <1>12
<1> QED BY <1>8, <1>13, <1>14

LEMMA NextOverride ==
    ASSUME KeyKinds \subseteq {"instant"}, OverrideInv, [Next]_vars
    PROVE  OverrideInv'
<1>1. /\ HistoryInv /\ HistoryInv' /\ HalvesAgree
      /\ clock \in Nat /\ calculator \in Calculators
      /\ IsHistory(calculator, clock, learned) /\ IsHistory(calculator, clock, reverse)
  BY NextHistory DEF OverrideInv, HistoryInv
<1>2. ASSUME captured' \subseteq captured, calculator' = calculator, clock' \in Nat,
             clock <= clock', Comes(clock, learned, learned'), Comes(clock, reverse, reverse')
      PROVE  \A k \in captured' : ToldSince(k)'
  <2>1. ASSUME NEW k \in captured' PROVE ToldSince(k)'
    <3>1. ToldSince(k)
      BY <1>2 DEF OverrideInv
    <3> QED BY <1>1, <1>2, <3>1, ToldLasts
  <2> QED BY <2>1
<1>3. CASE Answer
  <2>1. captured' = captured /\ calculator' = calculator
        /\ Comes(clock, learned, learned') /\ Comes(clock, reverse, reverse')
    BY <1>1, <1>3, AnswerStep, ComesIs
  <2>2. PICK o \in Outcomes[calculator], rt \in ResponseTimes :
            \/ \E quizType \in Played \ {"freeform"} : Record(quizType, o, rt)
            \/ RecordFreeform(o, rt)
    BY <1>3 DEF Answer
  <2>3. clock' = clock + Spacing /\ last' = [op |-> "other"]
    BY <2>2, Zenon DEF Record, RecordFreeform
  <2>4. clock' \in Nat /\ clock <= clock'
    BY <1>1, <2>3, SpacingAssumption
  <2>5. UndoRestoresLog'
    BY <2>3 DEF UndoRestoresLog
  <2>6. HalvesAgree'
    BY <1>1, <1>3, AnswerHalves
  <2> QED BY <1>1, <1>2, <2>1, <2>4, <2>5, <2>6 DEF OverrideInv
<1>4. CASE ClickOverride
  <2>1. (\A k \in captured' : ToldSince(k)') /\ HalvesAgree'
    BY <1>1, <1>4, OverrideRemembers
  <2>2. UndoRestoresLog'
    <3>1. PICK quizType \in Played, kind \in KeyKinds :
              \E clicked \in DOMAIN LogsOf(PrimaryLogList(quizType)) :
                  OverrideLog(quizType, clicked, kind)
      BY <1>4 DEF ClickOverride
    <3>2. PICK clicked \in DOMAIN LogsOf(PrimaryLogList(quizType)) :
              OverrideLog(quizType, clicked, kind)
      BY <3>1
    <3>3. last'.op = "override"
      BY <1>1, <3>2, OverrideIs
    <3> QED BY <3>3 DEF UndoRestoresLog
  <2> QED BY <1>1, <2>1, <2>2 DEF OverrideInv
<1>5. CASE ClickUndo
  <2>1. PICK k \in captured : UndoOverrideLog(k)
    BY <1>5 DEF ClickUndo
  <2>2. UndoRestoresLog' /\ HalvesAgree'
    BY <1>1, <2>1, UndoRestores
  <2>3. captured' \subseteq captured
    BY <1>1, <2>1, UndoIs
  <2>4. /\ calculator' = calculator /\ clock' = clock
        /\ Comes(clock, learned, learned') /\ Comes(clock, reverse, reverse')
    BY <1>1, <1>5, UndoStep, ComesIs
  <2>5. clock' \in Nat /\ clock <= clock'
    BY <1>1, <2>4
  <2> QED BY <1>1, <1>2, <2>2, <2>3, <2>4, <2>5 DEF OverrideInv
<1>6. CASE ValidateFix
  <2>1. /\ calculator' = calculator /\ clock' = clock /\ captured' = captured
        /\ OneForOne(learned, learned') /\ OneForOne(reverse, reverse')
        /\ \A i \in DOMAIN learned : learned'[i].quality = learned[i].quality
                                     /\ learned'[i].status = learned[i].status
        /\ \A i \in DOMAIN reverse : reverse'[i].quality = reverse[i].quality
                                     /\ reverse'[i].status = reverse[i].status
    BY <1>1, <1>6, FixStep
  <2>2. Comes(clock, learned, learned') /\ Comes(clock, reverse, reverse')
    BY <1>1, <2>1, ComesIs
  <2>3. clock' \in Nat /\ clock <= clock'
    BY <1>1, <2>1
  <2>4. HalvesAgree'
    BY <1>1, <2>1 DEF HalvesAgree, OneForOne, SameAnswer
  <2>5. last' = [op |-> "other"]
    BY <1>6 DEF ValidateFix
  <2>6. UndoRestoresLog'
    BY <2>5 DEF UndoRestoresLog
  <2> QED BY <1>1, <1>2, <2>1, <2>2, <2>3, <2>4, <2>6 DEF OverrideInv
<1>7. CASE \E until \in {clock + w : w \in Waits} \cup DueAt : Wait(until)
  <2>1. PICK until \in {clock + w : w \in Waits} \cup DueAt : Wait(until)
    BY <1>7
  <2>2. /\ UNCHANGED <<calculator, learned, reverse, captured>> /\ clock' \in Nat
    BY <1>1, <2>1, WaitStep DEF HistoryInv
  <2>3. clock' = until /\ until > clock /\ last' = [op |-> "other"]
    BY <2>1 DEF Wait
  <2>4. clock <= clock'
    BY <1>1, <2>2, <2>3
  <2>5. Comes(clock, learned, learned') /\ Comes(clock, reverse, reverse')
    BY <2>2 DEF Comes, SameAnswer
  <2>6. HalvesAgree' /\ UndoRestoresLog'
    BY <1>1, <2>2, <2>3 DEF HalvesAgree, UndoRestoresLog
  <2> QED BY <1>1, <1>2, <2>2, <2>4, <2>5, <2>6 DEF OverrideInv
<1>8. CASE UNCHANGED vars
  <2> USE <1>8 DEF vars
  <2>1. HalvesAgree'
    BY <1>1 DEF HalvesAgree
  <2>2. UndoRestoresLog'
    BY DEF OverrideInv, UndoRestoresLog, LogsOf
  <2>3. /\ captured' = captured /\ calculator' = calculator /\ clock' \in Nat /\ clock <= clock'
        /\ Comes(clock, learned, learned') /\ Comes(clock, reverse, reverse')
    BY <1>1 DEF Comes, SameAnswer
  <2> QED BY <1>1, <1>2, <2>1, <2>2, <2>3 DEF OverrideInv
<1> QED BY <1>3, <1>4, <1>5, <1>6, <1>7, <1>8 DEF Next

LEMMA OverrideInvariant == ASSUME KeyKinds \subseteq {"instant"} PROVE Spec => []OverrideInv
<1>1. Init => OverrideInv
  <2> SUFFICES ASSUME Init PROVE OverrideInv
    OBVIOUS
  <2>1. HalvesAgree /\ UndoRestoresLog
    BY DEF Init, HalvesAgree, UndoRestoresLog
  <2> QED BY <2>1, InitHistory DEF Init, OverrideInv
<1>2. OverrideInv /\ [Next]_vars => OverrideInv'
  BY NextOverride
<1> QED BY <1>1, <1>2, PTL DEF Spec

\* Undo, addressed by an instant, puts the overridden log back field by field, whatever
\* was answered or fixed since (the Undo handlers send back what the override captured).
THEOREM UndoPutsBack == ASSUME KeyKinds \subseteq {"instant"} PROVE Spec => []UndoRestoresLog
BY OverrideInvariant, PTL DEF OverrideInv

\* The two halves of a free-form answer agree on whether it was right, through overrides
\* addressed by an instant, their undoing and fixes (the mirroring of a free-form
\* override into reverse_logs).
THEOREM HalvesStayTogether == ASSUME KeyKinds \subseteq {"instant"} PROVE Spec => []HalvesAgree
BY OverrideInvariant, PTL DEF OverrideInv

=============================================================================
