--------------------------- MODULE AnalyticsProofs ---------------------------
(***************************************************************************)
(* The pages of Analytics tell one story, for histories of any length.     *)
(***************************************************************************)
EXTENDS Analytics, ReviewChainProofs

-----------------------------------------------------------------------------
(* Sorting and selecting: each element keeps one place *)

\* Ranks that differ fill their range.
LEMMA RanksFill ==
    ASSUME NEW H, IsFiniteSet(H), NEW r \in [H -> 1 .. Cardinality(H)],
           \A i, j \in H : i # j => r[i] # r[j]
    PROVE  \A n \in 1 .. Cardinality(H) : \E i \in H : r[i] = n
<1> DEFINE N == Cardinality(H)
<1>1. N \in Nat /\ IsFiniteSet(1 .. N) /\ Cardinality(1 .. N) = N
  BY FS_CardinalityType, FS_Interval
<1>2. r \in Injection(H, 1 .. N)
  BY DEF Injection, IsInjective
<1>3. r \in Surjection(H, 1 .. N)
  BY <1>1, <1>2, FS_Injection
<1> QED BY <1>3 DEF Surjection

LEMMA DomainIs ==
    ASSUME NEW S, NEW s \in Seq(S)
    PROVE  /\ DOMAIN s = 1 .. Len(s) /\ Len(s) \in Nat /\ DOMAIN s \subseteq Nat
           /\ IsFiniteSet(DOMAIN s) /\ Cardinality(DOMAIN s) = Len(s)
<1>1. DOMAIN s = 1 .. Len(s) /\ Len(s) \in Nat
  OBVIOUS
<1>2. IsFiniteSet(1 .. Len(s)) /\ Cardinality(1 .. Len(s)) = IF 1 > Len(s) THEN 0 ELSE Len(s) - 1 + 1
  BY <1>1, FS_Interval
<1>3. Cardinality(1 .. Len(s)) = Len(s)
  BY <1>1, <1>2
<1> QED BY <1>1, <1>2, <1>3

\* t lists the elements of s at the indices of H, each once.
Listing(t, s, H) ==
    /\ DOMAIN t = 1 .. Cardinality(H)
    /\ \E p \in [1 .. Cardinality(H) -> H] :
           /\ \A n \in 1 .. Cardinality(H) : t[n] = s[p[n]]
           /\ \A i \in H : \E n \in 1 .. Cardinality(H) : p[n] = i
           /\ \A m, n \in 1 .. Cardinality(H) : p[m] = p[n] => m = n

\* The index of a rank, and the indices up to one.
AtRank(H, r, n) == CHOOSE i \in H : r[i] = n
InRanks(s, H, r) == [n \in 1 .. Cardinality(H) |-> s[AtRank(H, r, n)]]
UpTo(H, R, i) == {j \in H : <<j, i>> \in R}
Ranks(H, R) == [i \in H |-> Cardinality(UpTo(H, R, i))]

\* What is listed by rank is listed.
LEMMA RankedIs ==
    ASSUME NEW S, NEW s \in Seq(S), NEW H \in SUBSET DOMAIN s,
           NEW r \in [H -> 1 .. Cardinality(H)], \A i, j \in H : i # j => r[i] # r[j]
    PROVE  /\ Listed(InRanks(s, H, r)) = InRanks(s, H, r) /\ InRanks(s, H, r) \in Seq(S)
           /\ Len(InRanks(s, H, r)) = Cardinality(H)
           /\ Listing(InRanks(s, H, r), s, H)
           /\ \A n \in 1 .. Cardinality(H) : AtRank(H, r, n) \in H /\ r[AtRank(H, r, n)] = n
<1> DEFINE N == Cardinality(H)
           At(n) == AtRank(H, r, n)
           p == [n \in 1 .. N |-> At(n)]
           t == InRanks(s, H, r)
<1>1. IsFiniteSet(H) /\ N \in Nat
  <2>1. IsFiniteSet(DOMAIN s)
    BY FS_Interval
  <2> QED BY <2>1, FS_Subset, FS_CardinalityType
<1>2. \A n \in 1 .. N : At(n) \in H /\ r[At(n)] = n
  BY <1>1, RanksFill DEF AtRank
<1>3. t \in Seq(S) /\ Len(t) = N
  BY <1>1, <1>2 DEF InRanks
<1>4. Listing(t, s, H)
  <2>1. p \in [1 .. N -> H] /\ \A n \in 1 .. N : t[n] = s[p[n]] /\ r[p[n]] = n
    BY <1>2 DEF InRanks
  <2>2. \A i \in H : p[r[i]] = i /\ r[i] \in 1 .. N
    BY <1>2
  <2>3. DOMAIN t = 1 .. N
    BY DEF InRanks
  <2> HIDE DEF p
  <2>4. \A i \in H : \E n \in 1 .. N : p[n] = i
    BY <2>2
  <2>5. \A m, n \in 1 .. N : p[m] = p[n] => m = n
    BY <2>1
  <2>6. p \in [1 .. N -> H] /\ \A n \in 1 .. N : t[n] = s[p[n]]
    BY <2>1
  <2> QED BY <2>3, <2>4, <2>5, <2>6, Zenon DEF Listing
<1> QED BY <1>2, <1>3, <1>4, ListedIs

InOrder(H, R) ==
    /\ \A i \in H : <<i, i>> \in R
    /\ \A i, j \in H : <<i, j>> \in R \/ <<j, i>> \in R
    /\ \A i, j \in H : <<i, j>> \in R /\ <<j, i>> \in R => i = j
    /\ \A i, j, k \in H : <<i, j>> \in R /\ <<j, k>> \in R => <<i, k>> \in R

\* By rank in a total order, whoever comes later ranks higher: R has <<j, i>> if j is i
\* or goes before it.
LEMMA OrderRanks ==
    ASSUME NEW H, IsFiniteSet(H), NEW R, InOrder(H, R)
    PROVE  /\ Ranks(H, R) \in [H -> 1 .. Cardinality(H)]
           /\ \A i, j \in H : i # j => Ranks(H, R)[i] # Ranks(H, R)[j]
           /\ \A i, j \in H : i # j /\ <<i, j>> \in R => Ranks(H, R)[i] < Ranks(H, R)[j]
<1> DEFINE N == Cardinality(H)
           r == Ranks(H, R)
           Down(i) == UpTo(H, R, i)
<1>1. N \in Nat
  BY FS_CardinalityType
<1>2. ASSUME NEW i \in H
      PROVE  IsFiniteSet(Down(i)) /\ Cardinality(Down(i)) \in 1 .. N
  <2>1. Down(i) \in SUBSET H
    BY DEF UpTo, InOrder
  <2>2. IsFiniteSet(Down(i)) /\ Cardinality(Down(i)) <= N
    BY <2>1, FS_Subset
  <2>3. Cardinality(Down(i)) \in Nat
    BY <2>2, FS_CardinalityType
  <2>4. i \in Down(i)
    BY DEF UpTo, InOrder
  <2>5. Cardinality(Down(i)) # 0
    BY <2>2, <2>4, FS_EmptySet
  <2> QED BY <1>1, <2>2, <2>3, <2>5
<1>3. ASSUME NEW i \in H, NEW j \in H, i # j, <<i, j>> \in R
      PROVE  Cardinality(Down(i)) < Cardinality(Down(j))
  <2>1. Down(i) \in SUBSET Down(j)
    BY <1>3 DEF UpTo, InOrder
  <2>2. j \in Down(j) /\ j \notin Down(i)
    BY <1>3 DEF UpTo, InOrder
  <2>3. Cardinality(Down(i)) <= Cardinality(Down(j)) /\ Cardinality(Down(i)) # Cardinality(Down(j))
    <3> QED BY <1>2, <2>1, <2>2, FS_Subset
  <2> QED BY <1>1, <1>2, <2>3
<1>4. r \in [H -> 1 .. N] /\ \A i, j \in H : i # j /\ <<i, j>> \in R => r[i] < r[j]
  BY <1>2, <1>3 DEF Ranks
<1>5. \A i, j \in H : i # j => r[i] # r[j]
  <2>1. \A i \in H : r[i] \in Int
    BY <1>1, <1>4
  <2>2. ASSUME NEW i \in H, NEW j \in H, i # j PROVE r[i] < r[j] \/ r[j] < r[i]
    BY <1>4, <2>2 DEF InOrder
  <2> QED BY <2>1, <2>2
<1> QED BY <1>4, <1>5

\* What is selected keeps its order.
LEMMA SelectedIs ==
    ASSUME NEW S, NEW s \in Seq(S), NEW H \in SUBSET DOMAIN s
    PROVE  /\ Selected(s, H) \in Seq(S) /\ Len(Selected(s, H)) = Cardinality(H)
           /\ Listing(Selected(s, H), s, H)
           /\ \E p \in [1 .. Cardinality(H) -> H] :
                  /\ \A n \in 1 .. Cardinality(H) : Selected(s, H)[n] = s[p[n]]
                  /\ \A m, n \in 1 .. Cardinality(H) : m < n => p[m] < p[n]
<1> DEFINE N == Cardinality(H)
           R == {q \in H \X H : q[1] <= q[2]}
           r == Ranks(H, R)
           At(n) == AtRank(H, r, n)
           t == InRanks(s, H, r)
<1>1. IsFiniteSet(H) /\ H \subseteq Nat /\ N \in Nat
  <2>1. IsFiniteSet(DOMAIN s) /\ DOMAIN s \subseteq Nat
    BY FS_Interval
  <2>2. IsFiniteSet(H)
    BY <2>1, FS_Subset
  <2> QED BY <2>1, <2>2, FS_CardinalityType
<1>2. \A i, j \in H : <<j, i>> \in R <=> j <= i
  OBVIOUS
<1>3. /\ r \in [H -> 1 .. N]
      /\ \A i, j \in H : i # j => r[i] # r[j]
      /\ \A i, j \in H : i # j /\ <<i, j>> \in R => r[i] < r[j]
  <2>1. InOrder(H, R)
    BY <1>1, <1>2 DEF InOrder
  <2> HIDE DEF R
  <2> QED BY <1>1, <2>1, OrderRanks
<1>4. \A i \in H : r[i] = Cardinality({j \in H : j <= i})
  <2>1. \A i \in H : UpTo(H, R, i) = {j \in H : j <= i}
    BY <1>2 DEF UpTo
  <2> QED BY <2>1 DEF Ranks
<1> HIDE DEF r
<1>5. /\ Listed(t) = t /\ t \in Seq(S) /\ Len(t) = N /\ Listing(t, s, H)
      /\ \A n \in 1 .. N : At(n) \in H /\ r[At(n)] = n
  BY <1>3, RankedIs
<1>6. Selected(s, H) = Listed(t)
  <2>1. ASSUME NEW n \in 1 .. N
        PROVE  At(n) = CHOOSE i \in H : Cardinality({j \in H : j <= i}) = n
    <3> DEFINE q == CHOOSE i \in H : Cardinality({j \in H : j <= i}) = n
    <3>1. At(n) \in H /\ r[At(n)] = n
      BY <1>5
    <3>2. q \in H /\ r[q] = n
      BY <1>4, <3>1
    <3> QED BY <1>3, <3>1, <3>2
  <2>2. t = [n \in 1 .. N |-> s[CHOOSE i \in H : Cardinality({j \in H : j <= i}) = n]]
    BY <2>1 DEF InRanks
  <2> HIDE DEF t
  <2> QED BY <2>2 DEF Selected
<1>7. \A m, n \in 1 .. N : m < n => At(m) < At(n)
  <2>1. \A n \in 1 .. N : At(n) \in H /\ r[At(n)] = n
    BY <1>5
  <2>2. ASSUME NEW m \in 1 .. N, NEW n \in 1 .. N, m < n, ~(At(m) < At(n))
        PROVE  FALSE
    <3>1. At(m) # At(n) /\ At(m) \in H /\ At(n) \in H /\ r[At(m)] = m /\ r[At(n)] = n
      BY <1>1, <2>1, <2>2
    <3> HIDE DEF At
    <3>2. <<At(n), At(m)>> \in R
      BY <1>1, <2>2, <3>1
    <3>3. n < m
      BY <1>3, <3>1, <3>2
    <3> QED BY <1>1, <2>2, <3>3
  <2> QED BY <2>2
<1> HIDE DEF At
<1>8. \E p \in [1 .. N -> H] : /\ \A n \in 1 .. N : t[n] = s[p[n]]
                               /\ \A m, n \in 1 .. N : m < n => p[m] < p[n]
  <2> DEFINE p == [n \in 1 .. N |-> At(n)]
  <2>1. p \in [1 .. N -> H] /\ \A n \in 1 .. N : p[n] = At(n) /\ t[n] = s[p[n]]
    BY <1>5 DEF At, InRanks
  <2> HIDE DEF p, t
  <2> QED BY <1>7, <2>1
<1> HIDE DEF t
<1> QED BY <1>5, <1>6, <1>8

SortedOver(s, R) == InRanks(s, DOMAIN s, Listed(Ranks(DOMAIN s, R)))

\* A stable sort by a relation: R has <<j, i>> if j goes before i, or stood before it and
\* neither goes before the other.
LEMMA SortedIs ==
    ASSUME NEW S, NEW s \in Seq(S), NEW R, InOrder(DOMAIN s, R)
    PROVE  /\ Listed(SortedOver(s, R)) = SortedOver(s, R) /\ SortedOver(s, R) \in Seq(S)
           /\ Len(SortedOver(s, R)) = Len(s)
           /\ Listing(SortedOver(s, R), s, DOMAIN s)
<1> DEFINE D == DOMAIN s
           r == Ranks(D, R)
<1>1. /\ D = 1 .. Len(s) /\ Len(s) \in Nat /\ IsFiniteSet(D) /\ Cardinality(D) = Len(s)
      /\ D \in SUBSET DOMAIN s
  BY DomainIs
<1>2. /\ r \in [D -> 1 .. Cardinality(D)]
      /\ \A i, j \in D : i # j => r[i] # r[j]
  BY <1>1, OrderRanks
<1>3. Listed(r) = r
  <2>1. r \in Seq(Nat)
    BY <1>1, <1>2
  <2> QED BY <2>1, ListedIs
<1> HIDE DEF r
<1>4. SortedOver(s, R) = InRanks(s, D, r)
  BY <1>3 DEF SortedOver, r
<1>5. /\ Listed(InRanks(s, D, r)) = InRanks(s, D, r) /\ InRanks(s, D, r) \in Seq(S)
      /\ Len(InRanks(s, D, r)) = Cardinality(D)
      /\ Listing(InRanks(s, D, r), s, D)
  <2> HIDE DEF D
  <2>1. D \in SUBSET DOMAIN s
    BY <1>1
  <2> QED BY <2>1, <1>2, RankedIs, SMTT(30)
<1> QED BY <1>1, <1>4, <1>5

\* B orders the elements of H but for ties.
OrdersButTies(H, B) ==
    /\ \A i, j \in H : <<i, j>> \in B => <<j, i>> \notin B
    /\ \A i, j, k \in H : <<i, k>> \in B => <<i, j>> \in B \/ <<j, k>> \in B

LEMMA SortedByIs ==
    ASSUME NEW S, NEW s \in Seq(S), NEW B, OrdersButTies(DOMAIN s, B)
    PROVE  /\ SortedBy(s, B) \in Seq(S) /\ Len(SortedBy(s, B)) = Len(s)
           /\ Listing(SortedBy(s, B), s, DOMAIN s)
<1> DEFINE D == DOMAIN s
           R == {q \in D \X D : q \in B \/ (q[1] <= q[2] /\ <<q[2], q[1]>> \notin B)}
           place == Places(s, B)
<1>1. \A i, j \in D : <<j, i>> \in R <=> <<j, i>> \in B \/ (j <= i /\ <<i, j>> \notin B)
  OBVIOUS
<1>2. D = 1 .. Len(s) /\ Cardinality(D) = Len(s) /\ D \subseteq Nat
  BY DomainIs
<1>3. InOrder(D, R)
  <2> HIDE DEF R, D
  <2>1. (\A i, j \in D : <<i, j>> \in B => <<j, i>> \notin B)
        /\ \A i, j, k \in D : <<i, k>> \in B => <<i, j>> \in B \/ <<j, k>> \in B
    BY DEF OrdersButTies, D
  <2>2. /\ \A i \in D : <<i, i>> \in R
        /\ \A i, j \in D : <<i, j>> \in R \/ <<j, i>> \in R
        /\ \A i, j \in D : <<i, j>> \in R /\ <<j, i>> \in R => i = j
    BY <1>1, <1>2, <2>1
  <2>3. ASSUME NEW i \in D, NEW j \in D, NEW k \in D, <<i, j>> \in R, <<j, k>> \in R
        PROVE  <<i, k>> \in R
    <3>1. /\ <<i, j>> \in B \/ (i <= j /\ <<j, i>> \notin B)
          /\ <<j, k>> \in B \/ (j <= k /\ <<k, j>> \notin B)
          /\ i \in Nat /\ j \in Nat /\ k \in Nat
      BY <1>1, <1>2, <2>3
    <3>2. /\ <<j, i>> \in B => <<i, j>> \notin B
          /\ <<k, j>> \in B => <<j, k>> \notin B
          /\ <<k, i>> \in B => <<k, j>> \in B \/ <<j, i>> \in B
          /\ <<i, j>> \in B => <<i, k>> \in B \/ <<k, j>> \in B
          /\ <<j, k>> \in B => <<j, i>> \in B \/ <<i, k>> \in B
      BY <2>1
    <3>3. <<i, k>> \in B \/ (i <= k /\ <<k, i>> \notin B)
      BY <3>1, <3>2
    <3> QED BY <1>1, <3>3
  <2> QED BY <2>2, <2>3 DEF InOrder
<1>4. place = Listed(Ranks(D, R))
  <2>1. \A i \in D : UpTo(D, R, i) = {j \in D : <<j, i>> \in B \/ (j <= i /\ <<i, j>> \notin B)}
    <3> HIDE DEF R
    <3> QED BY <1>1 DEF UpTo
  <2> QED BY <2>1 DEF Ranks, Places
<1>5. SortedBy(s, B) = Listed([n \in D |-> s[AtRank(D, place, n)]])
  BY DEF SortedBy, AtRank
<1> HIDE DEF place, R
<1>6. SortedBy(s, B) = Listed(SortedOver(s, R))
  BY <1>2, <1>4, <1>5 DEF SortedOver, InRanks
<1> QED BY <1>3, <1>6, SortedIs

LEMMA NewestIs ==
    ASSUME NEW S, NEW list \in Seq(S), \A i \in DOMAIN list : list[i].at \in Nat
    PROVE  /\ ByNewest(list) \in Seq(S) /\ Len(ByNewest(list)) = Len(list)
           /\ Listing(ByNewest(list), list, DOMAIN list)
<1> DEFINE B == {p \in Pairs(list) : list[p[1]].at > list[p[2]].at}
           at(i) == list[i].at
<1>1. \A i, j \in DOMAIN list : <<i, j>> \in B <=> at(i) > at(j)
  BY DEF Pairs
<1>2. \A i \in DOMAIN list : at(i) \in Nat
  OBVIOUS
<1>3. OrdersButTies(DOMAIN list, B)
  <2> HIDE DEF B, at
  <2> QED BY <1>1, <1>2 DEF OrdersButTies
<1>4. ByNewest(list) = SortedBy(list, B)
  BY DEF ByNewest
<1> HIDE DEF B
<1> QED BY <1>3, <1>4, SortedByIs

LEMMA OldestIs ==
    ASSUME NEW S, NEW list \in Seq(S),
           \A i \in DOMAIN list : list[i].at \in Nat /\ list[i].quality \in Nat
    PROVE  /\ ByOldest(list) \in Seq(S) /\ Len(ByOldest(list)) = Len(list)
           /\ Listing(ByOldest(list), list, DOMAIN list)
<1> DEFINE B == {p \in Pairs(list) :
                     \/ list[p[1]].at < list[p[2]].at
                     \/ list[p[1]].at = list[p[2]].at /\ list[p[1]].quality < list[p[2]].quality}
           at(i) == list[i].at
           quality(i) == list[i].quality
<1>1. \A i, j \in DOMAIN list :
          <<i, j>> \in B <=> at(i) < at(j) \/ (at(i) = at(j) /\ quality(i) < quality(j))
  BY DEF Pairs
<1>2. \A i \in DOMAIN list : at(i) \in Nat /\ quality(i) \in Nat
  OBVIOUS
<1>3. OrdersButTies(DOMAIN list, B)
  <2> HIDE DEF B, at, quality
  <2>1. \A i, j \in DOMAIN list : <<i, j>> \in B => <<j, i>> \notin B
    BY <1>1, <1>2
  <2>2. ASSUME NEW i \in DOMAIN list, NEW j \in DOMAIN list, NEW k \in DOMAIN list, <<i, k>> \in B
        PROVE  <<i, j>> \in B \/ <<j, k>> \in B
    BY <1>1, <1>2, <2>2
  <2> QED BY <2>1, <2>2 DEF OrdersButTies
<1>4. ByOldest(list) = SortedBy(list, B)
  BY DEF ByOldest
<1> HIDE DEF B
<1> QED BY <1>3, <1>4, SortedByIs

-----------------------------------------------------------------------------
(* The attempts of a quiz type *)

AllLogs == learned \o reverse
Of(quizType) == {i \in DOMAIN AllLogs : quizType \in {"", AllLogs[i].quizType}}

LEMMA AllLogsAre ==
    ASSUME HistoryInv
    PROVE  AllLogs \in Seq(StoredLog(calculator))
BY DEF AllLogs, HistoryInv, IsHistory

\* A stored log has the fields the pages read.
LEMMA FieldsOf ==
    ASSUME HistoryInv, NEW a \in StoredLog(calculator)
    PROVE  /\ a.at \in Nat /\ a.quality \in Nat /\ a.status \in Statuses /\ a.quizType \in Played
           /\ a.interval \in Nat /\ Day(a.at) \in Nat
<1>1. a.at \in Nat /\ a.quality \in Nat /\ a.status \in Statuses /\ a.quizType \in Played
      /\ a.interval \in Nat
  BY DEF StoredLog, LogIn, Played, Qualities
<1> QED BY <1>1, TicksAssumption DEF Day

LEMMA AttemptsAre ==
    ASSUME HistoryInv, NEW quizType
    PROVE  /\ ExpressionAttempts(quizType) \in Seq(StoredLog(calculator))
           /\ ExpressionAttempts(quizType) = Selected(AllLogs, Of(quizType))
           /\ Listing(ExpressionAttempts(quizType), AllLogs, Of(quizType))
<1>1. AllLogs \in Seq(StoredLog(calculator)) /\ Of(quizType) \in SUBSET DOMAIN AllLogs
  BY AllLogsAre DEF Of
<1>2. ExpressionAttempts(quizType) = Selected(AllLogs, Of(quizType))
  BY DEF ExpressionAttempts, Of, AllLogs
<1> QED BY <1>1, <1>2, SelectedIs

\* An attempt of any kind is among those of its quiz type.
LEMMA ListedAgain ==
    ASSUME HistoryInv, NEW quizType, NEW j \in DOMAIN ExpressionAttempts(quizType)
    PROVE  LET a == ExpressionAttempts(quizType)[j]
           IN  \E k \in DOMAIN ByNewest(SeriesOf(a.quizType)) : ByNewest(SeriesOf(a.quizType))[k] = a
<1> DEFINE a == ExpressionAttempts(quizType)[j]
           own == ExpressionAttempts(a.quizType)
<1>1. PICK i \in DOMAIN AllLogs : a = AllLogs[i]
  <2>1. Listing(ExpressionAttempts(quizType), AllLogs, Of(quizType)) /\ Of(quizType) \subseteq DOMAIN AllLogs
    BY AttemptsAre DEF Of
  <2> QED BY <2>1 DEF Listing
<1>2. i \in Of(a.quizType)
  BY <1>1 DEF Of
<1>3. PICK n \in DOMAIN own : own[n] = a
  <2>1. Listing(own, AllLogs, Of(a.quizType))
    BY AttemptsAre
  <2> HIDE DEF own, a
  <2> QED BY <1>1, <1>2, <2>1 DEF Listing
<1>4. Listing(ByNewest(own), own, DOMAIN own)
  <2>1. own \in Seq(StoredLog(calculator))
    BY AttemptsAre
  <2>2. \A k \in DOMAIN own : own[k].at \in Nat
    BY <2>1, FieldsOf
  <2> HIDE DEF own
  <2> QED BY <2>1, <2>2, NewestIs
<1>5. \E k \in DOMAIN ByNewest(own) : ByNewest(own)[k] = a
  <2> HIDE DEF own, a
  <2> QED BY <1>3, <1>4 DEF Listing
<1> QED BY <1>5 DEF SeriesOf

-----------------------------------------------------------------------------
(* Streaks *)

LEMMA RunIs ==
    ASSUME NEW S, NEW s \in Seq(S), NEW w, NEW n \in 0 .. Len(s),
           \A i \in 1 .. n : IsWrong(s[i]) = w, n < Len(s) => IsWrong(s[n + 1]) # w
    PROVE  RunLength(s, w) = n
<1> DEFINE T == {m \in 0 .. Len(s) : \A i \in 1 .. m : IsWrong(s[i]) = w}
<1>1. n \in T
  OBVIOUS
<1>2. ASSUME NEW m \in T PROVE m <= n
  <2>1. SUFFICES ASSUME m > n PROVE FALSE
    OBVIOUS
  <2>2. n + 1 \in 1 .. m /\ n < Len(s)
    BY <2>1
  <2> QED BY <2>2
<1>3. T \subseteq Int
  OBVIOUS
<1>4. RunLength(s, w) = Max(T)
  BY DEF RunLength
<1> HIDE DEF T
<1>5. Max(T) \in T /\ Max(T) >= n
  BY <1>1, <1>2, <1>3 DEF Max
<1>6. Max(T) <= n /\ Max(T) \in Int /\ n \in Int
  BY <1>1, <1>2, <1>3, <1>5
<1>7. Max(T) = n
  BY <1>5, <1>6
<1> QED BY <1>4, <1>7

LEMMA RunExists ==
    ASSUME NEW S, NEW s \in Seq(S), NEW w
    PROVE  /\ RunLength(s, w) \in 0 .. Len(s)
           /\ \A i \in 1 .. RunLength(s, w) : IsWrong(s[i]) = w
           /\ RunLength(s, w) < Len(s) => IsWrong(s[RunLength(s, w) + 1]) # w
<1> DEFINE Ends == {n \in 0 .. Len(s) : n < Len(s) => IsWrong(s[n + 1]) # w}
<1>1. Len(s) \in Ends /\ Ends \subseteq Nat
  OBVIOUS
<1>2. PICK n \in Ends : \A m \in Ends : n <= m
  BY <1>1, LeastNumber
<1>3. ASSUME NEW i \in 1 .. n PROVE IsWrong(s[i]) = w
  <2>1. i - 1 \in 0 .. Len(s) /\ i - 1 < n /\ i - 1 < Len(s) /\ i - 1 + 1 = i
    OBVIOUS
  <2>2. i - 1 \notin Ends
    BY <1>1, <1>2, <2>1
  <2> QED BY <2>1, <2>2
<1>4. RunLength(s, w) = n
  BY <1>2, <1>3, RunIs
<1> QED BY <1>2, <1>3, <1>4

LEMMA FromIs ==
    ASSUME NEW S, NEW s \in Seq(S), NEW i \in 1 .. Len(s) + 1
    PROVE  /\ From(s, i) \in Seq(S) /\ Len(From(s, i)) = Len(s) + 1 - i
           /\ \A k \in 1 .. Len(s) + 1 - i : From(s, i)[k] = s[i + k - 1]
BY DEF From

\* The streak up to a miss is the streak before it and the miss.
LEMMA StreakGrows ==
    ASSUME NEW S, NEW s \in Seq(S), NEW i \in 1 .. Len(s), IsWrong(s[i])
    PROVE  RunLength(From(s, i), TRUE) = RunLength(From(s, i + 1), TRUE) + 1
<1> DEFINE up == From(s, i)
           before == From(s, i + 1)
           n == RunLength(before, TRUE)
           L == Len(s) - i
<1>1. /\ up \in Seq(S) /\ Len(up) = L + 1
      /\ \A k \in 1 .. L + 1 : up[k] = s[i + k - 1]
  BY FromIs
<1>2. /\ before \in Seq(S) /\ Len(before) = L /\ L \in Nat
      /\ \A k \in 1 .. L : before[k] = s[i + 1 + k - 1]
  BY FromIs
<1>3. \A k \in 1 .. L : up[k + 1] = before[k]
  <2>1. \A k \in 1 .. L : k + 1 \in 1 .. L + 1 /\ i + 1 + k - 1 = i + (k + 1) - 1
    OBVIOUS
  <2> HIDE DEF up, before, L
  <2> QED BY <1>1, <1>2, <2>1
<1>4. up[1] = s[i]
  <2>1. 1 \in 1 .. L + 1 /\ i + 1 - 1 = i
    OBVIOUS
  <2> HIDE DEF up, L
  <2> QED BY <1>1, <2>1
<1> HIDE DEF up, before, L
<1>5. /\ n \in 0 .. L
      /\ \A k \in 1 .. n : IsWrong(before[k]) = TRUE
      /\ n < L => IsWrong(before[n + 1]) # TRUE
  BY <1>2, RunExists
<1> HIDE DEF n
<1>6. ASSUME NEW k \in 1 .. n + 1 PROVE IsWrong(up[k]) = TRUE
  <2>1. CASE k = 1
    BY <1>4, <2>1
  <2>2. CASE k # 1
    <3>1. k - 1 \in 1 .. n /\ k - 1 \in 1 .. L /\ k - 1 + 1 = k
      BY <1>2, <1>5, <2>2
    <3> QED BY <1>3, <1>5, <3>1
  <2> QED BY <2>1, <2>2
<1>7. n + 1 < L + 1 => IsWrong(up[n + 2]) # TRUE
  <2>1. SUFFICES ASSUME n + 1 < L + 1 PROVE IsWrong(up[n + 2]) # TRUE
    OBVIOUS
  <2>2. n < L /\ n + 1 \in 1 .. L /\ n + 1 + 1 = n + 2
    BY <1>2, <1>5, <2>1
  <2> QED BY <1>3, <1>5, <2>2
<1>8. n + 1 \in 0 .. L + 1 /\ n + 1 + 1 = n + 2
  BY <1>2, <1>5
<1>9. RunLength(up, TRUE) = n + 1
  BY <1>1, <1>6, <1>7, <1>8, RunIs
<1> QED BY <1>9 DEF up, n, before

\* All but the first of the tail from i is the tail from i + 1.
LEMMA TailOfTail ==
    ASSUME NEW S, NEW s \in Seq(S), NEW i \in 1 .. Len(s)
    PROVE  From(From(s, i), 2) = From(s, i + 1)
<1> DEFINE t == From(s, i)
           L == Len(s) - i
<1>1. /\ i \in 1 .. Len(s) + 1 /\ i + 1 \in 1 .. Len(s) + 1
      /\ Len(s) + 1 - i = L + 1 /\ Len(s) + 1 - (i + 1) = L /\ L \in Nat
      /\ i \in Nat /\ Len(s) \in Nat
  BY LenProperties
<1>2. t \in Seq(S) /\ Len(t) = L + 1 /\ \A k \in 1 .. L + 1 : t[k] = s[i + k - 1]
  <2> HIDE DEF L
  <2> QED BY <1>1, FromIs
<1>3. /\ From(s, i + 1) \in Seq(S) /\ Len(From(s, i + 1)) = L
      /\ \A k \in 1 .. L : From(s, i + 1)[k] = s[i + 1 + k - 1]
  <2> HIDE DEF L
  <2> QED BY <1>1, FromIs
<1> HIDE DEF t, L
<1>4. 2 \in 1 .. Len(t) + 1 /\ Len(t) + 1 - 2 = L
  BY <1>1, <1>2
<1>5. From(t, 2) \in Seq(S) /\ Len(From(t, 2)) = L /\ \A k \in 1 .. L : From(t, 2)[k] = t[2 + k - 1]
  <2>1. /\ From(t, 2) \in Seq(S) /\ Len(From(t, 2)) = Len(t) + 1 - 2
        /\ \A k \in 1 .. Len(t) + 1 - 2 : From(t, 2)[k] = t[2 + k - 1]
    <3>1. t \in Seq(S)
      BY <1>2
    <3>2. 2 \in 1 .. Len(t) + 1
      BY <1>4
    <3> QED BY <3>1, <3>2, FromIs
  <2> QED BY <1>4, <2>1
<1>6. ASSUME NEW k \in 1 .. L PROVE From(t, 2)[k] = From(s, i + 1)[k]
  <2>1. 2 + k - 1 \in 1 .. L + 1 /\ i + (2 + k - 1) - 1 = i + 1 + k - 1
    BY <1>1
  <2> QED BY <1>2, <1>3, <1>5, <2>1
<1>7. From(t, 2) = From(s, i + 1)
  BY <1>3, <1>5, <1>6, SeqEqual
<1> QED BY <1>7 DEF t

-----------------------------------------------------------------------------
(* The cards of a day and the panels of their words *)

\* The first miss of a day.
IsHit(list, day, i) ==
    /\ i \in DOMAIN list
    /\ IsWrong(list[i]) /\ Day(list[i].at) = day
    /\ \A j \in 1 .. i - 1 : ~(IsWrong(list[j]) /\ Day(list[j].at) = day)

LEMMA HitExists ==
    ASSUME NEW S, NEW list \in Seq(S), NEW day,
           \E i \in DOMAIN list : IsWrong(list[i]) /\ Day(list[i].at) = day
    PROVE  \E i : IsHit(list, day, i)
<1> DEFINE T == {i \in DOMAIN list : IsWrong(list[i]) /\ Day(list[i].at) = day}
<1>1. T # {} /\ T \subseteq Nat /\ DOMAIN list = 1 .. Len(list) /\ Len(list) \in Nat
  OBVIOUS
<1>2. PICK i \in T : \A j \in T : i <= j
  BY <1>1, LeastNumber
<1>3. \A j \in 1 .. i - 1 : j \in DOMAIN list /\ j \notin T
  BY <1>1, <1>2
<1> QED BY <1>2, <1>3 DEF IsHit

\* A card and a panel that are made of the same attempts.
MissAgrees(c, panel, day, i) ==
    LET e == panel.attempts[i]
    IN  /\ e.date = c.learnedAt /\ e.result = "wrong"
        /\ \A j \in 1 .. i - 1 : Day(panel.attempts[j].date) = day =>
               panel.attempts[j].result = "correct"
        /\ c.currentWrongStreak = e.before.wrong + 1
        /\ e.before.wrong = 0 => c.previousCorrectStreak = e.before.correct
        /\ i = 1 => c.currentWrongStreak = panel.currentWrongStreak

CardAgrees(c, panel, day) == \E i \in DOMAIN panel.attempts : MissAgrees(c, panel, day, i)

LEMMA OneCardAgrees ==
    ASSUME HistoryInv, NEW type, NEW day,
           \E i \in DOMAIN ByNewest(SeriesOf(type)) :
               IsWrong(ByNewest(SeriesOf(type))[i]) /\ Day(ByNewest(SeriesOf(type))[i].at) = day
    PROVE  CardAgrees(CardOf(type, day), WordHistory(type), day)
<1> DEFINE S == StoredLog(calculator)
           list == ByNewest(SeriesOf(type))
           hit == CHOOSE i \in DOMAIN list :
                      /\ IsWrong(list[i]) /\ Day(list[i].at) = day
                      /\ \A j \in 1 .. i - 1 : ~(IsWrong(list[j]) /\ Day(list[j].at) = day)
           fromHit == From(list, hit)
           c == CardOf(type, day)
           panel == WordHistory(type)
           N == Len(list)
<1>1. list \in Seq(S) /\ N \in Nat /\ DOMAIN list = 1 .. N
  <2>1. SeriesOf(type) \in Seq(S)
    BY AttemptsAre DEF SeriesOf
  <2>2. \A k \in DOMAIN SeriesOf(type) : SeriesOf(type)[k].at \in Nat
    BY <2>1, FieldsOf
  <2>3. list \in Seq(S)
    BY <2>1, <2>2, NewestIs
  <2> QED BY <2>3
<1>2. IsHit(list, day, hit)
  <2>1. \E i : IsHit(list, day, i)
    BY <1>1, HitExists
  <2> QED BY <2>1, Zenon DEF IsHit
<1>3. /\ c.learnedAt = list[hit].at
      /\ c.currentWrongStreak = CurrentWrongStreak(fromHit)
      /\ c.previousCorrectStreak = PreviousCorrectStreak(fromHit)
  BY DEF CardOf
<1>4. /\ DOMAIN panel.attempts = DOMAIN list
      /\ panel.currentWrongStreak = CurrentWrongStreak(list)
      /\ \A i \in DOMAIN list :
             /\ panel.attempts[i].date = list[i].at
             /\ panel.attempts[i].result = IF IsWrong(list[i]) THEN "wrong" ELSE "correct"
             /\ panel.attempts[i].before = StreakBeforeAttempt(list, i)
  BY DEF WordHistory, SeriesOf
<1> HIDE DEF list, hit, c, panel
<1>5. hit \in 1 .. N /\ IsWrong(list[hit]) /\ Day(list[hit].at) = day
      /\ \A j \in 1 .. hit - 1 : ~(IsWrong(list[j]) /\ Day(list[j].at) = day)
  BY <1>1, <1>2 DEF IsHit
<1>6. CurrentWrongStreak(fromHit) = RunLength(From(list, hit + 1), TRUE) + 1
  BY <1>1, <1>5, StreakGrows DEF CurrentWrongStreak
<1>7. /\ StreakBeforeAttempt(list, hit).wrong = RunLength(From(list, hit + 1), TRUE)
      /\ StreakBeforeAttempt(list, hit).correct = RunLength(From(list, hit + 1), FALSE)
  BY DEF StreakBeforeAttempt
<1>8. CurrentWrongStreak(fromHit) = 1 =>
          PreviousCorrectStreak(fromHit) = RunLength(From(list, hit + 1), FALSE)
  <2>1. From(fromHit, 2) = From(list, hit + 1)
    <3>1. hit \in 1 .. Len(list)
      BY <1>1, <1>5
    <3> QED BY <1>1, <3>1, TailOfTail
  <2>2. CurrentWrongStreak(fromHit) = 1 =>
            PreviousCorrectStreak(fromHit) = RunLength(From(fromHit, 2), FALSE)
    <3> HIDE DEF fromHit
    <3> QED BY DEF PreviousCorrectStreak
  <2> QED BY <2>1, <2>2
<1>9. hit = 1 => CurrentWrongStreak(fromHit) = CurrentWrongStreak(list)
  <2>1. From(list, 1) = list
    BY <1>1 DEF From
  <2> QED BY <2>1
<1>10. hit \in DOMAIN panel.attempts
  BY <1>1, <1>4, <1>5
<1>11. \A j \in 1 .. hit - 1 : Day(panel.attempts[j].date) = day => panel.attempts[j].result = "correct"
  <2>1. \A j \in 1 .. hit - 1 : j \in DOMAIN list
    BY <1>1, <1>5
  <2> QED BY <1>4, <1>5, <2>1
<1>12. panel.attempts[hit].date = c.learnedAt /\ panel.attempts[hit].result = "wrong"
       /\ panel.attempts[hit].before = StreakBeforeAttempt(list, hit)
  BY <1>1, <1>3, <1>4, <1>5
<1> HIDE DEF fromHit
<1>13. /\ c.currentWrongStreak = panel.attempts[hit].before.wrong + 1
       /\ panel.attempts[hit].before.wrong = 0 =>
              c.previousCorrectStreak = panel.attempts[hit].before.correct
       /\ hit = 1 => c.currentWrongStreak = panel.currentWrongStreak
  <2>1. /\ panel.attempts[hit].before.wrong = RunLength(From(list, hit + 1), TRUE)
        /\ panel.attempts[hit].before.correct = RunLength(From(list, hit + 1), FALSE)
    BY <1>7, <1>12
  <2>2. c.currentWrongStreak = panel.attempts[hit].before.wrong + 1
    BY <1>3, <1>6, <2>1
  <2>3. panel.attempts[hit].before.wrong = 0 => CurrentWrongStreak(fromHit) = 1
    <3> HIDE DEF list
    <3> QED BY <1>3, <2>2
  <2>4. panel.attempts[hit].before.wrong = 0 =>
            c.previousCorrectStreak = panel.attempts[hit].before.correct
    BY <1>3, <1>8, <2>1, <2>3
  <2>5. hit = 1 => c.currentWrongStreak = panel.currentWrongStreak
    BY <1>3, <1>4, <1>9
  <2> QED BY <2>2, <2>4, <2>5
<1>14. MissAgrees(c, panel, day, hit)
  BY <1>11, <1>12, <1>13, Zenon DEF MissAgrees
<1>15. CardAgrees(c, panel, day)
  BY <1>10, <1>14 DEF CardAgrees
<1> QED BY <1>15 DEF c, panel

LEMMA CardsAgree == ASSUME HistoryInv PROVE CardTellsHistory
<1>1. ASSUME NEW day, NEW card \in DayDetail(day, "").wrongWords
      PROVE  CardAgrees(card, WordHistory(card.quizType), day)
  <2> DEFINE all == ExpressionAttempts("")
  <2>1. PICK j \in DOMAIN all : /\ IsWrong(all[j]) /\ Day(all[j].at) = day
                                /\ card = CardOf(all[j].quizType, day)
    BY <1>1 DEF DayDetail
  <2> DEFINE type == all[j].quizType
  <2>2. card.quizType = type
    BY <2>1 DEF CardOf
  <2>3. \E k \in DOMAIN ByNewest(SeriesOf(type)) : ByNewest(SeriesOf(type))[k] = all[j]
    BY ListedAgain
  <2>4. CardAgrees(CardOf(type, day), WordHistory(type), day)
    <3> HIDE DEF all, type
    <3> QED BY <2>1, <2>3, OneCardAgrees
  <2> QED BY <2>1, <2>2, <2>4
<1>2. \A day \in 0 .. Today : \A c \in DayDetail(day, "").wrongWords :
          CardAgrees(c, WordHistory(c.quizType), day)
  BY <1>1
<1> QED BY <1>2, Zenon DEF CardTellsHistory, CardAgrees, MissAgrees

\* A day's cards and the panels of their words tell of a miss and of the streaks around
\* it alike.
THEOREM CardsTellTheHistory == Spec => []CardTellsHistory
<1>1. HistoryInv => CardTellsHistory
  BY CardsAgree
<1> QED BY <1>1, HistoryInvariant, PTL

-----------------------------------------------------------------------------
(* Counting *)

\* A one-to-one map counts a set by another.
LEMMA SameCount ==
    ASSUME NEW S, NEW T, IsFiniteSet(T), NEW f \in [S -> T],
           \A a, b \in S : f[a] = f[b] => a = b, \A t \in T : \E a \in S : f[a] = t
    PROVE  IsFiniteSet(S) /\ Cardinality(S) = Cardinality(T)
<1>1. f \in Injection(S, T)
  BY DEF Injection, IsInjective
<1>2. f \in Surjection(S, T)
  BY DEF Surjection
<1> QED BY <1>1, <1>2, FS_Injection

\* The places of H at which s has an element of X.
Among(s, H, X) == {i \in H : s[i] \in X}

LEMMA ListingCounts ==
    ASSUME NEW S, NEW s \in Seq(S), NEW H \in SUBSET DOMAIN s, NEW t, Listing(t, s, H), NEW X
    PROVE  /\ IsFiniteSet(Among(t, DOMAIN t, X)) /\ IsFiniteSet(Among(s, H, X))
           /\ Cardinality(Among(t, DOMAIN t, X)) = Cardinality(Among(s, H, X))
           /\ Among(t, DOMAIN t, X) = {} <=> Among(s, H, X) = {}
<1> DEFINE N == Cardinality(H)
           A == Among(t, DOMAIN t, X)
           B == Among(s, H, X)
<1>1. PICK p \in [1 .. N -> H] :
           /\ \A n \in 1 .. N : t[n] = s[p[n]]
           /\ \A i \in H : \E n \in 1 .. N : p[n] = i
           /\ \A m, n \in 1 .. N : p[m] = p[n] => m = n
  BY Zenon DEF Listing
<1>2. DOMAIN t = 1 .. N
  BY DEF Listing
<1> HIDE DEF N
<1>3. IsFiniteSet(B)
  <2>1. IsFiniteSet(DOMAIN s)
    BY DomainIs
  <2>2. B \in SUBSET DOMAIN s
    BY DEF Among
  <2> QED BY <2>1, <2>2, FS_Subset
<1>4. \A n \in A : n \in 1 .. N /\ p[n] \in B
  BY <1>1, <1>2 DEF Among
<1>5. \A i \in B : \E n \in A : p[n] = i
  BY <1>1, <1>2 DEF Among
<1> DEFINE f == [n \in A |-> p[n]]
<1> HIDE DEF A, B
<1>6. f \in [A -> B] /\ \A n \in A : f[n] = p[n]
  BY <1>4
<1> HIDE DEF f
<1>7. \A m, n \in A : f[m] = f[n] => m = n
  BY <1>1, <1>4, <1>6
<1>8. \A i \in B : \E n \in A : f[n] = i
  BY <1>5, <1>6
<1>9. IsFiniteSet(A) /\ Cardinality(A) = Cardinality(B)
  BY <1>3, <1>6, <1>7, <1>8, SameCount
<1>10. A = {} <=> B = {}
  BY <1>4, <1>5
<1> QED BY <1>3, <1>9, <1>10 DEF A, B

LEMMA ListingIs ==
    ASSUME NEW S, NEW s \in Seq(S), NEW H \in SUBSET DOMAIN s, NEW t, Listing(t, s, H)
    PROVE  \A n \in DOMAIN t : \E i \in H : t[n] = s[i]
BY DEF Listing

\* What lists a listing lists the same.
LEMMA ListingThrough ==
    ASSUME NEW S, NEW s \in Seq(S), NEW H \in SUBSET DOMAIN s, NEW t, Listing(t, s, H),
           NEW u, Listing(u, t, DOMAIN t)
    PROVE  Listing(u, s, H)
<1> DEFINE N == Cardinality(H)
<1>1. PICK p \in [1 .. N -> H] :
           /\ \A n \in 1 .. N : t[n] = s[p[n]]
           /\ \A i \in H : \E n \in 1 .. N : p[n] = i
           /\ \A m, n \in 1 .. N : p[m] = p[n] => m = n
  BY Zenon DEF Listing
<1>2. DOMAIN t = 1 .. N /\ Cardinality(DOMAIN t) = N
  <2>1. IsFiniteSet(H)
    BY DomainIs, FS_Subset
  <2>2. N \in Nat
    BY <2>1, FS_CardinalityType
  <2>3. Cardinality(1 .. N) = N
    BY <2>2, FS_Interval
  <2> QED BY <2>3 DEF Listing
<1>3. PICK q \in [1 .. N -> 1 .. N] :
           /\ \A n \in 1 .. N : u[n] = t[q[n]]
           /\ \A i \in 1 .. N : \E n \in 1 .. N : q[n] = i
           /\ \A m, n \in 1 .. N : q[m] = q[n] => m = n
  <2>1. \E q \in [1 .. Cardinality(DOMAIN t) -> DOMAIN t] :
            /\ \A n \in 1 .. Cardinality(DOMAIN t) : u[n] = t[q[n]]
            /\ \A i \in DOMAIN t : \E n \in 1 .. Cardinality(DOMAIN t) : q[n] = i
            /\ \A m, n \in 1 .. Cardinality(DOMAIN t) : q[m] = q[n] => m = n
    BY Zenon DEF Listing
  <2> HIDE DEF N
  <2> QED BY <1>2, <2>1, ZenonT(60)
<1>4. DOMAIN u = 1 .. N
  BY <1>2 DEF Listing
<1> HIDE DEF N
<1> DEFINE r == [n \in 1 .. N |-> p[q[n]]]
<1>5. r \in [1 .. N -> H] /\ \A n \in 1 .. N : q[n] \in 1 .. N /\ r[n] = p[q[n]]
  BY <1>1, <1>3
<1> HIDE DEF r
<1>6. /\ \A n \in 1 .. N : u[n] = s[r[n]]
      /\ \A m, n \in 1 .. N : r[m] = r[n] => m = n
  <2>1. ASSUME NEW n \in 1 .. N PROVE u[n] = s[r[n]]
    <3>1. q[n] \in 1 .. N /\ u[n] = t[q[n]]
      BY <1>3
    <3>2. t[q[n]] = s[p[q[n]]]
      BY <1>1, <3>1
    <3> QED BY <1>5, <3>1, <3>2
  <2>2. ASSUME NEW m \in 1 .. N, NEW n \in 1 .. N, r[m] = r[n] PROVE m = n
    <3>1. q[m] = q[n]
      <4>1. q[m] \in 1 .. N /\ q[n] \in 1 .. N /\ p[q[m]] = p[q[n]]
        BY <1>5, <2>2
      <4> QED BY <1>1, <4>1
    <3> QED BY <1>3, <3>1
  <2> QED BY <2>1, <2>2
<1>7. ASSUME NEW i \in H PROVE \E n \in 1 .. N : r[n] = i
  <2>1. PICK m \in 1 .. N : p[m] = i
    BY <1>1
  <2>2. PICK n \in 1 .. N : q[n] = m
    BY <1>3
  <2> QED BY <1>5, <2>1, <2>2
<1> QED BY <1>4, <1>5, <1>6, <1>7, Zenon DEF Listing, N

\* All of a list, selected, is the list.
LEMMA AllSelected == ASSUME NEW S, NEW s \in Seq(S) PROVE Selected(s, DOMAIN s) = s
<1> DEFINE N == Len(s)
           At(n) == CHOOSE i \in 1 .. N : Cardinality({j \in 1 .. N : j <= i}) = n
<1>1. DOMAIN s = 1 .. N /\ N \in Nat /\ Cardinality(1 .. N) = N
  BY DomainIs
<1> HIDE DEF N
<1>2. ASSUME NEW i \in 1 .. N PROVE Cardinality({j \in 1 .. N : j <= i}) = i
  <2>1. {j \in 1 .. N : j <= i} = 1 .. i
    BY <1>1
  <2>2. Cardinality(1 .. i) = i
    BY <1>1, FS_Interval
  <2> QED BY <2>1, <2>2
<1>3. \A n \in 1 .. N : At(n) = n
  BY <1>2
<1> HIDE DEF At
<1>4. [n \in 1 .. N |-> s[At(n)]] = s
  BY <1>1, <1>3
<1>5. Selected(s, 1 .. N) = Listed([n \in 1 .. N |-> s[At(n)]])
  <2>1. Selected(s, 1 .. N) = Listed([n \in 1 .. Cardinality(1 .. N) |-> s[At(n)]])
    BY DEF Selected, At
  <2> QED BY <1>1, <2>1
<1> QED BY <1>1, <1>4, <1>5, ListedIs

\* The greatest of some numbers.
LEMMA GreatestIs ==
    ASSUME NEW T \in SUBSET Int, NEW b \in Int, \A x \in T : x <= b, T # {}
    PROVE  Max(T) \in T /\ \A x \in T : x <= Max(T)
<1> DEFINE U == {b - x : x \in T}
<1>1. U \subseteq Nat /\ U # {}
  <2>1. \A x \in T : x \in Int /\ b - x \in Nat
    OBVIOUS
  <2> QED BY <2>1
<1>2. PICK n \in U : \A m \in U : n <= m
  BY <1>1, LeastNumber
<1>3. PICK x \in T : n = b - x
  BY <1>2
<1>4. \A y \in T : x >= y
  BY <1>2, <1>3
<1> HIDE DEF U
<1>5. Max(T) \in T /\ \A y \in T : Max(T) >= y
  BY <1>3, <1>4 DEF Max
<1> QED BY <1>5

LEMMA LeastIs ==
    ASSUME NEW T \in SUBSET Nat, T # {}
    PROVE  Min(T) \in T /\ \A x \in T : Min(T) <= x
BY LeastNumber DEF Min

-----------------------------------------------------------------------------
(* The flags of the trends *)

Kinds(quizType) == IF quizType = "" THEN Played ELSE {quizType}
Series(type) == ByOldest(SeriesOf(type))
FlagOf(type, i) ==
    LET list == Series(type)
    IN  [seq |-> i, attempt |-> list[i],
         crossing |-> IsRetained(list[i]) /\ ~(i > 1 /\ IsRetained(list[i - 1])),
         levelUp |-> i > 1 /\ LevelBox(list[i]) > LevelBox(list[i - 1]),
         lapse   |-> i > 1 /\ LevelBox(list[i]) < LevelBox(list[i - 1])]

LEMMA KindsAre ==
    ASSUME HistoryInv, NEW quizType \in Filters
    PROVE  /\ Kinds(quizType) \subseteq Played /\ "" \notin Played
           /\ Played \subseteq {"notebook", "freeform", "reverse"}
<1>1. Played \subseteq {"notebook", "freeform", "reverse"}
  BY QuizTypesAssumption DEF HistoryInv, Played
<1> QED BY <1>1 DEF Kinds, Filters

LEMMA SeriesIs ==
    ASSUME HistoryInv, NEW type
    PROVE  /\ Series(type) \in Seq(StoredLog(calculator))
           /\ Listing(Series(type), AllLogs, Of(type))
           /\ DOMAIN Series(type) = 1 .. Cardinality(Of(type))
<1> DEFINE S == StoredLog(calculator)
           all == ExpressionAttempts(type)
<1>1. AllLogs \in Seq(S) /\ Of(type) \in SUBSET DOMAIN AllLogs
  BY AllLogsAre DEF Of
<1>2. all \in Seq(S) /\ Listing(all, AllLogs, Of(type))
  BY AttemptsAre
<1> HIDE DEF all
<1>3. \A i \in DOMAIN all : all[i].at \in Nat /\ all[i].quality \in Nat
  BY <1>2, FieldsOf
<1>4. ByOldest(all) \in Seq(S) /\ Listing(ByOldest(all), all, DOMAIN all)
  BY <1>2, <1>3, OldestIs
<1>5. Series(type) = ByOldest(all)
  BY DEF Series, SeriesOf, all
<1>6. Listing(Series(type), AllLogs, Of(type))
  BY <1>1, <1>2, <1>4, <1>5, ListingThrough
<1> QED BY <1>4, <1>5, <1>6 DEF Listing

\* Where the attempts of a series stand among all logs.
IsPlaceOf(type, p) ==
    /\ p \in [DOMAIN Series(type) -> Of(type)]
    /\ \A n \in DOMAIN Series(type) : Series(type)[n] = AllLogs[p[n]]
    /\ \A i \in Of(type) : \E n \in DOMAIN Series(type) : p[n] = i
    /\ \A m, n \in DOMAIN Series(type) : p[m] = p[n] => m = n
PlaceOf(type) == CHOOSE p : IsPlaceOf(type, p)

LEMMA PlaceIs == ASSUME HistoryInv, NEW type PROVE IsPlaceOf(type, PlaceOf(type))
<1> DEFINE N == Cardinality(Of(type))
           list == Series(type)
<1>1. Listing(list, AllLogs, Of(type)) /\ DOMAIN list = 1 .. N
  BY SeriesIs
<1>2. \E p \in [1 .. N -> Of(type)] :
           /\ \A n \in 1 .. N : list[n] = AllLogs[p[n]]
           /\ \A i \in Of(type) : \E n \in 1 .. N : p[n] = i
           /\ \A m, n \in 1 .. N : p[m] = p[n] => m = n
  BY <1>1, Zenon DEF Listing
<1>3. \E p : IsPlaceOf(type, p)
  <2>1. PICK p \in [1 .. N -> Of(type)] :
             /\ \A n \in 1 .. N : list[n] = AllLogs[p[n]]
             /\ \A i \in Of(type) : \E n \in 1 .. N : p[n] = i
             /\ \A m, n \in 1 .. N : p[m] = p[n] => m = n
    BY <1>2
  <2> HIDE DEF N
  <2>2. IsPlaceOf(type, p)
    BY <1>1, <2>1 DEF IsPlaceOf
  <2> QED BY <2>2
<1> QED BY <1>3, Zenon DEF PlaceOf

LEMMA SeriesKind ==
    ASSUME HistoryInv, NEW type \in Played, NEW n \in DOMAIN Series(type)
    PROVE  /\ Series(type)[n] \in StoredLog(calculator) /\ Series(type)[n].quizType = type
<1>1. Series(type)[n] \in StoredLog(calculator)
  BY SeriesIs
<1>2. PlaceOf(type)[n] \in Of(type) /\ Series(type)[n] = AllLogs[PlaceOf(type)[n]]
  BY PlaceIs DEF IsPlaceOf
<1>3. type # ""
  BY KindsAre DEF Filters
<1> QED BY <1>1, <1>2, <1>3 DEF Of

LEMMA FlagsAre ==
    ASSUME NEW quizType, NEW f
    PROVE  f \in AllFlags(quizType) <=>
               \E type \in Kinds(quizType) : \E i \in DOMAIN Series(type) : f = FlagOf(type, i)
<1>1. \A type : Flags(type) = {FlagOf(type, i) : i \in DOMAIN Series(type)}
  BY DEF Flags, FlagOf, Series
<1>2. \A type : f \in Flags(type) <=> \E i \in DOMAIN Series(type) : f = FlagOf(type, i)
  BY <1>1
<1>3. f \in AllFlags(quizType) <=> \E type \in Kinds(quizType) : f \in Flags(type)
  BY DEF AllFlags, Kinds
<1> QED BY <1>2, <1>3

LEMMA FlagIs ==
    ASSUME HistoryInv, NEW quizType \in Filters
    PROVE  /\ \A f \in AllFlags(quizType) :
                  /\ f.attempt \in StoredLog(calculator)
                  /\ f.attempt.quizType \in Kinds(quizType)
                  /\ f.seq \in DOMAIN Series(f.attempt.quizType)
                  /\ f = FlagOf(f.attempt.quizType, f.seq)
                  /\ f.attempt = Series(f.attempt.quizType)[f.seq]
           /\ \A type \in Kinds(quizType) : \A i \in DOMAIN Series(type) :
                  /\ FlagOf(type, i) \in AllFlags(quizType)
                  /\ FlagOf(type, i).attempt = Series(type)[i]
                  /\ FlagOf(type, i).seq = i
<1>1. ASSUME NEW type \in Kinds(quizType), NEW i \in DOMAIN Series(type)
      PROVE  /\ FlagOf(type, i) \in AllFlags(quizType)
             /\ FlagOf(type, i).attempt = Series(type)[i] /\ FlagOf(type, i).seq = i
             /\ Series(type)[i].quizType = type /\ Series(type)[i] \in StoredLog(calculator)
  <2>1. type \in Played
    BY KindsAre
  <2>2. FlagOf(type, i) \in AllFlags(quizType)
    BY FlagsAre
  <2>3. FlagOf(type, i).attempt = Series(type)[i] /\ FlagOf(type, i).seq = i
    BY DEF FlagOf
  <2> QED BY <2>1, <2>2, <2>3, SeriesKind
<1>2. ASSUME NEW f \in AllFlags(quizType)
      PROVE  /\ f.attempt \in StoredLog(calculator)
             /\ f.attempt.quizType \in Kinds(quizType)
             /\ f.seq \in DOMAIN Series(f.attempt.quizType)
             /\ f = FlagOf(f.attempt.quizType, f.seq)
             /\ f.attempt = Series(f.attempt.quizType)[f.seq]
  <2>1. PICK type \in Kinds(quizType) : \E i \in DOMAIN Series(type) : f = FlagOf(type, i)
    BY FlagsAre
  <2>2. PICK i \in DOMAIN Series(type) : f = FlagOf(type, i)
    BY <2>1
  <2>3. f.attempt = Series(type)[i] /\ f.seq = i /\ f.attempt.quizType = type
        /\ f.attempt \in StoredLog(calculator)
    BY <1>1, <2>2
  <2> QED BY <2>2, <2>3
<1> QED BY <1>1, <1>2

\* As many flags as logs.
LEMMA FlagsCount ==
    ASSUME HistoryInv, NEW quizType \in Filters, NEW X
    PROVE  /\ IsFiniteSet({f \in AllFlags(quizType) : f.attempt \in X})
           /\ Cardinality({f \in AllFlags(quizType) : f.attempt \in X}) =
                  Cardinality(Among(AllLogs, Of(quizType), X))
<1> DEFINE F == {f \in AllFlags(quizType) : f.attempt \in X}
           H == Among(AllLogs, Of(quizType), X)
           At(f) == PlaceOf(f.attempt.quizType)[f.seq]
           g == [f \in F |-> At(f)]
<1>1. AllLogs \in Seq(StoredLog(calculator)) /\ H \in SUBSET DOMAIN AllLogs
  BY AllLogsAre DEF Of, Among
<1>2. IsFiniteSet(H)
  BY <1>1, DomainIs, FS_Subset
<1>3. ASSUME NEW i \in Of(quizType)
      PROVE  /\ AllLogs[i].quizType \in Kinds(quizType)
             /\ i \in Of(AllLogs[i].quizType)
  <2>1. i \in DOMAIN AllLogs
    BY DEF Of
  <2>3. AllLogs[i] \in StoredLog(calculator)
    BY <1>1, <2>1
  <2>2. AllLogs[i].quizType \in Played
    BY <2>3, FieldsOf
  <2> QED BY <2>1, <2>2 DEF Of, Kinds
<1>4. ASSUME NEW f \in F
      PROVE  /\ At(f) \in H /\ AllLogs[At(f)] = f.attempt
  <2> DEFINE type == f.attempt.quizType
  <2>1. f.attempt \in X /\ type \in Kinds(quizType) /\ f.seq \in DOMAIN Series(type)
        /\ f.attempt = Series(type)[f.seq]
    BY FlagIs
  <2>2. PlaceOf(type)[f.seq] \in Of(type) /\ Series(type)[f.seq] = AllLogs[PlaceOf(type)[f.seq]]
    BY <2>1, PlaceIs DEF IsPlaceOf
  <2>3. At(f) \in Of(type) /\ AllLogs[At(f)] = f.attempt
    BY <2>1, <2>2
  <2> HIDE DEF At, type
  <2>4. At(f) \in Of(quizType)
    BY <2>1, <2>3 DEF Of, Kinds
  <2> QED BY <2>1, <2>3, <2>4 DEF Among
<1>5. ASSUME NEW f \in F, NEW h \in F, At(f) = At(h) PROVE f = h
  <2> DEFINE type == f.attempt.quizType
  <2>1. f.attempt = h.attempt
    BY <1>4, <1>5
  <2>2. /\ f.seq \in DOMAIN Series(type) /\ f = FlagOf(type, f.seq)
        /\ h.seq \in DOMAIN Series(type) /\ h = FlagOf(type, h.seq)
    BY <2>1, FlagIs
  <2>3. PlaceOf(type)[f.seq] = PlaceOf(type)[h.seq]
    BY <1>5, <2>1
  <2>4. f.seq = h.seq
    <3> HIDE DEF type
    <3> QED BY <2>2, <2>3, PlaceIs DEF IsPlaceOf
  <2> QED BY <2>2, <2>4
<1>6. ASSUME NEW i \in H PROVE \E f \in F : At(f) = i
  <2> DEFINE type == AllLogs[i].quizType
  <2>1. i \in Of(quizType) /\ AllLogs[i] \in X
    BY DEF Among
  <2>2. type \in Kinds(quizType) /\ i \in Of(type)
    BY <1>3, <2>1
  <2>3. PICK n \in DOMAIN Series(type) : PlaceOf(type)[n] = i
    BY <2>2, PlaceIs DEF IsPlaceOf
  <2>4. Series(type)[n] = AllLogs[i]
    <3> HIDE DEF type
    <3> QED BY <2>3, PlaceIs DEF IsPlaceOf
  <2>5. FlagOf(type, n) \in AllFlags(quizType) /\ FlagOf(type, n).attempt = AllLogs[i]
        /\ FlagOf(type, n).seq = n
    BY <2>2, <2>3, <2>4, FlagIs
  <2>6. FlagOf(type, n) \in F /\ At(FlagOf(type, n)) = i
    BY <2>1, <2>3, <2>5
  <2> QED BY <2>6
<1> HIDE DEF At, F, H
<1>7. g \in [F -> H] /\ \A f \in F : g[f] = At(f)
  BY <1>4
<1> HIDE DEF g
<1>8. \A f, h \in F : g[f] = g[h] => f = h
  BY <1>5, <1>7
<1>9. \A i \in H : \E f \in F : g[f] = i
  BY <1>6, <1>7
<1>10. IsFiniteSet(F) /\ Cardinality(F) = Cardinality(H)
  BY <1>2, <1>7, <1>8, <1>9, SameCount
<1> QED BY <1>10 DEF F, H

-----------------------------------------------------------------------------
(* The pages of a day *)

LEMMA DayIs ==
    ASSUME NEW a \in Nat, NEW day \in Nat
    PROVE  /\ Day(a) = day <=> a >= day * TicksPerDay /\ a < (day + 1) * TicksPerDay
           /\ Day(a) \in Nat
<1> DEFINE d == TicksPerDay
           p == a \div d
           r == a % d
<1>1. d \in Nat \ {0} /\ p \in Nat /\ r \in 0 .. d - 1 /\ a = d * p + r
  BY TicksAssumption, QuotientIs
<1>2. (day + 1) * d = d * day + d /\ day * d = d * day /\ d * day \in Nat
  BY <1>1
<1>3. ASSUME p = day PROVE a >= day * d /\ a < (day + 1) * d
  BY <1>1, <1>2, <1>3
<1>4. ASSUME a >= day * d, a < (day + 1) * d PROVE p = day
  <2>1. a - d * day \in 0 .. d - 1 /\ a = d * day + (a - d * day)
    BY <1>1, <1>2, <1>4
  <2> HIDE DEF d
  <2> QED BY <1>1, <2>1, QuotientIsUnique
<1>5. Day(a) = p
  BY DEF Day
<1> HIDE DEF d, p
<1> QED BY <1>1, <1>3, <1>4, <1>5 DEF d

LEMMA DaysAscend ==
    ASSUME NEW a \in Nat, NEW b \in Nat, a <= b
    PROVE  Day(a) <= Day(b)
<1> DEFINE d == TicksPerDay
           p == Day(a)
           q == Day(b)
<1>1. d \in Nat \ {0} /\ p \in Nat /\ q \in Nat
  BY TicksAssumption, DayIs
<1>2. a >= p * d /\ b < (q + 1) * d
  BY <1>1, DayIs
<1> HIDE DEF d, p, q
<1>3. ASSUME p >= q + 1 PROVE FALSE
  <2>1. p * d = (q + 1) * d + (p - (q + 1)) * d
    BY <1>1
  <2>2. (p - (q + 1)) * d >= 0 /\ (p - (q + 1)) * d \in Int
    <3>1. p - (q + 1) \in Nat
      BY <1>1, <1>3
    <3> QED BY <1>1, <3>1
  <2>3. (q + 1) * d \in Int
    BY <1>1
  <2>4. p * d >= (q + 1) * d
    BY <2>1, <2>2, <2>3
  <2>5. p * d \in Int
    BY <1>1
  <2> HIDE DEF d
  <2> QED BY <1>2, <2>3, <2>4, <2>5
<1>4. p <= q
  BY <1>1, <1>3
<1> QED BY <1>4 DEF p, q

OfDay(day) == {a \in StoredLog(calculator) : Day(a.at) = day}
Missed == {a \in StoredLog(calculator) : IsWrong(a)}

\* No answer is of a day to come.
LEMMA LogsPast ==
    ASSUME HistoryInv, NEW i \in DOMAIN AllLogs
    PROVE  AllLogs[i].at \in Nat /\ AllLogs[i].at <= clock /\ Day(AllLogs[i].at) \in 0 .. Today
<1>1. learned \in Seq(StoredLog(calculator)) /\ reverse \in Seq(StoredLog(calculator))
      /\ clock \in Nat
  BY DEF HistoryInv, IsHistory
<1>2. \/ \E j \in DOMAIN learned : AllLogs[i] = learned[j]
      \/ \E j \in DOMAIN reverse : AllLogs[i] = reverse[j]
  <2>1. i \in 1 .. Len(learned) + Len(reverse)
    BY <1>1 DEF AllLogs
  <2>2. CASE i <= Len(learned)
    BY <1>1, <2>1, <2>2 DEF AllLogs
  <2>3. CASE i > Len(learned)
    <3>1. AllLogs[i] = reverse[i - Len(learned)] /\ i - Len(learned) \in DOMAIN reverse
      BY <1>1, <2>1, <2>3 DEF AllLogs
    <3> QED BY <3>1
  <2> QED BY <1>1, <2>1, <2>2, <2>3
<1>3. AllLogs[i] \in StoredLog(calculator) /\ AllLogs[i].at < ToSecond(clock)
  BY <1>1, <1>2 DEF HistoryInv, IsHistory
<1>4. AllLogs[i].at \in Nat
  BY <1>3, FieldsOf
<1>5. ToSecond(clock) <= clock /\ ToSecond(clock) \in Nat
  BY <1>1, SecondsStay
<1>6. AllLogs[i].at <= clock
  BY <1>1, <1>3, <1>4, <1>5
<1>7. Day(AllLogs[i].at) <= Day(clock) /\ Day(clock) \in Nat /\ Day(AllLogs[i].at) \in Nat
  BY <1>1, <1>4, <1>6, DaysAscend, DayIs
<1> QED BY <1>4, <1>6, <1>7 DEF Today

LEMMA AttemptsPast ==
    ASSUME HistoryInv, NEW quizType, NEW i \in DOMAIN ExpressionAttempts(quizType)
    PROVE  /\ ExpressionAttempts(quizType)[i] \in StoredLog(calculator)
           /\ ExpressionAttempts(quizType)[i].at \in Nat
           /\ ExpressionAttempts(quizType)[i].at <= clock
           /\ Day(ExpressionAttempts(quizType)[i].at) \in 0 .. Today
<1>1. Listing(ExpressionAttempts(quizType), AllLogs, Of(quizType))
      /\ ExpressionAttempts(quizType) \in Seq(StoredLog(calculator))
  BY AttemptsAre
<1>2. PICK j \in Of(quizType) : ExpressionAttempts(quizType)[i] = AllLogs[j]
  BY <1>1 DEF Listing
<1>3. j \in DOMAIN AllLogs
  BY DEF Of
<1> QED BY <1>1, <1>2, <1>3, LogsPast

\* What a row of the day list says.
LEMMA RollupIs ==
    ASSUME HistoryInv, NEW quizType, NEW day
    PROVE  LET all == ExpressionAttempts(quizType)
               row == Rollup(all, day)
           IN  /\ row.date = day /\ row.total \in Nat
               /\ row.total = Cardinality(Among(AllLogs, Of(quizType), OfDay(day)))
               /\ row.total = 0 <=> day \notin DaysOf(all)
               /\ row.wrong = 0 <=> ~\E i \in DOMAIN all : IsWrong(all[i]) /\ Day(all[i].at) = day
<1> DEFINE S == StoredLog(calculator)
           all == ExpressionAttempts(quizType)
           own == OnDay(all, day)
           row == Rollup(all, day)
           H == Among(all, DOMAIN all, OfDay(day))
<1>1. all \in Seq(S) /\ Listing(all, AllLogs, Of(quizType))
  BY AttemptsAre
<1>2. AllLogs \in Seq(S) /\ Of(quizType) \in SUBSET DOMAIN AllLogs
  BY AllLogsAre DEF Of
<1>3. \A i \in DOMAIN all : all[i] \in S
  BY <1>1
<1> HIDE DEF all
<1>4. H = {i \in DOMAIN all : Day(all[i].at) = day} /\ H \in SUBSET DOMAIN all
  BY <1>3 DEF Among, OfDay
<1>5. own = Selected(all, H)
  BY <1>4 DEF OnDay
<1> HIDE DEF H, own
<1>6. own \in Seq(S) /\ Len(own) = Cardinality(H) /\ Listing(own, all, H)
  BY <1>1, <1>4, <1>5, SelectedIs
<1>7. IsFiniteSet(H) /\ Cardinality(H) = Cardinality(Among(AllLogs, Of(quizType), OfDay(day)))
  BY <1>1, <1>2, ListingCounts DEF H
<1>8. row.date = day /\ row.total = Len(own)
      /\ row.wrong = Cardinality({k \in DOMAIN own : IsWrong(own[k])})
  BY DEF Rollup, own
<1> HIDE DEF row
<1>9. row.total \in Nat /\ (row.total = 0 <=> H = {})
  BY <1>6, <1>7, <1>8, FS_CardinalityType, FS_EmptySet
<1>10. H = {} <=> day \notin DaysOf(all)
  BY <1>4 DEF DaysOf
<1>11. row.wrong = 0 <=> ~\E i \in DOMAIN all : IsWrong(all[i]) /\ Day(all[i].at) = day
  <2>1. {k \in DOMAIN own : IsWrong(own[k])} = Among(own, DOMAIN own, Missed)
    BY <1>6 DEF Among, Missed
  <2>2. /\ IsFiniteSet(Among(own, DOMAIN own, Missed))
        /\ Among(own, DOMAIN own, Missed) = {} <=> Among(all, H, Missed) = {}
    BY <1>1, <1>4, <1>6, ListingCounts
  <2>3. row.wrong = 0 <=> Among(own, DOMAIN own, Missed) = {}
    BY <1>8, <2>1, <2>2, FS_EmptySet
  <2>4. Among(all, H, Missed) = {} <=>
            ~\E i \in DOMAIN all : IsWrong(all[i]) /\ Day(all[i].at) = day
    BY <1>3, <1>4 DEF Among, Missed
  <2> QED BY <2>2, <2>3, <2>4
<1> QED BY <1>7, <1>6, <1>8, <1>9, <1>10, <1>11 DEF row, all

LEMMA RowsAre ==
    ASSUME HistoryInv, NEW quizType
    PROVE  LET all == ExpressionAttempts(quizType)
           IN  DailySummaries(0, quizType) = {Rollup(all, day) : day \in DaysOf(all)}
<1> DEFINE all == ExpressionAttempts(quizType)
           cutoff == clock - 0 * TicksPerDay
           kept == Selected(all, {i \in DOMAIN all : 0 = 0 \/ all[i].at >= cutoff})
<1>1. all \in Seq(StoredLog(calculator))
  BY AttemptsAre
<1>2. DailySummaries(0, quizType) = {Rollup(kept, day) : day \in DaysOf(kept)}
  BY DEF DailySummaries
<1> HIDE DEF all
<1>3. {i \in DOMAIN all : 0 = 0 \/ all[i].at >= cutoff} = DOMAIN all
  OBVIOUS
<1>4. kept = all
  BY <1>1, <1>3, AllSelected
<1> HIDE DEF kept
<1> QED BY <1>2, <1>4 DEF all

\* Previous and next walk the days.
LEMMA NeighboursAre ==
    ASSUME HistoryInv, NEW quizType, NEW day \in Nat, NEW d \in DaysOf(ExpressionAttempts(quizType))
    PROVE  LET near == AdjacentDates(DaysOf(ExpressionAttempts(quizType)), day)
           IN  /\ d < day => d <= near.previous
               /\ d > day => d >= near.next /\ near.next > day
<1> DEFINE days == DaysOf(ExpressionAttempts(quizType))
           before == {NoDay} \cup {x \in days : x < day}
           later == {x \in days : x > day}
           near == AdjacentDates(days, day)
<1>1. days \subseteq Nat
  <2>1. ASSUME NEW i \in DOMAIN ExpressionAttempts(quizType)
        PROVE  Day(ExpressionAttempts(quizType)[i].at) \in Nat
    BY AttemptsPast
  <2> QED BY <2>1 DEF DaysOf
<1> HIDE DEF days
<1>2. before \in SUBSET Int /\ (\A x \in before : x <= day) /\ before # {}
  <2>1. NoDay \in Int /\ NoDay <= day /\ NoDay \in before
    BY DEF NoDay
  <2>2. ASSUME NEW x \in before PROVE x \in Int /\ x <= day
    <3>1. x = NoDay \/ (x \in days /\ x < day)
      OBVIOUS
    <3> HIDE DEF before
    <3> QED BY <1>1, <2>1, <3>1
  <2> HIDE DEF before
  <2> QED BY <2>1, <2>2
<1>3. near.previous = Max(before) /\ (later # {} => near.next = Min(later))
  BY DEF AdjacentDates
<1>4. d < day => d <= near.previous
  <2>1. \A x \in before : x <= Max(before)
    <3>1. day \in Int
      OBVIOUS
    <3> HIDE DEF before
    <3> QED BY <1>2, <3>1, GreatestIs
  <2>2. d < day => d \in before
    BY DEF days
  <2> HIDE DEF before, near
  <2> QED BY <1>3, <2>1, <2>2
<1>5. d > day => d >= near.next /\ near.next > day
  <2>1. d > day => d \in later
    BY DEF days
  <2>2. later \in SUBSET Nat /\ \A x \in later : x > day
    BY <1>1
  <2> HIDE DEF later, near
  <2>3. later # {} => Min(later) \in later /\ \A x \in later : Min(later) <= x
    BY <2>2, LeastIs
  <2>4. ASSUME d > day PROVE d >= near.next /\ near.next > day
    <3>1. d \in later /\ near.next = Min(later)
      BY <1>3, <2>1, <2>4
    <3>2. Min(later) \in later /\ Min(later) <= d
      BY <2>3, <3>1
    <3> QED BY <2>2, <3>1, <3>2
  <2> QED BY <2>4
<1> QED BY <1>4, <1>5 DEF near, days

LEMMA TrendsOfDayAre ==
    ASSUME HistoryInv, NEW quizType \in Filters, NEW day \in Nat
    PROVE  LET trends == TrendsOfDay(quizType, day)
           IN  /\ trends.summary.attempts = Cardinality(Among(AllLogs, Of(quizType), OfDay(day)))
               /\ DOMAIN trends.buckets \subseteq {day}
<1> DEFINE trends == TrendsOfDay(quizType, day)
           flags == {f \in AllFlags(quizType) : InRange(f, day, day)}
<1>1. ASSUME NEW f \in AllFlags(quizType)
      PROVE  /\ f.attempt \in StoredLog(calculator)
             /\ InRange(f, day, day) <=> Day(f.attempt.at) = day
  <2>1. f.attempt \in StoredLog(calculator)
    BY FlagIs
  <2>2. f.attempt.at \in Nat
    BY <2>1, FieldsOf
  <2>3. InRange(f, day, day) <=>
            f.attempt.at >= day * TicksPerDay /\ f.attempt.at < (day + 1) * TicksPerDay
    BY DEF InRange, EndExclusive
  <2> QED BY <2>1, <2>2, <2>3, DayIs
<1>2. flags = {f \in AllFlags(quizType) : f.attempt \in OfDay(day)}
  BY <1>1 DEF OfDay
<1>3. trends.summary.attempts = Cardinality(flags)
      /\ DOMAIN trends.buckets = {Day(f.attempt.at) : f \in flags}
  BY DEF TrendsOfDay, ComputeTrends, Aggregate
<1>4. \A f \in flags : Day(f.attempt.at) = day
  BY <1>1
<1> HIDE DEF flags, trends
<1>5. Cardinality(flags) = Cardinality(Among(AllLogs, Of(quizType), OfDay(day)))
  BY <1>2, FlagsCount
<1>6. DOMAIN trends.buckets \subseteq {day}
  BY <1>3, <1>4
<1> QED BY <1>3, <1>5, <1>6 DEF trends

LEMMA EveryDayAgrees ==
    ASSUME HistoryInv, NEW quizType \in Filters, NEW day \in Nat
    PROVE  DayAgrees(quizType, day)
<1> DEFINE all == ExpressionAttempts(quizType)
           rows == DailySummaries(0, quizType)
           detail == DayDetail(day, quizType)
           trends == TrendsOfDay(quizType, day)
           row == Rollup(all, day)
           missed == {all[i].quizType : i \in {j \in DOMAIN all : IsWrong(all[j]) /\ Day(all[j].at) = day}}
<1>1. rows = {Rollup(all, d) : d \in DaysOf(all)}
  BY RowsAre
<1>2. /\ row.date = day /\ row.total \in Nat
      /\ row.total = Cardinality(Among(AllLogs, Of(quizType), OfDay(day)))
      /\ row.total = 0 <=> day \notin DaysOf(all)
      /\ row.wrong = 0 <=> ~\E i \in DOMAIN all : IsWrong(all[i]) /\ Day(all[i].at) = day
  BY RollupIs
<1>3. /\ detail.summary = row
      /\ detail.wrongWords = {CardOf(type, day) : type \in missed}
      /\ detail.adjacent = AdjacentDates(DaysOf(all), day)
  BY DEF DayDetail
<1>4. /\ trends.summary.attempts = Cardinality(Among(AllLogs, Of(quizType), OfDay(day)))
      /\ DOMAIN trends.buckets \subseteq {day}
  BY TrendsOfDayAre
<1>5. \A d \in DaysOf(all) : Rollup(all, d).date = d
  BY DEF Rollup
<1>6. ASSUME NEW d \in DaysOf(all)
      PROVE  /\ d < day => d <= detail.adjacent.previous
             /\ d > day => d >= detail.adjacent.next /\ detail.adjacent.next > day
  <2> DEFINE near == AdjacentDates(DaysOf(all), day)
  <2>1. (d < day => d <= near.previous) /\ (d > day => d >= near.next /\ near.next > day)
    BY NeighboursAre
  <2>2. detail.adjacent = near
    BY <1>3
  <2> HIDE DEF near, detail
  <2> QED BY <2>1, <2>2
<1>7. detail.wrongWords = {} <=> ~\E i \in DOMAIN all : IsWrong(all[i]) /\ Day(all[i].at) = day
  <2>1. missed = {} <=> ~\E i \in DOMAIN all : IsWrong(all[i]) /\ Day(all[i].at) = day
    <3> HIDE DEF all
    <3> QED OBVIOUS
  <2> HIDE DEF missed, detail, all
  <2>2. detail.wrongWords = {} <=> missed = {}
    BY <1>3
  <2> QED BY <2>1, <2>2
<1> HIDE DEF all, rows, detail, trends, row, missed
<1>8. /\ detail.summary.total > 0 => detail.summary \in rows
      /\ detail.summary.total = 0 => \A r \in rows : r.date # day
  <2>1. detail.summary.total > 0 => day \in DaysOf(all)
    BY <1>2, <1>3
  <2>2. day \in DaysOf(all) => row \in rows
    BY <1>1 DEF row
  <2>3. ASSUME detail.summary.total = 0, NEW r \in rows PROVE r.date # day
    <3>1. PICK d \in DaysOf(all) : r = Rollup(all, d)
      BY <1>1
    <3> QED BY <1>2, <1>3, <1>5, <2>3, <3>1
  <2> QED BY <1>3, <2>1, <2>2, <2>3
<1>9. ASSUME NEW r \in rows
      PROVE  /\ r.date < day => r.date <= detail.adjacent.previous
             /\ r.date > day => r.date >= detail.adjacent.next /\ detail.adjacent.next > day
  <2>1. PICK d \in DaysOf(all) : r = Rollup(all, d)
    BY <1>1
  <2>2. r.date = d
    BY <1>5, <2>1
  <2> QED BY <1>6, <2>2
<1>10. (detail.summary.wrong = 0) = (detail.wrongWords = {})
  BY <1>2, <1>3, <1>7
<1>11. trends.summary.attempts = detail.summary.total /\ DOMAIN trends.buckets \subseteq {day}
  BY <1>2, <1>3, <1>4
<1> QED BY <1>8, <1>9, <1>10, <1>11 DEF DayAgrees, rows, detail, trends

-----------------------------------------------------------------------------
(* The words learned *)

LEMMA FlagsPast ==
    ASSUME HistoryInv, NEW quizType \in Filters, NEW f \in AllFlags(quizType)
    PROVE  InRange(f, 0, Today) /\ f.attempt.at < EndExclusive(Today)
<1> DEFINE type == f.attempt.quizType
           a == f.attempt.at
<1>1. f.seq \in DOMAIN Series(type) /\ f.attempt = Series(type)[f.seq]
  BY FlagIs
<1>2. PlaceOf(type)[f.seq] \in Of(type) /\ f.attempt = AllLogs[PlaceOf(type)[f.seq]]
  <2> HIDE DEF type
  <2> QED BY <1>1, PlaceIs DEF IsPlaceOf
<1>3. PlaceOf(type)[f.seq] \in DOMAIN AllLogs
  BY <1>2 DEF Of
<1>4. a \in Nat /\ a <= clock
  BY <1>2, <1>3, LogsPast
<1>5. clock \in Nat
  BY DEF HistoryInv
<1>6. Today \in Nat /\ clock < (Today + 1) * TicksPerDay
  BY <1>5, DayIs DEF Today
<1>7. (Today + 1) * TicksPerDay \in Nat /\ 0 * TicksPerDay = 0
  BY <1>6, TicksAssumption
<1>8. a < EndExclusive(Today) /\ a >= 0 * TicksPerDay
  <2> HIDE DEF a
  <2> QED BY <1>4, <1>5, <1>6, <1>7 DEF EndExclusive
<1> QED BY <1>8 DEF InRange

\* Some attempt of a filter was right.
EverRight(quizType) == \E f \in AllFlags(quizType) : ~IsWrong(f.attempt)

LEMMA RetainedIs ==
    ASSUME NEW a, a.status \in Statuses
    PROVE  /\ IsRetained(a) <=> ~IsWrong(a)
           /\ IsMastered(a) => ~IsWrong(a)
BY DEF IsRetained, IsWrong, IsMastered, Statuses

LEMMA CrossingIs ==
    ASSUME HistoryInv, NEW quizType \in Filters
    PROVE  (\E f \in AllFlags(quizType) : f.crossing) <=> EverRight(quizType)
<1>1. ASSUME NEW f \in AllFlags(quizType), f.crossing PROVE ~IsWrong(f.attempt)
  <2>1. f.attempt \in StoredLog(calculator) /\ f = FlagOf(f.attempt.quizType, f.seq)
        /\ f.attempt = Series(f.attempt.quizType)[f.seq]
    BY FlagIs
  <2>2. IsRetained(f.attempt)
    <3>1. \A type, i : FlagOf(type, i).crossing => IsRetained(Series(type)[i])
      BY DEF FlagOf
    <3>2. IsRetained(Series(f.attempt.quizType)[f.seq])
      BY <1>1, <2>1, <3>1
    <3> QED BY <2>1, <3>2
  <2>3. f.attempt.status \in Statuses
    BY <2>1, FieldsOf
  <2> QED BY <2>2, <2>3, RetainedIs
<1>2. ASSUME NEW f \in AllFlags(quizType), ~IsWrong(f.attempt)
      PROVE  \E g \in AllFlags(quizType) : g.crossing
  <2> DEFINE type == f.attempt.quizType
             list == Series(type)
             Right == {i \in DOMAIN list : IsRetained(list[i])}
  <2>1. /\ f.attempt \in StoredLog(calculator) /\ type \in Kinds(quizType)
        /\ f.seq \in DOMAIN list /\ f.attempt = list[f.seq]
    BY FlagIs
  <2>2. f.seq \in Right
    BY <1>2, <2>1, FieldsOf, RetainedIs
  <2>3. list \in Seq(StoredLog(calculator)) /\ DOMAIN list = 1 .. Len(list) /\ Len(list) \in Nat
    BY SeriesIs, DomainIs
  <2>4. Right \subseteq Nat /\ Right # {}
    BY <2>2, <2>3
  <2>5. PICK k \in Right : \A m \in Right : k <= m
    BY <2>4, LeastNumber
  <2>6. k \in DOMAIN list /\ IsRetained(list[k])
    BY <2>5
  <2>7. ~(k > 1 /\ IsRetained(list[k - 1]))
    <3>1. ASSUME k > 1, IsRetained(list[k - 1]) PROVE FALSE
      <4>1. k - 1 \in DOMAIN list
        BY <2>3, <2>6, <3>1
      <4>2. k - 1 \in Right
        BY <3>1, <4>1
      <4>3. k \in Nat
        BY <2>3, <2>6
      <4> HIDE DEF Right
      <4> QED BY <2>5, <4>2, <4>3
    <3> QED BY <3>1
  <2>8. FlagOf(type, k).crossing = (IsRetained(list[k]) /\ ~(k > 1 /\ IsRetained(list[k - 1])))
    BY DEF FlagOf
  <2>9. FlagOf(type, k).crossing
    BY <2>6, <2>7, <2>8
  <2>10. FlagOf(type, k) \in AllFlags(quizType)
    BY <2>1, <2>6, FlagIs
  <2> QED BY <2>9, <2>10
<1> QED BY <1>1, <1>2 DEF EverRight

\* The trends of a whole history count the word as learned if an answer was right.
LEMMA WordsLearnedIs ==
    ASSUME HistoryInv, NEW quizType \in Filters
    PROVE  ComputeTrends(quizType, 0, Today).summary.wordsLearned = 1 <=> EverRight(quizType)
<1> DEFINE flags == {f \in AllFlags(quizType) : InRange(f, 0, Today)}
<1>1. flags = AllFlags(quizType)
  BY FlagsPast
<1>2. ComputeTrends(quizType, 0, Today).summary = Aggregate(flags)
  BY DEF ComputeTrends
<1> HIDE DEF flags
<1>3. Aggregate(flags).wordsLearned = IF \E f \in flags : f.crossing THEN 1 ELSE 0
  BY DEF Aggregate
<1> QED BY <1>1, <1>2, <1>3, CrossingIs

LEMMA BacklogIs ==
    ASSUME HistoryInv, NEW quizType \in Filters
    PROVE  ComputeBacklog(quizType, Today) \in {"in_progress", "mastered"} <=> EverRight(quizType)
<1> DEFINE before == {f \in AllFlags(quizType) : f.attempt.at < EndExclusive(Today)}
           Final(f) == \A g \in before : g.attempt.quizType = f.attempt.quizType => g.seq <= f.seq
           Mastered == \E f \in before : Final(f) /\ IsMastered(f.attempt)
           Never == \A f \in before : IsWrong(f.attempt)
           backlog == ComputeBacklog(quizType, Today)
<1>1. before = AllFlags(quizType)
  BY FlagsPast
<1>2. backlog = CASE before = {} -> "none"
                  [] Mastered -> "mastered"
                  [] before # {} /\ Never -> "never_correct"
                  [] OTHER -> "in_progress"
  BY DEF ComputeBacklog
<1>3. Mastered => ~Never
  <2>1. ASSUME NEW f \in before, IsMastered(f.attempt) PROVE ~IsWrong(f.attempt)
    BY <1>1, <2>1, FlagIs, FieldsOf, RetainedIs
  <2> QED BY <2>1
<1>4. Mastered => before # {}
  OBVIOUS
<1>5. Never <=> ~EverRight(quizType)
  BY <1>1 DEF EverRight
<1>6. before = {} => Never
  OBVIOUS
<1> HIDE DEF Mastered, Never, backlog, before
<1>7. CASE before = {}
  <2>1. backlog = "none"
    BY <1>2, <1>4, <1>7
  <2> QED BY <1>5, <1>6, <1>7, <2>1 DEF backlog
<1>8. CASE before # {} /\ Mastered
  <2>1. backlog = "mastered"
    BY <1>2, <1>3, <1>8
  <2> QED BY <1>3, <1>5, <1>8, <2>1 DEF backlog
<1>9. CASE before # {} /\ ~Mastered /\ Never
  <2>1. backlog = "never_correct"
    BY <1>2, <1>9
  <2> QED BY <1>5, <1>9, <2>1 DEF backlog
<1>10. CASE before # {} /\ ~Mastered /\ ~Never
  <2>1. backlog = "in_progress"
    BY <1>2, <1>10
  <2> QED BY <1>5, <1>10, <2>1 DEF backlog
<1> QED BY <1>7, <1>8, <1>9, <1>10

LEMMA WhoLearnedAgrees ==
    ASSUME HistoryInv, NEW quizType \in Filters
    PROVE  LearnedAgrees(quizType)
<1>1. ComputeTrends(quizType, 0, Today).backlog = ComputeBacklog(quizType, Today)
  BY DEF ComputeTrends
<1> QED BY <1>1, WordsLearnedIs, BacklogIs DEF LearnedAgrees

-----------------------------------------------------------------------------
(* Which list has which answers *)

\* A log of reverse_logs is a recall answer's, or half of a free-form answer's whose
\* other half is in learned_logs.
HasHalf(logs, at) == \E i \in DOMAIN logs : logs[i].at = at /\ logs[i].quizType = "freeform"
Parted(left, right) ==
    /\ \A i \in DOMAIN left : left[i].quizType # "reverse"
    /\ \A j \in DOMAIN right :
           \/ right[j].quizType = "reverse"
           \/ right[j].quizType = "freeform" /\ HasHalf(left, right[j].at)
KindsInv == Parted(learned, reverse)

\* new is logs behind one more answer.
OneMore(new, logs, at, quizType) ==
    /\ 1 \in DOMAIN new /\ new[1].at = at /\ new[1].quizType = quizType
    /\ \A i \in DOMAIN logs : \E n \in DOMAIN new : new[n] = logs[i]
    /\ \A n \in DOMAIN new : n = 1 \/ \E i \in DOMAIN logs : new[n] = logs[i]

LEMMA PrependedIs ==
    ASSUME NEW S, NEW logs \in Seq(S), NEW at, NEW rt, NEW o, NEW status, NEW quizType
    PROVE  OneMore(Prepend(logs, LogOf(at, rt, o, status, quizType)), logs, ToSecond(at), quizType)
<1> DEFINE draft == LogOf(at, rt, o, status, quizType)
           log == [draft EXCEPT !.at = ToSecond(@),
                                !.interval = NextIntervalForWrite(calculator, logs, draft)]
           new == Prepend(logs, draft)
<1>1. new = <<log>> \o logs
  BY DEF Prepend
<1>2. log.at = ToSecond(at) /\ log.quizType = quizType
  BY DEF LogOf
<1> HIDE DEF log, new
<1>3. Len(logs) \in Nat /\ DOMAIN logs = 1 .. Len(logs)
  OBVIOUS
<1>4. DOMAIN new = 1 .. Len(logs) + 1
      /\ \A n \in 1 .. Len(logs) + 1 : new[n] = IF n = 1 THEN log ELSE logs[n - 1]
  BY <1>1, <1>3
<1>5. 1 \in DOMAIN new /\ new[1] = log
  BY <1>3, <1>4
<1>6. ASSUME NEW i \in DOMAIN logs PROVE \E n \in DOMAIN new : new[n] = logs[i]
  <2>1. i + 1 \in DOMAIN new /\ new[i + 1] = logs[i]
    BY <1>3, <1>4
  <2> QED BY <2>1
<1>7. ASSUME NEW n \in DOMAIN new, n # 1 PROVE \E i \in DOMAIN logs : new[n] = logs[i]
  <2>1. n - 1 \in DOMAIN logs /\ new[n] = logs[n - 1]
    BY <1>3, <1>4, <1>7
  <2> QED BY <2>1
<1>8. OneMore(new, logs, ToSecond(at), quizType)
  BY <1>2, <1>5, <1>6, <1>7 DEF OneMore
<1> QED BY <1>8 DEF new

LEMMA HalvesStay ==
    ASSUME NEW old, NEW new, NEW at, NEW t, NEW quizType, OneMore(new, old, t, quizType), HasHalf(old, at)
    PROVE  HasHalf(new, at)
<1>1. PICK i \in DOMAIN old : old[i].at = at /\ old[i].quizType = "freeform"
  BY DEF HasHalf
<1>2. PICK n \in DOMAIN new : new[n] = old[i]
  BY DEF OneMore
<1> QED BY <1>1, <1>2 DEF HasHalf

LEMMA PartedGrows ==
    ASSUME NEW left, NEW right, Parted(left, right), NEW at
    PROVE  /\ \A new : OneMore(new, right, at, "reverse") => Parted(left, new)
           /\ \A new, quizType : OneMore(new, left, at, quizType) /\ quizType # "reverse"
                                     => Parted(new, right)
           /\ \A newLeft, newRight : OneMore(newLeft, left, at, "freeform")
                                     /\ OneMore(newRight, right, at, "freeform")
                                         => Parted(newLeft, newRight)
<1>1. ASSUME NEW new, OneMore(new, right, at, "reverse") PROVE Parted(left, new)
  <2>1. ASSUME NEW n \in DOMAIN new
        PROVE  \/ new[n].quizType = "reverse"
               \/ new[n].quizType = "freeform" /\ HasHalf(left, new[n].at)
    <3>1. CASE n = 1
      BY <1>1, <3>1 DEF OneMore
    <3>2. CASE n # 1
      <4>1. PICK i \in DOMAIN right : new[n] = right[i]
        BY <1>1, <3>2 DEF OneMore
      <4> QED BY <4>1 DEF Parted
    <3> QED BY <3>1, <3>2
  <2> QED BY <2>1 DEF Parted
<1>2. ASSUME NEW new, NEW quizType, OneMore(new, left, at, quizType), quizType # "reverse"
      PROVE  /\ \A n \in DOMAIN new : new[n].quizType # "reverse"
             /\ \A j \in DOMAIN right : \/ right[j].quizType = "reverse"
                                        \/ right[j].quizType = "freeform" /\ HasHalf(new, right[j].at)
  <2>1. ASSUME NEW n \in DOMAIN new PROVE new[n].quizType # "reverse"
    <3>1. CASE n = 1
      BY <1>2, <3>1 DEF OneMore
    <3>2. CASE n # 1
      <4>1. PICK i \in DOMAIN left : new[n] = left[i]
        BY <1>2, <3>2 DEF OneMore
      <4> QED BY <4>1 DEF Parted
    <3> QED BY <3>1, <3>2
  <2>2. ASSUME NEW j \in DOMAIN right, right[j].quizType # "reverse"
        PROVE  right[j].quizType = "freeform" /\ HasHalf(new, right[j].at)
    <3>1. right[j].quizType = "freeform" /\ HasHalf(left, right[j].at)
      BY <2>2 DEF Parted
    <3> QED BY <1>2, <3>1, HalvesStay
  <2> QED BY <2>1, <2>2
<1>3. ASSUME NEW newLeft, NEW newRight, OneMore(newLeft, left, at, "freeform"),
             OneMore(newRight, right, at, "freeform")
      PROVE  Parted(newLeft, newRight)
  <2>1. /\ \A n \in DOMAIN newLeft : newLeft[n].quizType # "reverse"
        /\ \A j \in DOMAIN right : \/ right[j].quizType = "reverse"
                                   \/ right[j].quizType = "freeform" /\ HasHalf(newLeft, right[j].at)
    BY <1>2, <1>3
  <2>2. ASSUME NEW n \in DOMAIN newRight
        PROVE  \/ newRight[n].quizType = "reverse"
               \/ newRight[n].quizType = "freeform" /\ HasHalf(newLeft, newRight[n].at)
    <3>1. CASE n = 1
      <4>1. newRight[n].quizType = "freeform" /\ newRight[n].at = at
        BY <1>3, <3>1 DEF OneMore
      <4>2. HasHalf(newLeft, at)
        BY <1>3 DEF OneMore, HasHalf
      <4> QED BY <4>1, <4>2
    <3>2. CASE n # 1
      <4>1. PICK i \in DOMAIN right : newRight[n] = right[i]
        BY <1>3, <3>2 DEF OneMore
      <4> QED BY <2>1, <4>1
    <3> QED BY <3>1, <3>2
  <2> QED BY <2>1, <2>2 DEF Parted
<1> QED
  <2>1. \A new, quizType : OneMore(new, left, at, quizType) /\ quizType # "reverse"
                               => Parted(new, right)
    BY <1>2 DEF Parted
  <2> QED BY <1>1, <1>3, <2>1

LEMMA AnswerKinds == ASSUME HistoryInv, KindsInv, Answer PROVE KindsInv'
<1> DEFINE S == StoredLog(calculator)
<1>1. learned \in Seq(S) /\ reverse \in Seq(S) /\ Parted(learned, reverse)
  BY DEF HistoryInv, IsHistory, KindsInv
<1>2. PICK o \in Outcomes[calculator], rt \in ResponseTimes :
          \/ \E quizType \in Played \ {"freeform"} : Record(quizType, o, rt)
          \/ "freeform" \in Played /\ RecordFreeform(o, rt)
  BY DEF Answer
<1>3. SUFFICES Parted(learned', reverse')
  BY DEF KindsInv
<1>4. ASSUME NEW quizType \in Played \ {"freeform"}, Record(quizType, o, rt)
      PROVE  Parted(learned', reverse')
  <2> DEFINE log == LogOf(clock, rt, o, StatusOf(o.correct, TRUE), quizType)
  <2>1. CASE quizType = "reverse"
    <3>1. learned' = learned /\ reverse' = Prepend(reverse, log)
      BY <1>4, <2>1 DEF Record, PrimaryLogList, SetLogs, LogsOf
    <3>2. OneMore(reverse', reverse, ToSecond(clock), "reverse")
      BY <1>1, <2>1, <3>1, PrependedIs
    <3> QED BY <1>1, <3>1, <3>2, PartedGrows
  <2>2. CASE quizType # "reverse"
    <3>1. reverse' = reverse /\ learned' = Prepend(learned, log)
      BY <1>4, <2>2 DEF Record, PrimaryLogList, SetLogs, LogsOf
    <3>2. OneMore(learned', learned, ToSecond(clock), quizType)
      BY <1>1, <3>1, PrependedIs
    <3> QED BY <1>1, <2>2, <3>1, <3>2, PartedGrows
  <2> QED BY <2>1, <2>2
<1>5. ASSUME RecordFreeform(o, rt) PROVE Parted(learned', reverse')
  <2> DEFINE log == LogOf(clock, rt, o, StatusOf(o.correct, FALSE), "freeform")
  <2>1. learned' = Prepend(learned, log) /\ reverse' = Prepend(reverse, log)
    BY <1>5 DEF RecordFreeform
  <2>2. OneMore(learned', learned, ToSecond(clock), "freeform")
        /\ OneMore(reverse', reverse, ToSecond(clock), "freeform")
    BY <1>1, <2>1, PrependedIs
  <2> QED BY <1>1, <2>2, PartedGrows
<1> QED BY <1>2, <1>4, <1>5

LEMMA PartedStays ==
    ASSUME NEW left, NEW right, Parted(left, right), NEW newLeft, NEW newRight,
           OneForOne(left, newLeft), OneForOne(right, newRight)
    PROVE  Parted(newLeft, newRight)
<1>1. DOMAIN newLeft = DOMAIN left /\ DOMAIN newRight = DOMAIN right
  BY DEF OneForOne
<1>2. \A i \in DOMAIN left : newLeft[i].at = left[i].at /\ newLeft[i].quizType = left[i].quizType
  BY DEF OneForOne, SameAnswer
<1>3. \A i \in DOMAIN right : newRight[i].at = right[i].at /\ newRight[i].quizType = right[i].quizType
  BY DEF OneForOne, SameAnswer
<1>4. \A at : HasHalf(left, at) => HasHalf(newLeft, at)
  BY <1>1, <1>2 DEF HasHalf
<1> QED BY <1>1, <1>2, <1>3, <1>4 DEF Parted

LEMMA KindsInvariant == Spec => []KindsInv
<1>1. Init => KindsInv
  BY DEF Init, KindsInv, Parted
<1>2. HistoryInv /\ KindsInv /\ [Next]_vars => KindsInv'
  <2> SUFFICES ASSUME HistoryInv, KindsInv, [Next]_vars PROVE KindsInv'
    OBVIOUS
  <2>1. CASE Answer
    BY <2>1, AnswerKinds
  <2>2. ASSUME OneForOne(learned, learned'), OneForOne(reverse, reverse') PROVE KindsInv'
    <3>1. Parted(learned', reverse')
      BY <2>2, PartedStays DEF KindsInv
    <3> QED BY <3>1 DEF KindsInv
  <2>3. CASE ClickOverride
    BY <2>2, <2>3, OverrideStep
  <2>4. CASE ClickUndo
    BY <2>2, <2>4, UndoStep
  <2>5. CASE ValidateFix
    BY <2>2, <2>5, FixStep
  <2>6. CASE \E until \in {clock + w : w \in Waits} \cup DueAt : Wait(until)
    <3>1. learned' = learned /\ reverse' = reverse
      BY <2>6, WaitStep
    <3> QED BY <3>1 DEF KindsInv
  <2>7. CASE UNCHANGED vars
    BY <2>7 DEF KindsInv, vars
  <2> QED BY <2>1, <2>3, <2>4, <2>5, <2>6, <2>7 DEF Next
<1> QED BY <1>1, <1>2, HistoryInvariant, PTL DEF Spec

-----------------------------------------------------------------------------
(* The statistics report *)

\* The right answers of learned_logs, oldest first.
RightIn(old) == {i \in DOMAIN old : ~IsWrong(old[i])}
RightOnes == Selected(Backwards(learned), RightIn(Backwards(learned)))

LEMMA MonthsAscend ==
    ASSUME NEW a, NEW b, a.at \in Nat, b.at \in Nat, a.at <= b.at
    PROVE  MonthOf(a) <= MonthOf(b) /\ MonthOf(a) \in Nat /\ MonthOf(b) \in Nat
<1>1. Day(a.at) \in Nat /\ Day(b.at) \in Nat /\ Day(a.at) <= Day(b.at)
  BY DayIs, DaysAscend
<1>2. ASSUME NEW p \in Nat, NEW q \in Nat, p <= q
      PROVE  p \div 2 <= q \div 2 /\ p \div 2 \in Nat /\ q \div 2 \in Nat
  BY <1>2
<1> QED BY <1>1, <1>2 DEF MonthOf, DaysPerMonth

LEMMA RightOnesAre ==
    ASSUME HistoryInv
    PROVE  /\ DOMAIN RightOnes = 1 .. Len(RightOnes) /\ Len(RightOnes) \in Nat
           /\ \A n \in DOMAIN RightOnes : MonthOf(RightOnes[n]) \in Nat
           /\ \A m, n \in DOMAIN RightOnes : m <= n => MonthOf(RightOnes[m]) <= MonthOf(RightOnes[n])
           /\ DOMAIN RightOnes = {} <=> \A i \in DOMAIN learned : IsWrong(learned[i])
<1> DEFINE S == StoredLog(calculator)
           old == Backwards(learned)
           H == RightIn(old)
           right == RightOnes
           N == Cardinality(H)
<1>1. learned \in Seq(S) /\ IsNewestFirst(learned)
  BY DEF HistoryInv, IsHistory
<1>2. old \in Seq(S) /\ IsOldestFirst(old) /\ DOMAIN old = DOMAIN learned /\ DOMAIN old \subseteq Nat
      /\ \A i \in DOMAIN learned : Len(learned) + 1 - i \in DOMAIN learned
                                   /\ old[i] = learned[Len(learned) + 1 - i]
                                   /\ old[Len(learned) + 1 - i] = learned[i]
  <2>1. DOMAIN learned = 1 .. Len(learned) /\ Len(learned) \in Nat
    BY <1>1
  <2>2. old = [n \in 1 .. Len(learned) |-> learned[Len(learned) + 1 - n]]
    BY DEF Backwards
  <2> HIDE DEF old
  <2>3. old \in Seq(S) /\ DOMAIN old = DOMAIN learned
        /\ \A i \in DOMAIN learned : Len(learned) + 1 - i \in DOMAIN learned
                                     /\ old[i] = learned[Len(learned) + 1 - i]
    <3>1. old \in Seq(S) /\ DOMAIN old = 1 .. Len(learned)
          /\ \A i \in 1 .. Len(learned) : old[i] = learned[Len(learned) + 1 - i]
      <4>1. Backwards(learned) \in Seq(S) /\ Len(Backwards(learned)) = Len(learned)
            /\ \A i \in 1 .. Len(learned) : Backwards(learned)[i] = learned[Len(learned) + 1 - i]
        BY <1>1, BackwardsIs
      <4> QED BY <2>2, <4>1 DEF old
    <3>2. \A i \in 1 .. Len(learned) : Len(learned) + 1 - i \in 1 .. Len(learned)
      BY <2>1
    <3> QED BY <2>1, <3>1, <3>2
  <2>4. \A i \in DOMAIN learned : old[Len(learned) + 1 - i] = learned[i]
    BY <2>1, <2>3
  <2>5. IsOldestFirst(old)
    <3>1. ASSUME NEW i \in DOMAIN old, NEW j \in DOMAIN old, i < j PROVE old[i].at < old[j].at
      <4>1. Len(learned) + 1 - j < Len(learned) + 1 - i
        BY <2>1, <2>3, <3>1
      <4> QED BY <1>1, <2>3, <4>1 DEF IsNewestFirst
    <3> QED BY <3>1 DEF IsOldestFirst
  <2> QED BY <2>1, <2>3, <2>4, <2>5
<1> HIDE DEF old
<1>3. H \in SUBSET DOMAIN old /\ right = Selected(old, H)
  BY DEF RightOnes, RightIn, old
<1> HIDE DEF right
<1>4. right \in Seq(S) /\ Len(right) = N /\ IsFiniteSet(H)
  <2>1. IsFiniteSet(H)
    BY <1>2, <1>3, DomainIs, FS_Subset
  <2> QED BY <1>2, <1>3, <2>1, SelectedIs
<1>5. PICK p \in [1 .. N -> H] :
          /\ \A n \in 1 .. N : right[n] = old[p[n]]
          /\ \A m, n \in 1 .. N : m < n => p[m] < p[n]
  <2>1. \E p \in [1 .. Cardinality(H) -> H] :
            /\ \A n \in 1 .. Cardinality(H) : Selected(old, H)[n] = old[p[n]]
            /\ \A m, n \in 1 .. Cardinality(H) : m < n => p[m] < p[n]
    <3>1. old \in Seq(S) /\ H \in SUBSET DOMAIN old
      BY <1>2, <1>3
    <3> HIDE DEF H, S
    <3> QED BY <3>1, SelectedIs
  <2> HIDE DEF H
  <2> QED BY <1>3, <2>1, Zenon
<1>6. N \in Nat /\ DOMAIN right = 1 .. N /\ (N = 0 <=> H = {})
  BY <1>4, FS_CardinalityType, FS_EmptySet
<1> HIDE DEF N
<1>7. ASSUME NEW n \in DOMAIN right PROVE right[n].at \in Nat
  <2>1. right[n] \in S
    BY <1>4
  <2> QED BY <2>1, FieldsOf
<1>8. ASSUME NEW m \in DOMAIN right, NEW n \in DOMAIN right, m <= n PROVE right[m].at <= right[n].at
  <2>1. CASE m = n
    BY <1>7, <2>1
  <2>2. CASE m < n
    <3>1. p[m] < p[n] /\ p[m] \in DOMAIN old /\ p[n] \in DOMAIN old
          /\ right[m] = old[p[m]] /\ right[n] = old[p[n]]
      BY <1>3, <1>5, <1>6, <2>2
    <3>2. old[p[m]].at < old[p[n]].at
      BY <1>2, <3>1 DEF IsOldestFirst
    <3>3. right[m].at \in Nat /\ right[n].at \in Nat
      BY <1>7
    <3> QED BY <3>1, <3>2, <3>3
  <2> QED BY <1>6, <1>8, <2>1, <2>2
<1>9. H = {} <=> \A i \in DOMAIN learned : IsWrong(learned[i])
  BY <1>2 DEF RightIn
<1>10. \A m, n \in DOMAIN right : m <= n => MonthOf(right[m]) <= MonthOf(right[n])
  BY <1>7, <1>8, MonthsAscend
<1>11. ASSUME NEW n \in DOMAIN right PROVE MonthOf(right[n]) \in Nat
  <2>1. right[n].at \in Nat /\ right[n].at <= right[n].at
    BY <1>7
  <2> QED BY <2>1, MonthsAscend
<1>12. DOMAIN right = {} <=> H = {}
  BY <1>6
<1>13. DOMAIN right = 1 .. Len(right) /\ Len(right) \in Nat
  BY <1>4, <1>6
<1> QED BY <1>9, <1>10, <1>11, <1>12, <1>13 DEF right

\* What the report counts of each right answer.
EventOf(n) == [month |-> MonthOf(RightOnes[n]), nth |-> n, kind |-> IF n = 1 THEN "new word" ELSE "relearn"]

LEMMA EventsAre ==
    ASSUME HistoryInv
    PROVE  /\ \A e : e \in ProcessExpression(AllMonths) <=> \E n \in DOMAIN RightOnes : e = EventOf(n)
           /\ \A month \in Nat : ProcessExpression(month) =
                                     {e \in ProcessExpression(AllMonths) : e.month = month}
<1> DEFINE right == RightOnes
           Hits(month) == {j \in DOMAIN right : MatchesFilter(right[j], month)}
<1>1. \A month : ProcessExpression(month) = {EventOf(i) : i \in Hits(month)}
  BY DEF ProcessExpression, EventOf, RightOnes, RightIn
<1>2. Hits(AllMonths) = DOMAIN right
  BY DEF MatchesFilter
<1>3. ASSUME NEW month \in Nat PROVE Hits(month) = {j \in DOMAIN right : MonthOf(right[j]) = month}
  BY DEF MatchesFilter, AllMonths
<1>4. \A n : EventOf(n).month = MonthOf(right[n])
  BY DEF EventOf
<1>5. \A e : e \in ProcessExpression(AllMonths) <=> \E n \in DOMAIN right : e = EventOf(n)
  BY <1>1, <1>2
<1>6. ASSUME NEW month \in Nat
      PROVE  ProcessExpression(month) = {e \in ProcessExpression(AllMonths) : e.month = month}
  <2>1. \A e : e \in ProcessExpression(month) <=>
                   \E n \in DOMAIN right : MonthOf(right[n]) = month /\ e = EventOf(n)
    BY <1>1, <1>3
  <2> QED BY <1>4, <1>5, <2>1
<1> QED BY <1>5, <1>6

\* The events of a row.
OwnOf(events, key, kind) == {e \in events : e.month = key /\ e.kind = kind}

LEMMA RowIs ==
    ASSUME NEW month
    PROVE  LET events == ProcessExpression(month)
               report == CalculateStatistics(month)
           IN  /\ DOMAIN report = {e.month : e \in events}
               /\ \A key \in DOMAIN report :
                      /\ report[key] = [kind \in {"new word", "relearn"} |->
                             [count |-> Cardinality(OwnOf(events, key, kind)),
                              unique |-> IF OwnOf(events, key, kind) = {} THEN 0 ELSE 1]]
                      /\ report[key]["new word"].count = Cardinality(OwnOf(events, key, "new word"))
BY DEF CalculateStatistics, Report, OwnOf

LEMMA OneMonthIsARow ==
    ASSUME HistoryInv, NEW month \in Nat
    PROVE  LET all == CalculateStatistics(AllMonths)
               alone == CalculateStatistics(month)
           IN  /\ DOMAIN alone = DOMAIN all \cap {month}
               /\ month \in DOMAIN all => alone[month] = all[month]
<1> DEFINE all == CalculateStatistics(AllMonths)
           alone == CalculateStatistics(month)
           E == ProcessExpression(AllMonths)
           M == ProcessExpression(month)
           Row(events) == [kind \in {"new word", "relearn"} |->
                             [count |-> Cardinality(OwnOf(events, month, kind)),
                              unique |-> IF OwnOf(events, month, kind) = {} THEN 0 ELSE 1]]
<1>1. M = {e \in E : e.month = month}
  BY EventsAre
<1>2. DOMAIN all = {e.month : e \in E} /\ DOMAIN alone = {e.month : e \in M}
  BY RowIs
<1>3. DOMAIN alone = DOMAIN all \cap {month}
  <2> HIDE DEF all, alone, E, M
  <2> QED BY <1>1, <1>2
<1>4. \A kind : OwnOf(M, month, kind) = OwnOf(E, month, kind)
  BY <1>1 DEF OwnOf
<1>5. Row(M) = Row(E)
  <2> HIDE DEF E, M
  <2> QED BY <1>4
<1>6. (month \in DOMAIN all => all[month] = Row(E)) /\ (month \in DOMAIN alone => alone[month] = Row(M))
  BY RowIs
<1> HIDE DEF all, alone, Row, E, M
<1>7. month \in DOMAIN all => alone[month] = all[month]
  BY <1>3, <1>5, <1>6
<1> QED BY <1>3, <1>7 DEF all, alone

NewMonths == {key \in DOMAIN CalculateStatistics(AllMonths) :
                 CalculateStatistics(AllMonths)[key]["new word"].count > 0}

\* A word is new in the month of its first right answer.
LEMMA NewOnce ==
    ASSUME HistoryInv
    PROVE  /\ NewMonths # {} <=> DOMAIN RightOnes # {}
           /\ Cardinality(NewMonths) <= 1
           /\ \A key \in NewMonths : \A other \in DOMAIN CalculateStatistics(AllMonths) : key <= other
<1> DEFINE all == CalculateStatistics(AllMonths)
           E == ProcessExpression(AllMonths)
           first == MonthOf(RightOnes[1])
<1>1. /\ DOMAIN RightOnes = 1 .. Len(RightOnes) /\ Len(RightOnes) \in Nat
      /\ \A n \in DOMAIN RightOnes : 1 \in DOMAIN RightOnes /\ 1 <= n
  BY RightOnesAre
<1>2. \A e : e \in E <=> \E n \in DOMAIN RightOnes : e = EventOf(n)
  BY EventsAre
<1>3. \A n : EventOf(n).month = MonthOf(RightOnes[n]) /\ (EventOf(n).kind = "new word" <=> n = 1)
  BY DEF EventOf
<1>4. DOMAIN all = {e.month : e \in E}
      /\ \A key \in DOMAIN all : all[key]["new word"].count = Cardinality(OwnOf(E, key, "new word"))
  BY RowIs
<1> HIDE DEF E, all
<1>5. ASSUME NEW key
      PROVE  /\ OwnOf(E, key, "new word") \subseteq {EventOf(1)}
             /\ OwnOf(E, key, "new word") # {} <=> DOMAIN RightOnes # {} /\ key = first
  <2>1. OwnOf(E, key, "new word") \subseteq {EventOf(1)}
    BY <1>2, <1>3 DEF OwnOf
  <2>2. ASSUME NEW e \in OwnOf(E, key, "new word") PROVE DOMAIN RightOnes # {} /\ key = first
    <3>1. e \in E /\ e.month = key /\ e.kind = "new word"
      BY DEF OwnOf
    <3>2. PICK n \in DOMAIN RightOnes : e = EventOf(n)
      BY <1>2, <3>1
    <3>3. n = 1 /\ e.month = MonthOf(RightOnes[n])
      BY <1>3, <3>1, <3>2
    <3> QED BY <3>1, <3>3
  <2>3. ASSUME DOMAIN RightOnes # {}, key = first PROVE OwnOf(E, key, "new word") # {}
    <3>1. EventOf(1) \in E
      BY <1>1, <1>2, <2>3
    <3>2. EventOf(1) \in OwnOf(E, key, "new word")
      BY <1>3, <2>3, <3>1 DEF OwnOf
    <3> QED BY <3>2
  <2> QED BY <2>1, <2>2, <2>3
<1>6. ASSUME NEW key
      PROVE  Cardinality(OwnOf(E, key, "new word")) > 0 <=> DOMAIN RightOnes # {} /\ key = first
  <2> DEFINE own == OwnOf(E, key, "new word")
  <2>1. IsFiniteSet({EventOf(1)})
    BY FS_Singleton
  <2>2. IsFiniteSet(OwnOf(E, key, "new word"))
    BY <1>5, <2>1, FS_Subset
  <2>3. Cardinality(own) \in Nat /\ (Cardinality(own) = 0 <=> own = {})
    BY <2>2, FS_CardinalityType, FS_EmptySet
  <2>4. own # {} <=> DOMAIN RightOnes # {} /\ key = first
    BY <1>5
  <2>5. Cardinality(own) > 0 <=> own # {}
    <3> HIDE DEF own
    <3> QED BY <2>3
  <2> QED BY <2>4, <2>5
<1>7. NewMonths = {key \in DOMAIN all : all[key]["new word"].count > 0}
  BY DEF NewMonths, all
<1>8. NewMonths = {key \in DOMAIN all : DOMAIN RightOnes # {} /\ key = first}
  BY <1>4, <1>6, <1>7
<1>9. ASSUME DOMAIN RightOnes # {} PROVE first \in DOMAIN all
  BY <1>1, <1>2, <1>3, <1>4, <1>9
<1>10. NewMonths # {} <=> DOMAIN RightOnes # {}
  BY <1>8, <1>9
<1>11. Cardinality(NewMonths) <= 1
  <2>1. NewMonths \subseteq {first}
    BY <1>8
  <2>2. IsFiniteSet({first}) /\ Cardinality({first}) = 1
    BY FS_Singleton
  <2>3. Cardinality(NewMonths) <= Cardinality({first})
    BY <2>1, <2>2, FS_Subset
  <2> QED BY <2>2, <2>3
<1>12. ASSUME NEW key \in NewMonths, NEW other \in DOMAIN all PROVE key <= other
  <2>1. PICK n \in DOMAIN RightOnes : other = MonthOf(RightOnes[n])
    <3>1. PICK e \in E : other = e.month
      BY <1>4
    <3>2. PICK n \in DOMAIN RightOnes : e = EventOf(n)
      BY <1>2, <3>1
    <3> QED BY <1>3, <3>1, <3>2
  <2>2. key = first
    BY <1>8
  <2>3. 1 \in DOMAIN RightOnes /\ 1 <= n
    BY <1>1
  <2> QED BY <2>1, <2>2, <2>3, RightOnesAre
<1> QED BY <1>10, <1>11, <1>12 DEF all

\* Some log of a quiz type is of a right answer.
LEMMA EverRightIs ==
    ASSUME HistoryInv, NEW type \in Played
    PROVE  EverRight(type) <=>
               \E i \in DOMAIN AllLogs : AllLogs[i].quizType = type /\ ~IsWrong(AllLogs[i])
<1>1. type \in Filters /\ Kinds(type) = {type} /\ type # ""
  <2>1. type \in Filters /\ type # ""
    BY KindsAre DEF Filters
  <2> QED BY <2>1 DEF Kinds
<1>2. Of(type) = {i \in DOMAIN AllLogs : AllLogs[i].quizType = type}
  BY <1>1 DEF Of
<1>3. ASSUME NEW f \in AllFlags(type), ~IsWrong(f.attempt)
      PROVE  \E i \in DOMAIN AllLogs : AllLogs[i].quizType = type /\ ~IsWrong(AllLogs[i])
  <2>1. f.attempt.quizType = type /\ f.seq \in DOMAIN Series(type) /\ f.attempt = Series(type)[f.seq]
    BY <1>1, FlagIs
  <2>2. PlaceOf(type)[f.seq] \in Of(type) /\ f.attempt = AllLogs[PlaceOf(type)[f.seq]]
    BY <2>1, PlaceIs DEF IsPlaceOf
  <2>3. PlaceOf(type)[f.seq] \in DOMAIN AllLogs /\ AllLogs[PlaceOf(type)[f.seq]].quizType = type
    BY <1>2, <2>2
  <2>4. ~IsWrong(AllLogs[PlaceOf(type)[f.seq]])
    BY <1>3, <2>2
  <2> QED BY <2>3, <2>4
<1>4. ASSUME NEW i \in DOMAIN AllLogs, AllLogs[i].quizType = type, ~IsWrong(AllLogs[i])
      PROVE  \E f \in AllFlags(type) : ~IsWrong(f.attempt)
  <2>1. i \in Of(type)
    BY <1>2, <1>4
  <2>2. PICK n \in DOMAIN Series(type) : PlaceOf(type)[n] = i
    BY <2>1, PlaceIs DEF IsPlaceOf
  <2>3. Series(type)[n] = AllLogs[i]
    <3>1. \A k \in DOMAIN Series(type) : Series(type)[k] = AllLogs[PlaceOf(type)[k]]
      BY PlaceIs DEF IsPlaceOf
    <3>2. Series(type)[n] = AllLogs[PlaceOf(type)[n]]
      BY <3>1
    <3> QED BY <2>2, <3>2
  <2>4. FlagOf(type, n) \in AllFlags(type) /\ FlagOf(type, n).attempt = AllLogs[i]
    <3>1. type \in Kinds(type)
      BY <1>1
    <3>2. \A k \in DOMAIN Series(type) : FlagOf(type, k) \in AllFlags(type)
                                         /\ FlagOf(type, k).attempt = Series(type)[k]
      BY <1>1, <3>1, FlagIs
    <3> QED BY <2>3, <3>2
  <2> QED BY <1>4, <2>4
<1> QED BY <1>3, <1>4 DEF EverRight

\* A right answer that is not a recall answer's is in learned_logs, or its other half is.
LEMMA LearnedHasIt ==
    ASSUME HistoryInv, KindsInv, HalvesAgree
    PROVE  (\E i \in DOMAIN learned : ~IsWrong(learned[i])) <=>
               \E type \in Played \cap {"notebook", "freeform"} : EverRight(type)
<1>1. /\ learned \in Seq(StoredLog(calculator)) /\ reverse \in Seq(StoredLog(calculator))
      /\ IsNewestFirst(reverse)
  BY DEF HistoryInv, IsHistory
<1>2. /\ \A i \in DOMAIN learned : i \in DOMAIN AllLogs /\ AllLogs[i] = learned[i]
      /\ \A i \in DOMAIN AllLogs : \/ \E j \in DOMAIN learned : AllLogs[i] = learned[j]
                                   \/ \E j \in DOMAIN reverse : AllLogs[i] = reverse[j]
  <2>1. /\ DOMAIN learned = 1 .. Len(learned) /\ Len(learned) \in Nat
        /\ DOMAIN reverse = 1 .. Len(reverse) /\ Len(reverse) \in Nat
    BY <1>1
  <2>2. DOMAIN AllLogs = 1 .. Len(learned) + Len(reverse)
        /\ \A i \in DOMAIN AllLogs : AllLogs[i] = IF i <= Len(learned) THEN learned[i]
                                                  ELSE reverse[i - Len(learned)]
    BY <1>1, <2>1 DEF AllLogs
  <2>3. \A i \in DOMAIN learned : i \in DOMAIN AllLogs /\ AllLogs[i] = learned[i]
    BY <2>1, <2>2
  <2>4. ASSUME NEW i \in DOMAIN AllLogs
        PROVE  \/ \E j \in DOMAIN learned : AllLogs[i] = learned[j]
               \/ \E j \in DOMAIN reverse : AllLogs[i] = reverse[j]
    <3>1. CASE i <= Len(learned)
      <4>1. i \in DOMAIN learned /\ AllLogs[i] = learned[i]
        BY <2>1, <2>2, <3>1
      <4> QED BY <4>1
    <3>2. CASE i > Len(learned)
      <4>1. i - Len(learned) \in DOMAIN reverse /\ AllLogs[i] = reverse[i - Len(learned)]
        BY <2>1, <2>2, <3>2
      <4> QED BY <4>1
    <3> QED BY <2>1, <2>2, <3>1, <3>2
  <2> QED BY <2>3, <2>4
<1>3. ASSUME NEW i \in DOMAIN learned, ~IsWrong(learned[i])
      PROVE  \E type \in Played \cap {"notebook", "freeform"} : EverRight(type)
  <2> DEFINE type == learned[i].quizType
  <2>1. type \in Played
    BY <1>1, FieldsOf
  <2>2. type # "reverse"
    BY DEF KindsInv, Parted
  <2>3. type \in Played \cap {"notebook", "freeform"}
    BY <2>1, <2>2, KindsAre DEF Filters
  <2>4. EverRight(type)
    BY <1>2, <1>3, <2>1, EverRightIs
  <2> QED BY <2>3, <2>4
<1>4. ASSUME NEW type \in Played \cap {"notebook", "freeform"}, EverRight(type)
      PROVE  \E i \in DOMAIN learned : ~IsWrong(learned[i])
  <2>1. PICK i \in DOMAIN AllLogs : AllLogs[i].quizType = type /\ ~IsWrong(AllLogs[i])
    BY <1>4, EverRightIs
  <2>2. CASE \E j \in DOMAIN learned : AllLogs[i] = learned[j]
    BY <2>1, <2>2
  <2>3. ASSUME NEW j \in DOMAIN reverse, AllLogs[i] = reverse[j]
        PROVE  \E k \in DOMAIN learned : ~IsWrong(learned[k])
    <3>1. reverse[j].quizType # "reverse"
      BY <2>1, <2>3
    <3>2. PICK k \in DOMAIN learned : learned[k].at = reverse[j].at /\ learned[k].quizType = "freeform"
      BY <3>1 DEF KindsInv, Parted, HasHalf
    <3>3. PICK m \in DOMAIN reverse : reverse[m].at = learned[k].at
                                      /\ reverse[m].status = learned[k].status
      BY <3>2 DEF HalvesAgree
    <3>4. m = j
      <4>1. reverse[m].at \in Nat /\ reverse[j].at \in Nat /\ m \in Nat /\ j \in Nat
        BY <1>1, FieldsOf, DomainIs
      <4>2. ~(m < j) /\ ~(j < m)
        BY <1>1, <3>2, <3>3, <4>1 DEF IsNewestFirst
      <4> QED BY <4>1, <4>2
    <3>5. learned[k].status = reverse[j].status
      BY <3>3, <3>4
    <3> QED BY <2>1, <2>3, <3>5 DEF IsWrong
  <2> QED BY <1>2, <2>2, <2>3
<1> QED BY <1>3, <1>4

LEMMA TheReportAgrees == ASSUME HistoryInv, KindsInv, HalvesAgree PROVE StatisticsAgree
<1> DEFINE all == CalculateStatistics(AllMonths)
           new == {key \in DOMAIN all : all[key]["new word"].count > 0}
           Learned(type) == ComputeTrends(type, 0, Today).summary.wordsLearned = 1
<1>1. ASSUME NEW month \in Nat
      PROVE  LET alone == CalculateStatistics(month)
             IN  /\ DOMAIN alone = DOMAIN all \cap {month}
                 /\ month \in DOMAIN all => alone[month] = all[month]
  BY OneMonthIsARow
<1>2. new = NewMonths
  BY DEF NewMonths
<1>3. /\ NewMonths # {} <=> DOMAIN RightOnes # {}
      /\ Cardinality(NewMonths) <= 1
      /\ \A key \in NewMonths : \A other \in DOMAIN all : key <= other
  BY NewOnce
<1>4. \A type \in Played : Learned(type) <=> EverRight(type)
  BY WordsLearnedIs DEF Filters
<1>5. DOMAIN RightOnes # {} <=> \E i \in DOMAIN learned : ~IsWrong(learned[i])
  BY RightOnesAre
<1>6. (new # {}) = (\E type \in Played \cap {"notebook", "freeform"} : Learned(type))
  <2> HIDE DEF new, Learned
  <2> QED BY <1>2, <1>3, <1>4, <1>5, LearnedHasIt
<1>7. \A month \in 0 .. Today \div DaysPerMonth : month \in Nat
  OBVIOUS
<1>8. \A month \in 0 .. Today \div DaysPerMonth :
          LET alone == CalculateStatistics(month)
          IN  /\ DOMAIN alone = DOMAIN all \cap {month}
              /\ month \in DOMAIN all => alone[month] = all[month]
  BY <1>1, <1>7
<1>9. Cardinality(new) <= 1 /\ \A key \in new : \A other \in DOMAIN all : key <= other
  <2> HIDE DEF new, all
  <2> QED BY <1>2, <1>3
<1> QED BY <1>6, <1>8, <1>9, Zenon DEF StatisticsAgree

\* The pages and the report tell one story of a history: a day's row, its summary and its
\* trends count the same answers, the day list, the cards and the neighbouring days agree,
\* the trends count a word as learned if and only if an answer was right, and the report
\* of a month is its row of the whole report, with one month in which the word is new
\* (yaml_repository.go, trends.go, learning_statistics.go).
THEOREM ReportsAlwaysAgree == ASSUME KeyKinds \subseteq {"instant"} PROVE Spec => []ReportsAgree
<1>1. HistoryInv /\ KindsInv /\ HalvesAgree => ReportsAgree
  <2> SUFFICES ASSUME HistoryInv, KindsInv, HalvesAgree PROVE ReportsAgree
    OBVIOUS
  <2>1. ASSUME NEW quizType \in Filters, NEW day \in 0 .. Today PROVE DayAgrees(quizType, day)
    BY EveryDayAgrees
  <2>2. \A quizType \in Filters : LearnedAgrees(quizType)
    BY WhoLearnedAgrees
  <2> QED BY <2>1, <2>2, TheReportAgrees DEF ReportsAgree
<1> QED BY <1>1, HistoryInvariant, KindsInvariant, HalvesStayTogether, PTL
=============================================================================
