------------------------ MODULE EntryPlacementProofs ------------------------
(***************************************************************************)
(* Theorems of EntryPlacement, for every notebook, every file from before  *)
(* ids and every sequence of answers, skips and resumes.                   *)
(***************************************************************************)
EXTENDS EntryPlacement, FiniteSetTheorems, SequenceTheorems, WellFoundedInduction, TLAPS

\* The parts of a file f that is not the present one.
Block == [place : Scenes, entries : Seq(Entries)]
PositionsOf(f) == {p \in Nat \X Nat : p[1] \in DOMAIN f /\ p[2] \in DOMAIN f[p[1]].entries}
EntryAt(f, p) == f[p[1]].entries[p[2]]
PlaceAt(f, p) == f[p[1]].place
TargetsOf(f, c) ==
    {p \in PositionsOf(f) : PlaceAt(f, p) = Place[c] /\ MatchesEntry(EntryAt(f, p), Sense[c], Names(c))}

OneBlockEach(f) == \A a, b \in DOMAIN f : f[a].place = f[b].place => a = b

\* An entry without an id has answers from before ids only, and its name once at a place.
Untagged(f) ==
    /\ \A p \in PositionsOf(f) : EntryAt(f, p).id = None => EntryAt(f, p).logs \cap Cards = {}
    /\ \A p, q \in PositionsOf(f) : /\ PlaceAt(f, p) = PlaceAt(f, q)
                                    /\ EntryAt(f, p).id = None /\ EntryAt(f, q).id = None
                                    /\ EntryAt(f, p).name = EntryAt(f, q).name
                                    => p = q

\* An entry with the id of a card is the first of the entries the card finds, so a card
\* keeps the entry it once got.
Tagged(f) ==
    \A p \in PositionsOf(f), c \in Cards : EntryAt(f, p).id = Sense[c] =>
        /\ PlaceAt(f, p) = Place[c] /\ EntryAt(f, p).name \in Names(c)
        /\ EntryAt(f, p).logs \cap Cards \subseteq {c}
        /\ \A q \in TargetsOf(f, c) : NotAfter(p, q)

FileInv(f) == f \in Files /\ OneBlockEach(f) /\ Untagged(f) /\ Tagged(f)

\* The answers of a card are in the entry that has its id.
Kept(f, cards) ==
    \A c \in cards : \E p \in PositionsOf(f) : EntryAt(f, p).id = Sense[c] /\ c \in EntryAt(f, p).logs

IInv ==
    /\ FileInv(file)
    /\ answered \subseteq Cards /\ excluded \subseteq Cards
    /\ Kept(file, answered)

-----------------------------------------------------------------------------
(* Positions *)

\* A set of numbers has a least one.
LEMMA LeastNumber ==
    ASSUME NEW T, T \subseteq Nat, T # {}
    PROVE  \E n \in T : \A m \in T : n <= m
<1>1. \E n \in T : \A m \in T : ~(<<m, n>> \in OpToRel(<, Nat))
  BY NatLessThanWellFounded, WFMin
<1>2. \E n \in T : \A m \in T : ~(m < n)
  BY <1>1, Zenon DEF OpToRel
<1> QED BY <1>2

\* There is a first among some positions, and it is the one taken.
LEMMA EarliestIs ==
    ASSUME NEW T, T \subseteq Nat \X Nat, T # {}
    PROVE  Earliest(T) \in T /\ \A q \in T : NotAfter(Earliest(T), q)
<1>1. {p[1] : p \in T} \subseteq Nat /\ {p[1] : p \in T} # {}
  OBVIOUS
<1>2. PICK b \in {p[1] : p \in T} : \A m \in {p[1] : p \in T} : b <= m
  <2> DEFINE B == {p[1] : p \in T}
  <2>1. B \subseteq Nat /\ B # {}
    BY <1>1
  <2> HIDE DEF B
  <2>2. \E n \in B : \A m \in B : n <= m
    BY <2>1, LeastNumber
  <2> QED BY <2>2 DEF B
<1> DEFINE I == {p[2] : p \in {q \in T : q[1] = b}}
<1>3. I \subseteq Nat /\ I # {}
  BY <1>2
<1>4. PICK i \in I : \A m \in I : i <= m
  <2> HIDE DEF I
  <2> QED BY <1>3, LeastNumber
<1>5. PICK p \in T : p[1] = b /\ p[2] = i
  BY <1>4
<1>6. \A q \in T : NotAfter(p, q)
  <2> SUFFICES ASSUME NEW q \in T PROVE NotAfter(p, q)
    OBVIOUS
  <2>1. q[1] \in {x[1] : x \in T} /\ q[1] \in Nat /\ b \in Nat
    BY <1>2
  <2>2. b <= q[1]
    BY <1>2, <2>1
  <2>3. q[1] = b => q[2] \in I
    OBVIOUS
  <2> HIDE DEF I
  <2> QED BY <1>4, <1>5, <2>1, <2>2, <2>3 DEF NotAfter
<1> QED BY <1>6 DEF Earliest

\* The order of positions is antisymmetric.
LEMMA FirstOnce ==
    \A p, q \in Nat \X Nat : NotAfter(p, q) /\ NotAfter(q, p) => p = q
BY DEF NotAfter

\* What a file is made of.
LEMMA FilesAre ==
    ASSUME NEW f \in Files
    PROVE  /\ Len(f) \in Nat /\ DOMAIN f = 1 .. Len(f)
           /\ \A b \in DOMAIN f : /\ b \in Nat /\ f[b] \in Block /\ f[b].place \in Scenes
                                  /\ f[b].entries \in Seq(Entries)
                                  /\ DOMAIN f[b].entries = 1 .. Len(f[b].entries)
                                  /\ Len(f[b].entries) \in Nat
<1>1. f \in Seq(Block)
  BY DEF Files, Block
<1>2. \A b \in DOMAIN f : b \in Nat /\ f[b] \in Block
  BY <1>1
<1>3. ASSUME NEW b \in DOMAIN f
      PROVE  /\ f[b].place \in Scenes /\ f[b].entries \in Seq(Entries)
             /\ DOMAIN f[b].entries = 1 .. Len(f[b].entries) /\ Len(f[b].entries) \in Nat
  BY <1>2 DEF Block
<1> QED BY <1>1, <1>2, <1>3

LEMMA EntriesAre ==
    ASSUME NEW f \in Files, NEW p \in PositionsOf(f)
    PROVE  EntryAt(f, p) \in Entries /\ PlaceAt(f, p) \in Scenes
BY FilesAre DEF PositionsOf, EntryAt, PlaceAt

LEMMA PositionsAre ==
    ASSUME file \in Files
    PROVE  /\ Positions = PositionsOf(file)
           /\ \A p : At(p) = EntryAt(file, p)
<1>1. \A b \in DOMAIN file : b \in Nat /\ \A i \in DOMAIN file[b].entries : i \in Nat
  BY FilesAre
<1>2. Positions \subseteq PositionsOf(file)
  BY <1>1 DEF Positions, PositionsOf
<1>3. PositionsOf(file) \subseteq Positions
  BY <1>1 DEF Positions, PositionsOf
<1> QED BY <1>2, <1>3 DEF At, EntryAt

\* What the operators of the model are for the present file.
LEMMA TargetsAre ==
    ASSUME file \in Files, NEW c \in Cards
    PROVE  Targets(c) = TargetsOf(file, c)
BY PositionsAre DEF Targets, TargetsOf, PlaceAt

-----------------------------------------------------------------------------
(* The two ways a file changes *)

\* g is f with another entry at a position.
Rewritten(f, g, p, e) ==
    /\ p \in PositionsOf(f) /\ PositionsOf(g) = PositionsOf(f)
    /\ \A q \in PositionsOf(f) : /\ PlaceAt(g, q) = PlaceAt(f, q)
                                 /\ EntryAt(g, q) = IF q = p THEN e ELSE EntryAt(f, q)

\* g is f with one more entry, after all others of its place.
Grown(f, g, n, place, e) ==
    /\ n \notin PositionsOf(f) /\ PositionsOf(g) = PositionsOf(f) \cup {n}
    /\ n \in Nat \X Nat /\ PlaceAt(g, n) = place /\ EntryAt(g, n) = e
    /\ \A q \in PositionsOf(f) : /\ PlaceAt(g, q) = PlaceAt(f, q) /\ EntryAt(g, q) = EntryAt(f, q)
                                 /\ PlaceAt(f, q) = place => NotAfter(q, n)

\* A sequence with another element at a position.
LEMMA ReplacedAt ==
    ASSUME NEW S, NEW s \in Seq(S), NEW i \in DOMAIN s, NEW x \in S,
           NEW t, t = [s EXCEPT ![i] = x]
    PROVE  /\ t \in Seq(S) /\ DOMAIN t = DOMAIN s /\ t[i] = x
           /\ \A j \in DOMAIN s : j # i => t[j] = s[j]
OBVIOUS

\* A block with other entries.
LEMMA BlockWith ==
    ASSUME NEW old \in Block, NEW entries \in Seq(Entries)
    PROVE  /\ [old EXCEPT !.entries = entries] \in Block
           /\ [old EXCEPT !.entries = entries].place = old.place
           /\ [old EXCEPT !.entries = entries].entries = entries
BY DEF Block

LEMMA ChangedIs ==
    ASSUME NEW f \in Files, OneBlockEach(f), NEW p \in PositionsOf(f), NEW e \in Entries,
           NEW g, g = [f EXCEPT ![p[1]].entries[p[2]] = e]
    PROVE  g \in Files /\ OneBlockEach(g) /\ Rewritten(f, g, p, e)
<1> DEFINE entries == [f[p[1]].entries EXCEPT ![p[2]] = e]
           block == [f[p[1]] EXCEPT !.entries = entries]
<1>1. /\ p[1] \in DOMAIN f /\ p[2] \in DOMAIN f[p[1]].entries /\ p = <<p[1], p[2]>>
      /\ f[p[1]] \in Block /\ f[p[1]].entries \in Seq(Entries)
  BY FilesAre DEF PositionsOf
<1>2. /\ block \in Block /\ block.place = f[p[1]].place
      /\ block.entries = entries
      /\ DOMAIN entries = DOMAIN f[p[1]].entries /\ entries[p[2]] = e
      /\ \A i \in DOMAIN f[p[1]].entries : i # p[2] => entries[i] = f[p[1]].entries[i]
  <2>1. /\ entries \in Seq(Entries) /\ DOMAIN entries = DOMAIN f[p[1]].entries /\ entries[p[2]] = e
        /\ \A i \in DOMAIN f[p[1]].entries : i # p[2] => entries[i] = f[p[1]].entries[i]
    BY <1>1
  <2> HIDE DEF entries
  <2> QED BY <1>1, <2>1, BlockWith
<1>3. g = [f EXCEPT ![p[1]] = block]
  OBVIOUS
<1> HIDE DEF block, entries
<1>4. f \in Seq(Block)
  BY DEF Files, Block
<1>5. /\ g \in Seq(Block) /\ DOMAIN g = DOMAIN f /\ g[p[1]] = block
      /\ \A b \in DOMAIN f : b # p[1] => g[b] = f[b]
  <2>1. p[1] \in DOMAIN f /\ block \in Block /\ f \in Seq(Block)
    BY <1>1, <1>2, <1>4
  <2> QED BY ONLY <1>3, <2>1, ReplacedAt
<1>6. \A b \in DOMAIN f : /\ g[b].place = f[b].place
                          /\ DOMAIN g[b].entries = DOMAIN f[b].entries
  <2> SUFFICES ASSUME NEW b \in DOMAIN f
               PROVE  g[b].place = f[b].place /\ DOMAIN g[b].entries = DOMAIN f[b].entries
    OBVIOUS
  <2>1. CASE b = p[1]
    BY <1>2, <1>5, <2>1
  <2>2. CASE b # p[1]
    BY <1>5, <2>2
  <2> QED BY <2>1, <2>2
<1>7. PositionsOf(g) = PositionsOf(f)
  BY <1>5, <1>6 DEF PositionsOf
<1>8. \A q \in PositionsOf(f) : PlaceAt(g, q) = PlaceAt(f, q)
  BY <1>6 DEF PlaceAt, PositionsOf
<1>9. ASSUME NEW q \in PositionsOf(f)
      PROVE  EntryAt(g, q) = IF q = p THEN e ELSE EntryAt(f, q)
  <2>1. q[1] \in DOMAIN f /\ q[2] \in DOMAIN f[q[1]].entries /\ q = <<q[1], q[2]>>
    BY DEF PositionsOf
  <2>2. CASE q[1] # p[1]
    BY <1>5, <2>1, <2>2 DEF EntryAt
  <2>3. CASE q[1] = p[1]
    <3>1. EntryAt(g, q) = block.entries[q[2]]
      BY <1>5, <2>3 DEF EntryAt
    <3>2. block.entries[q[2]] = IF q[2] = p[2] THEN e ELSE f[p[1]].entries[q[2]]
      BY <1>1, <1>2, <2>1, <2>3
    <3>3. q[2] = p[2] <=> q = p
      BY <1>1, <2>1, <2>3
    <3> QED BY <2>3, <3>1, <3>2, <3>3 DEF EntryAt
  <2> QED BY <2>2, <2>3
<1>10. g \in Files
  BY <1>5 DEF Files, Block
<1>11. OneBlockEach(g)
  BY <1>5, <1>6 DEF OneBlockEach
<1> QED BY <1>7, <1>8, <1>9, <1>10, <1>11 DEF Rewritten

\* Added, for any file.
AddedTo(f, place, e) ==
    IF \E b \in DOMAIN f : f[b].place = place
    THEN [b \in DOMAIN f |-> IF f[b].place = place
                             THEN [f[b] EXCEPT !.entries = Append(@, e)] ELSE f[b]]
    ELSE Append(f, [place |-> place, entries |-> <<e>>])

LEMMA AddedIs ==
    ASSUME NEW f \in Files, OneBlockEach(f), NEW place \in Scenes, NEW e \in Entries,
           NEW g, g = AddedTo(f, place, e)
    PROVE  g \in Files /\ OneBlockEach(g) /\ \E n : Grown(f, g, n, place, e)
<1>1. /\ f \in Seq(Block) /\ Len(f) \in Nat /\ DOMAIN f = 1 .. Len(f)
      /\ \A b \in DOMAIN f : /\ b \in Nat /\ f[b] \in Block /\ f[b].place \in Scenes
                             /\ f[b].entries \in Seq(Entries)
                             /\ DOMAIN f[b].entries = 1 .. Len(f[b].entries)
                             /\ Len(f[b].entries) \in Nat
  BY FilesAre DEF Files, Block
<1>2. CASE \E b \in DOMAIN f : f[b].place = place
  <2>1. PICK b \in DOMAIN f : f[b].place = place
    BY <1>2
  <2> DEFINE block == [f[b] EXCEPT !.entries = Append(f[b].entries, e)]
             n == <<b, Len(f[b].entries) + 1>>
  <2>2. /\ block \in Block /\ block.place = place /\ block.entries = Append(f[b].entries, e)
    <3>1. Append(f[b].entries, e) \in Seq(Entries) /\ f[b] \in Block
      BY <1>1, <2>1
    <3> QED BY <2>1, <3>1, BlockWith
  <2>3. g = [a \in DOMAIN f |-> IF f[a].place = place
                                THEN [f[a] EXCEPT !.entries = Append(@, e)] ELSE f[a]]
    BY <1>2 DEF AddedTo
  <2>4. /\ DOMAIN g = DOMAIN f /\ g[b] = block
        /\ \A a \in DOMAIN f : a # b => g[a] = f[a]
    BY <2>1, <2>3 DEF OneBlockEach
  <2> HIDE DEF block
  <2>5. g \in Seq(Block)
    <3>1. g = [a \in 1 .. Len(f) |-> g[a]] /\ \A a \in 1 .. Len(f) : g[a] \in Block
      BY <1>1, <2>2, <2>3, <2>4
    <3> QED BY <1>1, <3>1
  <2>6. \A a \in DOMAIN f : g[a].place = f[a].place
    BY <2>1, <2>2, <2>4
  <2>7. /\ DOMAIN block.entries = 1 .. Len(f[b].entries) + 1
        /\ block.entries[Len(f[b].entries) + 1] = e
        /\ \A i \in DOMAIN f[b].entries : block.entries[i] = f[b].entries[i]
    BY <1>1, <2>1, <2>2
  <2>8. \A q : q \in PositionsOf(g) <=> q \in PositionsOf(f) \/ q = n
    <3> SUFFICES ASSUME NEW q \in Nat \X Nat
                 PROVE  q \in PositionsOf(g) <=> q \in PositionsOf(f) \/ q = n
      BY <1>1, <2>1 DEF PositionsOf
    <3>1. CASE q[1] # b
      BY <2>4, <3>1 DEF PositionsOf
    <3>2. CASE q[1] = b
      <4>1. q \in PositionsOf(g) <=> q[2] \in 1 .. Len(f[b].entries) + 1
        BY <2>1, <2>4, <2>7, <3>2 DEF PositionsOf
      <4>2. q \in PositionsOf(f) <=> q[2] \in 1 .. Len(f[b].entries)
        BY <1>1, <2>1, <3>2 DEF PositionsOf
      <4>3. q = n <=> q[2] = Len(f[b].entries) + 1
        BY <3>2
      <4> QED BY <1>1, <2>1, <4>1, <4>2, <4>3
    <3> QED BY <3>1, <3>2
  <2>9. n \notin PositionsOf(f) /\ n \in Nat \X Nat
    BY <1>1, <2>1 DEF PositionsOf
  <2>10. PlaceAt(g, n) = place /\ EntryAt(g, n) = e
    BY <2>2, <2>4, <2>7 DEF PlaceAt, EntryAt
  <2>11. ASSUME NEW q \in PositionsOf(f)
         PROVE  /\ PlaceAt(g, q) = PlaceAt(f, q) /\ EntryAt(g, q) = EntryAt(f, q)
                /\ PlaceAt(f, q) = place => NotAfter(q, n)
    <3>1. q[1] \in DOMAIN f /\ q[2] \in DOMAIN f[q[1]].entries
      BY DEF PositionsOf
    <3>2. PlaceAt(g, q) = PlaceAt(f, q)
      BY <2>6, <3>1 DEF PlaceAt
    <3>3. EntryAt(g, q) = EntryAt(f, q)
      BY <2>4, <2>7, <3>1 DEF EntryAt
    <3>4. PlaceAt(f, q) = place => q[1] = b
      BY <2>1, <3>1 DEF OneBlockEach, PlaceAt
    <3>5. q[1] = b => NotAfter(q, n)
      BY <1>1, <2>1, <3>1 DEF NotAfter
    <3> QED BY <3>2, <3>3, <3>4, <3>5
  <2>12. PositionsOf(g) = PositionsOf(f) \cup {n}
    BY <2>8
  <2>13. Grown(f, g, n, place, e)
    BY <2>9, <2>10, <2>11, <2>12 DEF Grown
  <2>14. OneBlockEach(g)
    BY <2>4, <2>6 DEF OneBlockEach
  <2> QED BY <2>5, <2>13, <2>14 DEF Files, Block
<1>3. CASE ~ \E b \in DOMAIN f : f[b].place = place
  <2> DEFINE block == [place |-> place, entries |-> <<e>>]
             n == <<Len(f) + 1, 1>>
  <2>1. /\ block \in Block /\ block.place = place /\ block.entries = <<e>>
        /\ DOMAIN block.entries = {1} /\ block.entries[1] = e
    BY DEF Block
  <2>2. g = Append(f, block)
    BY <1>3 DEF AddedTo
  <2> HIDE DEF block
  <2>3. /\ g \in Seq(Block) /\ DOMAIN g = 1 .. Len(f) + 1 /\ g[Len(f) + 1] = block
        /\ \A a \in DOMAIN f : g[a] = f[a]
    BY <1>1, <2>1, <2>2
  <2>4. \A q : q \in PositionsOf(g) <=> q \in PositionsOf(f) \/ q = n
    <3> SUFFICES ASSUME NEW q \in Nat \X Nat
                 PROVE  q \in PositionsOf(g) <=> q \in PositionsOf(f) \/ q = n
      BY <1>1 DEF PositionsOf
    <3>1. CASE q[1] \in DOMAIN f
      BY <1>1, <2>3, <3>1 DEF PositionsOf
    <3>2. CASE q[1] = Len(f) + 1
      BY <1>1, <2>1, <2>3, <3>2 DEF PositionsOf
    <3>3. CASE q[1] \notin DOMAIN g
      BY <1>1, <2>3, <3>3 DEF PositionsOf
    <3> QED BY <1>1, <2>3, <3>1, <3>2, <3>3
  <2>5. n \notin PositionsOf(f) /\ n \in Nat \X Nat
    BY <1>1 DEF PositionsOf
  <2>6. PlaceAt(g, n) = place /\ EntryAt(g, n) = e
    BY <2>1, <2>3 DEF PlaceAt, EntryAt
  <2>7. ASSUME NEW q \in PositionsOf(f)
        PROVE  /\ PlaceAt(g, q) = PlaceAt(f, q) /\ EntryAt(g, q) = EntryAt(f, q)
               /\ PlaceAt(f, q) = place => NotAfter(q, n)
    BY <1>3, <2>3 DEF PositionsOf, PlaceAt, EntryAt
  <2>8. PositionsOf(g) = PositionsOf(f) \cup {n}
    BY <2>4
  <2>9. Grown(f, g, n, place, e)
    BY <2>5, <2>6, <2>7, <2>8 DEF Grown
  <2>10. OneBlockEach(g)
    BY <1>1, <1>3, <2>1, <2>3 DEF OneBlockEach
  <2> QED BY <2>3, <2>9, <2>10 DEF Files, Block
<1> QED BY <1>2, <1>3


-----------------------------------------------------------------------------
(* The invariant of a file *)

\* An entry that matches has a name of the card, or its id.
LEMMA MatchIs ==
    ASSUME NEW e \in Entries, NEW c \in Cards
    PROVE  /\ MatchesEntry(e, Sense[c], Names(c)) <=>
                  (e.id = None /\ e.name \in Names(c)) \/ e.id = Sense[c]
           /\ Sense[c] # None /\ Sense[c] \in Senses
BY SenseAssumption DEF MatchesEntry, Senses

LEMMA SenseIs == \A c \in Cards : Sense[c] \in Senses /\ Sense[c] # None
BY SenseAssumption DEF Senses

\* One card for an id.
LEMMA SenseOnce == \A c, d \in Cards : Sense[c] = Sense[d] => c = d
BY SenseAssumption

LEMMA TargetIs ==
    ASSUME NEW f \in Files, NEW c \in Cards, NEW p
    PROVE  p \in TargetsOf(f, c) <=>
               /\ p \in PositionsOf(f) /\ PlaceAt(f, p) = Place[c]
               /\ (EntryAt(f, p).id = None /\ EntryAt(f, p).name \in Names(c)) \/ EntryAt(f, p).id = Sense[c]
BY EntriesAre, MatchIs DEF TargetsOf

LEMMA OwnName == \A c \in Cards : Name[c] \in Names(c) /\ Name[c] # None
BY NameAssumption DEF Names

\* An answer at the first entry the card finds.
LEMMA TagKeeps ==
    ASSUME NEW f, FileInv(f), NEW c \in Cards, TargetsOf(f, c) # {},
           NEW p, p = Earliest(TargetsOf(f, c)), NEW e \in Entries,
           e.id = Sense[c], e.name = EntryAt(f, p).name,
           e.logs = EntryAt(f, p).logs \cup {c},
           NEW g \in Files, OneBlockEach(g), Rewritten(f, g, p, e)
    PROVE  FileInv(g)
<1>1. f \in Files /\ Untagged(f) /\ Tagged(f)
  BY DEF FileInv
<1>2. TargetsOf(f, c) \subseteq Nat \X Nat
  BY DEF TargetsOf, PositionsOf
<1>3. p \in TargetsOf(f, c) /\ \A q \in TargetsOf(f, c) : NotAfter(p, q)
  BY <1>2, EarliestIs
<1>4. /\ p \in PositionsOf(f) /\ PlaceAt(f, p) = Place[c]
      /\ (EntryAt(f, p).id = None /\ EntryAt(f, p).name \in Names(c)) \/ EntryAt(f, p).id = Sense[c]
  BY <1>1, <1>3, TargetIs
\* No other entry has the id.
<1>5. ASSUME NEW q \in PositionsOf(f), EntryAt(f, q).id = Sense[c] PROVE q = p
  <2>1. PlaceAt(f, q) = Place[c] /\ \A r \in TargetsOf(f, c) : NotAfter(q, r)
    BY <1>1, <1>5 DEF Tagged
  <2>2. q \in TargetsOf(f, c)
    BY <1>1, <1>5, <2>1, TargetIs
  <2> QED BY <1>2, <1>3, <2>1, <2>2, FirstOnce
<1>6. e.name \in Names(c) /\ e.logs \cap Cards \subseteq {c}
  BY <1>1, <1>4 DEF Tagged, Untagged
<1>7. /\ PositionsOf(g) = PositionsOf(f) /\ EntryAt(g, p) = e
      /\ \A q \in PositionsOf(f) : PlaceAt(g, q) = PlaceAt(f, q)
      /\ \A q \in PositionsOf(f) : q # p => EntryAt(g, q) = EntryAt(f, q)
  BY <1>4 DEF Rewritten
<1>8. Sense[c] # None
  BY MatchIs
<1>9. Untagged(g)
  BY <1>1, <1>7, <1>8 DEF Untagged
<1>10. \A d \in Cards : TargetsOf(g, d) \subseteq TargetsOf(f, d)
  <2> SUFFICES ASSUME NEW d \in Cards, NEW q \in TargetsOf(g, d) PROVE q \in TargetsOf(f, d)
    OBVIOUS
  <2>1. /\ q \in PositionsOf(g) /\ PlaceAt(g, q) = Place[d]
        /\ (EntryAt(g, q).id = None /\ EntryAt(g, q).name \in Names(d)) \/ EntryAt(g, q).id = Sense[d]
    BY TargetIs
  <2>2. CASE q = p
    <3>1. d = c
      BY <1>7, <1>8, <2>1, <2>2, SenseOnce
    <3> QED BY <1>3, <2>2, <3>1
  <2>3. CASE q # p
    BY <1>1, <1>7, <2>1, <2>3, TargetIs
  <2> QED BY <2>2, <2>3
<1>11. Tagged(g)
  <2> SUFFICES ASSUME NEW q \in PositionsOf(g), NEW d \in Cards, EntryAt(g, q).id = Sense[d]
               PROVE  /\ PlaceAt(g, q) = Place[d] /\ EntryAt(g, q).name \in Names(d)
                      /\ EntryAt(g, q).logs \cap Cards \subseteq {d}
                      /\ \A r \in TargetsOf(g, d) : NotAfter(q, r)
    BY DEF Tagged
  <2>1. CASE q = p
    <3>1. d = c
      BY <1>7, <2>1, SenseOnce
    <3> QED BY <1>3, <1>4, <1>6, <1>7, <1>10, <2>1, <3>1
  <2>2. CASE q # p
    BY <1>1, <1>7, <1>10, <2>2 DEF Tagged
  <2> QED BY <2>1, <2>2
<1> QED BY <1>9, <1>11 DEF FileInv

\* The first answer of a card that finds no entry.
LEMMA EntryKeeps ==
    ASSUME NEW f, FileInv(f), NEW c \in Cards, TargetsOf(f, c) = {}, NEW e \in Entries,
           e.id = Sense[c], e.name = Name[c], e.logs = {c},
           NEW g \in Files, OneBlockEach(g), NEW n, Grown(f, g, n, Place[c], e)
    PROVE  FileInv(g)
<1>1. f \in Files /\ Untagged(f) /\ Tagged(f)
  BY DEF FileInv
<1>2. /\ PositionsOf(g) = PositionsOf(f) \cup {n} /\ n \notin PositionsOf(f)
      /\ PlaceAt(g, n) = Place[c] /\ EntryAt(g, n) = e /\ n \in Nat \X Nat
      /\ \A q \in PositionsOf(f) : PlaceAt(g, q) = PlaceAt(f, q) /\ EntryAt(g, q) = EntryAt(f, q)
  BY DEF Grown
<1>3. Sense[c] # None
  BY MatchIs
<1>4. Untagged(g)
  BY <1>1, <1>2, <1>3 DEF Untagged
<1>5. ASSUME NEW d \in Cards, NEW q \in TargetsOf(g, d)
      PROVE  q \in TargetsOf(f, d) \/ (d = c /\ q = n)
  <2>1. /\ q \in PositionsOf(g) /\ PlaceAt(g, q) = Place[d]
        /\ (EntryAt(g, q).id = None /\ EntryAt(g, q).name \in Names(d)) \/ EntryAt(g, q).id = Sense[d]
    BY TargetIs
  <2>2. CASE q = n
    BY <1>2, <1>3, <2>1, <2>2, SenseOnce
  <2>3. CASE q # n
    BY <1>1, <1>2, <2>1, <2>3, TargetIs
  <2> QED BY <2>2, <2>3
<1>6. ASSUME NEW q \in PositionsOf(f) PROVE EntryAt(f, q).id # Sense[c]
  BY <1>1, TargetIs DEF Tagged
<1>7. Tagged(g)
  <2> SUFFICES ASSUME NEW q \in PositionsOf(g), NEW d \in Cards, EntryAt(g, q).id = Sense[d]
               PROVE  /\ PlaceAt(g, q) = Place[d] /\ EntryAt(g, q).name \in Names(d)
                      /\ EntryAt(g, q).logs \cap Cards \subseteq {d}
                      /\ \A r \in TargetsOf(g, d) : NotAfter(q, r)
    BY DEF Tagged
  <2>1. CASE q = n
    <3>1. d = c
      BY <1>2, <2>1, SenseOnce
    <3>2. \A r \in TargetsOf(g, d) : r = n
      BY <1>5, <3>1
    <3>3. NotAfter(n, n)
      BY <1>2 DEF NotAfter
    <3> QED BY <1>2, <2>1, <3>1, <3>2, <3>3, OwnName
  <2>2. CASE q # n
    <3>1. q \in PositionsOf(f) /\ EntryAt(f, q).id = Sense[d]
      BY <1>2, <2>2
    <3>2. d # c
      BY <1>6, <3>1
    <3> QED BY <1>1, <1>2, <1>5, <3>1, <3>2 DEF Tagged
  <2> QED BY <2>1, <2>2
<1> QED BY <1>4, <1>7 DEF FileInv

\* A skip or resume of an entry.
LEMMA SkipKeeps ==
    ASSUME NEW f, FileInv(f), NEW p, NEW e \in Entries,
           e.id = EntryAt(f, p).id, e.name = EntryAt(f, p).name, e.logs = EntryAt(f, p).logs,
           NEW g \in Files, OneBlockEach(g), Rewritten(f, g, p, e)
    PROVE  FileInv(g) /\ \A c \in Cards : TargetsOf(g, c) = TargetsOf(f, c)
<1>1. f \in Files /\ Untagged(f) /\ Tagged(f)
  BY DEF FileInv
<1>2. /\ PositionsOf(g) = PositionsOf(f)
      /\ \A q \in PositionsOf(f) : /\ PlaceAt(g, q) = PlaceAt(f, q)
                                   /\ EntryAt(g, q).id = EntryAt(f, q).id
                                   /\ EntryAt(g, q).name = EntryAt(f, q).name
                                   /\ EntryAt(g, q).logs = EntryAt(f, q).logs
  BY DEF Rewritten
<1>3. \A c \in Cards : TargetsOf(g, c) = TargetsOf(f, c)
  <2> SUFFICES ASSUME NEW c \in Cards, NEW q PROVE q \in TargetsOf(g, c) <=> q \in TargetsOf(f, c)
    OBVIOUS
  <2> QED BY <1>1, <1>2, TargetIs
<1>4. Untagged(g)
  BY <1>1, <1>2 DEF Untagged
<1>5. Tagged(g)
  BY <1>1, <1>2, <1>3 DEF Tagged
<1> QED BY <1>3, <1>4, <1>5 DEF FileInv

\* The stub of a word that has no entry anywhere.
LEMMA StubKeeps ==
    ASSUME NEW f, FileInv(f), NEW c \in Cards, NEW e \in Entries,
           \A q \in PositionsOf(f) : EntryAt(f, q).name # Name[c],
           e.id = None, e.name = Name[c], e.logs = {},
           NEW g \in Files, OneBlockEach(g), NEW n, Grown(f, g, n, Place[c], e)
    PROVE  FileInv(g)
<1>1. f \in Files /\ Untagged(f) /\ Tagged(f)
  BY DEF FileInv
<1>2. /\ PositionsOf(g) = PositionsOf(f) \cup {n} /\ n \notin PositionsOf(f)
      /\ PlaceAt(g, n) = Place[c] /\ EntryAt(g, n) = e /\ n \in Nat \X Nat
      /\ \A q \in PositionsOf(f) : /\ PlaceAt(g, q) = PlaceAt(f, q) /\ EntryAt(g, q) = EntryAt(f, q)
                                   /\ PlaceAt(f, q) = Place[c] => NotAfter(q, n)
  BY DEF Grown
<1>3. Untagged(g)
  BY <1>1, <1>2 DEF Untagged
<1>4. ASSUME NEW d \in Cards, NEW q \in TargetsOf(g, d)
      PROVE  q \in TargetsOf(f, d) \/ (Place[d] = Place[c] /\ q = n)
  <2>1. /\ q \in PositionsOf(g) /\ PlaceAt(g, q) = Place[d]
        /\ (EntryAt(g, q).id = None /\ EntryAt(g, q).name \in Names(d)) \/ EntryAt(g, q).id = Sense[d]
    BY TargetIs
  <2> QED BY <1>1, <1>2, <2>1, TargetIs
<1>5. Tagged(g)
  <2> SUFFICES ASSUME NEW q \in PositionsOf(g), NEW d \in Cards, EntryAt(g, q).id = Sense[d]
               PROVE  /\ PlaceAt(g, q) = Place[d] /\ EntryAt(g, q).name \in Names(d)
                      /\ EntryAt(g, q).logs \cap Cards \subseteq {d}
                      /\ \A r \in TargetsOf(g, d) : NotAfter(q, r)
    BY DEF Tagged
  <2>1. q \in PositionsOf(f) /\ EntryAt(f, q).id = Sense[d]
    BY <1>2, MatchIs
  <2> QED BY <1>1, <1>2, <1>4, <2>1 DEF Tagged
<1> QED BY <1>3, <1>5 DEF FileInv


-----------------------------------------------------------------------------
(* The calls *)

ByNameOf(f, c) == {p \in PositionsOf(f) : EntryAt(f, p).name = Name[c]}

LEMMA ByNameIs ==
    ASSUME file \in Files, NEW c \in Cards
    PROVE  ByName(c) = ByNameOf(file, c) /\ ByNameOf(file, c) \subseteq Nat \X Nat
BY PositionsAre DEF ByName, ByNameOf, PositionsOf

\* The entry at a position gets the id and the answer of a card.
Answers(f, g, c) ==
    \E e \in Entries :
        /\ e.id = Sense[c]
        /\ \/ /\ TargetsOf(f, c) = {} /\ e.name = Name[c] /\ e.logs = {c} /\ e.skipped = FALSE
              /\ \E n : Grown(f, g, n, Place[c], e)
           \/ /\ TargetsOf(f, c) # {}
              /\ \E p : /\ p = Earliest(TargetsOf(f, c)) /\ Rewritten(f, g, p, e)
                        /\ e.name = EntryAt(f, p).name /\ e.logs = EntryAt(f, p).logs \cup {c}
                        /\ e.skipped = EntryAt(f, p).skipped

\* The first entry of a name, or else a stub, is excluded.
Skips(f, g, c) ==
    \E e \in Entries :
        /\ e.skipped = TRUE
        /\ \/ /\ ByNameOf(f, c) = {} /\ e.name = Name[c] /\ e.logs = {} /\ e.id = None
              /\ \E n : Grown(f, g, n, Place[c], e)
           \/ /\ ByNameOf(f, c) # {}
              /\ \E p : /\ p = Earliest(ByNameOf(f, c)) /\ Rewritten(f, g, p, e)
                        /\ e.name = EntryAt(f, p).name /\ e.logs = EntryAt(f, p).logs
                        /\ e.id = EntryAt(f, p).id

\* The first entry of a name, if there is one, is no longer excluded.
Resumes(f, g, c) ==
    \/ ByNameOf(f, c) = {} /\ g = f
    \/ \E e \in Entries : \E p :
           /\ ByNameOf(f, c) # {} /\ p = Earliest(ByNameOf(f, c)) /\ Rewritten(f, g, p, e)
           /\ e.name = EntryAt(f, p).name /\ e.logs = EntryAt(f, p).logs
           /\ e.id = EntryAt(f, p).id /\ e.skipped = FALSE

LEMMA AnswerIs ==
    ASSUME FileInv(file), NEW c \in Cards, Answer(c)
    PROVE  file' \in Files /\ OneBlockEach(file') /\ Answers(file, file', c)
<1>1. file \in Files /\ OneBlockEach(file) /\ Targets(c) = TargetsOf(file, c)
  BY TargetsAre DEF FileInv
<1>2. Sense[c] \in Senses \cup {None} /\ Place[c] \in Scenes
  BY SenseIs, NameAssumption
<1>3. CASE Targets(c) = {}
  <2> DEFINE e == Entry(Name[c], Sense[c], {c})
  <2>1. /\ e \in Entries /\ e.id = Sense[c] /\ e.name = Name[c] /\ e.logs = {c} /\ e.skipped = FALSE
    <3>1. {c} \in SUBSET (Cards \cup {Legacy})
      OBVIOUS
    <3> QED BY <1>2, <3>1, NameAssumption DEF Entry, Entries
  <2>2. file' = AddedTo(file, Place[c], e)
    BY <1>3 DEF Answer, Added, AddedTo
  <2> HIDE DEF e
  <2>3. file' \in Files /\ OneBlockEach(file') /\ \E n : Grown(file, file', n, Place[c], e)
    BY <1>1, <1>2, <2>1, <2>2, AddedIs
  <2> QED BY <1>1, <1>3, <2>1, <2>3 DEF Answers
<1>4. CASE Targets(c) # {}
  <2> DEFINE p == Earliest(Targets(c))
             old == EntryAt(file, p)
             e == [old EXCEPT !.id = IF @ = None THEN Sense[c] ELSE @, !.logs = @ \cup {c}]
  <2>1. TargetsOf(file, c) \subseteq Nat \X Nat
    BY DEF TargetsOf, PositionsOf
  <2>2. p \in TargetsOf(file, c)
    BY <1>1, <1>4, <2>1, EarliestIs
  <2>3. p \in PositionsOf(file) /\ (old.id = None \/ old.id = Sense[c]) /\ old \in Entries
    BY <1>1, <2>2, TargetIs, EntriesAre
  <2>4. file' = [file EXCEPT ![p[1]].entries[p[2]] = e]
    <3>1. file' = Changed(p, [At(p) EXCEPT !.id = IF @ = None THEN Sense[c] ELSE @,
                                           !.logs = @ \cup {c}])
      BY <1>4 DEF Answer
    <3>2. At(p) = old
      BY <1>1, PositionsAre
    <3> QED BY <3>1, <3>2 DEF Changed
  <2> HIDE DEF p, old
  <2>5. /\ e \in Entries /\ e.id = Sense[c] /\ e.name = old.name /\ e.logs = old.logs \cup {c}
        /\ e.skipped = old.skipped
    BY <1>2, <2>3 DEF Entries
  <2> HIDE DEF e
  <2>6. file' \in Files /\ OneBlockEach(file') /\ Rewritten(file, file', p, e)
    BY <1>1, <2>3, <2>4, <2>5, ChangedIs
  <2> QED BY <1>1, <1>4, <2>5, <2>6 DEF Answers, p, old
<1> QED BY <1>3, <1>4

\* The first entry of a name with its exclusion set or cleared.
LEMMA MarkIs ==
    ASSUME FileInv(file), NEW c \in Cards, ByName(c) # {}, NEW p, p = Earliest(ByName(c)),
           NEW skipped \in BOOLEAN, file' = Changed(p, [At(p) EXCEPT !.skipped = skipped])
    PROVE  /\ file' \in Files /\ OneBlockEach(file')
           /\ \E e \in Entries : /\ Rewritten(file, file', p, e)
                                 /\ e.name = EntryAt(file, p).name /\ e.logs = EntryAt(file, p).logs
                                 /\ e.id = EntryAt(file, p).id /\ e.skipped = skipped
<1>1. /\ file \in Files /\ OneBlockEach(file) /\ ByName(c) = ByNameOf(file, c)
      /\ ByNameOf(file, c) \subseteq Nat \X Nat
  BY ByNameIs DEF FileInv
<1>2. p \in ByNameOf(file, c)
  BY <1>1, EarliestIs
<1> DEFINE old == EntryAt(file, p)
           e == [old EXCEPT !.skipped = skipped]
<1>3. p \in PositionsOf(file) /\ old \in Entries
  BY <1>1, <1>2, EntriesAre DEF ByNameOf
<1>4. file' = [file EXCEPT ![p[1]].entries[p[2]] = e]
  BY <1>1, PositionsAre DEF Changed
<1> HIDE DEF old
<1>5. /\ e \in Entries /\ e.name = old.name /\ e.logs = old.logs /\ e.id = old.id
      /\ e.skipped = skipped
  BY <1>3 DEF Entries
<1> HIDE DEF e
<1>6. file' \in Files /\ OneBlockEach(file') /\ Rewritten(file, file', p, e)
  BY <1>1, <1>3, <1>4, <1>5, ChangedIs
<1> QED BY <1>5, <1>6 DEF old

LEMMA SkipIs ==
    ASSUME FileInv(file), NEW c \in Cards, SkipWord(c)
    PROVE  file' \in Files /\ OneBlockEach(file') /\ Skips(file, file', c)
<1>1. file \in Files /\ OneBlockEach(file) /\ ByName(c) = ByNameOf(file, c) /\ Place[c] \in Scenes
  BY ByNameIs, NameAssumption DEF FileInv
<1>2. CASE ByName(c) = {}
  <2> DEFINE old == Entry(Name[c], None, {})
             e == [old EXCEPT !.skipped = TRUE]
  <2>1. /\ old \in Entries /\ old.name = Name[c] /\ old.logs = {} /\ old.id = None
    <3>1. {} \in SUBSET (Cards \cup {Legacy}) /\ None \in Senses \cup {None}
      OBVIOUS
    <3> QED BY <3>1, NameAssumption DEF Entry, Entries
  <2>2. file' = AddedTo(file, Place[c], e)
    BY <1>2 DEF SkipWord, WithSkip, Added, AddedTo
  <2> HIDE DEF old
  <2>3. /\ e \in Entries /\ e.skipped = TRUE /\ e.name = Name[c] /\ e.logs = {} /\ e.id = None
    BY <2>1 DEF Entries
  <2> HIDE DEF e
  <2>4. file' \in Files /\ OneBlockEach(file') /\ \E n : Grown(file, file', n, Place[c], e)
    BY <1>1, <2>2, <2>3, AddedIs
  <2> QED BY <1>1, <1>2, <2>3, <2>4 DEF Skips
<1>3. CASE ByName(c) # {}
  <2>1. PICK p : p = Earliest(ByName(c))
    OBVIOUS
  <2>2. file' = Changed(p, [At(p) EXCEPT !.skipped = TRUE])
    BY <1>3, <2>1 DEF SkipWord, WithSkip
  <2>3. /\ file' \in Files /\ OneBlockEach(file')
        /\ \E e \in Entries : /\ Rewritten(file, file', p, e)
                              /\ e.name = EntryAt(file, p).name /\ e.logs = EntryAt(file, p).logs
                              /\ e.id = EntryAt(file, p).id /\ e.skipped = TRUE
    BY <1>3, <2>1, <2>2, MarkIs
  <2> QED BY <1>1, <1>3, <2>1, <2>3 DEF Skips
<1> QED BY <1>2, <1>3

LEMMA ResumeIs ==
    ASSUME FileInv(file), NEW c \in Cards, ResumeWord(c)
    PROVE  file' \in Files /\ OneBlockEach(file') /\ Resumes(file, file', c)
<1>1. file \in Files /\ OneBlockEach(file) /\ ByName(c) = ByNameOf(file, c)
  BY ByNameIs DEF FileInv
<1>2. CASE ByName(c) = {}
  BY <1>1, <1>2 DEF ResumeWord, WithoutSkip, Resumes
<1>3. CASE ByName(c) # {}
  <2>1. PICK p : p = Earliest(ByName(c))
    OBVIOUS
  <2>2. file' = Changed(p, [At(p) EXCEPT !.skipped = FALSE])
    BY <1>3, <2>1 DEF ResumeWord, WithoutSkip
  <2>3. /\ file' \in Files /\ OneBlockEach(file')
        /\ \E e \in Entries : /\ Rewritten(file, file', p, e)
                              /\ e.name = EntryAt(file, p).name /\ e.logs = EntryAt(file, p).logs
                              /\ e.id = EntryAt(file, p).id /\ e.skipped = FALSE
    BY <1>3, <2>1, <2>2, MarkIs
  <2> QED BY <1>1, <1>3, <2>1, <2>3 DEF Resumes
<1> QED BY <1>2, <1>3

-----------------------------------------------------------------------------
(* The invariant *)

\* Nothing is lost of what an entry with an id has.
LEMMA KeptIs ==
    ASSUME NEW f, NEW g, NEW cards, Kept(f, cards),
           \A c \in cards, q \in PositionsOf(f) :
               EntryAt(f, q).id = Sense[c] /\ c \in EntryAt(f, q).logs =>
                   q \in PositionsOf(g) /\ EntryAt(g, q).id = Sense[c] /\ c \in EntryAt(g, q).logs
    PROVE  Kept(g, cards)
BY DEF Kept

LEMMA AnswerKeeps ==
    ASSUME NEW f, FileInv(f), NEW g \in Files, OneBlockEach(g), NEW c \in Cards, Answers(f, g, c),
           NEW cards \in SUBSET Cards, Kept(f, cards)
    PROVE  FileInv(g) /\ Kept(g, cards \cup {c})
<1>1. PICK e \in Entries :
          /\ e.id = Sense[c]
          /\ \/ /\ TargetsOf(f, c) = {} /\ e.name = Name[c] /\ e.logs = {c} /\ e.skipped = FALSE
                /\ \E n : Grown(f, g, n, Place[c], e)
             \/ /\ TargetsOf(f, c) # {}
                /\ \E p : /\ p = Earliest(TargetsOf(f, c)) /\ Rewritten(f, g, p, e)
                          /\ e.name = EntryAt(f, p).name /\ e.logs = EntryAt(f, p).logs \cup {c}
                          /\ e.skipped = EntryAt(f, p).skipped
  BY DEF Answers
<1>2. CASE TargetsOf(f, c) = {}
  <2>1. PICK n : Grown(f, g, n, Place[c], e)
    BY <1>1, <1>2
  <2>2. FileInv(g)
    BY <1>1, <1>2, <2>1, EntryKeeps
  <2>3. Kept(g, cards)
    BY <2>1, KeptIs DEF Grown
  <2>4. Kept(g, {c})
    BY <1>1, <1>2, <2>1 DEF Grown, Kept
  <2> QED BY <2>2, <2>3, <2>4 DEF Kept
<1>3. CASE TargetsOf(f, c) # {}
  <2>1. PICK p : /\ p = Earliest(TargetsOf(f, c)) /\ Rewritten(f, g, p, e)
                 /\ e.name = EntryAt(f, p).name /\ e.logs = EntryAt(f, p).logs \cup {c}
    BY <1>1, <1>3
  <2>2. FileInv(g)
    BY <1>1, <1>3, <2>1, TagKeeps
  <2>3. TargetsOf(f, c) \subseteq Nat \X Nat /\ f \in Files
    BY DEF TargetsOf, PositionsOf, FileInv
  <2>4. p \in TargetsOf(f, c)
    BY <1>3, <2>1, <2>3, EarliestIs
  <2>5. EntryAt(f, p).id = None \/ EntryAt(f, p).id = Sense[c]
    BY <2>3, <2>4, TargetIs
  <2>6. \A d \in cards : Sense[d] = EntryAt(f, p).id => Sense[d] = Sense[c]
    BY <2>5, MatchIs
  <2>7. Kept(g, cards)
    <3> SUFFICES ASSUME NEW d \in cards, NEW q \in PositionsOf(f),
                        EntryAt(f, q).id = Sense[d] /\ d \in EntryAt(f, q).logs
                 PROVE  /\ q \in PositionsOf(g) /\ EntryAt(g, q).id = Sense[d]
                        /\ d \in EntryAt(g, q).logs
      BY KeptIs
    <3> QED BY <1>1, <2>1, <2>6 DEF Rewritten
  <2>8. Kept(g, {c})
    BY <1>1, <2>1 DEF Rewritten, Kept
  <2> QED BY <2>2, <2>7, <2>8 DEF Kept
<1> QED BY <1>2, <1>3

LEMMA SkipWordKeeps ==
    ASSUME NEW f, FileInv(f), NEW g \in Files, OneBlockEach(g), NEW c \in Cards,
           Skips(f, g, c) \/ Resumes(f, g, c), NEW cards \in SUBSET Cards, Kept(f, cards)
    PROVE  FileInv(g) /\ Kept(g, cards)
<1>1. CASE \E e \in Entries : \E n : /\ ByNameOf(f, c) = {} /\ e.name = Name[c] /\ e.logs = {} /\ e.id = None
                                     /\ Grown(f, g, n, Place[c], e)
  <2> PICK e \in Entries : \E n : /\ ByNameOf(f, c) = {} /\ e.name = Name[c] /\ e.logs = {} /\ e.id = None
                                  /\ Grown(f, g, n, Place[c], e)
    BY <1>1
  <2>1. PICK n : /\ ByNameOf(f, c) = {} /\ e.name = Name[c] /\ e.logs = {} /\ e.id = None
                 /\ Grown(f, g, n, Place[c], e)
    OBVIOUS
  <2>2. \A q \in PositionsOf(f) : EntryAt(f, q).name # Name[c]
    BY <2>1 DEF ByNameOf
  <2>3. FileInv(g)
    BY <2>1, <2>2, StubKeeps
  <2>4. Kept(g, cards)
    BY <2>1, KeptIs DEF Grown
  <2> QED BY <2>3, <2>4
<1>2. CASE \E e \in Entries : \E p : /\ Rewritten(f, g, p, e) /\ e.name = EntryAt(f, p).name
                                     /\ e.logs = EntryAt(f, p).logs /\ e.id = EntryAt(f, p).id
  <2> PICK e \in Entries : \E p : /\ Rewritten(f, g, p, e) /\ e.name = EntryAt(f, p).name
                                  /\ e.logs = EntryAt(f, p).logs /\ e.id = EntryAt(f, p).id
    BY <1>2
  <2>1. PICK p : /\ Rewritten(f, g, p, e) /\ e.name = EntryAt(f, p).name
                 /\ e.logs = EntryAt(f, p).logs /\ e.id = EntryAt(f, p).id
    OBVIOUS
  <2>2. FileInv(g)
    BY <2>1, SkipKeeps
  <2>3. Kept(g, cards)
    BY <2>1, KeptIs DEF Rewritten
  <2> QED BY <2>2, <2>3
<1>3. CASE g = f
  BY <1>3
<1> QED BY <1>1, <1>2, <1>3 DEF Skips, Resumes

LEMMA InitInv == Init => IInv
<1> SUFFICES ASSUME Init PROVE IInv
  OBVIOUS
<1>1. /\ file \in Files /\ OneBlockEach(file)
      /\ \A b \in DOMAIN file : \A i, j \in DOMAIN file[b].entries :
             /\ file[b].entries[i] \in {Entry(n, None, logs) : n \in Spellings, logs \in SUBSET {Legacy}}
             /\ file[b].entries[i].name = file[b].entries[j].name => i = j
  BY OldFilesAssumption DEF Init, OneBlockEach
<1>2. ASSUME NEW p \in PositionsOf(file)
      PROVE  /\ p = <<p[1], p[2]>> /\ p[1] \in DOMAIN file /\ p[2] \in DOMAIN file[p[1]].entries
             /\ EntryAt(file, p).id = None /\ EntryAt(file, p).logs \cap Cards = {}
  <2>1. p = <<p[1], p[2]>> /\ p[1] \in DOMAIN file /\ p[2] \in DOMAIN file[p[1]].entries
    BY DEF PositionsOf
  <2>2. PICK n \in Spellings, logs \in SUBSET {Legacy} : EntryAt(file, p) = Entry(n, None, logs)
    BY <1>1, <2>1 DEF EntryAt
  <2>3. EntryAt(file, p).id = None /\ EntryAt(file, p).logs = logs
    BY <2>2 DEF Entry
  <2> QED BY <2>1, <2>3, NameAssumption
<1>3. Untagged(file)
  <2>1. ASSUME NEW p \in PositionsOf(file), NEW q \in PositionsOf(file),
               PlaceAt(file, p) = PlaceAt(file, q), EntryAt(file, p).name = EntryAt(file, q).name
        PROVE  p = q
    <3>1. p[1] = q[1]
      BY <1>1, <1>2, <2>1 DEF OneBlockEach, PlaceAt
    <3>2. p[2] = q[2]
      BY <1>1, <1>2, <2>1, <3>1 DEF EntryAt
    <3> QED BY <1>2, <3>1, <3>2
  <2> QED BY <1>2, <2>1 DEF Untagged
<1>4. Tagged(file)
  BY <1>2, SenseIs DEF Tagged
<1> QED BY <1>1, <1>3, <1>4 DEF Init, IInv, FileInv, Kept

LEMMA NextInv == IInv /\ [Next]_vars => IInv'
<1> SUFFICES ASSUME IInv, [Next]_vars PROVE IInv'
  OBVIOUS
<1>1. FileInv(file) /\ answered \in SUBSET Cards /\ excluded \in SUBSET Cards /\ Kept(file, answered)
  BY DEF IInv
<1>2. ASSUME NEW c \in Cards, Answer(c) PROVE IInv'
  <2>1. file' \in Files /\ OneBlockEach(file') /\ Answers(file, file', c)
    BY <1>1, <1>2, AnswerIs
  <2>2. FileInv(file') /\ Kept(file', answered \cup {c})
    BY <1>1, <2>1, AnswerKeeps
  <2> QED BY <1>1, <1>2, <2>2 DEF Answer, IInv
<1>3. ASSUME NEW c \in Cards, SkipWord(c) PROVE IInv'
  <2>1. file' \in Files /\ OneBlockEach(file') /\ Skips(file, file', c)
    BY <1>1, <1>3, SkipIs
  <2>2. FileInv(file') /\ Kept(file', answered)
    BY <1>1, <2>1, SkipWordKeeps
  <2> QED BY <1>1, <1>3, <2>2 DEF SkipWord, IInv
<1>4. ASSUME NEW c \in Cards, ResumeWord(c) PROVE IInv'
  <2>1. file' \in Files /\ OneBlockEach(file') /\ Resumes(file, file', c)
    BY <1>1, <1>4, ResumeIs
  <2>2. FileInv(file') /\ Kept(file', answered)
    BY <1>1, <2>1, SkipWordKeeps
  <2> QED BY <1>1, <1>4, <2>2 DEF ResumeWord, IInv
<1>5. CASE UNCHANGED vars
  BY <1>1, <1>5 DEF vars, IInv
<1> QED BY <1>2, <1>3, <1>4, <1>5 DEF Next

LEMMA Invariance == Spec => []IInv
BY InitInv, NextInv, PTL DEF Spec

\* One block for each place, and one entry for each name and id in a block: no sequence
\* of answers, skips and resumes forks the history of a word, for every notebook with
\* unique ids (the lookups of learning_history_updater.go).
THEOREM HistoriesDoNotFork == Spec => []NoForks
<1>1. IInv => NoForks
  <2> SUFFICES ASSUME IInv PROVE NoForks
    OBVIOUS
  <2>1. /\ file \in Files /\ OneBlockEach(file) /\ Untagged(file) /\ Tagged(file)
        /\ Positions = PositionsOf(file) /\ \A p : At(p) = EntryAt(file, p)
    BY PositionsAre DEF IInv, FileInv
  <2>2. ASSUME NEW p \in PositionsOf(file), NEW q \in PositionsOf(file),
               PlaceAt(file, p) = PlaceAt(file, q),
               EntryAt(file, p).name = EntryAt(file, q).name,
               EntryAt(file, p).id = EntryAt(file, q).id
        PROVE  p = q
    <3>1. CASE EntryAt(file, p).id = None
      BY <2>1, <2>2, <3>1 DEF Untagged
    <3>2. CASE EntryAt(file, p).id # None
      <4>1. EntryAt(file, p) \in Entries
        BY <2>1, EntriesAre
      <4>2. PICK c \in Cards : EntryAt(file, p).id = Sense[c]
        BY <3>2, <4>1 DEF Entries, Senses
      <4>3. PlaceAt(file, p) = Place[c]
        BY <2>1, <4>2 DEF Tagged
      <4>4. p \in TargetsOf(file, c) /\ q \in TargetsOf(file, c)
        BY <2>1, <2>2, <4>2, <4>3, TargetIs
      <4>5. NotAfter(p, q) /\ NotAfter(q, p)
        BY <2>1, <2>2, <4>2, <4>4 DEF Tagged
      <4>6. p \in Nat \X Nat /\ q \in Nat \X Nat
        BY DEF PositionsOf
      <4> QED BY <4>5, <4>6, FirstOnce
    <3> QED BY <3>1, <3>2
  <2> QED BY <2>1, <2>2 DEF NoForks, OneBlockEach, PlaceAt
<1> QED BY <1>1, Invariance, PTL

\* Homographs keep their histories apart, in one scene too: an entry with an id has the
\* answers of that sense only, beside what it had before ids (MatchesEntry).
THEOREM HomographsStayApart == Spec => []SensesApart
<1>1. IInv => SensesApart
  <2> SUFFICES ASSUME IInv, NEW p \in Positions, At(p).id # None,
                      NEW c \in Cards, c \in At(p).logs
               PROVE  Sense[c] = At(p).id
    BY DEF SensesApart
  <2>1. /\ file \in Files /\ Tagged(file)
        /\ p \in PositionsOf(file) /\ At(p) = EntryAt(file, p)
    BY PositionsAre DEF IInv, FileInv
  <2>2. EntryAt(file, p) \in Entries
    BY <2>1, EntriesAre
  <2>3. PICK d \in Cards : EntryAt(file, p).id = Sense[d]
    BY <2>1, <2>2 DEF Entries, Senses
  <2>4. c = d
    BY <2>1, <2>3 DEF Tagged
  <2> QED BY <2>1, <2>3, <2>4
<1> QED BY <1>1, Invariance, PTL

\* The loaders see every answer that was given for a card, whichever entry it went to:
\* an entry with logs that a loader meets first is the one the answers go to (GetLogs
\* against UpdateOrCreateExpressionWithQuality).
THEOREM AnswersAreReadBack == Spec => []AnswersAreSeen
<1>1. IInv => AnswersAreSeen
  <2> SUFFICES ASSUME IInv, NEW c \in answered PROVE c \in GetLogs(c)
    BY DEF AnswersAreSeen
  <2>1. /\ file \in Files /\ Tagged(file) /\ c \in Cards
        /\ Positions = PositionsOf(file) /\ \A p : At(p) = EntryAt(file, p)
    BY PositionsAre DEF IInv, FileInv
  <2>2. PICK p \in PositionsOf(file) : EntryAt(file, p).id = Sense[c] /\ c \in EntryAt(file, p).logs
    BY DEF IInv, Kept
  <2>3. PlaceAt(file, p) = Place[c] /\ \A q \in TargetsOf(file, c) : NotAfter(p, q)
    BY <2>1, <2>2 DEF Tagged
  <2> DEFINE hits == {q \in TargetsOf(file, c) : EntryAt(file, q).logs # {}}
  <2>4. p \in hits /\ hits \subseteq Nat \X Nat
    BY <2>1, <2>2, <2>3, TargetIs DEF TargetsOf, PositionsOf
  <2>5. Earliest(hits) = p
    <3> HIDE DEF hits
    <3>1. Earliest(hits) \in hits /\ \A q \in hits : NotAfter(Earliest(hits), q)
      BY <2>4, EarliestIs
    <3>2. NotAfter(p, Earliest(hits)) /\ NotAfter(Earliest(hits), p)
      BY <2>3, <2>4, <3>1 DEF hits
    <3> QED BY <2>4, <3>1, <3>2, FirstOnce
  <2>6. hits = {q \in Positions : /\ file[q[1]].place = Place[c]
                                  /\ MatchesEntry(At(q), Sense[c], Names(c))
                                  /\ At(q).logs # {}}
    BY <2>1 DEF TargetsOf, PlaceAt
  <2> HIDE DEF hits
  <2>7. GetLogs(c) = EntryAt(file, p).logs
    BY <2>1, <2>4, <2>5, <2>6 DEF GetLogs
  <2> QED BY <2>2, <2>7
<1> QED BY <1>1, Invariance, PTL

-----------------------------------------------------------------------------
(* Exclusions of plain words *)

PlainIn(f, c) ==
    /\ Original[c] = None
    /\ \A d \in Cards : Name[c] \in Names(d) => d = c
    /\ \A p \in PositionsOf(f) : EntryAt(f, p).name = Name[c] => PlaceAt(f, p) = Place[c]

SkippedIn(f, c) ==
    TargetsOf(f, c) # {} /\ EntryAt(f, Earliest(TargetsOf(f, c))).skipped = TRUE

\* The exclusions of plain words are where the loaders look.
PlainRead(f, cards) == \A c \in Cards : PlainIn(f, c) => (c \in cards <=> SkippedIn(f, c))

\* A plain word is found by its name alone, in whatever way it is looked up.
LEMMA PlainTargets ==
    ASSUME NEW f, FileInv(f), NEW c \in Cards, PlainIn(f, c)
    PROVE  TargetsOf(f, c) = ByNameOf(f, c)
<1>1. f \in Files /\ Tagged(f) /\ Names(c) = {Name[c]}
  BY OwnName DEF FileInv, PlainIn, Names
<1>2. ASSUME NEW p \in TargetsOf(f, c) PROVE p \in ByNameOf(f, c)
  <2>1. /\ p \in PositionsOf(f) /\ PlaceAt(f, p) = Place[c]
        /\ (EntryAt(f, p).id = None /\ EntryAt(f, p).name \in Names(c)) \/ EntryAt(f, p).id = Sense[c]
    BY <1>1, TargetIs
  <2>2. EntryAt(f, p).name \in Names(c)
    BY <1>1, <2>1 DEF Tagged
  <2> QED BY <1>1, <2>1, <2>2 DEF ByNameOf
<1>3. ASSUME NEW p \in ByNameOf(f, c) PROVE p \in TargetsOf(f, c)
  <2>1. p \in PositionsOf(f) /\ EntryAt(f, p).name = Name[c] /\ PlaceAt(f, p) = Place[c]
    BY DEF ByNameOf, PlainIn
  <2>2. EntryAt(f, p) \in Entries
    BY <1>1, <2>1, EntriesAre
  <2>3. CASE EntryAt(f, p).id = None
    BY <1>1, <2>1, <2>3, TargetIs
  <2>4. CASE EntryAt(f, p).id # None
    <3>1. PICK d \in Cards : EntryAt(f, p).id = Sense[d]
      BY <2>2, <2>4 DEF Entries, Senses
    <3>2. Name[c] \in Names(d)
      BY <1>1, <2>1, <3>1 DEF Tagged
    <3>3. d = c
      BY <3>2 DEF PlainIn
    <3> QED BY <1>1, <2>1, <3>1, <3>3, TargetIs
  <2> QED BY <2>3, <2>4
<1> QED BY <1>2, <1>3

\* An entry that changes keeps its name, so plain words stay plain and are found where
\* they were.
LEMMA PlainRewritten ==
    ASSUME NEW f, FileInv(f), NEW g, FileInv(g), NEW c \in Cards, PlainIn(g, c),
           NEW p, NEW e, Rewritten(f, g, p, e), e.name = EntryAt(f, p).name
    PROVE  /\ PlainIn(f, c) /\ TargetsOf(g, c) = TargetsOf(f, c)
           /\ TargetsOf(f, c) # {} => Earliest(TargetsOf(f, c)) \in ByNameOf(f, c)
           /\ p # Earliest(TargetsOf(f, c)) \/ TargetsOf(f, c) = {} => (SkippedIn(g, c) <=> SkippedIn(f, c))
           /\ p = Earliest(TargetsOf(f, c)) /\ TargetsOf(f, c) # {} => (SkippedIn(g, c) <=> e.skipped = TRUE)
<1>1. PlainIn(f, c)
  BY DEF PlainIn, Rewritten
<1>2. TargetsOf(g, c) = ByNameOf(g, c) /\ TargetsOf(f, c) = ByNameOf(f, c)
  BY <1>1, PlainTargets
<1>3. ByNameOf(g, c) = ByNameOf(f, c)
  BY DEF ByNameOf, Rewritten
<1>4. TargetsOf(f, c) \subseteq PositionsOf(f) /\ TargetsOf(f, c) \subseteq Nat \X Nat
  BY DEF TargetsOf, PositionsOf
<1>5. ASSUME TargetsOf(f, c) # {} PROVE Earliest(TargetsOf(f, c)) \in TargetsOf(f, c)
  BY <1>4, <1>5, EarliestIs
<1> DEFINE q == Earliest(TargetsOf(f, c))
<1>6. ASSUME TargetsOf(f, c) # {}
      PROVE  /\ SkippedIn(g, c) <=> EntryAt(g, q).skipped = TRUE
             /\ SkippedIn(f, c) <=> EntryAt(f, q).skipped = TRUE
             /\ EntryAt(g, q) = IF q = p THEN e ELSE EntryAt(f, q)
  BY <1>2, <1>3, <1>4, <1>5, <1>6 DEF SkippedIn, Rewritten
<1>7. ASSUME TargetsOf(f, c) = {} PROVE ~SkippedIn(g, c) /\ ~SkippedIn(f, c)
  BY <1>2, <1>3, <1>7 DEF SkippedIn
<1> HIDE DEF q
<1>8. TargetsOf(f, c) # {} => q \in ByNameOf(f, c)
  BY <1>2, <1>5 DEF q
<1>9. p # q \/ TargetsOf(f, c) = {} => (SkippedIn(g, c) <=> SkippedIn(f, c))
  BY <1>6, <1>7
<1>10. p = q /\ TargetsOf(f, c) # {} => (SkippedIn(g, c) <=> e.skipped = TRUE)
  BY <1>6
<1> QED BY <1>1, <1>2, <1>3, <1>8, <1>9, <1>10 DEF q

\* A new entry of another name leaves them alone too.
LEMMA PlainGrown ==
    ASSUME NEW f, FileInv(f), NEW g, FileInv(g), NEW c \in Cards, PlainIn(g, c),
           NEW n, NEW place, NEW e, Grown(f, g, n, place, e)
    PROVE  /\ PlainIn(f, c)
           /\ e.name # Name[c] => (SkippedIn(g, c) <=> SkippedIn(f, c))
           /\ e.name = Name[c] /\ ByNameOf(f, c) = {} =>
                  ~SkippedIn(f, c) /\ (SkippedIn(g, c) <=> e.skipped = TRUE)
<1>1. PlainIn(f, c)
  BY DEF PlainIn, Grown
<1>2. TargetsOf(g, c) = ByNameOf(g, c) /\ TargetsOf(f, c) = ByNameOf(f, c)
  BY <1>1, PlainTargets
<1>3. /\ PositionsOf(g) = PositionsOf(f) \cup {n} /\ EntryAt(g, n) = e
      /\ n \notin PositionsOf(f) /\ n \in Nat \X Nat
      /\ \A q \in PositionsOf(f) : EntryAt(g, q) = EntryAt(f, q)
  BY DEF Grown
<1>4. CASE e.name # Name[c]
  <2>1. ByNameOf(g, c) = ByNameOf(f, c)
    BY <1>3, <1>4 DEF ByNameOf
  <2>2. ByNameOf(f, c) \subseteq PositionsOf(f) /\ ByNameOf(f, c) \subseteq Nat \X Nat
    BY DEF ByNameOf, PositionsOf
  <2>3. CASE ByNameOf(f, c) = {}
    BY <1>1, <1>2, <1>4, <2>1, <2>3 DEF SkippedIn
  <2>4. CASE ByNameOf(f, c) # {}
    <3>1. Earliest(ByNameOf(f, c)) \in PositionsOf(f)
      BY <2>2, <2>4, EarliestIs
    <3>2. EntryAt(g, Earliest(ByNameOf(f, c))) = EntryAt(f, Earliest(ByNameOf(f, c)))
      BY <1>3, <3>1
    <3> QED BY <1>1, <1>2, <1>4, <2>1, <3>2 DEF SkippedIn
  <2> QED BY <2>3, <2>4
<1>5. CASE e.name = Name[c] /\ ByNameOf(f, c) = {}
  <2>1. ByNameOf(g, c) = {n}
    BY <1>3, <1>5 DEF ByNameOf
  <2>2. Earliest({n}) = n
    BY <1>3, EarliestIs
  <2> QED BY <1>1, <1>2, <1>3, <1>5, <2>1, <2>2 DEF SkippedIn
<1> QED BY <1>1, <1>4, <1>5

\* The names of another card's entries are not those of a plain one.
LEMMA PlainName ==
    ASSUME NEW f, NEW c \in Cards, PlainIn(f, c), NEW d \in Cards, Name[d] = Name[c] PROVE d = c
BY OwnName DEF PlainIn

LEMMA PlainAnswer ==
    ASSUME NEW f, FileInv(f), NEW g, FileInv(g), NEW c \in Cards, Answers(f, g, c),
           NEW cards, PlainRead(f, cards)
    PROVE  PlainRead(g, cards)
<1> SUFFICES ASSUME NEW d \in Cards, PlainIn(g, d) PROVE d \in cards <=> SkippedIn(g, d)
  BY DEF PlainRead
<1>1. PICK e \in Entries :
          /\ e.id = Sense[c]
          /\ \/ /\ TargetsOf(f, c) = {} /\ e.name = Name[c] /\ e.logs = {c} /\ e.skipped = FALSE
                /\ \E n : Grown(f, g, n, Place[c], e)
             \/ /\ TargetsOf(f, c) # {}
                /\ \E p : /\ p = Earliest(TargetsOf(f, c)) /\ Rewritten(f, g, p, e)
                          /\ e.name = EntryAt(f, p).name /\ e.logs = EntryAt(f, p).logs \cup {c}
                          /\ e.skipped = EntryAt(f, p).skipped
  BY DEF Answers
<1>2. CASE TargetsOf(f, c) = {}
  <2>1. PICK n : Grown(f, g, n, Place[c], e)
    BY <1>1, <1>2
  <2>2. PlainIn(f, d)
    BY <2>1, PlainGrown
  <2>3. e.name = Name[d] => d = c /\ ByNameOf(f, d) = {}
    BY <1>1, <1>2, <2>2, PlainName, PlainTargets
  <2>4. SkippedIn(g, d) <=> SkippedIn(f, d)
    BY <1>1, <1>2, <2>1, <2>3, PlainGrown
  <2> QED BY <2>2, <2>4 DEF PlainRead
<1>3. CASE TargetsOf(f, c) # {}
  <2>1. PICK p : /\ p = Earliest(TargetsOf(f, c)) /\ Rewritten(f, g, p, e)
                 /\ e.name = EntryAt(f, p).name /\ e.skipped = EntryAt(f, p).skipped
    BY <1>1, <1>3
  <2>2. PlainIn(f, d)
    BY <2>1, PlainRewritten
  <2>3. SkippedIn(g, d) <=> SkippedIn(f, d)
    <3>1. CASE p # Earliest(TargetsOf(f, d)) \/ TargetsOf(f, d) = {}
      BY <2>1, <3>1, PlainRewritten
    <3>2. CASE p = Earliest(TargetsOf(f, d)) /\ TargetsOf(f, d) # {}
      <4>1. SkippedIn(g, d) <=> e.skipped = TRUE
        BY <2>1, <3>2, PlainRewritten
      <4>2. SkippedIn(f, d) <=> EntryAt(f, p).skipped = TRUE
        BY <3>2 DEF SkippedIn
      <4> QED BY <2>1, <4>1, <4>2
    <3> QED BY <3>1, <3>2
  <2> QED BY <2>2, <2>3 DEF PlainRead
<1> QED BY <1>2, <1>3

\* A mark of the first entry of a name is read for a plain word of that name only.
LEMMA PlainMark ==
    ASSUME NEW f, FileInv(f), NEW g, FileInv(g), NEW c \in Cards, ByNameOf(f, c) # {},
           NEW e, NEW p, p = Earliest(ByNameOf(f, c)), Rewritten(f, g, p, e),
           e.name = EntryAt(f, p).name, NEW d \in Cards, PlainIn(g, d)
    PROVE  /\ PlainIn(f, d)
           /\ d # c => (SkippedIn(g, d) <=> SkippedIn(f, d))
           /\ d = c => (SkippedIn(g, d) <=> e.skipped = TRUE)
<1>1. PlainIn(f, d)
  BY PlainRewritten
<1>2. TargetsOf(f, d) = ByNameOf(f, d)
  BY <1>1, PlainTargets
<1>3. ByNameOf(f, c) \subseteq Nat \X Nat
  BY DEF ByNameOf, PositionsOf
<1>4. EntryAt(f, p).name = Name[c]
  <2>1. p \in ByNameOf(f, c)
    BY <1>3, EarliestIs
  <2> QED BY <2>1 DEF ByNameOf
<1>5. CASE d = c
  BY <1>1, <1>2, <1>5, PlainRewritten
<1>6. CASE d # c
  <2>1. Name[c] # Name[d]
    BY <1>1, <1>6, PlainName
  <2>2. p # Earliest(TargetsOf(f, d)) \/ TargetsOf(f, d) = {}
    <3> SUFFICES ASSUME TargetsOf(f, d) # {} PROVE p # Earliest(TargetsOf(f, d))
      OBVIOUS
    <3>1. Earliest(TargetsOf(f, d)) \in ByNameOf(f, d)
      BY PlainRewritten
    <3>2. EntryAt(f, Earliest(TargetsOf(f, d))).name = Name[d]
      BY <3>1 DEF ByNameOf
    <3> QED BY <1>4, <2>1, <3>2
  <2>3. SkippedIn(g, d) <=> SkippedIn(f, d)
    BY <2>2, PlainRewritten
  <2> QED BY <1>1, <1>6, <2>3
<1> QED BY <1>5, <1>6

LEMMA PlainSkip ==
    ASSUME NEW f, FileInv(f), NEW g, FileInv(g), NEW c \in Cards, Skips(f, g, c),
           NEW cards, PlainRead(f, cards)
    PROVE  PlainRead(g, cards \cup {c})
<1> SUFFICES ASSUME NEW d \in Cards, PlainIn(g, d) PROVE d \in cards \cup {c} <=> SkippedIn(g, d)
  BY DEF PlainRead
<1>1. PICK e \in Entries :
          /\ e.skipped = TRUE
          /\ \/ /\ ByNameOf(f, c) = {} /\ e.name = Name[c]
                /\ \E n : Grown(f, g, n, Place[c], e)
             \/ /\ ByNameOf(f, c) # {}
                /\ \E p : /\ p = Earliest(ByNameOf(f, c)) /\ Rewritten(f, g, p, e)
                          /\ e.name = EntryAt(f, p).name
  BY DEF Skips
<1>2. CASE ByNameOf(f, c) = {}
  <2>1. PICK n : Grown(f, g, n, Place[c], e)
    BY <1>1, <1>2
  <2>2. PlainIn(f, d)
    BY <2>1, PlainGrown
  <2>3. CASE d = c
    BY <1>1, <1>2, <2>1, <2>3, PlainGrown
  <2>4. CASE d # c
    <3>1. e.name # Name[d]
      BY <1>1, <1>2, <2>2, <2>4, PlainName
    <3>2. SkippedIn(g, d) <=> SkippedIn(f, d)
      BY <2>1, <3>1, PlainGrown
    <3> QED BY <2>2, <2>4, <3>2 DEF PlainRead
  <2> QED BY <2>3, <2>4
<1>3. CASE ByNameOf(f, c) # {}
  <2>1. PICK p : /\ p = Earliest(ByNameOf(f, c)) /\ Rewritten(f, g, p, e)
                 /\ e.name = EntryAt(f, p).name
    BY <1>1, <1>3
  <2>2. /\ PlainIn(f, d)
        /\ d # c => (SkippedIn(g, d) <=> SkippedIn(f, d))
        /\ d = c => (SkippedIn(g, d) <=> e.skipped = TRUE)
    BY <1>3, <2>1, PlainMark
  <2> QED BY <1>1, <2>2 DEF PlainRead
<1> QED BY <1>2, <1>3

LEMMA PlainResume ==
    ASSUME NEW f, FileInv(f), NEW g, FileInv(g), NEW c \in Cards, Resumes(f, g, c),
           NEW cards, PlainRead(f, cards)
    PROVE  PlainRead(g, cards \ {c})
<1> SUFFICES ASSUME NEW d \in Cards, PlainIn(g, d) PROVE d \in cards \ {c} <=> SkippedIn(g, d)
  BY DEF PlainRead
<1>1. CASE ByNameOf(f, c) = {}
  <2>1. g = f
    BY <1>1 DEF Resumes
  <2>2. d = c => ~SkippedIn(f, d)
    BY <1>1, <2>1, PlainTargets DEF SkippedIn
  <2> QED BY <2>1, <2>2 DEF PlainRead
<1>2. CASE ByNameOf(f, c) # {}
  <2> PICK e \in Entries : \E p : /\ p = Earliest(ByNameOf(f, c)) /\ Rewritten(f, g, p, e)
                                  /\ e.name = EntryAt(f, p).name /\ e.skipped = FALSE
    BY <1>2 DEF Resumes
  <2>1. PICK p : /\ p = Earliest(ByNameOf(f, c)) /\ Rewritten(f, g, p, e)
                 /\ e.name = EntryAt(f, p).name /\ e.skipped = FALSE
    OBVIOUS
  <2>2. /\ PlainIn(f, d)
        /\ d # c => (SkippedIn(g, d) <=> SkippedIn(f, d))
        /\ d = c => (SkippedIn(g, d) <=> e.skipped = TRUE)
    BY <1>2, <2>1, PlainMark
  <2> QED BY <2>1, <2>2 DEF PlainRead
<1> QED BY <1>1, <1>2

LEMMA PlainNext == IInv /\ IInv' /\ PlainRead(file, excluded) /\ [Next]_vars => PlainRead(file', excluded')
<1> SUFFICES ASSUME IInv, IInv', PlainRead(file, excluded), [Next]_vars
             PROVE  PlainRead(file', excluded')
  OBVIOUS
<1>1. FileInv(file) /\ FileInv(file')
  BY DEF IInv
<1>2. ASSUME NEW c \in Cards, Answer(c) PROVE PlainRead(file', excluded')
  <2>1. Answers(file, file', c) /\ excluded' = excluded
    BY <1>1, <1>2, AnswerIs DEF Answer
  <2> QED BY <1>1, <2>1, PlainAnswer
<1>3. ASSUME NEW c \in Cards, SkipWord(c) PROVE PlainRead(file', excluded')
  <2>1. Skips(file, file', c) /\ excluded' = excluded \cup {c}
    BY <1>1, <1>3, SkipIs DEF SkipWord
  <2> QED BY <1>1, <2>1, PlainSkip
<1>4. ASSUME NEW c \in Cards, ResumeWord(c) PROVE PlainRead(file', excluded')
  <2>1. Resumes(file, file', c) /\ excluded' = excluded \ {c}
    BY <1>1, <1>4, ResumeIs DEF ResumeWord
  <2> QED BY <1>1, <2>1, PlainResume
<1>5. CASE UNCHANGED vars
  BY <1>5 DEF vars
<1> QED BY <1>2, <1>3, <1>4, <1>5 DEF Next

LEMMA PlainInit == Init => PlainRead(file, excluded)
<1> SUFFICES ASSUME Init, NEW c \in Cards, SkippedIn(file, c) PROVE FALSE
  BY DEF Init, PlainRead
<1> DEFINE p == Earliest(TargetsOf(file, c))
<1>1. TargetsOf(file, c) \subseteq Nat \X Nat /\ TargetsOf(file, c) # {}
  BY DEF TargetsOf, PositionsOf, SkippedIn
<1>2. p \in TargetsOf(file, c)
  BY <1>1, EarliestIs
<1>3. p[1] \in DOMAIN file /\ p[2] \in DOMAIN file[p[1]].entries
  BY <1>2 DEF TargetsOf, PositionsOf
<1>4. \A b \in DOMAIN file : \A i \in DOMAIN file[b].entries :
          file[b].entries[i] \in {Entry(n, None, logs) : n \in Spellings, logs \in SUBSET {Legacy}}
  BY OldFilesAssumption DEF Init
<1>5. PICK n \in Spellings, logs \in SUBSET {Legacy} : EntryAt(file, p) = Entry(n, None, logs)
  BY SMTT(30), <1>3, <1>4 DEF EntryAt
<1> QED BY <1>5 DEF Entry, SkippedIn

\* For a word with one form and one place, the loaders leave out exactly the words that
\* are excluded, however answers, skips and resumes of all words alternate: SkipWord and
\* ResumeWord take the first entry of the name, and that is the entry the card finds
\* (FindExpressionInHistories against IsExpressionSkipped).
THEOREM PlainSkipsAreHonoured == Spec => []PlainSkipsAreRead
<1>1. IInv /\ PlainRead(file, excluded) => PlainSkipsAreRead
  <2> SUFFICES ASSUME IInv, PlainRead(file, excluded), NEW c \in Cards, Plain(c)
               PROVE  (c \in excluded) = IsExpressionSkipped(c)
    BY DEF PlainSkipsAreRead
  <2>1. /\ file \in Files /\ Positions = PositionsOf(file) /\ \A p : At(p) = EntryAt(file, p)
    BY PositionsAre DEF IInv, FileInv
  <2>2. PlainIn(file, c)
    BY <2>1 DEF Plain, PlainIn, PlaceAt
  <2> DEFINE hits == {p \in Positions : /\ file[p[1]].place = Place[c]
                                        /\ MatchesEntry(At(p), Sense[c], Names(c))}
  <2>3. hits = TargetsOf(file, c)
    BY <2>1 DEF TargetsOf, PlaceAt
  <2>4. IsExpressionSkipped(c) <=> hits # {} /\ At(Earliest(hits)).skipped
    BY DEF IsExpressionSkipped
  <2>5. IsExpressionSkipped(c) <=> SkippedIn(file, c)
    <3> HIDE DEF hits
    <3>1. hits # {} => Earliest(hits) \in hits
      BY <2>3, EarliestIs DEF TargetsOf, PositionsOf
    <3>2. hits # {} => EntryAt(file, Earliest(hits)) \in Entries
      BY <2>1, <2>3, <3>1, EntriesAre DEF TargetsOf
    <3>3. hits # {} => At(Earliest(hits)).skipped \in BOOLEAN
      BY <2>1, <3>2 DEF Entries
    <3>4. hits # {} => (At(Earliest(hits)).skipped <=> At(Earliest(hits)).skipped = TRUE)
      BY <3>3
    <3> QED BY <2>1, <2>3, <2>4, <3>4 DEF SkippedIn
  <2>6. (c \in excluded) <=> IsExpressionSkipped(c)
    BY <2>2, <2>5 DEF PlainRead
  <2> HIDE DEF hits
  <2>7. IsExpressionSkipped(c) \in BOOLEAN
    BY DEF IsExpressionSkipped
  <2> QED BY <2>6, <2>7
<1>2. Init => PlainRead(file, excluded)
  BY PlainInit
<1>3. IInv /\ IInv' /\ PlainRead(file, excluded) /\ [Next]_vars => PlainRead(file, excluded)'
  BY PlainNext
<1> QED BY <1>1, <1>2, <1>3, Invariance, PTL DEF Spec

=============================================================================
