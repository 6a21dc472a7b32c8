-------------------------- MODULE QuizSessionProofs --------------------------
(***************************************************************************)
(* Theorems of QuizSession.                                                *)
(***************************************************************************)
EXTENDS QuizSession, FiniteSetTheorems, TLAPS

Slot  == [card : Cards, session : Nat]
Shown == [id : Nat, card : Cards]
Page  == [quiz : Quizzes \cup {"none"}, session : Nat, shown : Seq(Shown), sent : Nat,
          again : Seq(Nat), accept : BOOLEAN, stored : Seq(Nat), failed : BOOLEAN]
Req   == [pc : {"idle", "lookup", "grade", "save"}, todo : Seq(Nat), got : Seq(Slot),
          grades : Seq({"plain", "synonym"}), saved : Nat]

StoreInv(s) ==
    /\ s = [q \in Stores |-> s[q]]
    /\ \A q \in Stores : \A id \in DOMAIN s[q] : id \in Nat /\ s[q][id] \in Slot

PageInv(p) ==
    /\ p \in Page
    /\ Len(p.stored) = Len(p.shown)
    /\ p.sent <= Len(p.shown)
    /\ \A i \in DOMAIN p.again : p.again[i] \in DOMAIN p.shown
    /\ p.quiz = "freeform" => Len(p.again) = 0

\* How far the request r of a page p is.
ReqInv(p, r) ==
    /\ r \in Req
    /\ r.pc = "idle" => r = NoReq
    /\ r.pc # "idle" => Len(r.todo) # 0
    /\ p.quiz = "freeform" => Len(r.todo) <= 1
    /\ \A k \in DOMAIN r.todo : r.todo[k] \in DOMAIN p.shown
    /\ Len(r.got) <= Len(r.todo)
    /\ r.pc = "lookup" => Len(r.got) < Len(r.todo) /\ (p.quiz # "grammar" => Len(r.got) = 0)
    /\ r.pc \in {"grade", "save"} => Len(r.got) = Len(r.todo)
    /\ r.pc = "save" => Len(r.grades) = Len(r.todo)
    /\ r.saved <= Len(r.todo)
    /\ r.pc \in {"lookup", "grade"} => r.saved = 0

TInv ==
    /\ StoreInv(store)
    /\ freeformCards \subseteq Cards
    /\ nextID \in Nat \ {0}
    /\ page \in [Tabs -> Page] /\ req \in [Tabs -> Req]
    /\ \A t \in Tabs : PageInv(page[t]) /\ ReqInv(page[t], req[t])
    /\ starts \in Nat /\ calls \in Nat

Distinct(s) == \A i, j \in DOMAIN s : s[i] = s[j] => i = j

-----------------------------------------------------------------------------
(* The state is well formed *)

LEMMA EmptySeq == \A S : << >> \in Seq(S) /\ DOMAIN << >> = {} /\ Len(<< >>) = 0
OBVIOUS

LEMMA SingleSeq == \A S : \A x \in S : <<x>> \in Seq(S) /\ DOMAIN <<x>> = {1} /\ <<x>>[1] = x /\ Len(<<x>>) = 1
OBVIOUS

LEMMA NoReqInv == \A p : ReqInv(p, NoReq)
BY EmptySeq DEF ReqInv, NoReq, Req

LEMMA NoPageInv == PageInv(NoPage)
BY EmptySeq DEF PageInv, NoPage, Page

LEMMA OpenedPage ==
    ASSUME NEW quiz \in Quizzes, NEW session \in Nat, NEW shown \in Seq(Shown), NEW stored \in Seq(Nat)
    PROVE  [NoPage EXCEPT !.quiz = quiz, !.session = session, !.shown = shown, !.stored = stored] \in Page
BY NoPageInv DEF PageInv, Page

\* A function on the positions of a sequence is a sequence.
LEMMA MappedSeq ==
    ASSUME NEW S, NEW n \in Nat, NEW f, f = [i \in 1 .. n |-> f[i]], \A i \in 1 .. n : f[i] \in S
    PROVE  f \in Seq(S) /\ Len(f) = n /\ DOMAIN f = 1 .. n
<1>1. [i \in 1 .. n |-> f[i]] \in Seq(S) /\ Len([i \in 1 .. n |-> f[i]]) = n
  OBVIOUS
<1> QED BY <1>1

LEMMA AppendedSeq ==
    ASSUME NEW S, NEW s \in Seq(S), NEW x \in S
    PROVE  /\ Append(s, x) \in Seq(S)
           /\ Len(Append(s, x)) = Len(s) + 1
           /\ \A i \in DOMAIN s : Append(s, x)[i] = s[i]
           /\ Append(s, x)[Len(s) + 1] = x
           /\ DOMAIN Append(s, x) = 1 .. (Len(s) + 1)
           /\ DOMAIN s = 1 .. Len(s)
OBVIOUS

\* What a step of one tab has to show.
LEMMA TypedStep ==
    ASSUME TInv, NEW t \in Tabs, NEW p, NEW r,
           page' = [page EXCEPT ![t] = p], req' = [req EXCEPT ![t] = r],
           PageInv(p), ReqInv(p, r),
           StoreInv(store'), freeformCards' \subseteq Cards,
           nextID' \in Nat \ {0}, starts' \in Nat, calls' \in Nat
    PROVE  TInv' /\ page'[t] = p /\ req'[t] = r
                 /\ \A u \in Tabs \ {t} : page'[u] = page[u] /\ req'[u] = req[u]
<1>1. page'[t] = p /\ req'[t] = r /\ \A u \in Tabs \ {t} : page'[u] = page[u] /\ req'[u] = req[u]
  BY DEF TInv
<1>2. page' \in [Tabs -> Page] /\ req' \in [Tabs -> Req]
  BY DEF TInv, PageInv, ReqInv
<1>3. \A u \in Tabs : PageInv(page'[u]) /\ ReqInv(page'[u], req'[u])
  BY <1>1 DEF TInv
<1>4. StoreInv(store)'
  BY DEF StoreInv
<1>5. (\A u \in Tabs : PageInv(page[u]) /\ ReqInv(page[u], req[u]))'
  BY <1>3 DEF PageInv, ReqInv
<1> QED BY <1>1, <1>2, <1>4, <1>5 DEF TInv

LEMMA DeckSeq == \A cards \in Decks : cards \in Seq(Cards) /\ Len(cards) \in 1 .. MaxDeck /\ Distinct(cards)
BY BoundsAssumption DEF Decks, Distinct

LEMMA IDsType ==
    ASSUME TInv, NEW quiz, NEW cards \in Seq(Cards)
    PROVE  /\ DOMAIN IDs(quiz, cards) = DOMAIN cards
           /\ \A i \in DOMAIN cards : IDs(quiz, cards)[i] \in Nat
BY RelearnAssumption DEF IDs, TInv

LEMMA EntriesOf ==
    ASSUME NEW ids, NEW cards, NEW session, DOMAIN ids = DOMAIN cards
    PROVE  /\ \A i \in DOMAIN ids : ids[i] \in DOMAIN Entries(ids, cards, session)
           /\ \A id \in DOMAIN Entries(ids, cards, session) :
                  \E i \in DOMAIN ids : /\ ids[i] = id
                                        /\ Entries(ids, cards, session)[id]
                                               = [card |-> cards[i], session |-> session]
<1>1. ASSUME NEW id \in {ids[i] : i \in DOMAIN ids}
      PROVE  LET i == CHOOSE i \in DOMAIN ids : ids[i] = id
             IN  /\ i \in DOMAIN ids /\ ids[i] = id
                 /\ Entries(ids, cards, session)[id] = [card |-> cards[i], session |-> session]
  BY DEF Entries
<1> QED BY <1>1 DEF Entries

\* A page is opened: it shows cards under the ids it was given, and nothing is in flight.
LEMMA ShowType ==
    ASSUME TInv, NEW t \in Tabs, NEW quiz, NEW ids, NEW cards \in Seq(Cards), Show(t, quiz, ids, cards),
           DOMAIN ids = DOMAIN cards, \A i \in DOMAIN cards : ids[i] \in Nat,
           StoreInv(store'), freeformCards' \subseteq Cards, nextID' \in Nat \ {0}
    PROVE  /\ TInv'
           /\ req' = req /\ req[t] = NoReq
           /\ page'[t].quiz = quiz /\ page'[t].session = starts + 1
           /\ page'[t].shown = [i \in DOMAIN cards |-> [id |-> ids[i], card |-> cards[i]]]
           /\ page'[t].sent = 0 /\ page'[t].again = << >> /\ ~page'[t].accept
           /\ page'[t].stored = [i \in DOMAIN cards |-> 0]
           /\ \A u \in Tabs \ {t} : page'[u] = page[u]
<1> DEFINE shown  == [i \in DOMAIN cards |-> [id |-> ids[i], card |-> cards[i]]]
           stored == [i \in DOMAIN cards |-> 0]
           p      == [NoPage EXCEPT !.quiz = quiz, !.session = starts + 1,
                                    !.shown = shown, !.stored = stored]
<1>1. /\ quiz \in Quizzes /\ starts \in Nat /\ starts' = starts + 1
      /\ page' = [page EXCEPT ![t] = p] /\ UNCHANGED <<req, calls>> /\ calls \in Nat
      /\ req[t].pc = "idle"
  BY DEF Show, TInv
<1>2. /\ shown \in Seq(Shown) /\ stored \in Seq(Nat)
      /\ Len(shown) = Len(cards) /\ Len(stored) = Len(cards)
  <2>1. DOMAIN cards = 1 .. Len(cards) /\ Len(cards) \in Nat
    OBVIOUS
  <2>2. \A i \in DOMAIN cards : shown[i] \in Shown /\ stored[i] \in Nat
    BY DEF Shown
  <2>3. shown = [i \in 1 .. Len(cards) |-> shown[i]] /\ stored = [i \in 1 .. Len(cards) |-> stored[i]]
    BY <2>1
  <2> HIDE DEF shown, stored
  <2> QED BY <2>1, <2>2, <2>3, MappedSeq
<1> HIDE DEF shown, stored
<1>3. /\ p.quiz = quiz /\ p.session = starts + 1 /\ p.shown = shown /\ p.sent = 0
      /\ p.again = << >> /\ ~p.accept /\ p.stored = stored
  BY DEF NoPage, p
<1> HIDE DEF p
<1>t. p \in Page
  <2>1. starts + 1 \in Nat
    BY <1>1
  <2> QED BY <1>1, <1>2, <2>1, OpenedPage DEF p
<1>4. PageInv(p)
  BY <1>2, <1>3, <1>t, EmptySeq DEF PageInv
<1>5. req[t] = NoReq /\ req' = [req EXCEPT ![t] = NoReq]
  BY <1>1 DEF TInv, ReqInv
<1>6. TInv' /\ page'[t] = p /\ \A u \in Tabs \ {t} : page'[u] = page[u]
  <2>1. starts' \in Nat /\ calls' \in Nat /\ ReqInv(p, NoReq)
    BY <1>1, NoReqInv
  <2> QED BY <1>1, <1>4, <1>5, <2>1, TypedStep
<1> QED BY <1>1, <1>3, <1>5, <1>6 DEF shown, stored

\* A store that gets the cards of a session.
LEMMA StartStore ==
    ASSUME TInv, NEW t \in Tabs, NEW quiz \in Batched, NEW cards \in Decks, Start(t, quiz, cards)
    PROVE  LET ids   == IDs(quiz, cards)
               fresh == Entries(ids, cards, starts + 1)
           IN  /\ Show(t, quiz, ids, cards)
               /\ store'[quiz] = IF quiz = "relearn" THEN Merged(fresh, store[quiz]) ELSE fresh
               /\ \A q \in Stores \ {quiz} : store'[q] = store[q]
               /\ cards \in Seq(Cards) /\ DOMAIN ids = DOMAIN cards
               /\ \A i \in DOMAIN cards : ids[i] \in Nat /\ cards[i] \in Cards
               /\ \A i \in DOMAIN ids : ids[i] \in DOMAIN fresh
               /\ \A id \in DOMAIN fresh :
                      \E i \in DOMAIN ids : /\ ids[i] = id
                                            /\ fresh[id] = [card |-> cards[i], session |-> starts + 1]
               /\ \A id \in DOMAIN fresh : id \in Nat /\ fresh[id] \in Slot
               /\ StoreInv(store')
<1> DEFINE ids   == IDs(quiz, cards)
           fresh == Entries(ids, cards, starts + 1)
<1>1. cards \in Seq(Cards) /\ \A i \in DOMAIN cards : cards[i] \in Cards
  BY DeckSeq
<1>2. DOMAIN ids = DOMAIN cards /\ \A i \in DOMAIN cards : ids[i] \in Nat
  BY <1>1, IDsType
<1>3. /\ Show(t, quiz, ids, cards)
      /\ store' = [store EXCEPT ![quiz] = IF quiz = "relearn" THEN Merged(fresh, @) ELSE fresh]
  BY DEF Start
<1> HIDE DEF ids
<1>4. /\ \A i \in DOMAIN ids : ids[i] \in DOMAIN fresh
      /\ \A id \in DOMAIN fresh :
             \E i \in DOMAIN ids : /\ ids[i] = id
                                   /\ fresh[id] = [card |-> cards[i], session |-> starts + 1]
  BY <1>2, EntriesOf
<1> HIDE DEF fresh
<1>5. ASSUME NEW id \in DOMAIN fresh PROVE id \in Nat /\ fresh[id] \in Slot
  <2>1. PICK i \in DOMAIN ids : /\ ids[i] = id
                               /\ fresh[id] = [card |-> cards[i], session |-> starts + 1]
    BY <1>4
  <2>2. i \in DOMAIN cards /\ starts + 1 \in Nat
    BY <1>2 DEF TInv
  <2> QED BY <1>1, <1>2, <2>1, <2>2 DEF Slot
<1>6. quiz \in Stores
  BY DEF Batched, Stores
<1>7. /\ store'[quiz] = IF quiz = "relearn" THEN Merged(fresh, store[quiz]) ELSE fresh
      /\ \A q \in Stores \ {quiz} : store'[q] = store[q]
      /\ store' = [q \in Stores |-> store'[q]]
  BY <1>3, <1>6 DEF TInv, StoreInv
<1>8. \A id \in DOMAIN store'[quiz] : id \in Nat /\ store'[quiz][id] \in Slot
  BY <1>5, <1>6, <1>7 DEF TInv, StoreInv, Merged
<1>9. StoreInv(store')
  BY <1>7, <1>8 DEF TInv, StoreInv
<1> QED BY <1>1, <1>2, <1>3, <1>4, <1>5, <1>7, <1>9 DEF ids, fresh

LEMMA StartType ==
    ASSUME TInv, NEW t \in Tabs, NEW quiz \in Batched, NEW cards \in Decks, Start(t, quiz, cards)
    PROVE  /\ TInv' /\ req' = req /\ req[t] = NoReq
           /\ page'[t].quiz = quiz /\ page'[t].session = starts + 1
           /\ page'[t].shown = [i \in DOMAIN cards |-> [id |-> IDs(quiz, cards)[i], card |-> cards[i]]]
           /\ page'[t].sent = 0 /\ page'[t].again = << >> /\ ~page'[t].accept
           /\ page'[t].stored = [i \in DOMAIN cards |-> 0]
           /\ \A u \in Tabs \ {t} : page'[u] = page[u]
<1> DEFINE ids == IDs(quiz, cards)
<1>1. /\ Show(t, quiz, ids, cards) /\ StoreInv(store')
      /\ cards \in Seq(Cards) /\ DOMAIN ids = DOMAIN cards
      /\ \A i \in DOMAIN cards : ids[i] \in Nat
  BY StartStore
<1>2. freeformCards' \subseteq Cards /\ nextID' \in Nat \ {0}
  BY <1>1 DEF Start, TInv
<1> HIDE DEF ids
<1>3. /\ TInv' /\ req' = req /\ req[t] = NoReq
      /\ page'[t].quiz = quiz /\ page'[t].session = starts + 1
      /\ page'[t].shown = [i \in DOMAIN cards |-> [id |-> ids[i], card |-> cards[i]]]
      /\ page'[t].sent = 0 /\ page'[t].again = << >> /\ ~page'[t].accept
      /\ page'[t].stored = [i \in DOMAIN cards |-> 0]
      /\ \A u \in Tabs \ {t} : page'[u] = page[u]
  BY <1>1, <1>2, ShowType
<1> QED BY <1>3 DEF ids

LEMMA OpenType ==
    ASSUME TInv, NEW t \in Tabs,
           StartFreeformQuiz(t) \/ \E id \in DOMAIN DbNotes : OpenDetail(t, id)
    PROVE  /\ TInv' /\ req' = req /\ req[t] = NoReq /\ UNCHANGED store
           /\ page'[t].quiz \in {"freeform", "detail"} /\ page'[t].session = starts + 1
           /\ \A u \in Tabs \ {t} : page'[u] = page[u]
<1>1. freeformCards' \subseteq Cards /\ nextID' \in Nat \ {0} /\ store' = store
  BY DEF StartFreeformQuiz, OpenDetail, TInv
<1>2. StoreInv(store')
  BY <1>1 DEF TInv
<1>3. CASE StartFreeformQuiz(t)
  <2>1. Show(t, "freeform", << >>, << >>) /\ << >> \in Seq(Cards) /\ \A i \in DOMAIN << >> : << >>[i] \in Nat
    BY <1>3, EmptySeq DEF StartFreeformQuiz
  <2> QED BY <1>1, <1>2, <2>1, ShowType
<1>4. ASSUME NEW id \in DOMAIN DbNotes, OpenDetail(t, id)
      PROVE  /\ TInv' /\ req' = req /\ req[t] = NoReq
             /\ page'[t].quiz = "detail" /\ page'[t].session = starts + 1
             /\ \A u \in Tabs \ {t} : page'[u] = page[u]
  <2> DEFINE ids == <<id>>
             cards == <<DbNotes[id]>>
  <2>1. Show(t, "detail", ids, cards)
    BY <1>4 DEF OpenDetail
  <2>2. id \in Nat /\ DbNotes[id] \in Cards
    BY DbNotesAssumption
  <2>3. cards \in Seq(Cards) /\ DOMAIN ids = DOMAIN cards /\ \A i \in DOMAIN cards : ids[i] \in Nat
    BY <2>2, SingleSeq
  <2> HIDE DEF ids, cards
  <2> QED BY <1>1, <1>2, <2>1, <2>3, ShowType
<1> QED BY <1>1, <1>3, <1>4

\* A request is sent with some of the cards shown.
LEMMA SendType ==
    ASSUME TInv, NEW t \in Tabs, NEW todo \in Seq(Nat), Send(t, todo), Len(todo) # 0,
           page' = [page EXCEPT ![t] = page'[t]], PageInv(page'[t]),
           \A k \in DOMAIN todo : todo[k] \in DOMAIN page'[t].shown,
           page'[t].quiz = "freeform" => Len(todo) <= 1
    PROVE  /\ TInv'
           /\ req'[t].pc = "lookup" /\ req'[t].todo = todo /\ req'[t].saved = 0
           /\ req[t] = NoReq
           /\ DOMAIN req'[t].got = {}
           /\ \A u \in Tabs \ {t} : page'[u] = page[u] /\ req'[u] = req[u]
<1> DEFINE r == [NoReq EXCEPT !.pc = "lookup", !.todo = todo]
           p == page'[t]
<1>1. /\ req' = [req EXCEPT ![t] = r] /\ calls' = calls + 1 /\ req[t].pc = "idle"
      /\ UNCHANGED <<store, freeformCards, nextID, starts>>
  BY DEF Send
<1>2. /\ r.pc = "lookup" /\ r.todo = todo /\ r.got = << >> /\ r.grades = << >> /\ r.saved = 0
  BY DEF NoReq
<1>3. r \in Req
  BY NoReqInv DEF ReqInv, Req
<1> HIDE DEF r
<1>4. ReqInv(p, r)
  BY <1>2, <1>3, EmptySeq DEF ReqInv
<1>5. /\ StoreInv(store') /\ freeformCards' \subseteq Cards /\ nextID' \in Nat \ {0}
      /\ starts' \in Nat /\ calls' \in Nat
  BY <1>1 DEF TInv
<1>6. /\ TInv' /\ page'[t] = p /\ req'[t] = r
      /\ \A u \in Tabs \ {t} : page'[u] = page[u] /\ req'[u] = req[u]
  BY <1>1, <1>4, <1>5, TypedStep
<1>7. req[t] = NoReq
  BY <1>1 DEF TInv, ReqInv
<1> QED BY <1>2, <1>6, <1>7, EmptySeq

\* The page sends its next cards, a batch again, or one more answer to the last card.
LEMMA FlushType ==
    ASSUME TInv, NEW t \in Tabs,
           \/ \E j \in DOMAIN page[t].shown : Flush(t, j)
           \/ FlushAgain(t) \/ AnswerLastAgain(t)
    PROVE  \E todo \in Seq(Nat) :
               /\ Send(t, todo) /\ Len(todo) # 0 /\ page' = page /\ page[t].quiz # "freeform"
               /\ \A k \in DOMAIN todo : todo[k] \in DOMAIN page[t].shown
               /\ \/ \E j \in DOMAIN page[t].shown :
                         /\ Flush(t, j) /\ Len(todo) = j - page[t].sent
                         /\ \A k \in DOMAIN todo : todo[k] = page[t].sent + k
                  \/ FlushAgain(t) /\ todo = page[t].again
                  \/ AnswerLastAgain(t)
<1>q. page[t].quiz # "freeform"
  <2>1. PageInv(page[t]) /\ page[t].again \in Seq(Nat)
    BY DEF TInv, PageInv, Page
  <2>2. ASSUME NEW j, Flush(t, j) PROVE page[t].quiz # "freeform"
    BY <2>2 DEF Flush, Batched
  <2>3. FlushAgain(t) => page[t].quiz # "freeform"
    BY <2>1 DEF FlushAgain, PageInv
  <2>4. AnswerLastAgain(t) => page[t].quiz # "freeform"
    BY DEF AnswerLastAgain
  <2> QED BY <2>2, <2>3, <2>4
<1>1. /\ page[t].again \in Seq(Nat) /\ page[t].shown \in Seq(Shown) /\ page[t].sent \in Nat
      /\ \A i \in DOMAIN page[t].again : page[t].again[i] \in DOMAIN page[t].shown
  BY DEF TInv, PageInv, Page
<1>2. ASSUME NEW j \in DOMAIN page[t].shown, Flush(t, j)
      PROVE  \E todo \in Seq(Nat) :
               /\ Send(t, todo) /\ Len(todo) # 0 /\ page' = page /\ page[t].quiz # "freeform"
               /\ \A k \in DOMAIN todo : todo[k] \in DOMAIN page[t].shown
               /\ Len(todo) = j - page[t].sent
               /\ \A k \in DOMAIN todo : todo[k] = page[t].sent + k
  <2> DEFINE n == j - page[t].sent
             todo == [i \in 1 .. n |-> page[t].sent + i]
  <2>1. j \in page[t].sent + 1 .. Len(page[t].shown) /\ Send(t, todo) /\ page' = page
    BY <1>2 DEF Flush
  <2>2. n \in Nat /\ n # 0 /\ DOMAIN page[t].shown = 1 .. Len(page[t].shown)
    BY SMTT(30), <1>1, <2>1
  <2>3. \A i \in 1 .. n : todo[i] = page[t].sent + i /\ todo[i] \in Nat /\ todo[i] \in DOMAIN page[t].shown
    BY SMTT(30), <1>1, <2>1, <2>2
  <2> HIDE DEF n
  <2>4. todo = [i \in 1 .. n |-> todo[i]]
    OBVIOUS
  <2> HIDE DEF todo
  <2>5. todo \in Seq(Nat) /\ Len(todo) = n /\ DOMAIN todo = 1 .. n
    BY <2>2, <2>3, <2>4, MappedSeq
  <2> QED BY <1>q, <2>1, <2>2, <2>3, <2>5 DEF n
<1>3. CASE FlushAgain(t)
  <2>1. Len(page[t].again) # 0
    BY <1>1, <1>3 DEF FlushAgain
  <2> QED BY <1>q, <1>1, <1>3, <2>1 DEF FlushAgain
<1>4. CASE AnswerLastAgain(t)
  <2> DEFINE again == page[t].again
             x     == again[Len(again)]
             todo  == Append(again, x)
  <2>1. again \in Seq(Nat) /\ Len(again) # 0 /\ Send(t, todo) /\ page' = page
    BY <1>1, <1>4 DEF AnswerLastAgain
  <2>2. Len(again) \in DOMAIN again /\ x \in Nat /\ x \in DOMAIN page[t].shown
    BY <1>1, <2>1
  <2> HIDE DEF x
  <2>3. todo \in Seq(Nat) /\ Len(todo) # 0 /\ \A k \in DOMAIN todo : todo[k] \in DOMAIN page[t].shown
    BY <1>1, <2>1, <2>2, AppendedSeq
  <2> QED BY <1>q, <1>4, <2>1, <2>3
<1> QED BY <1>2, <1>3, <1>4

LEMMA SubmitType ==
    ASSUME TInv, NEW t \in Tabs, NEW card \in Cards, SubmitFreeform(t, card)
    PROVE  /\ TInv'
           /\ page'[t].quiz = "freeform" /\ page'[t].session = page[t].session
           /\ req'[t].pc = "lookup" /\ DOMAIN req'[t].got = {}
           /\ req[t] = NoReq
           /\ \A u \in Tabs \ {t} : page'[u] = page[u] /\ req'[u] = req[u]
           /\ page[t].quiz = "freeform" /\ UNCHANGED store
<1> DEFINE new  == [id |-> 0, card |-> card]
           p    == [page[t] EXCEPT !.shown = Append(@, new), !.stored = Append(@, 0), !.again = << >>]
           todo == <<Len(page[t].shown) + 1>>
<1>1. /\ page[t] \in Page /\ page[t].quiz = "freeform" /\ Send(t, todo)
      /\ page' = [page EXCEPT ![t] = p] /\ UNCHANGED store
  BY DEF SubmitFreeform, TInv, Send
<1>2. /\ page[t].shown \in Seq(Shown) /\ page[t].stored \in Seq(Nat) /\ new \in Shown
      /\ page[t].sent \in Nat /\ page[t].sent <= Len(page[t].shown)
      /\ Len(page[t].stored) = Len(page[t].shown)
  BY <1>1 DEF TInv, PageInv, Page, Shown
<1>3. /\ p.quiz = "freeform" /\ p.session = page[t].session
      /\ p.shown = Append(page[t].shown, new) /\ p.stored = Append(page[t].stored, 0)
      /\ p.again = << >> /\ p.sent = page[t].sent
  BY <1>1 DEF Page
<1> HIDE DEF new
<1>4. /\ Append(page[t].shown, new) \in Seq(Shown)
      /\ Len(Append(page[t].shown, new)) = Len(page[t].shown) + 1
      /\ DOMAIN Append(page[t].shown, new) = 1 .. (Len(page[t].shown) + 1)
      /\ Append(page[t].stored, 0) \in Seq(Nat)
      /\ Len(Append(page[t].stored, 0)) = Len(page[t].stored) + 1
  BY <1>2, AppendedSeq
<1>5. p \in Page
  BY <1>1, <1>4, EmptySeq DEF Page
<1> HIDE DEF p
<1>6. PageInv(p)
  BY <1>2, <1>3, <1>4, <1>5, EmptySeq DEF PageInv
<1>7. todo \in Seq(Nat) /\ Len(todo) # 0 /\ Len(todo) <= 1 /\ \A k \in DOMAIN todo : todo[k] \in DOMAIN p.shown
  BY <1>2, <1>3, <1>4, SingleSeq
<1> HIDE DEF todo
<1>9. page'[t] = p /\ page' = [page EXCEPT ![t] = page'[t]]
  BY <1>1 DEF TInv
<1>8. /\ TInv'
      /\ req'[t].pc = "lookup" /\ DOMAIN req'[t].got = {} /\ req[t] = NoReq
      /\ \A u \in Tabs \ {t} : page'[u] = page[u] /\ req'[u] = req[u]
  BY <1>1, <1>9, <1>6, <1>7, SendType
<1> QED BY <1>1, <1>3, <1>9, <1>8

-----------------------------------------------------------------------------
(* The steps of a handler *)

\* A handler goes on with the request, and the page stays as it is.
LEMMA ProceedType ==
    ASSUME TInv, NEW t \in Tabs, NEW r, Proceed(t, r), ReqInv(page[t], r), UNCHANGED page
    PROVE  TInv' /\ req'[t] = r /\ \A u \in Tabs \ {t} : req'[u] = req[u]
<1>1. page' = [page EXCEPT ![t] = page[t]] /\ PageInv(page[t])
  BY DEF TInv
<1>2. /\ StoreInv(store') /\ freeformCards' \subseteq Cards /\ nextID' \in Nat \ {0}
      /\ starts' \in Nat /\ calls' \in Nat
  BY DEF Proceed, TInv
<1> QED BY <1>1, <1>2, TypedStep DEF Proceed

LEMMA AfterFailureInv ==
    ASSUME TInv, NEW t \in Tabs
    PROVE  /\ PageInv(AfterFailure(t))
           /\ AfterFailure(t).quiz = page[t].quiz /\ AfterFailure(t).session = page[t].session
           /\ AfterFailure(t).shown = page[t].shown /\ AfterFailure(t).failed
<1> DEFINE p == AfterFailure(t)
           again == IF page[t].quiz = "freeform" THEN << >> ELSE req[t].todo
<1>1. PageInv(page[t]) /\ ReqInv(page[t], req[t]) /\ page[t] \in Page
  BY DEF TInv
<1>2. /\ again \in Seq(Nat) /\ \A i \in DOMAIN again : again[i] \in DOMAIN page[t].shown
      /\ page[t].quiz = "freeform" => Len(again) = 0
  BY <1>1, EmptySeq DEF ReqInv, Req
<1>3. /\ p.again = again /\ p.shown = page[t].shown /\ p.sent = page[t].sent
      /\ p.stored = page[t].stored /\ p.failed /\ p.quiz = page[t].quiz
      /\ p.session = page[t].session
  BY <1>1 DEF AfterFailure, Page
<1>4. p \in Page
  BY <1>1, <1>2 DEF AfterFailure, Page
<1> HIDE DEF p, again
<1>5. PageInv(p)
  BY <1>1, <1>2, <1>3, <1>4 DEF PageInv
<1> QED BY <1>3, <1>5 DEF p

\* A call fails: the page keeps what it sent, to send it again.
LEMMA FailedType ==
    ASSUME TInv, NEW t \in Tabs, Failed(t)
    PROVE  /\ TInv'
           /\ req'[t] = NoReq /\ page'[t] = AfterFailure(t)
           /\ \A u \in Tabs \ {t} : page'[u] = page[u] /\ req'[u] = req[u]
<1>1. /\ StoreInv(store') /\ freeformCards' \subseteq Cards /\ nextID' \in Nat \ {0}
      /\ starts' \in Nat /\ calls' \in Nat
  BY DEF Failed, TInv
<1>2. page' = [page EXCEPT ![t] = AfterFailure(t)] /\ req' = [req EXCEPT ![t] = NoReq]
  BY DEF Failed
<1> QED BY ZenonT(60), <1>1, <1>2, AfterFailureInv, NoReqInv, TypedStep

LEMMA LookupBatchType ==
    ASSUME TInv, NEW t \in Tabs, LookupBatch(t), ~Failed(t)
    PROVE  /\ TInv' /\ UNCHANGED <<page, deed>> /\ Proceed(t, req'[t])
           /\ req[t].pc = "lookup" /\ req'[t].pc = "grade"
           /\ req'[t].todo = req[t].todo /\ req'[t].saved = req[t].saved
           /\ Len(req'[t].got) = Len(req[t].todo)
           /\ \A k \in DOMAIN req[t].todo :
                  LET id == page[t].shown[req[t].todo[k]].id
                  IN  /\ id \in DOMAIN store[page[t].quiz]
                      /\ req'[t].got[k] = store[page[t].quiz][id]
           /\ \A u \in Tabs \ {t} : req'[u] = req[u]
<1> DEFINE cards == store[page[t].quiz]
           todo  == req[t].todo
           ids   == ShownIDs(t, todo)
           got   == [k \in DOMAIN ids |-> cards[ids[k]]]
           r     == [req[t] EXCEPT !.got = got, !.pc = "grade"]
<1>1. /\ PageInv(page[t]) /\ ReqInv(page[t], req[t]) /\ req[t] \in Req
      /\ req[t].pc = "lookup" /\ page[t].quiz \in Batched
      /\ \A k \in DOMAIN ids : ids[k] \in DOMAIN cards
      /\ Proceed(t, r) /\ UNCHANGED <<page, deed>>
  BY DEF TInv, LookupBatch
<1>2. todo \in Seq(Nat) /\ DOMAIN todo = 1 .. Len(todo) /\ Len(todo) \in Nat
  BY <1>1 DEF Req
<1>3. DOMAIN ids = DOMAIN todo /\ \A k \in DOMAIN todo : ids[k] = page[t].shown[todo[k]].id
  BY DEF ShownIDs
<1>4. page[t].quiz \in Stores
  BY <1>1 DEF Batched, Stores
<1> HIDE DEF ids
<1>5. \A k \in DOMAIN todo : got[k] = cards[ids[k]] /\ cards[ids[k]] \in Slot
  BY <1>1, <1>3, <1>4 DEF TInv, StoreInv
<1>6. got = [k \in 1 .. Len(todo) |-> got[k]]
  BY <1>2, <1>3
<1> HIDE DEF got
<1>7. got \in Seq(Slot) /\ Len(got) = Len(todo)
  BY SMTT(30), <1>2, <1>5, <1>6, MappedSeq
<1>8. /\ r \in Req
      /\ r.pc = "grade" /\ r.todo = todo /\ r.got = got /\ r.saved = req[t].saved
  BY <1>1, <1>7 DEF Req
<1> HIDE DEF r
<1>9. ReqInv(page[t], r)
  BY SMTT(30), <1>1, <1>2, <1>7, <1>8 DEF ReqInv
<1>10. TInv' /\ req'[t] = r /\ \A u \in Tabs \ {t} : req'[u] = req[u]
  BY <1>1, <1>9, ProceedType
<1> QED BY <1>1, <1>2, <1>3, <1>5, <1>7, <1>8, <1>10

LEMMA LookupBlankType ==
    ASSUME TInv, NEW t \in Tabs, LookupBlank(t), ~Failed(t)
    PROVE  /\ TInv' /\ UNCHANGED <<page, deed>> /\ Proceed(t, req'[t])
           /\ page[t].quiz = "grammar"
           /\ req[t].pc = "lookup" /\ req'[t].pc \in {"lookup", "grade"}
           /\ req'[t].todo = req[t].todo /\ req'[t].saved = req[t].saved
           /\ \A u \in Tabs \ {t} : req'[u] = req[u]
<1> DEFINE cards == store[page[t].quiz]
           todo  == req[t].todo
           got   == req[t].got
           k     == Len(got) + 1
           id    == page[t].shown[todo[k]].id
           pc    == IF k = Len(todo) THEN "grade" ELSE "lookup"
           r     == [req[t] EXCEPT !.got = Append(@, cards[id]), !.pc = pc]
<1>1. /\ PageInv(page[t]) /\ ReqInv(page[t], req[t]) /\ req[t] \in Req
      /\ req[t].pc = "lookup" /\ page[t].quiz = "grammar"
      /\ id \in DOMAIN cards
      /\ Proceed(t, r) /\ UNCHANGED <<page, deed>>
  BY DEF TInv, LookupBlank, LookupOneByOne
<1>2. /\ todo \in Seq(Nat) /\ got \in Seq(Slot) /\ Len(todo) \in Nat /\ Len(got) \in Nat
      /\ Len(got) < Len(todo) /\ req[t].saved = 0
  <2>1. todo \in Seq(Nat) /\ got \in Seq(Slot)
    BY <1>1 DEF Req
  <2>2. Len(got) < Len(todo) /\ req[t].saved = 0
    BY <1>1 DEF ReqInv
  <2> QED BY <2>1, <2>2
<1>3. cards[id] \in Slot
  BY <1>1 DEF TInv, StoreInv, Stores
<1> HIDE DEF cards, id
<1>4. Append(got, cards[id]) \in Seq(Slot) /\ Len(Append(got, cards[id])) = k
  BY <1>2, <1>3, AppendedSeq
<1>5. /\ r \in Req
      /\ r.pc = pc /\ r.todo = todo /\ r.got = Append(got, cards[id]) /\ r.saved = req[t].saved
  BY <1>1, <1>4 DEF Req
<1> HIDE DEF r
<1>6. ReqInv(page[t], r)
  BY <1>1, <1>2, <1>4, <1>5 DEF ReqInv
<1>7. TInv' /\ req'[t] = r /\ \A u \in Tabs \ {t} : req'[u] = req[u]
  BY <1>1, <1>6, ProceedType
<1> QED BY <1>1, <1>5, <1>7

LEMMA LookupFreeformType ==
    ASSUME TInv, NEW t \in Tabs, LookupFreeform(t)
    PROVE  /\ TInv' /\ UNCHANGED <<page, deed>> /\ Proceed(t, req'[t])
           /\ page[t].quiz = "freeform" /\ req[t].pc = "lookup"
           /\ \A u \in Tabs \ {t} : req'[u] = req[u]
<1> DEFINE card == page[t].shown[req[t].todo[1]].card
           got  == <<[card |-> card, session |-> 0]>>
           r    == [req[t] EXCEPT !.got = got, !.pc = "grade"]
<1>1. /\ PageInv(page[t]) /\ ReqInv(page[t], req[t]) /\ req[t] \in Req
      /\ req[t].pc = "lookup" /\ page[t].quiz = "freeform"
      /\ Proceed(t, IF card \in freeformCards THEN r ELSE NoReq) /\ UNCHANGED <<page, deed>>
  BY DEF TInv, LookupFreeform
<1>2. CASE card \notin freeformCards
  BY <1>1, <1>2, NoReqInv, ProceedType
<1>3. CASE card \in freeformCards
  <2>1. card \in Cards
    BY <1>3 DEF TInv
  <2> HIDE DEF card
  <2>2. got \in Seq(Slot) /\ Len(got) = 1
    BY <2>1, SingleSeq DEF Slot
  <2> HIDE DEF got
  <2>3. r \in Req /\ r.pc = "grade" /\ r.todo = req[t].todo /\ r.got = got /\ r.saved = req[t].saved
    BY <1>1, <2>2 DEF Req
  <2> HIDE DEF r
  <2>4. ReqInv(page[t], r)
    <3> DEFINE n == Len(req[t].todo)
    <3>1. n \in Nat
      BY <1>1 DEF Req
    <3>2. n # 0 /\ n <= 1 /\ req[t].saved = 0
      BY <1>1 DEF ReqInv
    <3> HIDE DEF n
    <3>3. n = 1
      BY <3>1, <3>2
    <3>4. \A k \in DOMAIN req[t].todo : req[t].todo[k] \in DOMAIN page[t].shown
      BY <1>1 DEF ReqInv
    <3>5. Len(r.todo) = 1 /\ Len(r.got) = 1 /\ r.saved = 0
      BY <2>2, <2>3, <3>2, <3>3 DEF n
    <3>6. \A k \in DOMAIN r.todo : r.todo[k] \in DOMAIN page[t].shown
      BY <2>3, <3>4
    <3> QED BY <2>3, <3>5, <3>6 DEF ReqInv
  <2> QED BY <1>1, <1>3, <2>4, ProceedType
<1> QED BY <1>2, <1>3

LEMMA GradeType ==
    ASSUME TInv, NEW t \in Tabs, Grade(t)
    PROVE  /\ TInv' /\ UNCHANGED page /\ Proceed(t, req'[t])
           /\ req[t].pc = "grade" /\ req'[t].pc = "save"
           /\ req'[t].todo = req[t].todo /\ req'[t].got = req[t].got
           /\ req'[t].saved = req[t].saved
           /\ \A u \in Tabs \ {t} : req'[u] = req[u]
<1>1. /\ PageInv(page[t]) /\ ReqInv(page[t], req[t]) /\ req[t] \in Req
      /\ req[t].pc = "grade" /\ UNCHANGED page
  BY DEF TInv, Grade
<1>2. PICK grades \in [DOMAIN req[t].got -> Grades(t)] :
          Proceed(t, [req[t] EXCEPT !.grades = grades, !.pc = "save"])
  BY DEF Grade
<1> DEFINE r == [req[t] EXCEPT !.grades = grades, !.pc = "save"]
<1>3. /\ DOMAIN req[t].got = 1 .. Len(req[t].got) /\ Len(req[t].got) \in Nat
      /\ Len(req[t].todo) \in Nat
  BY <1>1 DEF Req
<1>4. Len(req[t].got) = Len(req[t].todo) /\ req[t].saved = 0 /\ Len(req[t].todo) # 0
  BY <1>1 DEF ReqInv
<1>5. grades \in Seq({"plain", "synonym"}) /\ Len(grades) = Len(req[t].todo)
  BY <1>3, <1>4 DEF Grades
<1>6. /\ r \in Req
      /\ r.pc = "save" /\ r.todo = req[t].todo /\ r.got = req[t].got /\ r.grades = grades
      /\ r.saved = req[t].saved
  BY <1>1, <1>5 DEF Req
<1>7. Proceed(t, r)
  BY <1>2
<1> HIDE DEF r
<1>8. ReqInv(page[t], r)
  BY <1>1, <1>3, <1>4, <1>5, <1>6 DEF ReqInv
<1>9. TInv' /\ req'[t] = r /\ \A u \in Tabs \ {t} : req'[u] = req[u]
  BY <1>1, <1>7, <1>8, ProceedType
<1> QED BY <1>1, <1>6, <1>7, <1>9

LEMMA SaveType ==
    ASSUME TInv, NEW t \in Tabs, Save(t)
    PROVE  /\ TInv'
           /\ req[t].pc = "save" /\ req'[t] = [req[t] EXCEPT !.saved = req[t].saved + 1]
           /\ req[t].saved + 1 <= Len(req[t].todo)
           /\ page'[t] = IF ShouldSave(t, req[t].saved + 1)
                         THEN [page[t] EXCEPT !.stored[req[t].todo[req[t].saved + 1]] = @ + 1]
                         ELSE page[t]
           /\ page'[t].quiz = page[t].quiz /\ page'[t].session = page[t].session
           /\ page'[t].shown = page[t].shown
           /\ \A u \in Tabs \ {t} : page'[u] = page[u] /\ req'[u] = req[u]
<1> DEFINE k == req[t].saved + 1
           i == req[t].todo[k]
           r == [req[t] EXCEPT !.saved = k]
           q == [page[t] EXCEPT !.stored[i] = @ + 1]
           p == IF ShouldSave(t, k) THEN q ELSE page[t]
<1>1. /\ PageInv(page[t]) /\ ReqInv(page[t], req[t]) /\ req[t] \in Req /\ page[t] \in Page
      /\ req[t].pc = "save" /\ k <= Len(req[t].todo)
      /\ page' = IF ShouldSave(t, k) THEN [page EXCEPT ![t].stored[req[t].todo[k]] = @ + 1] ELSE page
      /\ Proceed(t, r)
  BY DEF TInv, Save
<1>2. /\ page' = [page EXCEPT ![t] = p]
      /\ req' = [req EXCEPT ![t] = r]
  BY <1>1 DEF TInv, Proceed
<1>n. req[t].saved \in Nat /\ k \in Nat
  BY <1>1 DEF Req
<1>3. /\ r \in Req /\ r.saved = k /\ r.pc = "save"
      /\ r.todo = req[t].todo /\ r.got = req[t].got /\ r.grades = req[t].grades
  BY <1>1, <1>n DEF Req
<1>4. ReqInv(page[t], r)
  BY <1>1, <1>3 DEF ReqInv
<1>5. /\ q.stored = [page[t].stored EXCEPT ![i] = @ + 1]
      /\ q.quiz = page[t].quiz /\ q.session = page[t].session /\ q.shown = page[t].shown
      /\ q.sent = page[t].sent /\ q.again = page[t].again
  BY <1>1 DEF Page
<1>6. /\ [page[t].stored EXCEPT ![i] = @ + 1] \in Seq(Nat)
      /\ Len([page[t].stored EXCEPT ![i] = @ + 1]) = Len(page[t].stored)
  <2> DEFINE stored == page[t].stored
             new    == [stored EXCEPT ![i] = @ + 1]
  <2>1. stored \in Seq(Nat) /\ Len(stored) \in Nat /\ DOMAIN stored = 1 .. Len(stored)
    BY <1>1 DEF Page
  <2> HIDE DEF stored
  <2>2. DOMAIN new = 1 .. Len(stored) /\ \A j \in 1 .. Len(stored) : new[j] \in Nat
    BY <2>1
  <2>3. new = [j \in 1 .. Len(stored) |-> new[j]]
    BY <2>2
  <2> HIDE DEF new
  <2>4. new \in Seq(Nat) /\ Len(new) = Len(stored)
    BY <2>1, <2>2, <2>3, MappedSeq
  <2> QED BY <2>4 DEF new, stored
<1>7. q \in Page
  BY <1>1, <1>6 DEF Page
<1>8. PageInv(p) /\ ReqInv(p, r) /\ p.quiz = page[t].quiz /\ p.session = page[t].session /\ p.shown = page[t].shown
  <2> HIDE DEF q, r
  <2>1. PageInv(q) /\ ReqInv(q, r)
    BY <1>1, <1>4, <1>5, <1>6, <1>7 DEF PageInv, ReqInv
  <2> QED BY <1>1, <1>4, <1>5, <2>1
<1>9. /\ StoreInv(store') /\ freeformCards' \subseteq Cards /\ nextID' \in Nat \ {0}
      /\ starts' \in Nat /\ calls' \in Nat
  BY <1>1 DEF TInv, Proceed
<1> HIDE DEF p, r
<1>10. /\ TInv' /\ page'[t] = p /\ req'[t] = r
       /\ \A u \in Tabs \ {t} : page'[u] = page[u] /\ req'[u] = req[u]
  BY <1>2, <1>8, <1>9, TypedStep
<1> QED BY <1>1, <1>8, <1>10 DEF p, r

\* Listed is what it says: each element once, and all of them.
LEMMA ListedType ==
    ASSUME NEW S, IsFiniteSet(S)
    PROVE  /\ Cardinality(S) \in Nat
           /\ Listed(S) \in [1 .. Cardinality(S) -> S]
           /\ \A i, j \in 1 .. Cardinality(S) : Listed(S)[i] = Listed(S)[j] => i = j
           /\ \A x \in S : \E i \in 1 .. Cardinality(S) : Listed(S)[i] = x
<1> DEFINE n == Cardinality(S)
<1>1. n \in Nat /\ ExistsBijection(1 .. n, S)
  BY FS_CardinalityType
<1> HIDE DEF n
<1>2. \E s \in [1 .. n -> S] : \A i, j \in DOMAIN s : s[i] = s[j] => i = j
  BY <1>1 DEF ExistsBijection, Bijection, Injection, IsInjective
<1>3. /\ Listed(S) \in [1 .. n -> S]
      /\ \A i, j \in DOMAIN Listed(S) : Listed(S)[i] = Listed(S)[j] => i = j
  BY <1>2 DEF Listed, n
<1>4. Listed(S) \in Injection(1 .. n, S)
  BY <1>3 DEF Injection, IsInjective
<1>5. IsFiniteSet(1 .. n) /\ Cardinality(1 .. n) = n
  BY <1>1, FS_Interval
<1>6. Listed(S) \in Surjection(1 .. n, S)
  BY <1>4, <1>5, FS_Injection DEF n
<1> QED BY <1>1, <1>3, <1>6 DEF n, Surjection

\* The cards a reply asks for again are cards of its batch.
LEMMA ToRetryType ==
    ASSUME TInv, NEW t \in Tabs, req[t].pc = "save"
    PROVE  /\ ToRetry(t) \in Seq(Nat)
           /\ page[t].accept => Len(ToRetry(t)) = 0
           /\ \A n \in DOMAIN ToRetry(t) :
                  \E k, m \in DOMAIN req[t].todo : /\ ToRetry(t)[n] = req[t].todo[k]
                                                  /\ req[t].todo[m] = req[t].todo[k]
                                                  /\ req[t].grades[m] = "synonym"
           /\ ~page[t].accept => \A k \in DOMAIN req[t].todo : req[t].grades[k] = "synonym" =>
                  \E n \in DOMAIN ToRetry(t) : ToRetry(t)[n] = req[t].todo[k]
           /\ Distinct(req[t].todo) => Distinct(ToRetry(t))
<1> DEFINE r        == req[t]
           synonyms == {k \in DOMAIN r.todo : \E m \in DOMAIN r.todo :
                            r.todo[m] = r.todo[k] /\ r.grades[m] = "synonym"}
           listed   == Listed(synonyms)
           again    == [n \in DOMAIN listed |-> r.todo[listed[n]]]
<1>1. r.todo \in Seq(Nat) /\ DOMAIN r.todo = 1 .. Len(r.todo) /\ Len(r.todo) \in Nat
  BY DEF TInv, Req
<1>2. IsFiniteSet(synonyms)
  <2>1. IsFiniteSet(DOMAIN r.todo)
    BY <1>1, FS_Interval
  <2>2. synonyms \in SUBSET DOMAIN r.todo
    OBVIOUS
  <2> HIDE DEF synonyms
  <2> QED BY <2>1, <2>2, FS_Subset
<1>3. /\ synonyms \subseteq DOMAIN r.todo
      /\ \A k \in synonyms : \E m \in DOMAIN r.todo : r.todo[m] = r.todo[k] /\ r.grades[m] = "synonym"
      /\ \A k \in DOMAIN r.todo : r.grades[k] = "synonym" => k \in synonyms
  OBVIOUS
<1>4. ToRetry(t) = IF page[t].accept THEN << >> ELSE again
  BY DEF ToRetry
<1> HIDE DEF synonyms
<1> DEFINE n == Cardinality(synonyms)
<1>5. /\ n \in Nat /\ listed \in [1 .. n -> synonyms]
      /\ \A i, j \in 1 .. n : listed[i] = listed[j] => i = j
      /\ \A x \in synonyms : \E i \in 1 .. n : listed[i] = x
  BY <1>2, ListedType
<1> HIDE DEF listed, n
<1>6. /\ DOMAIN again = 1 .. n
      /\ \A i \in 1 .. n : again[i] = r.todo[listed[i]] /\ listed[i] \in synonyms /\ listed[i] \in DOMAIN r.todo
  BY <1>3, <1>5
<1>7. \A i \in 1 .. n : again[i] \in Nat
  BY <1>1, <1>6
<1>8. again = [i \in 1 .. n |-> again[i]]
  BY <1>6
<1> HIDE DEF again
<1>9. again \in Seq(Nat)
  BY <1>5, <1>7, <1>8, MappedSeq
<1>10. \A i \in DOMAIN again :
           \E k, m \in DOMAIN r.todo : /\ again[i] = r.todo[k] /\ r.todo[m] = r.todo[k]
                                       /\ r.grades[m] = "synonym"
  BY <1>3, <1>6
<1>11. \A k \in DOMAIN r.todo : r.grades[k] = "synonym" => \E i \in DOMAIN again : again[i] = r.todo[k]
  BY <1>3, <1>5, <1>6
<1>12. Distinct(r.todo) => Distinct(again)
  BY <1>5, <1>6 DEF Distinct
<1>13. CASE page[t].accept
  BY <1>4, <1>13, EmptySeq DEF Distinct
<1>14. CASE ~page[t].accept
  BY <1>4, <1>9, <1>10, <1>11, <1>12, <1>14
<1> QED BY <1>13, <1>14

\* The page gets its feedback, and learns which cards to try again.
LEMMA ReplyType ==
    ASSUME TInv, NEW t \in Tabs, Reply(t)
    PROVE  /\ TInv'
           /\ req[t].pc = "save" /\ req[t].saved = Len(req[t].todo) /\ req'[t] = NoReq
           /\ page[t].quiz \in Batched
           /\ page'[t] = [page[t] EXCEPT !.again = ToRetry(t), !.accept = ToRetry(t) # << >>,
                                        !.sent = SentAfter(t)]
           /\ page'[t].quiz = page[t].quiz /\ page'[t].session = page[t].session
           /\ page'[t].shown = page[t].shown
           /\ SentAfter(t) \in Nat
           /\ UNCHANGED <<store, nextID, deed, starts, calls>>
           /\ \A u \in Tabs \ {t} : page'[u] = page[u] /\ req'[u] = req[u]
<1> DEFINE again == ToRetry(t)
           sent  == SentAfter(t)
           p     == [page[t] EXCEPT !.again = again, !.accept = again # << >>, !.sent = sent]
<1>1. /\ PageInv(page[t]) /\ ReqInv(page[t], req[t]) /\ req[t] \in Req /\ page[t] \in Page
      /\ req[t].pc = "save" /\ req[t].saved = Len(req[t].todo) /\ page[t].quiz \in Batched
      /\ page' = [page EXCEPT ![t].again = again, ![t].accept = again # << >>, ![t].sent = sent]
      /\ Proceed(t, NoReq) /\ UNCHANGED deed
  BY DEF TInv, Reply
<1>2. page' = [page EXCEPT ![t] = p] /\ req' = [req EXCEPT ![t] = NoReq]
  BY <1>1 DEF TInv, Proceed
<1>3. /\ again \in Seq(Nat)
      /\ \A n \in DOMAIN again : \E k \in DOMAIN req[t].todo : again[n] = req[t].todo[k]
  BY <1>1, ToRetryType
<1>4. \A n \in DOMAIN again : again[n] \in DOMAIN page[t].shown
  BY <1>1, <1>3 DEF ReqInv
<1>5. sent \in Nat /\ sent <= Len(page[t].shown)
  <2> DEFINE todo == req[t].todo
             end  == todo[Len(todo)]
             shown == page[t].shown
  <2>1. todo \in Seq(Nat) /\ Len(todo) # 0 /\ \A k \in DOMAIN todo : todo[k] \in DOMAIN shown
    BY <1>1 DEF Req, ReqInv
  <2>2. Len(todo) \in DOMAIN todo
    BY <2>1
  <2>3. shown \in Seq(Shown) /\ page[t].sent \in Nat /\ page[t].sent <= Len(shown)
    BY <1>1 DEF Page, PageInv
  <2>4. end \in 1 .. Len(shown)
    BY <2>1, <2>2, <2>3
  <2>5. sent = IF page[t].sent < end THEN end ELSE page[t].sent
    BY DEF SentAfter
  <2> QED BY <2>3, <2>4, <2>5
<1> HIDE DEF again, sent
<1>6. /\ p \in Page
      /\ p.quiz = page[t].quiz /\ p.session = page[t].session /\ p.shown = page[t].shown
      /\ p.sent = sent /\ p.again = again /\ p.stored = page[t].stored
  BY <1>1, <1>3, <1>5 DEF Page
<1> HIDE DEF p
<1>7. PageInv(p)
  <2>1. page[t].quiz # "freeform" /\ Len(page[t].stored) = Len(page[t].shown)
    BY <1>1 DEF Batched, PageInv
  <2> QED BY <1>4, <1>5, <1>6, <2>1 DEF PageInv
<1>8. /\ StoreInv(store') /\ freeformCards' \subseteq Cards /\ nextID' \in Nat \ {0}
      /\ starts' \in Nat /\ calls' \in Nat /\ ReqInv(p, NoReq)
  BY <1>1, NoReqInv DEF TInv, Proceed
<1>9. /\ TInv' /\ page'[t] = p /\ req'[t] = NoReq
      /\ \A u \in Tabs \ {t} : page'[u] = page[u] /\ req'[u] = req[u]
  BY <1>2, <1>7, <1>8, TypedStep
<1>10. UNCHANGED <<store, nextID, starts, calls>>
  BY <1>1 DEF Proceed
<1> QED BY <1>1, <1>5, <1>6, <1>9, <1>10 DEF p, again, sent

\* A free-form answer gets the next id, and its card goes into the store.
LEMMA ReplyFreeformType ==
    ASSUME TInv, NEW t \in Tabs, ReplyFreeform(t)
    PROVE  /\ TInv'
           /\ req[t].pc = "save" /\ req'[t] = NoReq
           /\ page[t].quiz = "freeform" /\ page'[t].quiz = "freeform"
           /\ page'[t].session = page[t].session
           /\ \A q \in Stores \ {"freeform"} : store'[q] = store[q]
           /\ \A id \in DOMAIN store'["freeform"] : id = nextID \/ id \in DOMAIN store["freeform"]
           /\ nextID' = nextID + 1 /\ UNCHANGED <<deed, starts, calls>>
           /\ \A u \in Tabs \ {t} : page'[u] = page[u] /\ req'[u] = req[u]
<1> DEFINE i == req[t].todo[1]
           slot == req[t].got[1]
           p == [page[t] EXCEPT !.shown[i].id = nextID]
           new == Merged([id \in {nextID} |-> slot], store["freeform"])
<1>1. /\ PageInv(page[t]) /\ ReqInv(page[t], req[t]) /\ req[t] \in Req /\ page[t] \in Page
      /\ req[t].pc = "save" /\ page[t].quiz = "freeform"
      /\ page' = [page EXCEPT ![t].shown[req[t].todo[1]].id = nextID]
      /\ store' = [store EXCEPT !["freeform"] = Merged([id \in {nextID} |-> req[t].got[1]], @)]
      /\ nextID' = nextID + 1 /\ UNCHANGED <<freeformCards, deed, starts, calls>>
      /\ req' = [req EXCEPT ![t] = NoReq]
  BY DEF TInv, ReplyFreeform
<1>2. page' = [page EXCEPT ![t] = p]
  BY <1>1 DEF TInv
<1>3. nextID \in Nat \ {0} /\ nextID + 1 \in Nat \ {0}
  BY DEF TInv
<1>4. slot \in Slot
  <2>1. req[t].got \in Seq(Slot) /\ req[t].todo \in Seq(Nat)
    BY <1>1 DEF Req
  <2>2. Len(req[t].got) # 0
    BY <1>1 DEF ReqInv
  <2> QED BY <2>1, <2>2
<1> HIDE DEF slot
<1>5. /\ DOMAIN new = {nextID} \cup DOMAIN store["freeform"]
      /\ \A id \in DOMAIN new : new[id] = IF id = nextID THEN slot ELSE store["freeform"][id]
  BY DEF Merged
<1> HIDE DEF new
<1>6. \A id \in DOMAIN new : id \in Nat /\ new[id] \in Slot
  <2>1. \A id \in DOMAIN store["freeform"] : id \in Nat /\ store["freeform"][id] \in Slot
    BY DEF TInv, StoreInv, Stores
  <2> QED BY <1>3, <1>4, <1>5, <2>1
<1>7. /\ store' = [q \in Stores |-> store'[q]] /\ store'["freeform"] = new
      /\ \A q \in Stores \ {"freeform"} : store'[q] = store[q]
  <2>1. store' = [store EXCEPT !["freeform"] = new]
    BY <1>1 DEF new, slot
  <2> QED BY <2>1 DEF TInv, StoreInv, Stores
<1>8. StoreInv(store')
  BY <1>6, <1>7 DEF TInv, StoreInv
<1>9. /\ p.quiz = page[t].quiz /\ p.session = page[t].session
      /\ p.shown = [page[t].shown EXCEPT ![i].id = nextID]
      /\ p.sent = page[t].sent /\ p.again = page[t].again /\ p.stored = page[t].stored
  BY <1>1 DEF Page
<1>10. p.shown \in Seq(Shown) /\ Len(p.shown) = Len(page[t].shown)
  <2> DEFINE shown == page[t].shown
             fresh == [shown EXCEPT ![i].id = nextID]
  <2>1. shown \in Seq(Shown) /\ Len(shown) \in Nat /\ DOMAIN shown = 1 .. Len(shown)
    BY <1>1 DEF Page
  <2> HIDE DEF shown, i
  <2>2. DOMAIN fresh = 1 .. Len(shown) /\ \A j \in 1 .. Len(shown) : fresh[j] \in Shown
    <3>1. ASSUME NEW j \in 1 .. Len(shown)
          PROVE  fresh[j] = IF j = i THEN [shown[j] EXCEPT !.id = nextID] ELSE shown[j]
      BY <2>1
    <3>2. \A j \in 1 .. Len(shown) : shown[j] \in Shown
      BY <2>1
    <3>3. \A x \in Shown : [x EXCEPT !.id = nextID] \in Shown
      BY <1>3 DEF Shown
    <3> QED BY <2>1, <3>1, <3>2, <3>3
  <2>3. fresh = [j \in 1 .. Len(shown) |-> fresh[j]]
    BY <2>2
  <2> HIDE DEF fresh
  <2>4. fresh \in Seq(Shown) /\ Len(fresh) = Len(shown)
    BY <2>1, <2>2, <2>3, MappedSeq
  <2> QED BY <1>9, <2>4 DEF fresh, shown
<1>11. p \in Page
  <2> DEFINE shown == p.shown
  <2>1. p = [page[t] EXCEPT !.shown = shown]
    BY <1>1, <1>9 DEF Page
  <2>2. shown \in Seq(Shown)
    BY <1>10
  <2> HIDE DEF shown, p
  <2> QED BY <1>1, <2>1, <2>2 DEF Page
<1> HIDE DEF p
<1>12. PageInv(p)
  <2>1. DOMAIN p.shown = DOMAIN page[t].shown
    BY <1>1, <1>10 DEF Page
  <2> QED BY <1>1, <1>9, <1>10, <1>11, <2>1 DEF PageInv
<1>13. /\ freeformCards' \subseteq Cards /\ nextID' \in Nat \ {0}
       /\ starts' \in Nat /\ calls' \in Nat /\ ReqInv(p, NoReq)
  BY <1>1, <1>3, NoReqInv DEF TInv
<1>14. /\ TInv' /\ page'[t] = p /\ req'[t] = NoReq
       /\ \A u \in Tabs \ {t} : page'[u] = page[u] /\ req'[u] = req[u]
  BY <1>1, <1>2, <1>8, <1>12, <1>13, TypedStep
<1> QED BY <1>1, <1>5, <1>7, <1>9, <1>14

LEMMA ExcludeType ==
    ASSUME TInv, NEW t \in Tabs, NEW i, Exclude(t, i)
    PROVE  TInv' /\ UNCHANGED <<store, freeformCards, nextID, page, req, starts, calls>>
BY DEF Exclude, TInv, StoreInv, PageInv, ReqInv

LEMMA RestartType ==
    ASSUME TInv, Restart
    PROVE  /\ TInv'
           /\ \A q \in Stores : store'[q] = Nothing
           /\ \A t \in Tabs : /\ req'[t] = NoReq
                               /\ page'[t] = IF req[t].pc = "idle" THEN page[t] ELSE AfterFailure(t)
<1>1. /\ store' = [q \in Stores |-> Nothing] /\ freeformCards' = {} /\ nextID' = 1
      /\ req' = [t \in Tabs |-> NoReq] /\ calls' = calls + 1 /\ starts' = starts
      /\ page' = [t \in Tabs |-> IF req[t].pc = "idle" THEN page[t] ELSE AfterFailure(t)]
  BY DEF Restart
<1>2. \A t \in Tabs : /\ req'[t] = NoReq
                      /\ page'[t] = IF req[t].pc = "idle" THEN page[t] ELSE AfterFailure(t)
  BY <1>1
<1>3. \A t \in Tabs : PageInv(page'[t]) /\ ReqInv(page'[t], req'[t])
  BY <1>2, AfterFailureInv, NoReqInv DEF TInv
<1>4. page' \in [Tabs -> Page] /\ req' \in [Tabs -> Req]
  BY <1>1, <1>3 DEF PageInv, ReqInv
<1>5. (\A t \in Tabs : PageInv(page[t]) /\ ReqInv(page[t], req[t]))'
  BY <1>3 DEF PageInv, ReqInv
<1>6. StoreInv(store)'
  BY <1>1 DEF StoreInv, Nothing
<1>7. (starts \in Nat /\ calls \in Nat /\ freeformCards \subseteq Cards /\ nextID \in Nat \ {0})'
  BY <1>1 DEF TInv
<1> QED BY <1>1, <1>2, <1>4, <1>5, <1>6, <1>7 DEF TInv

\* The other steps of a handler are of these kinds.
LEMMA FailureOf ==
    ASSUME NEW t \in Tabs, Handle(t)
    PROVE  \/ Failed(t)
           \/ (LookupBatch(t) /\ ~Failed(t)) \/ (LookupBlank(t) /\ ~Failed(t))
           \/ LookupFreeform(t)
           \/ Grade(t) \/ Save(t) \/ Reply(t) \/ ReplyFreeform(t)
BY DEF Handle, GradeFails, SaveFails

\* A batch is on its way, and the page stays as it is.
LEMMA SentType ==
    ASSUME TInv, NEW t \in Tabs,
           \/ \E j \in DOMAIN page[t].shown : Flush(t, j)
           \/ FlushAgain(t) \/ AnswerLastAgain(t)
    PROVE  /\ TInv' /\ page' = page /\ UNCHANGED <<store, nextID, deed, starts>>
           /\ calls' = calls + 1
           /\ req[t] = NoReq /\ req'[t].pc = "lookup" /\ DOMAIN req'[t].got = {}
           /\ \A u \in Tabs \ {t} : req'[u] = req[u]
<1>1. PICK todo \in Seq(Nat) :
          /\ Send(t, todo) /\ Len(todo) # 0 /\ page' = page /\ page[t].quiz # "freeform"
          /\ \A k \in DOMAIN todo : todo[k] \in DOMAIN page[t].shown
  BY FlushType
<1>2. page' = [page EXCEPT ![t] = page'[t]] /\ page'[t] = page[t] /\ PageInv(page'[t])
  BY <1>1 DEF TInv
<1>3. UNCHANGED <<store, nextID, deed, starts>> /\ calls' = calls + 1
  BY <1>1 DEF Send
<1> QED BY <1>1, <1>2, <1>3, SendType

\* A step of a tab leaves the other tabs alone.
LEMMA OneTab ==
    ASSUME TInv, NEW t \in Tabs, OfTab(t) \/ Handle(t)
    PROVE  TInv' /\ \A u \in Tabs \ {t} : page'[u] = page[u] /\ req'[u] = req[u]
<1>1. ASSUME NEW quiz \in Batched, NEW cards \in Decks, Start(t, quiz, cards)
      PROVE  TInv' /\ \A u \in Tabs \ {t} : page'[u] = page[u] /\ req'[u] = req[u]
  BY <1>1, StartType
<1>2. CASE StartFreeformQuiz(t) \/ \E id \in DOMAIN DbNotes : OpenDetail(t, id)
  BY <1>2, OpenType
<1>3. ASSUME NEW j \in DOMAIN page[t].shown, Exclude(t, j)
      PROVE  TInv' /\ \A u \in Tabs \ {t} : page'[u] = page[u] /\ req'[u] = req[u]
  BY <1>3, ExcludeType
<1>4. CASE \/ \E j \in DOMAIN page[t].shown : Flush(t, j)
           \/ FlushAgain(t) \/ AnswerLastAgain(t)
  BY <1>4, SentType
<1>5. ASSUME NEW card \in Cards, SubmitFreeform(t, card)
      PROVE  TInv' /\ \A u \in Tabs \ {t} : page'[u] = page[u] /\ req'[u] = req[u]
  BY <1>5, SubmitType
<1>6. CASE Handle(t)
  BY ZenonT(60), <1>6, FailureOf, FailedType, LookupBatchType, LookupBlankType, LookupFreeformType, GradeType,
     SaveType, ReplyType, ReplyFreeformType
<1> QED BY <1>1, <1>2, <1>3, <1>4, <1>5, <1>6 DEF OfTab

LEMMA TypedNext == TInv /\ [Next]_vars => TInv'
<1> SUFFICES ASSUME TInv, [Next]_vars PROVE TInv'
  OBVIOUS
<1>1. ASSUME NEW t \in Tabs, OfTab(t) \/ Handle(t) PROVE TInv'
  BY <1>1, OneTab
<1>3. CASE Restart
  BY <1>3, RestartType
<1>4. CASE UNCHANGED vars
  BY <1>4 DEF vars, TInv, StoreInv, PageInv, ReqInv
<1> QED BY <1>1, <1>3, <1>4 DEF Next

LEMMA TypedInit == Init => TInv
<1> SUFFICES ASSUME Init PROVE TInv
  OBVIOUS
<1>1. StoreInv(store)
  BY DEF Init, StoreInv, Nothing
<1>2. PageInv(NoPage) /\ ReqInv(NoPage, NoReq)
  BY NoPageInv, NoReqInv
<1>3. NoPage \in Page /\ NoReq \in Req
  BY <1>2 DEF PageInv, ReqInv
<1> QED BY <1>1, <1>2, <1>3 DEF Init, TInv

LEMMA TypedAlways == Spec => []TInv
<1>1. Init => TInv
  BY TypedInit
<1>2. TInv /\ [Next]_vars => TInv'
  BY TypedNext
<1> QED BY <1>1, <1>2, PTL DEF Spec

\* The stores keep cards under their ids, a page shows what it sent, and a request
\* never holds more cards than it has answers.
THEOREM TypeCorrect == Spec => []TypeOK
<1>1. TInv => TypeOK
  <2> SUFFICES ASSUME TInv PROVE TypeOK
    OBVIOUS
  <2>1. DOMAIN store = Stores /\ \A q \in Stores : \A id \in DOMAIN store[q] : store[q][id].card \in Cards
    BY DEF TInv, StoreInv, Slot
  <2>2. ASSUME NEW t \in Tabs
        PROVE  /\ page[t].quiz \in Quizzes \cup {"none"}
               /\ page[t].sent <= Len(page[t].shown)
               /\ Len(req[t].got) <= Len(req[t].todo)
    BY DEF TInv, PageInv, ReqInv, Page
  <2> QED BY <2>1, <2>2 DEF TInv, TypeOK
<1> QED BY <1>1, TypedAlways, PTL

-----------------------------------------------------------------------------
(* The answers of a batch are graded against one session *)

OneSession(s) == \A a, b \in DOMAIN s : s[a].session = s[b].session
OneBatch(p, r) == p.quiz \in {"notebook", "reverse"} => OneSession(r.got)

BatchInv ==
    /\ OneSession(store["notebook"]) /\ OneSession(store["reverse"])
    /\ \A t \in Tabs : OneBatch(page[t], req[t])

LEMMA BatchOfTab ==
    ASSUME TInv, BatchInv, NEW t \in Tabs, OfTab(t)
    PROVE  OneSession(store'["notebook"]) /\ OneSession(store'["reverse"]) /\ OneBatch(page'[t], req'[t])
<1> USE DEF BatchInv
<1>0. \A p, r : DOMAIN r.got = {} => OneBatch(p, r)
  BY DEF OneBatch, OneSession
<1>n. DOMAIN NoReq.got = {}
  BY EmptySeq DEF NoReq
<1>1. ASSUME NEW quiz \in Batched, NEW cards \in Decks, Start(t, quiz, cards)
      PROVE  /\ OneSession(store'["notebook"]) /\ OneSession(store'["reverse"])
             /\ OneBatch(page'[t], req'[t])
  <2> DEFINE fresh == Entries(IDs(quiz, cards), cards, starts + 1)
  <2>1. /\ store'[quiz] = IF quiz = "relearn" THEN Merged(fresh, store[quiz]) ELSE fresh
        /\ \A q \in Stores \ {quiz} : store'[q] = store[q]
        /\ \A id \in DOMAIN fresh : \E i : fresh[id] = [card |-> cards[i], session |-> starts + 1]
    BY <1>1, StartStore
  <2> HIDE DEF fresh
  <2>2. OneSession(fresh)
    BY <2>1 DEF OneSession
  <2>3. \A q \in {"notebook", "reverse"} : OneSession(store'[q])
    BY <2>1, <2>2 DEF Stores
  <2> QED BY ZenonT(60), <1>0, <1>1, <1>n, <2>3, StartType
<1>2. CASE StartFreeformQuiz(t) \/ \E id \in DOMAIN DbNotes : OpenDetail(t, id)
  BY <1>0, <1>2, <1>n, OpenType
<1>3. ASSUME NEW j \in DOMAIN page[t].shown, Exclude(t, j)
      PROVE  /\ OneSession(store'["notebook"]) /\ OneSession(store'["reverse"])
             /\ OneBatch(page'[t], req'[t])
  BY <1>3, ExcludeType
<1>4. CASE \/ \E j \in DOMAIN page[t].shown : Flush(t, j)
           \/ FlushAgain(t) \/ AnswerLastAgain(t)
  BY <1>0, <1>4, SentType
<1>5. ASSUME NEW card \in Cards, SubmitFreeform(t, card)
      PROVE  /\ OneSession(store'["notebook"]) /\ OneSession(store'["reverse"])
             /\ OneBatch(page'[t], req'[t])
  BY <1>0, <1>5, SubmitType
<1> QED BY <1>1, <1>2, <1>3, <1>4, <1>5 DEF OfTab

LEMMA BatchHandle ==
    ASSUME TInv, BatchInv, NEW t \in Tabs, Handle(t)
    PROVE  OneSession(store'["notebook"]) /\ OneSession(store'["reverse"]) /\ OneBatch(page'[t], req'[t])
<1> USE DEF BatchInv
<1>0. \A p : OneBatch(p, NoReq)
  BY EmptySeq DEF OneBatch, OneSession, NoReq
<1>1. CASE Failed(t)
  BY <1>0, <1>1, FailedType DEF Failed
<1>2. CASE LookupBatch(t) /\ ~Failed(t)
  <2>1. /\ page'[t] = page[t] /\ store' = store
        /\ DOMAIN req'[t].got = DOMAIN req[t].todo
        /\ \A k \in DOMAIN req[t].todo : \E id \in DOMAIN store[page[t].quiz] :
               req'[t].got[k] = store[page[t].quiz][id]
    <3>1. /\ TInv' /\ page' = page /\ Proceed(t, req'[t])
          /\ Len(req'[t].got) = Len(req[t].todo)
          /\ \A k \in DOMAIN req[t].todo : \E id \in DOMAIN store[page[t].quiz] :
                 req'[t].got[k] = store[page[t].quiz][id]
      BY <1>2, LookupBatchType
    <3>2. req'[t].got \in Seq(Slot) /\ req[t].todo \in Seq(Nat)
      BY <3>1 DEF TInv, Req
    <3> QED BY <3>1, <3>2 DEF Proceed
  <2>2. page[t].quiz \in {"notebook", "reverse"} => OneSession(store[page[t].quiz])
    OBVIOUS
  <2> QED BY <2>1, <2>2 DEF OneBatch, OneSession
<1>3. CASE LookupBlank(t) /\ ~Failed(t)
  BY <1>3, LookupBlankType DEF OneBatch, Proceed
<1>4. CASE LookupFreeform(t)
  BY <1>4, LookupFreeformType DEF OneBatch, Proceed
<1>5. CASE Grade(t)
  BY <1>5, GradeType DEF OneBatch, Proceed
<1>6. CASE Save(t)
  <2>1. req'[t].got = req[t].got
    BY <1>6, SaveType DEF TInv, Req
  <2> QED BY <1>6, <2>1, SaveType DEF OneBatch, Proceed, Save
<1>7. CASE Reply(t)
  BY ZenonT(60), <1>0, <1>7, ReplyType
<1>8. CASE ReplyFreeform(t)
  BY <1>0, <1>8, ReplyFreeformType DEF Stores
<1> QED BY <1>1, <1>2, <1>3, <1>4, <1>5, <1>6, <1>7, <1>8, FailureOf

LEMMA BatchNext == TInv /\ BatchInv /\ [Next]_vars => BatchInv'
<1> SUFFICES ASSUME TInv, BatchInv, [Next]_vars PROVE BatchInv'
  OBVIOUS
<1>1. ASSUME OneSession(store'["notebook"]), OneSession(store'["reverse"]),
             \A t \in Tabs : OneBatch(page'[t], req'[t])
      PROVE  BatchInv'
  BY <1>1 DEF BatchInv, OneSession, OneBatch
<1>2. ASSUME NEW t \in Tabs, OfTab(t) \/ Handle(t) PROVE BatchInv'
  <2>1. /\ OneSession(store'["notebook"]) /\ OneSession(store'["reverse"])
        /\ OneBatch(page'[t], req'[t])
    BY <1>2, BatchOfTab, BatchHandle
  <2>2. \A u \in Tabs : OneBatch(page'[u], req'[u])
    BY <1>2, <2>1, OneTab DEF BatchInv
  <2> QED BY <1>1, <2>1, <2>2
<1>3. CASE Restart
  <2>1. \A t \in Tabs : OneBatch(page'[t], req'[t])
    BY <1>3, RestartType, EmptySeq DEF NoReq, OneBatch, OneSession
  <2>2. OneSession(store'["notebook"]) /\ OneSession(store'["reverse"])
    BY <1>3, RestartType DEF Stores, Nothing, OneSession
  <2> QED BY <1>1, <2>1, <2>2
<1>4. CASE UNCHANGED vars
  BY <1>1, <1>4 DEF vars, BatchInv
<1> QED BY <1>2, <1>3, <1>4 DEF Next

\* Whatever other tabs start, answer or restart while a batch of a recognition or
\* reverse quiz is under way, all its answers are graded against one session: the
\* lookup of the whole batch is one step, and these stores hold one session each.
THEOREM BatchesSeeOneSession == Spec => []BatchFromOneSession
<1>1. Init => BatchInv
  BY EmptySeq DEF Init, BatchInv, OneSession, OneBatch, Stores, Nothing, NoPage, NoReq
<1>2. BatchInv => BatchFromOneSession
  BY DEF BatchInv, OneBatch, OneSession, BatchFromOneSession
<1> QED BY <1>1, <1>2, TypedAlways, BatchNext, PTL DEF Spec

-----------------------------------------------------------------------------
(* A click in the latest recognition quiz *)

\* A handler keeps the page's quiz, its session and, but for the id of a free-form
\* answer, the cards shown; of the stores it changes the free-form one at most.
LEMMA HandleKeeps ==
    ASSUME TInv, NEW t \in Tabs, Handle(t)
    PROVE  /\ page'[t].quiz = page[t].quiz /\ page'[t].session = page[t].session
           /\ page[t].quiz # "freeform" => page'[t].shown = page[t].shown
           /\ \A q \in Stores \ {"freeform"} : store'[q] = store[q]
           /\ starts' = starts /\ calls' = calls
<1>1. CASE Failed(t)
  BY <1>1, FailedType, AfterFailureInv DEF Failed
<1>2. CASE LookupBatch(t) /\ ~Failed(t)
  BY <1>2, LookupBatchType DEF Proceed
<1>3. CASE LookupBlank(t) /\ ~Failed(t)
  BY <1>3, LookupBlankType DEF Proceed
<1>4. CASE LookupFreeform(t)
  BY <1>4, LookupFreeformType DEF Proceed
<1>5. CASE Grade(t)
  BY <1>5, GradeType DEF Proceed
<1>6. CASE Save(t)
  BY <1>6, SaveType DEF Proceed, Save
<1>7. CASE Reply(t)
  BY <1>7, ReplyType
<1>8. CASE ReplyFreeform(t)
  BY <1>8, ReplyFreeformType
<1> QED BY <1>1, <1>2, <1>3, <1>4, <1>5, <1>6, <1>7, <1>8, FailureOf

LatestPage(p, s) ==
    /\ p.quiz = "notebook"
    /\ \A id \in DOMAIN s : s[id].session = p.session
    /\ s # Nothing

\* The store of recognition cards holds a page's cards at their places in the page.
Holds(p, s) ==
    \A i \in DOMAIN p.shown : p.shown[i].id = i /\ i \in DOMAIN s /\ s[i].card = p.shown[i].card

LatestHolds(p, s) == LatestPage(p, s) => Holds(p, s)

LatestInv ==
    \A t \in Tabs : page[t].session <= starts /\ LatestHolds(page[t], store["notebook"])

LEMMA LatestSame ==
    ASSUME NEW p, NEW q, NEW s, q.quiz = p.quiz, q.session = p.session,
           p.quiz = "notebook" => q.shown = p.shown, LatestHolds(p, s)
    PROVE  LatestHolds(q, s)
BY DEF LatestHolds, LatestPage, Holds

LEMMA LatestStart ==
    ASSUME TInv, LatestInv, NEW t \in Tabs, NEW quiz \in Batched, NEW cards \in Decks,
           Start(t, quiz, cards)
    PROVE  \A u \in Tabs : page'[u].session <= starts' /\ LatestHolds(page'[u], store'["notebook"])
<1> DEFINE ids   == IDs(quiz, cards)
           fresh == Entries(ids, cards, starts + 1)
<1>1. /\ store'[quiz] = IF quiz = "relearn" THEN Merged(fresh, store[quiz]) ELSE fresh
      /\ \A q \in Stores \ {quiz} : store'[q] = store[q]
      /\ cards \in Seq(Cards) /\ DOMAIN ids = DOMAIN cards
      /\ \A i \in DOMAIN ids : ids[i] \in DOMAIN fresh
      /\ \A id \in DOMAIN fresh :
             \E i \in DOMAIN ids : /\ ids[i] = id
                                   /\ fresh[id] = [card |-> cards[i], session |-> starts + 1]
  BY StartStore
<1>2. /\ page'[t].quiz = quiz /\ page'[t].session = starts + 1
      /\ page'[t].shown = [i \in DOMAIN cards |-> [id |-> ids[i], card |-> cards[i]]]
      /\ \A u \in Tabs \ {t} : page'[u] = page[u]
  <2> USE StartType
  <2>1. page'[t].shown = [i \in DOMAIN cards |-> [id |-> ids[i], card |-> cards[i]]]
    BY ZenonT(60)
  <2>2. page'[t].quiz = quiz /\ page'[t].session = starts + 1
    OBVIOUS
  <2>3. \A u \in Tabs \ {t} : page'[u] = page[u]
    OBVIOUS
  <2> QED BY <2>1, <2>2, <2>3
<1>3. starts \in Nat /\ starts' = starts + 1 /\ \A u \in Tabs : page[u].session \in Nat
  <2>1. starts' = starts + 1
    BY DEF Start, Show
  <2>2. starts \in Nat /\ \A u \in Tabs : page[u].session \in Nat
    BY DEF TInv, Page
  <2> QED BY <2>1, <2>2
<1>4. 1 \in DOMAIN cards
  BY DeckSeq
<1>5. quiz = "notebook" => \A i \in DOMAIN cards : ids[i] = i
  BY DEF IDs
<1> HIDE DEF ids, fresh
<1>6. \A u \in Tabs : page'[u].session <= starts'
  BY <1>2, <1>3 DEF LatestInv
<1>7. CASE quiz = "notebook"
  <2>1. store'["notebook"] = fresh
    BY <1>1, <1>7
  <2>2. Holds(page'[t], fresh)
    BY <1>1, <1>2, <1>5, <1>7 DEF Holds
  <2>3. ASSUME NEW u \in Tabs \ {t} PROVE ~LatestPage(page'[u], fresh)
    <3>1. ids[1] \in DOMAIN fresh /\ fresh[ids[1]].session = starts + 1
      BY <1>1, <1>4
    <3>2. page'[u].session # starts + 1
      BY <1>2, <1>3 DEF LatestInv
    <3> QED BY <3>1, <3>2 DEF LatestPage
  <2> QED BY <1>6, <2>1, <2>2, <2>3 DEF LatestHolds
<1>8. CASE quiz # "notebook"
  <2>1. store'["notebook"] = store["notebook"]
    BY <1>1, <1>8 DEF Stores
  <2>2. LatestHolds(page'[t], store["notebook"])
    BY <1>2, <1>8 DEF LatestHolds, LatestPage
  <2> QED BY <1>2, <1>6, <2>1, <2>2 DEF LatestInv
<1> QED BY <1>7, <1>8

LEMMA LatestNext == TInv /\ LatestInv /\ [Next]_vars => LatestInv'
<1> SUFFICES ASSUME TInv, LatestInv, [Next]_vars PROVE LatestInv'
  OBVIOUS
<1> DEFINE Good == \A u \in Tabs : page'[u].session <= starts' /\ LatestHolds(page'[u], store'["notebook"])
<1>1. Good => LatestInv'
  BY DEF LatestInv, LatestHolds, LatestPage, Holds
<1>s. starts \in Nat /\ \A u \in Tabs : page[u].session \in Nat
  BY DEF TInv, Page
<1>2. ASSUME NEW t \in Tabs, NEW quiz \in Batched, NEW cards \in Decks, Start(t, quiz, cards) PROVE Good
  BY <1>2, LatestStart
<1>3. ASSUME NEW t \in Tabs, StartFreeformQuiz(t) \/ \E id \in DOMAIN DbNotes : OpenDetail(t, id)
      PROVE  Good
  <2>1. starts' = starts + 1
    BY <1>3 DEF StartFreeformQuiz, OpenDetail, Show
  <2> QED BY <1>3, <1>s, <2>1, OpenType DEF LatestInv, LatestHolds, LatestPage
<1>4. ASSUME NEW t \in Tabs,
             \/ \E j \in DOMAIN page[t].shown : Flush(t, j)
             \/ FlushAgain(t) \/ AnswerLastAgain(t)
             \/ \E j \in DOMAIN page[t].shown : Exclude(t, j)
      PROVE  Good
  BY <1>4, SentType, ExcludeType DEF LatestInv
<1>5. ASSUME NEW t \in Tabs, NEW card \in Cards, SubmitFreeform(t, card) PROVE Good
  <2>1. starts' = starts
    BY <1>5 DEF SubmitFreeform, Send
  <2> QED BY <1>5, <2>1, SubmitType DEF LatestInv, LatestHolds, LatestPage
<1>6. ASSUME NEW t \in Tabs, Handle(t) PROVE Good
  <2>1. /\ page'[t].quiz = page[t].quiz /\ page'[t].session = page[t].session
        /\ page[t].quiz = "notebook" => page'[t].shown = page[t].shown
        /\ store'["notebook"] = store["notebook"] /\ starts' = starts
    BY <1>6, HandleKeeps DEF Stores
  <2>2. LatestHolds(page'[t], store'["notebook"])
    BY <2>1, LatestSame DEF LatestInv
  <2> QED BY <1>6, <2>1, <2>2, OneTab DEF LatestInv
<1>7. CASE Restart
  <2>1. store'["notebook"] = Nothing /\ starts' = starts
    BY <1>7, RestartType DEF Stores, Restart
  <2>2. \A u \in Tabs : page'[u].session = page[u].session
    BY <1>7, RestartType, AfterFailureInv
  <2> QED BY <2>1, <2>2 DEF LatestInv, LatestHolds, LatestPage
<1>8. CASE UNCHANGED vars
  BY <1>8 DEF vars, LatestInv
<1> HIDE DEF Good
<1> QED BY <1>1, <1>2, <1>3, <1>4, <1>5, <1>6, <1>7, <1>8 DEF Next, OfTab

\* A click in the latest recognition quiz is about the card clicked, whatever cards the
\* other quizzes put under the same id: resolveCardInfo asks the recognition store
\* first, and that store still holds the cards of this page under their positions.
THEOREM LatestClicksHit == Spec => []LatestNotebookClicks
<1>1. Init => LatestInv
  BY DEF Init, LatestInv, LatestHolds, LatestPage, NoPage
<1>2. LatestInv => LatestNotebookClicks
  <2> SUFFICES ASSUME LatestInv, NEW t \in Tabs, LatestNotebookPage(t), NEW i \in DOMAIN page[t].shown
               PROVE  Resolve(page[t].shown[i].id) = page[t].shown[i].card
    BY DEF LatestNotebookClicks
  <2> DEFINE id == page[t].shown[i].id
             with == {k \in DOMAIN ResolveOrder : id \in DOMAIN store[ResolveOrder[k]]}
             first == CHOOSE k \in with : \A j \in with : k <= j
  <2>1. id \in DOMAIN store["notebook"] /\ store["notebook"][id].card = page[t].shown[i].card
    BY DEF LatestInv, LatestHolds, LatestNotebookPage, LatestPage, Holds
  <2>2. DOMAIN ResolveOrder = 1 .. 5 /\ ResolveOrder[1] = "notebook"
    BY DEF ResolveOrder
  <2>3. with \subseteq 1 .. 5 /\ 1 \in with
    BY <2>1, <2>2
  <2> HIDE DEF with
  <2>4. first = 1
    <3>1. \A j \in with : 1 <= j
      BY <2>3
    <3>2. \A k \in with : (\A j \in with : k <= j) => k = 1
      BY <2>3
    <3> QED BY <2>3, <3>1, <3>2
  <2>5. Resolve(id) = store[ResolveOrder[first]][id].card
    BY <2>3 DEF Resolve, with
  <2> QED BY <2>1, <2>2, <2>4, <2>5
<1> QED BY <1>1, <1>2, TypedAlways, LatestNext, PTL DEF Spec

-----------------------------------------------------------------------------
(* No counter gets beyond LastCounter *)

InFlight == {t \in Tabs : req[t].pc # "idle"}

\* A free-form answer that is under way may still take an id.
CountInv ==
    /\ Cardinality(InFlight) <= calls
    /\ nextID + Cardinality(InFlight) <= 1 + MaxDeck * starts + calls
    /\ starts <= MaxStarts /\ calls <= MaxCalls

LEMMA FlightFinite == IsFiniteSet(InFlight) /\ Cardinality(InFlight) \in Nat
<1>1. InFlight \in SUBSET Tabs
  BY DEF InFlight
<1> QED BY <1>1, BoundsAssumption, FS_Subset, FS_CardinalityType

\* The requests in flight after a step of one tab.
LEMMA FlightStep ==
    ASSUME NEW t \in Tabs, \A u \in Tabs \ {t} : req'[u] = req[u]
    PROVE  /\ InFlight' = IF req'[t].pc # "idle" THEN InFlight \cup {t} ELSE InFlight \ {t}
           /\ Cardinality(InFlight') \in Nat
           /\ Cardinality(InFlight') <= Cardinality(InFlight) + 1
           /\ req'[t].pc = "idle" \/ req[t].pc # "idle" => Cardinality(InFlight') <= Cardinality(InFlight)
           /\ req'[t].pc = "idle" /\ req[t].pc # "idle" => Cardinality(InFlight') = Cardinality(InFlight) - 1
<1>1. InFlight' = IF req'[t].pc # "idle" THEN InFlight \cup {t} ELSE InFlight \ {t}
  BY DEF InFlight
<1>2. t \in InFlight <=> req[t].pc # "idle"
  BY DEF InFlight
<1> DEFINE S == InFlight
<1>3. IsFiniteSet(S) /\ Cardinality(S) \in Nat
  BY FlightFinite
<1>4. InFlight' = IF req'[t].pc # "idle" THEN S \cup {t} ELSE S \ {t}
  BY <1>1
<1> HIDE DEF S
<1>5. Cardinality(S \cup {t}) = IF t \in S THEN Cardinality(S) ELSE Cardinality(S) + 1
  BY <1>3, FS_AddElement
<1>6. Cardinality(S \ {t}) = IF t \in S THEN Cardinality(S) - 1 ELSE Cardinality(S)
  BY <1>3, FS_RemoveElement
<1>7. IsFiniteSet(S \ {t}) /\ Cardinality(S \ {t}) \in Nat /\ IsFiniteSet(S \cup {t}) /\ Cardinality(S \cup {t}) \in Nat
  BY <1>3, FS_AddElement, FS_RemoveElement, FS_CardinalityType
<1> QED BY <1>1, <1>2, <1>3, <1>4, <1>5, <1>6, <1>7 DEF S

LEMMA Products ==
    /\ \A a \in Nat : MaxDeck * a \in Nat /\ MaxDeck * (a + 1) = MaxDeck * a + MaxDeck
    /\ \A a, b \in Nat : a <= b => MaxDeck * a <= MaxDeck * b
BY BoundsAssumption

LEMMA CountBound == TInv /\ CountInv => nextID <= LastCounter
<1> SUFFICES ASSUME TInv, CountInv PROVE nextID <= LastCounter
  OBVIOUS
<1> DEFINE a == MaxDeck * starts
           b == MaxDeck * MaxStarts
           c == Cardinality(InFlight)
<1>1. starts \in Nat /\ MaxStarts \in Nat /\ calls \in Nat /\ MaxCalls \in Nat /\ nextID \in Nat
  BY BoundsAssumption DEF TInv
<1>2. a \in Nat /\ b \in Nat /\ a <= b
  BY <1>1, Products DEF CountInv
<1>3. c \in Nat
  BY FlightFinite
<1>4. nextID + c <= 1 + a + calls /\ calls <= MaxCalls
  BY DEF CountInv
<1>5. LastCounter = 1 + b + MaxCalls
  BY DEF LastCounter
<1> HIDE DEF a, b, c
<1> QED BY <1>1, <1>2, <1>3, <1>4, <1>5

\* One answer more, at most one request more.
LEMMA CountSent ==
    ASSUME TInv, CountInv, NEW t \in Tabs, \A u \in Tabs \ {t} : req'[u] = req[u],
           calls < MaxCalls, calls' = calls + 1, UNCHANGED <<nextID, starts>>
    PROVE  CountInv'
<1> DEFINE a == MaxDeck * starts
           c == Cardinality(InFlight)
           d == Cardinality(InFlight')
<1>1. calls \in Nat /\ nextID \in Nat /\ starts \in Nat /\ MaxCalls \in Nat
  BY BoundsAssumption DEF TInv
<1>2. a \in Nat /\ c \in Nat /\ d \in Nat /\ d <= c + 1
  BY <1>1, Products, FlightFinite, FlightStep
<1>3. c <= calls /\ nextID + c <= 1 + a + calls /\ starts <= MaxStarts
  BY DEF CountInv
<1>4. CountInv' <=> /\ d <= calls' /\ nextID' + d <= 1 + MaxDeck * starts' + calls'
                    /\ starts' <= MaxStarts /\ calls' <= MaxCalls
  BY DEF CountInv
<1>5. MaxDeck * starts' = a
  OBVIOUS
<1> HIDE DEF a, c, d
<1> QED BY <1>1, <1>2, <1>3, <1>4, <1>5

LEMMA CountStart ==
    ASSUME TInv, CountInv, starts < MaxStarts, starts' = starts + 1, UNCHANGED <<req, calls>>,
           nextID' \in Nat, nextID' <= nextID + MaxDeck \/ nextID' <= MaxDeck + 1
    PROVE  CountInv'
<1> DEFINE a == MaxDeck * starts
           b == a + MaxDeck
           c == Cardinality(InFlight)
<1>1. calls \in Nat /\ nextID \in Nat /\ starts \in Nat
      /\ MaxStarts \in Nat /\ MaxDeck \in Nat /\ MaxCalls \in Nat
  BY BoundsAssumption DEF TInv
<1>2. a \in Nat /\ c \in Nat
  BY <1>1, Products, FlightFinite
<1>p. MaxDeck * starts' = b
  BY <1>1, Products
<1>3. c <= calls /\ nextID + c <= 1 + a + calls /\ calls <= MaxCalls
  BY DEF CountInv
<1>4. CountInv' <=> /\ c <= calls' /\ nextID' + c <= 1 + b + calls'
                    /\ starts' <= MaxStarts /\ calls' <= MaxCalls
  BY <1>p DEF CountInv, InFlight
<1> HIDE DEF a, c
<1>5. nextID' + c <= 1 + b + calls
  <2>1. \A m, n, k, d, i, j \in Nat :
            /\ m <= n + k \/ m <= k + 1
            /\ i <= j /\ n + i <= 1 + d + j
            => m + i <= 1 + (d + k) + j
    OBVIOUS
  <2>2. nextID' \in Nat /\ (nextID' <= nextID + MaxDeck \/ nextID' <= MaxDeck + 1)
    OBVIOUS
  <2> QED BY <1>1, <1>2, <1>3, <2>1, <2>2
<1>6. starts' <= MaxStarts /\ c <= calls /\ calls <= MaxCalls /\ calls' = calls
  BY <1>1, <1>3
<1> QED BY <1>4, <1>5, <1>6

\* A handler takes an id only when its request is done.
LEMMA CountHandle ==
    ASSUME TInv, CountInv, NEW t \in Tabs, \A u \in Tabs \ {t} : req'[u] = req[u],
           req[t].pc # "idle", UNCHANGED <<starts, calls>>,
           \/ nextID' = nextID
           \/ nextID' = nextID + 1 /\ req'[t].pc = "idle"
    PROVE  CountInv'
<1> DEFINE a == MaxDeck * starts
           c == Cardinality(InFlight)
           d == Cardinality(InFlight')
<1>1. calls \in Nat /\ nextID \in Nat /\ starts \in Nat
  BY DEF TInv
<1>2. a \in Nat /\ c \in Nat /\ d \in Nat /\ d <= c /\ (req'[t].pc = "idle" => d = c - 1)
  BY <1>1, Products, FlightFinite, FlightStep
<1>3. c <= calls /\ nextID + c <= 1 + a + calls /\ starts <= MaxStarts /\ calls <= MaxCalls
  BY DEF CountInv
<1>4. CountInv' <=> /\ d <= calls' /\ nextID' + d <= 1 + MaxDeck * starts' + calls'
                    /\ starts' <= MaxStarts /\ calls' <= MaxCalls
  BY DEF CountInv
<1>5. MaxDeck * starts' = a
  OBVIOUS
<1> HIDE DEF a, c, d
<1> QED BY <1>1, <1>2, <1>3, <1>4, <1>5

LEMMA CountNext == TInv /\ CountInv /\ [Next]_vars => CountInv'
<1> SUFFICES ASSUME TInv, CountInv, [Next]_vars PROVE CountInv'
  OBVIOUS
<1>0. nextID \in Nat \ {0} /\ MaxDeck \in Nat
  BY BoundsAssumption DEF TInv
<1>1. ASSUME NEW t \in Tabs, NEW quiz \in Batched, NEW cards \in Decks, Start(t, quiz, cards)
      PROVE  CountInv'
  <2>1. Show(t, quiz, IDs(quiz, cards), cards)
    BY <1>1 DEF Start
  <2>2. starts < MaxStarts /\ starts' = starts + 1 /\ UNCHANGED <<req, calls>>
    BY <2>1 DEF Show
  <2>3. nextID' = CASE quiz = "relearn" -> nextID
                    [] quiz = "grammar" -> nextID + Len(cards)
                    [] OTHER            -> Len(cards) + 1
    BY <1>1 DEF Start
  <2>4. Len(cards) \in 0 .. MaxDeck
    BY DeckSeq
  <2> DEFINE n == Len(cards)
  <2>5. nextID' \in {nextID, nextID + n, n + 1}
    BY <2>3
  <2> HIDE DEF n
  <2>6. nextID' \in Nat /\ (nextID' <= nextID + MaxDeck \/ nextID' <= MaxDeck + 1)
    BY <1>0, <2>4, <2>5 DEF n
  <2> QED BY <2>2, <2>6, CountStart
<1>2. ASSUME NEW t \in Tabs, StartFreeformQuiz(t) \/ \E id \in DOMAIN DbNotes : OpenDetail(t, id)
      PROVE  CountInv'
  <2>1. starts < MaxStarts /\ starts' = starts + 1 /\ UNCHANGED <<req, calls>> /\ nextID' = nextID
    BY <1>2 DEF StartFreeformQuiz, OpenDetail, Show
  <2> QED BY <1>0, <2>1, CountStart
<1>3. ASSUME NEW t \in Tabs,
             \/ \E j \in DOMAIN page[t].shown : Flush(t, j)
             \/ FlushAgain(t) \/ AnswerLastAgain(t)
      PROVE  CountInv'
  <2>1. calls < MaxCalls
    BY <1>3 DEF Flush, FlushAgain, AnswerLastAgain, Send
  <2> QED BY <1>3, <2>1, SentType, CountSent
<1>4. ASSUME NEW t \in Tabs, NEW card \in Cards, SubmitFreeform(t, card) PROVE CountInv'
  <2>1. calls < MaxCalls /\ calls' = calls + 1 /\ UNCHANGED <<nextID, starts>>
    BY <1>4 DEF SubmitFreeform, Send
  <2> QED BY <1>4, <2>1, SubmitType, CountSent
<1>5. ASSUME NEW t \in Tabs, NEW j, Exclude(t, j) PROVE CountInv'
  BY <1>5 DEF Exclude, CountInv, InFlight
<1>6. ASSUME NEW t \in Tabs, Handle(t) PROVE CountInv'
  <2>1. req[t].pc # "idle"
    BY <1>6 DEF Handle, LookupBatch, LookupBlank, LookupOneByOne, LookupFreeform, Grade, GradeFails,
                Save, SaveFails, Reply, ReplyFreeform
  <2>2. UNCHANGED <<starts, calls>> /\ \A u \in Tabs \ {t} : req'[u] = req[u]
    BY <1>6, HandleKeeps, OneTab
  <2>3. CASE ReplyFreeform(t)
    <3>1. nextID' = nextID + 1 /\ req'[t].pc = "idle"
      BY <2>3, ReplyFreeformType DEF NoReq
    <3> QED BY <2>1, <2>2, <3>1, CountHandle
  <2>4. CASE ~ReplyFreeform(t)
    <3>1. nextID' = nextID
      BY <1>6, <2>4, FailureOf DEF Failed, LookupBatch, LookupBlank, LookupOneByOne, LookupFreeform,
                                  Grade, Save, Reply, Proceed
    <3> QED BY <2>1, <2>2, <3>1, CountHandle
  <2> QED BY <2>3, <2>4
<1>7. CASE Restart
  <2>1. calls < MaxCalls /\ calls' = calls + 1 /\ nextID' = 1 /\ starts' = starts
    BY <1>7 DEF Restart
  <2>2. InFlight' = {}
    BY <1>7, RestartType DEF InFlight, NoReq
  <2>3. Cardinality(InFlight)' = 0
    BY <2>2, FS_EmptySet
  <2>4. MaxDeck * starts \in Nat /\ calls \in Nat /\ MaxCalls \in Nat
    BY BoundsAssumption, Products DEF TInv
  <2>5. starts <= MaxStarts
    BY DEF CountInv
  <2> DEFINE a == MaxDeck * starts
  <2>6. CountInv' <=> /\ 0 <= calls' /\ nextID' + 0 <= 1 + a + calls'
                      /\ starts <= MaxStarts /\ calls' <= MaxCalls
    BY <2>1, <2>3 DEF CountInv
  <2> HIDE DEF a
  <2>7. a \in Nat
    BY <2>4 DEF a
  <2>8. calls \in Nat /\ MaxCalls \in Nat
    BY <2>4
  <2> QED BY <2>1, <2>5, <2>6, <2>7, <2>8
<1>8. CASE UNCHANGED vars
  BY <1>8 DEF vars, CountInv, InFlight
<1> QED BY <1>1, <1>2, <1>3, <1>4, <1>5, <1>6, <1>7, <1>8 DEF Next, OfTab

LEMMA CountInit == Init => CountInv
<1> SUFFICES ASSUME Init PROVE CountInv
  OBVIOUS
<1>1. InFlight = {}
  BY DEF Init, InFlight, NoReq
<1>2. Cardinality(InFlight) = 0
  BY <1>1, FS_EmptySet
<1>3. MaxDeck * 0 = 0 /\ MaxStarts \in Nat /\ MaxCalls \in Nat
  BY BoundsAssumption
<1> QED BY <1>2, <1>3 DEF Init, CountInv

LEMMA CountAlways == Spec => [](TInv /\ CountInv)
BY CountInit, CountNext, TypedInit, TypedNext, PTL DEF Spec

-----------------------------------------------------------------------------
(* A relearn page acts on the cards it shows *)

\* An id of the relearn store is the hash of its card, and no id of another store is a hash.
HashStore(s) ==
    /\ \A id \in DOMAIN s["relearn"] : RelearnID[s["relearn"][id].card] = id
    /\ \A q \in Stores \ {"relearn"} : \A id \in DOMAIN s[q] : id <= LastCounter

\* A relearn page shows its cards under their hashes, and looks up the cards of these.
HashPage(p, r) == p.quiz = "relearn" =>
    /\ \A i \in DOMAIN p.shown : p.shown[i].id = RelearnID[p.shown[i].card]
    /\ \A k \in DOMAIN r.got : RelearnID[r.got[k].card] = p.shown[r.todo[k]].id

HashInv ==
    /\ HashStore(store)
    /\ \A t \in Tabs : HashPage(page[t], req[t])
    /\ RelearnActsOnShown

LEMMA HashIdle ==
    ASSUME NEW p, NEW q, NEW r, NEW old, HashPage(p, old), q.quiz = p.quiz,
           p.quiz = "relearn" => q.shown = p.shown, DOMAIN r.got = {}
    PROVE  HashPage(q, r)
BY DEF HashPage

LEMMA NoneGot == DOMAIN NoReq.got = {}
BY EmptySeq DEF NoReq

LEMMA HashStart ==
    ASSUME TInv, TInv', CountInv', HashInv, NEW t \in Tabs, NEW quiz \in Batched, NEW cards \in Decks,
           Start(t, quiz, cards)
    PROVE  HashStore(store') /\ HashPage(page'[t], req'[t])
<1> DEFINE ids   == IDs(quiz, cards)
           fresh == Entries(ids, cards, starts + 1)
<1>1. /\ store'[quiz] = IF quiz = "relearn" THEN Merged(fresh, store[quiz]) ELSE fresh
      /\ \A q \in Stores \ {quiz} : store'[q] = store[q]
      /\ cards \in Seq(Cards) /\ DOMAIN ids = DOMAIN cards
      /\ \A i \in DOMAIN cards : cards[i] \in Cards
      /\ \A id \in DOMAIN fresh :
             \E i \in DOMAIN ids : /\ ids[i] = id
                                   /\ fresh[id] = [card |-> cards[i], session |-> starts + 1]
  BY StartStore
<1>2. page'[t].shown = [i \in DOMAIN cards |-> [id |-> ids[i], card |-> cards[i]]]
  BY ZenonT(60), StartType
<1>3. page'[t].quiz = quiz /\ req'[t] = NoReq
  BY StartType
<1>4. quiz = "relearn" => \A i \in DOMAIN cards : ids[i] = RelearnID[cards[i]]
  BY DEF IDs
<1>5. ASSUME quiz # "relearn", NEW i \in DOMAIN cards PROVE ids[i] <= LastCounter
  <2> DEFINE n == Len(cards)
  <2>1. n \in Nat /\ i \in 1 .. n
    BY <1>1
  <2>2. nextID' = IF quiz = "grammar" THEN nextID + n ELSE n + 1
    BY <1>5 DEF Start
  <2>3. ids[i] = IF quiz = "grammar" THEN nextID + i - 1 ELSE i
    BY <1>5 DEF IDs
  <2>4. nextID' <= LastCounter
    <3>1. (TInv /\ CountInv => nextID <= LastCounter)'
      BY CountBound, PTL
    <3> QED BY <3>1 DEF LastCounter
  <2>5. nextID \in Nat /\ LastCounter \in Nat
    BY BoundsAssumption, Products DEF TInv, LastCounter
  <2> HIDE DEF n, ids
  <2>6. ids[i] <= nextID'
    BY <2>1, <2>2, <2>3, <2>5
  <2>7. ids[i] \in Int /\ nextID' \in Int
    BY <2>1, <2>2, <2>3, <2>5
  <2> QED BY <2>4, <2>5, <2>6, <2>7
<1> HIDE DEF ids, fresh
<1>6. HashPage(page'[t], req'[t])
  BY <1>1, <1>2, <1>3, <1>4, NoneGot DEF HashPage
<1>7. HashStore(store')
  <2>1. CASE quiz = "relearn"
    <3>1. \A id \in DOMAIN fresh : RelearnID[fresh[id].card] = id
      BY <1>1, <1>4, <2>1
    <3>2. \A id \in DOMAIN store'["relearn"] : RelearnID[store'["relearn"][id].card] = id
      BY <1>1, <2>1, <3>1 DEF Merged, HashInv, HashStore
    <3> QED BY <1>1, <2>1, <3>2 DEF HashInv, HashStore
  <2>2. CASE quiz # "relearn"
    <3>1. \A id \in DOMAIN fresh : id <= LastCounter
      BY <1>1, <1>5, <2>2
    <3>2. "relearn" \in Stores \ {quiz}
      BY <2>2 DEF Stores
    <3> QED BY <1>1, <2>2, <3>1, <3>2 DEF HashInv, HashStore
  <2> QED BY <2>1, <2>2
<1> QED BY <1>6, <1>7

\* The learner of a relearn page excludes a card: only the relearn store can have its id.
LEMMA HashExclude ==
    ASSUME TInv, HashInv, NEW t \in Tabs, NEW j \in DOMAIN page[t].shown, Exclude(t, j)
    PROVE  RelearnActsOnShown'
<1> DEFINE card == page[t].shown[j].card
           id   == page[t].shown[j].id
           with == {i \in DOMAIN ResolveOrder : id \in DOMAIN store[ResolveOrder[i]]}
<1>1. deed' = [quiz |-> page[t].quiz, shown |-> card, hit |-> Resolve(id)]
  BY DEF Exclude
<1>2. CASE page[t].quiz # "relearn"
  BY <1>1, <1>2 DEF RelearnActsOnShown
<1>3. CASE page[t].quiz = "relearn"
  <2>1. card \in Cards
    <3>1. page[t].shown \in Seq(Shown)
      BY DEF TInv, Page
    <3>2. page[t].shown[j] \in Shown
      BY <3>1
    <3> QED BY <3>2 DEF Shown
  <2>2. id = RelearnID[card]
    BY <1>3 DEF HashInv, HashPage
  <2>3. id \in Nat /\ id \notin DOMAIN DbNotes /\ id \notin 0 .. LastCounter
    BY <2>1, <2>2, RelearnAssumption
  <2>4. LastCounter \in Nat
    BY BoundsAssumption, Products DEF LastCounter
  <2> HIDE DEF card, id
  <2>5. ~(id <= LastCounter)
    BY <2>3, <2>4
  <2>6. \A q \in Stores \ {"relearn"} : id \notin DOMAIN store[q]
    BY <2>5 DEF HashInv, HashStore
  <2>7. /\ DOMAIN ResolveOrder = 1 .. 5
        /\ ResolveOrder[1] = "notebook" /\ ResolveOrder[2] = "reverse" /\ ResolveOrder[3] = "freeform"
        /\ ResolveOrder[4] = "grammar" /\ ResolveOrder[5] = "relearn"
    BY DEF ResolveOrder
  <2>8. with \subseteq {5}
    BY <2>6, <2>7 DEF Stores
  <2>9. CASE with = {}
    <3>1. Resolve(id) = NotFound
      BY <2>3, <2>9 DEF Resolve
    <3> QED BY <1>1, <3>1 DEF RelearnActsOnShown
  <2>10. CASE with # {}
    <3>1. 5 \in with /\ \A i \in with : i = 5
      BY <2>8, <2>10
    <3>2. id \in DOMAIN store["relearn"]
      BY <2>7, <3>1
    <3> DEFINE first == CHOOSE i \in with : \A k \in with : i <= k
    <3>3. Resolve(id) = store[ResolveOrder[first]][id].card
      BY <2>10 DEF Resolve
    <3> HIDE DEF with
    <3>4. first = 5
      BY <3>1
    <3>5. Resolve(id) = store["relearn"][id].card
      BY <2>7, <3>3, <3>4
    <3>6. RelearnID[store["relearn"][id].card] = RelearnID[card]
      BY <2>2, <3>2 DEF HashInv, HashStore, id, card
    <3>7. store["relearn"][id].card \in Cards
      BY <3>2 DEF TInv, StoreInv, Stores, Slot
    <3>8. store["relearn"][id].card = card
      BY <2>1, <3>6, <3>7, RelearnAssumption
    <3> QED BY <1>1, <3>5, <3>8 DEF RelearnActsOnShown
  <2> QED BY <2>9, <2>10
<1> QED BY <1>2, <1>3

LEMMA HashGrade ==
    ASSUME TInv, HashInv, NEW t \in Tabs, Grade(t)
    PROVE  RelearnActsOnShown'
<1> DEFINE n     == req[t].todo[1]
           shown == page[t].shown[n]
           hit   == req[t].got[1].card
<1>1. deed' = [quiz |-> page[t].quiz, shown |-> shown.card, hit |-> hit] /\ req[t].pc = "grade"
  BY DEF Grade
<1>2. CASE page[t].quiz # "relearn"
  BY <1>1, <1>2 DEF RelearnActsOnShown
<1>3. CASE page[t].quiz = "relearn"
  <2>1. /\ req[t].todo \in Seq(Nat) /\ req[t].got \in Seq(Slot) /\ page[t].shown \in Seq(Shown)
    BY DEF TInv, Page, Req
  <2>2. /\ Len(req[t].got) = Len(req[t].todo) /\ Len(req[t].todo) # 0
        /\ \A k \in DOMAIN req[t].todo : req[t].todo[k] \in DOMAIN page[t].shown
    BY <1>1 DEF TInv, ReqInv
  <2>3. 1 \in DOMAIN req[t].got /\ 1 \in DOMAIN req[t].todo
    BY <2>1, <2>2
  <2>4. n \in DOMAIN page[t].shown /\ req[t].got[1] \in Slot /\ shown \in Shown
    BY <2>1, <2>2, <2>3
  <2>5. shown.id = RelearnID[shown.card] /\ RelearnID[hit] = shown.id
    BY <1>3, <2>3, <2>4 DEF HashInv, HashPage
  <2>6. hit \in Cards /\ shown.card \in Cards
    BY <2>4 DEF Slot, Shown
  <2> HIDE DEF hit, shown
  <2>7. hit = shown.card
    BY <2>5, <2>6, RelearnAssumption
  <2> QED BY <1>1, <2>7 DEF RelearnActsOnShown
<1> QED BY <1>2, <1>3

LEMMA HashHandle ==
    ASSUME TInv, CountInv, HashInv, NEW t \in Tabs, Handle(t)
    PROVE  HashStore(store') /\ HashPage(page'[t], req'[t])
<1>0. HashPage(page[t], req[t]) /\ "relearn" \in Stores
  BY DEF HashInv, Stores
<1>1. HashStore(store')
  <2>1. \A q \in Stores \ {"freeform"} : store'[q] = store[q]
    BY HandleKeeps
  <2>2. \A id \in DOMAIN store'["freeform"] : id <= LastCounter
    <3>1. CASE ReplyFreeform(t)
      BY <3>1, ReplyFreeformType, CountBound DEF HashInv, HashStore, Stores
    <3>2. CASE ~ReplyFreeform(t)
      <4>1. store' = store
        BY <3>2, FailureOf DEF Failed, LookupBatch, LookupBlank, LookupOneByOne, LookupFreeform,
                              Grade, Save, Reply, Proceed
      <4> QED BY <4>1 DEF HashInv, HashStore, Stores
    <3> QED BY <3>1, <3>2
  <2> QED BY <1>0, <2>1, <2>2 DEF HashInv, HashStore
<1>2. page'[t].quiz = page[t].quiz /\ (page[t].quiz = "relearn" => page'[t].shown = page[t].shown)
  BY HandleKeeps
<1>3. HashPage(page'[t], req'[t])
  <2>1. CASE req'[t] = NoReq
    BY <1>0, <1>2, <2>1, NoneGot, HashIdle
  <2>2. CASE LookupBatch(t) /\ ~Failed(t)
    <3>1. /\ TInv' /\ page' = page /\ req'[t].todo = req[t].todo
          /\ Len(req'[t].got) = Len(req[t].todo)
          /\ \A k \in DOMAIN req[t].todo :
                 LET id == page[t].shown[req[t].todo[k]].id
                 IN  id \in DOMAIN store[page[t].quiz] /\ req'[t].got[k] = store[page[t].quiz][id]
      BY <2>2, LookupBatchType
    <3>2. req'[t].got \in Seq(Slot) /\ req[t].todo \in Seq(Nat)
      BY <3>1 DEF TInv, Req
    <3>3. DOMAIN req'[t].got = 1 .. Len(req'[t].got) /\ DOMAIN req[t].todo = 1 .. Len(req[t].todo)
      BY <3>2
    <3>4. DOMAIN req'[t].got = DOMAIN req[t].todo
      BY <3>1, <3>3, Zenon
    <3>5. /\ HashPage(page[t], req[t])
          /\ \A id \in DOMAIN store["relearn"] : RelearnID[store["relearn"][id].card] = id
      BY <1>0 DEF HashInv, HashStore
    <3>6. SUFFICES ASSUME page[t].quiz = "relearn" PROVE HashPage(page'[t], req'[t])
      BY <3>1 DEF HashPage
    <3>7. \A i \in DOMAIN page[t].shown : page[t].shown[i].id = RelearnID[page[t].shown[i].card]
      BY <3>5, <3>6 DEF HashPage
    <3>8. ASSUME NEW k \in DOMAIN req'[t].got
          PROVE  RelearnID[req'[t].got[k].card] = page[t].shown[req'[t].todo[k]].id
    <4> DEFINE id == page[t].shown[req[t].todo[k]].id
    <4>1. id \in DOMAIN store["relearn"] /\ req'[t].got[k] = store["relearn"][id]
      BY <3>1, <3>4, <3>6, <3>8
    <4>2. RelearnID[store["relearn"][id].card] = id
      BY <3>5, <4>1
    <4> QED BY <3>1, <4>1, <4>2
    <3> QED BY <3>1, <3>7, <3>8 DEF HashPage
  <2>3. CASE LookupBlank(t) \/ LookupFreeform(t)
    <3>1. page[t].quiz # "relearn"
      BY <2>3 DEF LookupBlank, LookupFreeform
    <3> QED BY <1>2, <3>1 DEF HashPage
  <2>4. CASE Grade(t)
    BY <1>0, <1>2, <2>4, GradeType DEF HashPage
  <2>5. CASE Save(t)
    <3>1. req'[t].got = req[t].got /\ req'[t].todo = req[t].todo
      BY <2>5, SaveType DEF TInv, Req
    <3> QED BY <1>0, <1>2, <3>1 DEF HashPage
  <2> QED BY <2>1, <2>2, <2>3, <2>4, <2>5, FailureOf, FailedType, ReplyType, ReplyFreeformType
<1> QED BY <1>1, <1>3

LEMMA HashOfTab ==
    ASSUME TInv, TInv', CountInv', HashInv, NEW t \in Tabs, OfTab(t)
    PROVE  HashStore(store') /\ HashPage(page'[t], req'[t]) /\ RelearnActsOnShown'
<1>0. HashPage(page[t], req[t]) /\ HashStore(store)
  BY DEF HashInv
<1>d. deed' = deed => RelearnActsOnShown'
  BY DEF HashInv, RelearnActsOnShown
<1>1. ASSUME NEW quiz \in Batched, NEW cards \in Decks, Start(t, quiz, cards)
      PROVE  HashStore(store') /\ HashPage(page'[t], req'[t]) /\ RelearnActsOnShown'
  <2>1. deed' = deed
    BY <1>1 DEF Start, Show
  <2> QED BY <1>1, <1>d, <2>1, HashStart
<1>2. CASE StartFreeformQuiz(t) \/ \E id \in DOMAIN DbNotes : OpenDetail(t, id)
  <2>1. deed' = deed
    BY <1>2 DEF StartFreeformQuiz, OpenDetail, Show
  <2> QED BY <1>0, <1>2, <1>d, <2>1, OpenType DEF HashPage
<1>3. ASSUME NEW j \in DOMAIN page[t].shown, Exclude(t, j)
      PROVE  HashStore(store') /\ HashPage(page'[t], req'[t]) /\ RelearnActsOnShown'
  BY <1>0, <1>3, HashExclude, ExcludeType
<1>4. CASE \/ \E j \in DOMAIN page[t].shown : Flush(t, j)
           \/ FlushAgain(t) \/ AnswerLastAgain(t)
  BY <1>0, <1>4, <1>d, SentType, HashIdle
<1>5. ASSUME NEW card \in Cards, SubmitFreeform(t, card)
      PROVE  HashStore(store') /\ HashPage(page'[t], req'[t]) /\ RelearnActsOnShown'
  <2>1. deed' = deed
    BY <1>5 DEF SubmitFreeform, Send
  <2> QED BY <1>0, <1>5, <1>d, <2>1, SubmitType DEF HashPage
<1> QED BY <1>1, <1>2, <1>3, <1>4, <1>5 DEF OfTab

LEMMA HashNext == TInv /\ CountInv /\ HashInv /\ [Next]_vars => HashInv'
<1> SUFFICES ASSUME TInv, CountInv, HashInv, [Next]_vars PROVE HashInv'
  OBVIOUS
<1>0. TInv' /\ CountInv'
  BY TypedNext, CountNext
<1>1. ASSUME HashStore(store'), \A t \in Tabs : HashPage(page'[t], req'[t]), RelearnActsOnShown'
      PROVE  HashInv'
  <2>1. HashStore(store)'
    BY <1>1 DEF HashStore, LastCounter
  <2>2. (\A t \in Tabs : HashPage(page[t], req[t]))'
    BY <1>1 DEF HashPage
  <2> QED BY <1>1, <2>1, <2>2 DEF HashInv
<1>2. ASSUME NEW t \in Tabs, OfTab(t) \/ Handle(t) PROVE HashInv'
  <2>1. HashStore(store') /\ HashPage(page'[t], req'[t])
    BY <1>0, <1>2, HashOfTab, HashHandle
  <2>2. \A u \in Tabs : HashPage(page'[u], req'[u])
    BY <1>2, <2>1, OneTab DEF HashInv
  <2>3. RelearnActsOnShown'
    <3>1. CASE OfTab(t)
      BY <1>0, <3>1, HashOfTab
    <3>2. CASE Grade(t)
      BY <3>2, HashGrade
    <3>3. CASE Handle(t) /\ ~Grade(t)
      <4>1. deed' = deed
        BY <3>3, FailureOf DEF Failed, LookupBatch, LookupBlank, LookupOneByOne, LookupFreeform,
                              Save, Reply, ReplyFreeform
      <4> QED BY <4>1 DEF HashInv, RelearnActsOnShown
    <3> QED BY <1>2, <3>1, <3>2, <3>3
  <2> QED BY <1>1, <2>1, <2>2, <2>3
<1>3. CASE Restart
  <2>1. HashStore(store')
    BY <1>3, RestartType DEF HashStore, Stores, Nothing
  <2>2. \A t \in Tabs : HashPage(page'[t], req'[t])
    <3> SUFFICES ASSUME NEW t \in Tabs PROVE HashPage(page'[t], req'[t])
      OBVIOUS
    <3>1. /\ req'[t] = NoReq
          /\ page'[t].quiz = page[t].quiz /\ page'[t].shown = page[t].shown
      BY <1>3, RestartType, AfterFailureInv
    <3> QED BY <3>1, NoneGot, HashIdle DEF HashInv
  <2>3. RelearnActsOnShown'
    BY <1>3 DEF Restart, HashInv, RelearnActsOnShown
  <2> QED BY <1>1, <2>1, <2>2, <2>3
<1>4. CASE UNCHANGED vars
  BY <1>1, <1>4 DEF vars, HashInv, RelearnActsOnShown
<1> QED BY <1>2, <1>3, <1>4 DEF Next

\* What a relearn page sends, an answer or an exclusion, is about the card it shows or
\* is refused, through other pages' quizzes and restarts: its ids are hashes, which
\* name the same card in every session, and none of the counters gets as far as a hash.
THEOREM RelearnActsOnItsCards == Spec => []RelearnActsOnShown
<1>1. Init => HashInv
  BY EmptySeq DEF Init, HashInv, HashStore, HashPage, RelearnActsOnShown, Stores, Nothing, NoPage, NoReq
<1>2. HashInv => RelearnActsOnShown
  BY DEF HashInv
<1> QED BY <1>1, <1>2, CountAlways, HashNext, PTL DEF Spec

-----------------------------------------------------------------------------
(* A page whose requests all succeed stores each answer once, through its batches and *)
(* the second try of its synonyms.                                                    *)

Within(s, n) == \A i \in DOMAIN s : s[i] <= n
Has(s, x) == \E k \in DOMAIN s : s[k] = x

\* The batches of a page at rest have stored what was sent, but for the cards to try again.
RestingPage(p) ==
    /\ p.accept <=> Len(p.again) # 0
    /\ Distinct(p.again) /\ Within(p.again, p.sent)
    /\ \A i \in DOMAIN p.stored : p.stored[i] = IF i <= p.sent /\ ~Has(p.again, i) THEN 1 ELSE 0

\* A batch under way is made of the next cards, or of cards sent before that wait for
\* their second try; of its answers the first r.saved have been dealt with.
SendingPage(p, r) ==
    /\ Distinct(r.todo)
    /\ p.accept => Within(r.todo, p.sent)
    /\ ~p.accept => \A k \in DOMAIN r.todo : r.todo[k] = p.sent + k
    /\ \A i \in DOMAIN p.stored : ~Has(r.todo, i) => p.stored[i] = IF i <= p.sent THEN 1 ELSE 0
    /\ \A k \in DOMAIN r.todo :
           p.stored[r.todo[k]] = IF k <= r.saved /\ (p.accept \/ r.grades[k] # "synonym") THEN 1 ELSE 0

StoredPage(p, r) ==
    p.quiz \in Batched \ {"relearn"} /\ ~p.failed =>
        /\ r.pc = "idle" => RestingPage(p)
        /\ r.pc # "idle" => SendingPage(p, r)

StoredInv == \A t \in Tabs : StoredPage(page[t], req[t])

\* The next cards of a page are sent.
LEMMA SendNext ==
    ASSUME NEW p, NEW r, PageInv(p), RestingPage(p), Len(p.again) = 0,
           r.todo \in Seq(Nat), r.saved = 0,
           \A k \in DOMAIN r.todo : r.todo[k] = p.sent + k /\ r.todo[k] \in DOMAIN p.shown
    PROVE  SendingPage(p, r)
<1>1. /\ p.again \in Seq(Nat) /\ p.sent \in Nat
      /\ p.stored \in Seq(Nat) /\ p.shown \in Seq(Shown) /\ Len(p.stored) = Len(p.shown)
  BY DEF PageInv, Page
<1>2. DOMAIN p.again = {} /\ DOMAIN p.stored = DOMAIN p.shown /\ DOMAIN r.todo = 1 .. Len(r.todo)
  BY <1>1
<1>3. ~p.accept /\ Distinct(r.todo)
  <2>1. ~p.accept
    BY Zenon DEF RestingPage
  <2>2. Distinct(r.todo)
    BY <1>1, <1>2 DEF Distinct
  <2> QED BY <2>1, <2>2
<1>4. \A i \in DOMAIN p.stored : p.stored[i] = IF i <= p.sent THEN 1 ELSE 0
  BY <1>2 DEF RestingPage, Has
<1>5. \A k \in DOMAIN r.todo : ~(r.todo[k] <= p.sent) /\ ~(k <= 0)
  BY SMTT(30), <1>1, <1>2
<1>6. \A k \in DOMAIN r.todo : p.stored[r.todo[k]] = 0
  BY <1>2, <1>4, <1>5
<1> QED BY <1>3, <1>4, <1>5, <1>6 DEF SendingPage

\* The synonyms are sent again.
LEMMA SendAgain ==
    ASSUME NEW p, NEW r, PageInv(p), RestingPage(p), Len(p.again) # 0,
           r.todo = p.again, r.saved = 0
    PROVE  SendingPage(p, r)
<1>1. /\ p.again \in Seq(Nat) /\ p.sent \in Nat
      /\ p.stored \in Seq(Nat) /\ p.shown \in Seq(Shown) /\ Len(p.stored) = Len(p.shown)
      /\ \A k \in DOMAIN p.again : p.again[k] \in DOMAIN p.shown
  BY DEF PageInv, Page
<1>2. DOMAIN p.stored = DOMAIN p.shown /\ \A k \in DOMAIN p.again : ~(k <= 0)
  BY <1>1
<1>3. \A k \in DOMAIN p.again : p.stored[p.again[k]] = 0
  BY <1>1, <1>2 DEF RestingPage, Has
<1> QED BY <1>2, <1>3 DEF RestingPage, SendingPage

\* One more answer of a batch is saved, or left out because it waits for its second try.
LEMMA SaveNext ==
    ASSUME NEW p, NEW q, NEW r, NEW s, PageInv(p), SendingPage(p, r),
           r.todo \in Seq(Nat), \A k \in DOMAIN r.todo : r.todo[k] \in DOMAIN p.shown,
           r.saved \in Nat, r.saved + 1 <= Len(r.todo),
           s.saved = r.saved + 1, s.todo = r.todo, s.grades = r.grades,
           q.sent = p.sent, q.accept = p.accept,
           q.stored = IF p.accept \/ r.grades[r.saved + 1] # "synonym"
                      THEN [p.stored EXCEPT ![r.todo[r.saved + 1]] = @ + 1]
                      ELSE p.stored
    PROVE  SendingPage(q, s)
<1> DEFINE n == r.saved + 1
           j == r.todo[n]
           saves == p.accept \/ r.grades[n] # "synonym"
<1>1. n \in DOMAIN r.todo /\ n \in Nat /\ n <= n /\ ~(n <= r.saved)
  OBVIOUS
<1>2. p.stored \in Seq(Nat) /\ p.shown \in Seq(Shown) /\ Len(p.stored) = Len(p.shown)
  BY DEF PageInv, Page
<1>3. j \in DOMAIN p.stored /\ p.stored[j] = 0
  BY <1>1, <1>2 DEF SendingPage
<1>4. \A k \in DOMAIN r.todo : r.todo[k] = j => k = n
  BY <1>1 DEF SendingPage, Distinct
<1>5. \A k \in DOMAIN r.todo : k # n => (k <= n <=> k <= r.saved)
  BY <1>1
<1>6. q.stored = IF saves THEN [p.stored EXCEPT ![j] = @ + 1] ELSE p.stored
  OBVIOUS
<1> HIDE DEF n, j, saves
<1>7. /\ DOMAIN q.stored = DOMAIN p.stored
      /\ q.stored[j] = IF saves THEN 1 ELSE 0
      /\ \A i \in DOMAIN p.stored : i # j => q.stored[i] = p.stored[i]
  <2>1. CASE saves
    <3>1. q.stored = [p.stored EXCEPT ![j] = p.stored[j] + 1]
      BY <1>6, <2>1
    <3>2. DOMAIN p.stored = 1 .. Len(p.stored)
      BY <1>2
    <3> QED BY <1>3, <2>1, <3>1, <3>2
  <2>2. CASE ~saves
    BY <1>3, <1>6, <2>2
  <2> QED BY <2>1, <2>2
<1>8. \A i \in DOMAIN q.stored : ~Has(s.todo, i) => q.stored[i] = IF i <= q.sent THEN 1 ELSE 0
  BY <1>1, <1>7 DEF SendingPage, Has, j
<1>9. ASSUME NEW k \in DOMAIN s.todo
      PROVE  q.stored[s.todo[k]] = IF k <= s.saved /\ (q.accept \/ s.grades[k] # "synonym") THEN 1 ELSE 0
  <2>1. CASE k = n
    BY <1>1, <1>7, <2>1 DEF n, j, saves
  <2>2. CASE k # n
    <3>1. r.todo[k] # j /\ r.todo[k] \in DOMAIN p.stored
      BY <1>2, <1>4, <2>2
    <3>2. q.stored[s.todo[k]] = p.stored[r.todo[k]]
      BY <1>7, <3>1
    <3>3. k <= s.saved <=> k <= r.saved
      BY <1>5, <2>2 DEF n
    <3> QED BY <3>2, <3>3 DEF SendingPage
  <2> QED BY <2>1, <2>2
<1> QED BY <1>8, <1>9 DEF SendingPage

\* The page gets its feedback: what was not stored is to be tried again.
LEMMA RestNext ==
    ASSUME NEW p, NEW q, NEW r, NEW again \in Seq(Nat), PageInv(p), SendingPage(p, r),
           r.todo \in Seq(Nat), Len(r.todo) # 0, r.saved = Len(r.todo),
           p.accept => Len(again) = 0,
           \A n \in DOMAIN again :
               \E k, m \in DOMAIN r.todo : /\ again[n] = r.todo[k] /\ r.todo[m] = r.todo[k]
                                           /\ r.grades[m] = "synonym",
           ~p.accept => \A k \in DOMAIN r.todo : r.grades[k] = "synonym" =>
               \E n \in DOMAIN again : again[n] = r.todo[k],
           Distinct(again),
           q.again = again, q.stored = p.stored, q.accept <=> Len(again) # 0,
           q.sent = IF p.sent < r.todo[Len(r.todo)] THEN r.todo[Len(r.todo)] ELSE p.sent
    PROVE  RestingPage(q)
<1> DEFINE n == Len(r.todo)
<1>1. p.sent \in Nat /\ \A i \in DOMAIN p.stored : i \in Nat
  <2>1. p.sent \in Nat /\ p.stored \in Seq(Nat)
    BY DEF PageInv, Page
  <2> QED BY <2>1
<1>2. n \in Nat /\ DOMAIN r.todo = 1 .. n /\ n \in DOMAIN r.todo
      /\ \A k \in DOMAIN r.todo : r.todo[k] \in Nat /\ k <= r.saved
  OBVIOUS
<1> HIDE DEF n
<1>3. \A k \in DOMAIN r.todo :
          p.stored[r.todo[k]] = IF p.accept \/ r.grades[k] # "synonym" THEN 1 ELSE 0
  BY <1>2 DEF SendingPage
<1>4. CASE p.accept
  <2>1. DOMAIN again = {}
    BY <1>4
  <2>2. q.sent = p.sent
    BY <1>1, <1>2, <1>4 DEF SendingPage, Within, n
  <2>3. ASSUME NEW i \in DOMAIN p.stored PROVE p.stored[i] = IF i <= p.sent THEN 1 ELSE 0
    <3>1. CASE Has(r.todo, i)
      BY <1>3, <1>4, <3>1 DEF SendingPage, Within, Has
    <3>2. CASE ~Has(r.todo, i)
      BY <3>2 DEF SendingPage
    <3> QED BY <3>1, <3>2
  <2> QED BY <2>1, <2>2, <2>3 DEF RestingPage, Within, Has
<1>5. CASE ~p.accept
  <2>1. \A k \in DOMAIN r.todo : r.todo[k] = p.sent + k
    BY <1>5 DEF SendingPage
  <2>2. q.sent = p.sent + n
    <3>1. r.todo[n] = p.sent + n /\ n # 0
      BY <1>2, <2>1
    <3>2. q.sent = IF p.sent < r.todo[n] THEN r.todo[n] ELSE p.sent
      BY DEF n
    <3> QED BY <1>1, <1>2, <3>1, <3>2
  <2>3. \A k \in DOMAIN r.todo : r.todo[k] <= q.sent /\ ~(r.todo[k] <= p.sent)
    BY <1>1, <1>2, <2>1, <2>2
  <2>4. Within(again, q.sent)
    BY <2>3 DEF Within
  <2>5. \A k \in DOMAIN r.todo : Has(again, r.todo[k]) <=> r.grades[k] = "synonym"
    BY <1>5 DEF Has, SendingPage, Distinct
  <2>6. ASSUME NEW i \in DOMAIN p.stored
        PROVE  p.stored[i] = IF i <= q.sent /\ ~Has(again, i) THEN 1 ELSE 0
    <3>1. CASE Has(r.todo, i)
      <4>1. PICK k \in DOMAIN r.todo : r.todo[k] = i
        BY <3>1 DEF Has
      <4>2. p.stored[i] = IF r.grades[k] # "synonym" THEN 1 ELSE 0
        BY <1>3, <1>5, <4>1
      <4> QED BY <2>3, <2>5, <4>1, <4>2
    <3>2. CASE ~Has(r.todo, i)
      <4>1. ~Has(again, i)
        BY <3>2 DEF Has
      <4>2. i <= q.sent <=> i <= p.sent
        <5>1. CASE i <= p.sent
          BY <1>1, <1>2, <2>2, <5>1
        <5>2. CASE ~(i <= p.sent) /\ i <= q.sent
          <6> DEFINE s == p.sent
          <6>1. i - p.sent \in 1 .. n /\ p.sent + (i - p.sent) = i
            <7>1. i \in Nat /\ s \in Nat /\ n \in Nat /\ ~(i <= s) /\ i <= s + n
              BY <1>1, <1>2, <2>2, <5>2
            <7> HIDE DEF s
            <7>2. i - s \in 1 .. n /\ s + (i - s) = i
              BY <7>1
            <7> QED BY <7>2 DEF s
          <6> QED BY <1>2, <2>1, <3>2, <6>1 DEF Has
        <5> QED BY <5>1, <5>2
      <4> QED BY <3>2, <4>1, <4>2 DEF SendingPage
    <3> QED BY <3>1, <3>2
  <2> QED BY <2>4, <2>6 DEF RestingPage
<1> QED BY <1>4, <1>5

-----------------------------------------------------------------------------
(* The steps *)

\* Nothing a page and its request are judged by changes.
LEMMA StoredSame ==
    ASSUME NEW p, NEW r, NEW s, StoredPage(p, r), r.pc # "idle", s.pc # "idle",
           s.todo = r.todo, s.saved = r.saved, r.saved = 0, r.todo \in Seq(Nat)
    PROVE  StoredPage(p, s)
<1>1. \A k \in DOMAIN r.todo : ~(k <= 0)
  OBVIOUS
<1> QED BY <1>1 DEF StoredPage, SendingPage

LEMMA StoredOfTab ==
    ASSUME TInv, StoredInv, NEW t \in Tabs, OfTab(t)
    PROVE  StoredPage(page'[t], req'[t])
<1>0. StoredPage(page[t], req[t]) /\ PageInv(page[t])
  BY DEF StoredInv, TInv
<1>1. ASSUME NEW quiz \in Batched, NEW cards \in Decks, Start(t, quiz, cards)
      PROVE  StoredPage(page'[t], req'[t])
  <2>1. page'[t].stored = [i \in DOMAIN cards |-> 0]
    BY <1>1, StartType
  <2>2. /\ page'[t].sent = 0 /\ page'[t].again = << >> /\ ~page'[t].accept
        /\ req'[t] = NoReq
    BY <1>1, StartType
  <2>3. \A i \in DOMAIN cards : ~(i <= 0)
    BY DeckSeq
  <2>4. RestingPage(page'[t])
    BY <2>1, <2>2, <2>3, EmptySeq DEF RestingPage, Distinct, Within, Has
  <2> QED BY <2>2, <2>4 DEF StoredPage, NoReq
<1>2. CASE StartFreeformQuiz(t) \/ \E id \in DOMAIN DbNotes : OpenDetail(t, id)
  BY <1>2, OpenType DEF StoredPage, Batched
<1>3. ASSUME NEW j \in DOMAIN page[t].shown, Exclude(t, j) PROVE StoredPage(page'[t], req'[t])
  BY <1>0, <1>3, ExcludeType
<1>4. CASE \/ \E j \in DOMAIN page[t].shown : Flush(t, j)
           \/ FlushAgain(t) \/ AnswerLastAgain(t)
  <2>1. PICK todo \in Seq(Nat) :
            /\ Send(t, todo) /\ Len(todo) # 0 /\ page' = page /\ page[t].quiz # "freeform"
            /\ \A k \in DOMAIN todo : todo[k] \in DOMAIN page[t].shown
            /\ \/ \E j \in DOMAIN page[t].shown :
                      /\ Flush(t, j) /\ Len(todo) = j - page[t].sent
                      /\ \A k \in DOMAIN todo : todo[k] = page[t].sent + k
               \/ FlushAgain(t) /\ todo = page[t].again
               \/ AnswerLastAgain(t)
    BY <1>4, FlushType
  <2>2. page' = [page EXCEPT ![t] = page'[t]] /\ page'[t] = page[t] /\ PageInv(page'[t])
    BY <2>1 DEF TInv
  <2>3. req[t] = NoReq /\ req'[t].pc = "lookup" /\ req'[t].todo = todo /\ req'[t].saved = 0
    BY <2>1, <2>2, SendType
  <2> SUFFICES ASSUME page[t].quiz \in Batched \ {"relearn"}, ~page[t].failed
               PROVE  SendingPage(page[t], req'[t])
    BY <2>2, <2>3 DEF StoredPage
  <2>4. RestingPage(page[t])
    BY <1>0, <2>3 DEF StoredPage, NoReq
  <2>5. CASE \E j \in DOMAIN page[t].shown :
                 /\ Flush(t, j) /\ Len(todo) = j - page[t].sent
                 /\ \A k \in DOMAIN todo : todo[k] = page[t].sent + k
    <3>1. Len(page[t].again) = 0
      BY <2>5, EmptySeq DEF Flush
    <3> QED BY <1>0, <2>1, <2>3, <2>4, <2>5, <3>1, SendNext
  <2>6. CASE FlushAgain(t) /\ todo = page[t].again
    <3>1. Len(page[t].again) # 0
      BY <2>1, <2>6
    <3> QED BY <1>0, <2>3, <2>4, <2>6, <3>1, SendAgain
  <2>7. CASE AnswerLastAgain(t)
    <3>1. page[t].again # << >> /\ ~page[t].accept
      BY <2>7 DEF AnswerLastAgain
    <3>2. page[t].again \in Seq(Nat)
      BY DEF TInv, Page
    <3>3. Len(page[t].again) # 0
      BY <3>1, <3>2
    <3>4. page[t].accept
      BY <2>4, <3>3, Zenon DEF RestingPage
    <3> QED BY <3>1, <3>4
  <2> QED BY <2>1, <2>5, <2>6, <2>7
<1>5. ASSUME NEW card \in Cards, SubmitFreeform(t, card) PROVE StoredPage(page'[t], req'[t])
  BY <1>5, SubmitType DEF StoredPage, Batched
<1> QED BY <1>1, <1>2, <1>3, <1>4, <1>5 DEF OfTab

LEMMA StoredHandle ==
    ASSUME TInv, StoredInv, NEW t \in Tabs, Handle(t)
    PROVE  StoredPage(page'[t], req'[t])
<1>0. /\ StoredPage(page[t], req[t]) /\ PageInv(page[t]) /\ ReqInv(page[t], req[t])
      /\ page[t] \in Page /\ req[t] \in Req
  BY DEF StoredInv, TInv
<1>t. req[t].todo \in Seq(Nat) /\ req[t].saved \in Nat
  BY <1>0 DEF Req
<1>1. CASE Failed(t)
  BY <1>1, FailedType, AfterFailureInv DEF StoredPage
<1>2. CASE LookupBatch(t) /\ ~Failed(t)
  <2>1. req[t].saved = 0
    BY <1>0, <1>2 DEF LookupBatch, ReqInv
  <2> QED BY <1>0, <1>2, <1>t, <2>1, LookupBatchType, StoredSame
<1>3. CASE LookupBlank(t) /\ ~Failed(t)
  <2>1. req[t].saved = 0
    BY <1>0, <1>3 DEF LookupBlank, LookupOneByOne, ReqInv
  <2> QED BY <1>0, <1>3, <1>t, <2>1, LookupBlankType, StoredSame
<1>4. CASE LookupFreeform(t)
  BY <1>4, LookupFreeformType DEF StoredPage, Batched
<1>5. CASE Grade(t)
  <2>1. req[t].saved = 0
    BY <1>0, <1>5 DEF Grade, ReqInv
  <2> QED BY <1>0, <1>5, <1>t, <2>1, GradeType, StoredSame
<1>6. CASE Save(t)
  <2> DEFINE k == req[t].saved + 1
             i == req[t].todo[k]
             p == page[t]
             q == page'[t]
             r == req[t]
             s == req'[t]
  <2>1. /\ r.pc = "save" /\ s = [r EXCEPT !.saved = k] /\ k <= Len(r.todo)
        /\ q = IF ShouldSave(t, k) THEN [p EXCEPT !.stored[i] = @ + 1] ELSE p
    BY <1>6, SaveType
  <2>2. s.pc = "save" /\ s.saved = k /\ s.todo = r.todo /\ s.grades = r.grades
    BY <1>0, <2>1 DEF Req
  <2>3. /\ q.quiz = p.quiz /\ q.failed = p.failed /\ q.sent = p.sent /\ q.accept = p.accept
        /\ q.stored = IF ShouldSave(t, k) THEN [p.stored EXCEPT ![i] = @ + 1] ELSE p.stored
    BY <1>0, <2>1 DEF Page
  <2> SUFFICES ASSUME p.quiz \in Batched \ {"relearn"}, ~p.failed PROVE SendingPage(q, s)
    BY <2>2, <2>3 DEF StoredPage
  <2>4. SendingPage(p, r)
    BY <1>0, <2>1 DEF StoredPage
  <2>5. ShouldSave(t, k) <=> p.accept \/ r.grades[k] # "synonym"
    BY DEF ShouldSave
  <2>6. q.stored = IF p.accept \/ r.grades[k] # "synonym" THEN [p.stored EXCEPT ![i] = @ + 1] ELSE p.stored
    BY <2>3, <2>5
  <2>7. \A m \in DOMAIN r.todo : r.todo[m] \in DOMAIN p.shown
    BY <1>0 DEF ReqInv
  <2> HIDE DEF p, q, r, s
  <2> QED BY <1>0, <1>t, <2>1, <2>2, <2>3, <2>4, <2>6, <2>7, SaveNext DEF p, q, r, s
<1>7. CASE Reply(t)
  <2> DEFINE p == page[t]
             q == page'[t]
             r == req[t]
             again == ToRetry(t)
  <2>1. /\ r.pc = "save" /\ r.saved = Len(r.todo) /\ req'[t] = NoReq
        /\ q = [p EXCEPT !.again = again, !.accept = again # << >>, !.sent = SentAfter(t)]
    BY <1>7, ReplyType
  <2>2. /\ q.quiz = p.quiz /\ q.failed = p.failed /\ q.sent = SentAfter(t)
        /\ q.again = again /\ q.stored = p.stored
    BY <1>0, <2>1 DEF Page
  <2>a. q.accept = (again # << >>)
    BY <1>0, <2>1 DEF Page
  <2> SUFFICES ASSUME p.quiz \in Batched \ {"relearn"}, ~p.failed PROVE RestingPage(q)
    BY <2>1, <2>2 DEF StoredPage, NoReq
  <2>3. SendingPage(p, r) /\ Len(r.todo) # 0
    BY <1>0, <2>1 DEF StoredPage, ReqInv
  <2>4. q.sent = IF p.sent < r.todo[Len(r.todo)] THEN r.todo[Len(r.todo)] ELSE p.sent
    BY <2>2 DEF SentAfter
  <2>5. /\ again \in Seq(Nat)
        /\ p.accept => Len(again) = 0
        /\ \A n \in DOMAIN again :
               \E k, m \in DOMAIN r.todo : /\ again[n] = r.todo[k] /\ r.todo[m] = r.todo[k]
                                           /\ r.grades[m] = "synonym"
        /\ ~p.accept => \A k \in DOMAIN r.todo : r.grades[k] = "synonym" =>
               \E n \in DOMAIN again : again[n] = r.todo[k]
        /\ Distinct(again)
    BY <2>1, <2>3, ToRetryType DEF SendingPage
  <2>6. q.accept <=> Len(again) # 0
    <3>1. (again # << >>) <=> Len(again) # 0
      BY <2>5
    <3> QED BY <2>a, <3>1, Zenon
  <2> HIDE DEF p, q, r, again
  <2> QED BY <1>0, <1>t, <2>1, <2>2, <2>3, <2>4, <2>5, <2>6, RestNext DEF p, r
<1>8. CASE ReplyFreeform(t)
  BY <1>8, ReplyFreeformType DEF StoredPage, Batched
<1> QED BY <1>1, <1>2, <1>3, <1>4, <1>5, <1>6, <1>7, <1>8, FailureOf

LEMMA StoredNext == TInv /\ StoredInv /\ [Next]_vars => StoredInv'
<1> SUFFICES ASSUME TInv, StoredInv, [Next]_vars PROVE StoredInv'
  OBVIOUS
<1>1. ASSUME \A t \in Tabs : StoredPage(page'[t], req'[t]) PROVE StoredInv'
  BY <1>1 DEF StoredInv, StoredPage, RestingPage, SendingPage
<1>2. ASSUME NEW t \in Tabs, OfTab(t) \/ Handle(t) PROVE StoredInv'
  <2>1. StoredPage(page'[t], req'[t])
    BY <1>2, StoredOfTab, StoredHandle
  <2>2. \A u \in Tabs : StoredPage(page'[u], req'[u])
    BY <1>2, <2>1, OneTab DEF StoredInv
  <2> QED BY <1>1, <2>2
<1>3. CASE Restart
  <2>1. ASSUME NEW t \in Tabs PROVE StoredPage(page'[t], req'[t])
    <3>1. CASE req[t].pc = "idle"
      BY <1>3, <3>1, RestartType DEF StoredInv, StoredPage, NoReq
    <3>2. CASE req[t].pc # "idle"
      BY <1>3, <3>2, RestartType, AfterFailureInv DEF StoredPage
    <3> QED BY <3>1, <3>2
  <2> QED BY <1>1, <2>1
<1>4. CASE UNCHANGED vars
  BY <1>1, <1>4 DEF vars, StoredInv
<1> QED BY <1>2, <1>3, <1>4 DEF Next

\* A page none of whose requests failed has stored each of the answers it got feedback
\* for once, and the others not at all: a synonym is not stored on its first try, and
\* is on its second, whatever the grades and wherever the learner cut the batches.
THEOREM AnswersStoredExactlyOnce == Spec => []StoredExactlyOnce
<1>1. Init => StoredInv
  BY DEF Init, StoredInv, StoredPage, NoPage, Batched
<1>2. StoredInv => StoredExactlyOnce
  BY DEF StoredInv, StoredPage, RestingPage, Has, StoredExactlyOnce
<1> QED BY <1>1, <1>2, TypedAlways, StoredNext, PTL DEF Spec
=============================================================================
