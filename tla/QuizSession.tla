----------------------------- MODULE QuizSession -----------------------------
(***************************************************************************)
(* The quiz sessions of the server (QuizHandler): which card an id sent by *)
(* a page stands for.  Every quiz has one store from ids to cards, shared  *)
(* by all pages and guarded by one mutex; an answer takes the mutex only   *)
(* to look its cards up, then grades and saves them.  The pages flush      *)
(* their answers in batches, send a batch again when it failed, and let    *)
(* the learner exclude (or override) a card by its id.                     *)
(*                                                                         *)
(* A quiz is one of notebook (recognition), reverse, freeform, grammar and *)
(* relearn; detail is the page of one notebook, which starts no quiz and   *)
(* shows the ids of the database.  A grade is what decides whether it is   *)
(* saved: "synonym", of the reverse quiz, or any other.                    *)
(***************************************************************************)
EXTENDS Naturals, Sequences, FiniteSets

CONSTANTS
    Tabs, Cards,
    Quizzes,    \* the pages opened
    DbNotes,    \* the notes of the database: a function from ids to cards
    RelearnID,  \* relearnCardID: a hash of the card
    NotFound,
    MaxDeck,    \* bound on the cards a quiz loads
    MaxStarts,  \* bound on the pages opened
    MaxCalls    \* bound on the answers sent and the server's restarts

ASSUME QuizzesAssumption ==
    Quizzes \subseteq {"notebook", "reverse", "freeform", "grammar", "relearn", "detail"}
ASSUME BoundsAssumption ==
    /\ IsFiniteSet(Tabs)
    /\ MaxDeck \in Nat /\ MaxStarts \in Nat /\ MaxCalls \in Nat
ASSUME DbNotesAssumption == \A id \in DOMAIN DbNotes : id \in Nat /\ DbNotes[id] \in Cards

\* No counter of the server gets beyond this.
LastCounter == 1 + MaxDeck * MaxStarts + MaxCalls

\* A hash of 63 bits is taken to be no other hash, no id of a note and no counter.
ASSUME RelearnAssumption ==
    /\ \A a, b \in Cards : RelearnID[a] = RelearnID[b] => a = b
    /\ \A c \in Cards : RelearnID[c] \in Nat \ (DOMAIN DbNotes \cup 0 .. LastCounter)

VARIABLES
    store,          \* for every quiz, the cards behind its ids and their session
    freeformCards,  \* the words a free-form answer is matched with
    nextID,
    page,           \* what each tab shows, and how far it is
    req,            \* the request of each tab
    deed,           \* the last answer graded or card excluded; for the properties
    starts, calls

vars == <<store, freeformCards, nextID, page, req, deed, starts, calls>>

Stores == {"notebook", "reverse", "freeform", "grammar", "relearn"}
Batched == {"notebook", "reverse", "grammar", "relearn"}
Nothing == [i \in {} |-> 0]

\* again: the cards of a batch to be sent again, as positions in shown.
NoPage == [quiz |-> "none", session |-> 0, shown |-> << >>, sent |-> 0, again |-> << >>,
           accept |-> FALSE, stored |-> << >>, failed |-> FALSE]
NoReq == [pc |-> "idle", todo |-> << >>, got |-> << >>, grades |-> << >>, saved |-> 0]

Init ==
    /\ store = [q \in Stores |-> Nothing]
    /\ freeformCards = {}
    /\ nextID = 1
    /\ page = [t \in Tabs |-> NoPage]
    /\ req = [t \in Tabs |-> NoReq]
    /\ deed = [quiz |-> "none"]
    /\ starts = 0 /\ calls = 0

-----------------------------------------------------------------------------
(* A page is opened *)

\* Mutant: relearn cards get ids in the order they are loaded.
SequentialIDs(quiz, cards) ==
    [i \in DOMAIN cards |-> IF quiz = "grammar" THEN nextID + i - 1 ELSE i]

\* The id handed out with each card.
IDs(quiz, cards) ==
    [i \in DOMAIN cards |-> CASE quiz = "grammar" -> nextID + i - 1
                              [] quiz = "relearn" -> RelearnID[cards[i]]
                              [] OTHER            -> i]

Entries(ids, cards, session) ==
    [id \in {ids[i] : i \in DOMAIN ids} |->
        [card |-> cards[CHOOSE i \in DOMAIN ids : ids[i] = id], session |-> session]]

\* A store after more cards were put into it.
Merged(new, old) ==
    [id \in DOMAIN new \cup DOMAIN old |-> IF id \in DOMAIN new THEN new[id] ELSE old[id]]

Show(t, quiz, ids, cards) ==
    /\ req[t].pc = "idle" /\ quiz \in Quizzes /\ starts < MaxStarts
    /\ page' = [page EXCEPT ![t] = [NoPage EXCEPT
                   !.quiz = quiz, !.session = starts + 1,
                   !.shown = [i \in DOMAIN cards |-> [id |-> ids[i], card |-> cards[i]]],
                   !.stored = [i \in DOMAIN cards |-> 0]]]
    /\ starts' = starts + 1
    /\ UNCHANGED <<req, deed, calls>>

\* A relearn session is merged into the store; the others replace theirs.  Only
\* the vocabulary quizzes reset nextID.
Start(t, quiz, cards) ==
    LET ids   == IDs(quiz, cards)
        fresh == Entries(ids, cards, starts + 1)
    IN  /\ Show(t, quiz, ids, cards)
        /\ store' = [store EXCEPT ![quiz] = IF quiz = "relearn" THEN Merged(fresh, @) ELSE fresh]
        /\ nextID' = CASE quiz = "relearn" -> nextID
                       [] quiz = "grammar" -> nextID + Len(cards)
                       [] OTHER            -> Len(cards) + 1
        /\ UNCHANGED freeformCards

StartFreeformQuiz(t) ==
    /\ Show(t, "freeform", << >>, << >>)
    /\ freeformCards' = Cards
    /\ UNCHANGED <<store, nextID>>

OpenDetail(t, id) ==
    /\ Show(t, "detail", <<id>>, <<DbNotes[id]>>)
    /\ UNCHANGED <<store, freeformCards, nextID>>

-----------------------------------------------------------------------------
(* A batch of answers *)

Send(t, todo) ==
    /\ req[t].pc = "idle" /\ calls < MaxCalls
    /\ req' = [req EXCEPT ![t] = [NoReq EXCEPT !.pc = "lookup", !.todo = todo]]
    /\ calls' = calls + 1
    /\ UNCHANGED <<store, freeformCards, nextID, deed, starts>>

\* flushBatch: the cards since the last batch, up to the j-th.
Flush(t, j) ==
    /\ page[t].quiz \in Batched
    /\ page[t].again = << >>
    /\ j \in page[t].sent + 1 .. Len(page[t].shown)
    /\ Send(t, [i \in 1 .. j - page[t].sent |-> page[t].sent + i])
    /\ UNCHANGED page

\* A batch that failed, or the synonyms of a reverse batch, tried once more.
FlushAgain(t) ==
    /\ page[t].again # << >>
    /\ Send(t, page[t].again)
    /\ UNCHANGED page

\* Beside its Retry button, a vocabulary page that failed still has the input of the
\* last card: an answer typed there joins the batch that is already in the buffer.
AnswerLastAgain(t) ==
    LET again == page[t].again
    IN  /\ page[t].quiz \in {"notebook", "reverse"}
        /\ again # << >> /\ ~page[t].accept
        /\ Send(t, Append(again, again[Len(again)]))
        /\ UNCHANGED page

\* A free-form answer carries its word; the page grows with every answer.
SubmitFreeform(t, card) ==
    /\ page[t].quiz = "freeform"
    /\ page' = [page EXCEPT ![t].shown = Append(@, [id |-> 0, card |-> card]),
                            ![t].stored = Append(@, 0),
                            ![t].again = << >>]
    /\ Send(t, <<Len(page[t].shown) + 1>>)

\* The page keeps a batch that failed; a free-form answer is typed anew.
AfterFailure(t) ==
    [page[t] EXCEPT !.failed = TRUE,
                    !.again = IF page[t].quiz = "freeform" THEN << >> ELSE req[t].todo]

Failed(t) ==
    /\ page' = [page EXCEPT ![t] = AfterFailure(t)]
    /\ req' = [req EXCEPT ![t] = NoReq]
    /\ UNCHANGED <<store, freeformCards, nextID, deed, starts, calls>>

Proceed(t, r) ==
    /\ req' = [req EXCEPT ![t] = r]
    /\ UNCHANGED <<store, freeformCards, nextID, starts, calls>>

ShownIDs(t, todo) == [k \in DOMAIN todo |-> page[t].shown[todo[k]].id]

\* Mutant, and LookupBlank's code: the mutex is taken for every answer.
LookupOneByOne(t) ==
    LET r == req[t]
        k == Len(r.got) + 1
        cards == store[page[t].quiz]
        id == page[t].shown[r.todo[k]].id
    IN  /\ r.pc = "lookup" /\ page[t].quiz \in Batched
        /\ IF id \in DOMAIN cards
           THEN /\ Proceed(t, [r EXCEPT !.got = Append(@, cards[id]),
                                        !.pc = IF k = Len(r.todo) THEN "grade" ELSE "lookup"])
                /\ UNCHANGED <<page, deed>>
           ELSE Failed(t)

\* BatchSubmitAnswers, BatchSubmitReverseAnswers and BatchSubmitRelearnAnswers
\* take the mutex once for all the answers.
LookupBatch(t) ==
    LET r     == req[t]
        cards == store[page[t].quiz]
        ids   == ShownIDs(t, r.todo)
    IN  /\ r.pc = "lookup" /\ page[t].quiz \in Batched \ {"grammar"}
        /\ IF \A k \in DOMAIN ids : ids[k] \in DOMAIN cards
           THEN /\ Proceed(t, [r EXCEPT !.got = [k \in DOMAIN ids |-> cards[ids[k]]],
                                        !.pc = "grade"])
                /\ UNCHANGED <<page, deed>>
           ELSE Failed(t)

\* SubmitGrammarPost takes it for each blank.
LookupBlank(t) == page[t].quiz = "grammar" /\ LookupOneByOne(t)

\* SubmitFreeformAnswer: a word of no card is answered without a save.
LookupFreeform(t) ==
    LET r    == req[t]
        card == page[t].shown[r.todo[1]].card
    IN  /\ r.pc = "lookup" /\ page[t].quiz = "freeform"
        /\ Proceed(t, IF card \in freeformCards
                      THEN [r EXCEPT !.got = <<[card |-> card, session |-> 0]>>, !.pc = "grade"]
                      ELSE NoReq)
        /\ UNCHANGED <<page, deed>>

Grades(t) == IF page[t].quiz = "reverse" THEN {"plain", "synonym"} ELSE {"plain"}

\* All the answers of a batch are graded at once, and one failure fails the batch.
Grade(t) ==
    /\ req[t].pc = "grade"
    /\ \E grades \in [DOMAIN req[t].got -> Grades(t)] :
           Proceed(t, [req[t] EXCEPT !.grades = grades, !.pc = "save"])
    /\ deed' = [quiz |-> page[t].quiz, shown |-> page[t].shown[req[t].todo[1]].card,
                hit |-> req[t].got[1].card]
    /\ UNCHANGED page

GradeFails(t) == req[t].pc = "grade" /\ Failed(t)

\* Mutant: a synonym is saved before the learner accepts it.
SavesAnyGrade(t, k) == page[t].quiz # "relearn"

\* Relearn records nothing, and a synonym waits until it is accepted.
ShouldSave(t, k) ==
    /\ page[t].quiz # "relearn"
    /\ req[t].grades[k] = "synonym" => page[t].accept

\* The saves go one answer at a time.
Save(t) ==
    LET k == req[t].saved + 1
    IN  /\ req[t].pc = "save" /\ k <= Len(req[t].todo)
        /\ page' = IF ShouldSave(t, k)
                   THEN [page EXCEPT ![t].stored[req[t].todo[k]] = @ + 1]
                   ELSE page
        /\ Proceed(t, [req[t] EXCEPT !.saved = k])
        /\ UNCHANGED deed

SaveFails(t) ==
    LET k == req[t].saved + 1
    IN  /\ req[t].pc = "save" /\ k <= Len(req[t].todo)
        /\ ShouldSave(t, k)
        /\ Failed(t)

\* The elements of a set, each once, in an order nothing depends on.
Listed(S) == CHOOSE s \in [1 .. Cardinality(S) -> S] : \A i, j \in DOMAIN s : s[i] = s[j] => i = j

\* The answers to be tried again after a reply: the synonyms, on their first try.
ToRetry(t) ==
    LET r        == req[t]
        synonyms == {k \in DOMAIN r.todo : \E m \in DOMAIN r.todo :
                         r.todo[m] = r.todo[k] /\ r.grades[m] = "synonym"}
        listed   == Listed(synonyms)
    IN  IF page[t].accept THEN << >> ELSE [n \in DOMAIN listed |-> r.todo[listed[n]]]

\* How far the page is after a reply.
SentAfter(t) ==
    LET end == req[t].todo[Len(req[t].todo)]
    IN  IF page[t].sent < end THEN end ELSE page[t].sent

\* The page gets its feedback.
Reply(t) ==
    LET r == req[t]
    IN  /\ r.pc = "save" /\ r.saved = Len(r.todo) /\ page[t].quiz \in Batched
        /\ page' = [page EXCEPT ![t].again = ToRetry(t),
                                ![t].accept = ToRetry(t) # << >>,
                                ![t].sent = SentAfter(t)]
        /\ Proceed(t, NoReq)
        /\ UNCHANGED deed

\* A free-form answer gets its id only now, from the counter StartQuiz resets.
ReplyFreeform(t) ==
    LET r == req[t]
    IN  /\ r.pc = "save" /\ r.saved = Len(r.todo) /\ page[t].quiz = "freeform"
        /\ page' = [page EXCEPT ![t].shown[r.todo[1]].id = nextID]
        /\ store' = [store EXCEPT !["freeform"] = Merged([id \in {nextID} |-> r.got[1]], @)]
        /\ nextID' = nextID + 1
        /\ req' = [req EXCEPT ![t] = NoReq]
        /\ UNCHANGED <<freeformCards, deed, starts, calls>>

-----------------------------------------------------------------------------
(* A card is excluded, resumed or overridden *)

ResolveOrder == <<"notebook", "reverse", "freeform", "grammar", "relearn">>

\* Mutant: the stores are tried in the opposite order.
ResolveLastFirst(id) ==
    LET with == {i \in DOMAIN ResolveOrder : id \in DOMAIN store[ResolveOrder[i]]}
    IN  CASE with # {} -> store[ResolveOrder[CHOOSE i \in with : \A j \in with : j <= i]][id].card
          [] with = {} /\ id \in DOMAIN DbNotes -> DbNotes[id]
          [] OTHER -> NotFound

\* resolveCardInfo: the first store that has the id, then the database.
Resolve(id) ==
    LET with == {i \in DOMAIN ResolveOrder : id \in DOMAIN store[ResolveOrder[i]]}
    IN  CASE with # {} -> store[ResolveOrder[CHOOSE i \in with : \A j \in with : i <= j]][id].card
          [] with = {} /\ id \in DOMAIN DbNotes -> DbNotes[id]
          [] OTHER -> NotFound

\* The learner clicks on a card with feedback (or on the notebook's page).
Exclude(t, i) ==
    /\ req[t].pc = "idle"
    /\ page[t].quiz = "detail" \/ (page[t].quiz = "freeform" /\ page[t].shown[i].id # 0)
           \/ i <= page[t].sent
    /\ deed' = [quiz |-> page[t].quiz, shown |-> page[t].shown[i].card,
                hit |-> Resolve(page[t].shown[i].id)]
    /\ UNCHANGED <<store, freeformCards, nextID, page, req, starts, calls>>

\* The server restarts: its stores and the requests in flight are gone.
Restart ==
    /\ calls < MaxCalls /\ calls' = calls + 1
    /\ store' = [q \in Stores |-> Nothing]
    /\ freeformCards' = {}
    /\ nextID' = 1
    /\ req' = [t \in Tabs |-> NoReq]
    /\ page' = [t \in Tabs |-> IF req[t].pc = "idle" THEN page[t] ELSE AfterFailure(t)]
    /\ UNCHANGED <<deed, starts>>

\* What a quiz may load: cards without repetition.
Decks == UNION {{s \in [1 .. n -> Cards] : \A i, j \in 1 .. n : s[i] = s[j] => i = j} : n \in 1 .. MaxDeck}

OfTab(t) ==
    \/ \E quiz \in Batched, cards \in Decks : Start(t, quiz, cards)
    \/ StartFreeformQuiz(t)
    \/ \E id \in DOMAIN DbNotes : OpenDetail(t, id)
    \/ \E j \in DOMAIN page[t].shown : Flush(t, j) \/ Exclude(t, j)
    \/ FlushAgain(t) \/ AnswerLastAgain(t)
    \/ \E card \in Cards : SubmitFreeform(t, card)

Handle(t) ==
    \/ LookupBatch(t) \/ LookupBlank(t) \/ LookupFreeform(t)
    \/ Grade(t) \/ GradeFails(t)
    \/ Save(t) \/ SaveFails(t)
    \/ Reply(t) \/ ReplyFreeform(t)

Next == (\E t \in Tabs : OfTab(t) \/ Handle(t)) \/ Restart

Spec == Init /\ [][Next]_vars

-----------------------------------------------------------------------------
(* Properties *)

TypeOK ==
    /\ DOMAIN store = Stores
    /\ \A q \in Stores : \A id \in DOMAIN store[q] : store[q][id].card \in Cards
    /\ freeformCards \subseteq Cards
    /\ nextID \in Nat \ {0}
    /\ \A t \in Tabs : /\ page[t].quiz \in Quizzes \cup {"none"}
                       /\ page[t].sent <= Len(page[t].shown)
                       /\ Len(req[t].got) <= Len(req[t].todo)

\* Another tab may start a quiz while a batch of a recognition or reverse quiz is
\* under way: the answers of the batch are still all graded against one session.
BatchFromOneSession ==
    \A t \in Tabs : page[t].quiz \in {"notebook", "reverse"} =>
        \A i, j \in DOMAIN req[t].got : req[t].got[i].session = req[t].got[j].session

\* What a relearn page sends, an answer or an exclusion, is about the card it
\* shows or is refused, whatever other pages were opened since and even if the
\* server restarted (the comment in StartRelearnQuiz tells of the bug before).
RelearnActsOnShown == deed.quiz = "relearn" => deed.hit \in {deed.shown, NotFound}

\* A page none of whose requests failed has stored each of the answers it got
\* feedback for once, through the synonym retry, and the others not at all.
StoredExactlyOnce ==
    \A t \in Tabs :
        page[t].quiz \in Batched \ {"relearn"} /\ ~page[t].failed /\ req[t].pc = "idle"
        => \A i \in DOMAIN page[t].stored :
               page[t].stored[i] =
                   IF /\ i <= page[t].sent
                      /\ \A k \in DOMAIN page[t].again : page[t].again[k] # i
                   THEN 1 ELSE 0

\* A click in the latest recognition quiz is about the card clicked, whatever the
\* other quizzes issued under the same id.
LatestNotebookPage(t) ==
    /\ page[t].quiz = "notebook"
    /\ \A id \in DOMAIN store["notebook"] : store["notebook"][id].session = page[t].session
    /\ store["notebook"] # Nothing
LatestNotebookClicks ==
    \A t \in Tabs : LatestNotebookPage(t) =>
        \A i \in DOMAIN page[t].shown : Resolve(page[t].shown[i].id) = page[t].shown[i].card
=============================================================================
