---------------------------- MODULE ReviewLedger ----------------------------
(***************************************************************************)
(* What the learning history of a notebook promises to whoever calls it:   *)
(* a call (an answer, a skip, a resume, an override) takes effect all at   *)
(* once, between the request and the reply, or it is refused and changes   *)
(* nothing.  A crash forgets the calls in flight and nothing else.         *)
(* HistoryStore is the program; with one caller it implements this.        *)
(***************************************************************************)
EXTENDS Naturals

CONSTANTS
    Clients,
    Words,
    QuizTypes,   \* subset of {"notebook", "freeform", "reverse"}
    Concept      \* for every word, the words of its concept, itself included

Lists == {"learned", "reverse"}
Kinds == {"answer", "skip", "resume", "override"}

\* id names the answer, or the answer an override is about.
Op == [kind : Kinds \cup {"none"}, word : Words, types : SUBSET QuizTypes, id : Nat]

\* The log lists an answer goes to.
ListsOf(types) ==
    {"learned" : t \in types \ {"reverse"}} \cup {"reverse" : t \in types \ {"notebook"}}

\* The logs after an answer, the skips after a skip or a resume.
WithAnswer(logs, o) ==
    [k \in Lists \X Words |->
        IF o.kind = "answer" /\ k[2] = o.word /\ k[1] \in ListsOf(o.types)
        THEN logs[k] \cup {o.id}
        ELSE logs[k]]

Slots(o, words) == words \X o.types
WithSkips(skips, o, words) ==
    CASE o.kind = "skip"   -> skips \cup Slots(o, words)
      [] o.kind = "resume" -> skips \ Slots(o, words)
      [] OTHER             -> skips

-----------------------------------------------------------------------------

VARIABLES
    logs,    \* for every list and word, the answers in it
    skips,   \* the pairs of a word and a quiz type it is excluded from
    call,    \* "idle", "pending" or "applied" for every client
    op       \* what the client asked for, while its call is in flight

vars == <<logs, skips, call, op>>

Init ==
    /\ logs = [k \in Lists \X Words |-> {}]
    /\ skips = {}
    /\ call = [c \in Clients |-> "idle"]
    /\ op \in [Clients -> Op]

\* The other clients still want what they wanted.
AskedBy(c) == op' \in [Clients -> Op] /\ op' = [op EXCEPT ![c] = op'[c]]

Request(c) ==
    /\ call[c] = "idle"
    /\ call' = [call EXCEPT ![c] = "pending"]
    /\ AskedBy(c)
    /\ UNCHANGED <<logs, skips>>

\* A skip or a resume reaches the whole concept, or the word alone if the
\* notebooks cannot be read.
TakeEffect(c) ==
    /\ call[c] = "pending"
    /\ call' = [call EXCEPT ![c] = "applied"]
    /\ logs' = WithAnswer(logs, op[c])
    /\ \E words \in {Concept[op[c].word], {op[c].word}} : skips' = WithSkips(skips, op[c], words)
    /\ UNCHANGED op

Reply(c) ==
    /\ call[c] = "applied"
    /\ call' = [call EXCEPT ![c] = "idle"]
    /\ AskedBy(c)
    /\ UNCHANGED <<logs, skips>>

Refuse(c) ==
    /\ call[c] = "pending"
    /\ call' = [call EXCEPT ![c] = "idle"]
    /\ AskedBy(c)
    /\ UNCHANGED <<logs, skips>>

Crash ==
    /\ call' = [c \in Clients |-> "idle"]
    /\ op' \in [Clients -> Op]
    /\ UNCHANGED <<logs, skips>>

Next == Crash \/ \E c \in Clients : Request(c) \/ TakeEffect(c) \/ Reply(c) \/ Refuse(c)

Spec == Init /\ [][Next]_vars

=============================================================================
