----------------------------- MODULE MCDataSync -----------------------------
(* A small instance of the mirror: two spellings with one entry, two scenes of *)
(* one notebook and one of another, two sessions of one etymology book.        *)
EXTENDS DataSync, TLC

CONSTANTS sense, one, other

MCEntryOf == "sour" :> "sour" @@ "turned sour" :> "sour"
MCWordOf == "sour" :> "sour"
MCNotebookOf == "s1" :> "story" @@ "s2" :> "story" @@ "c1" :> "cards"
MCBookOf == "I" :> "book" @@ "II" :> "book"

Word(id, w, m, place) == [place |-> place, sense |-> id, word |-> w, meaning |-> m]
MCEditions == {{Word(None, "sour", "m", "s1"), Word(None, "sour", "n", "s2")},
               {Word(None, "sour", "n", "c1"), Word(sense, "turned sour", "m", "s1")}}

Root(session, name, id) == [session |-> session, name |-> name, sense |-> id, meaning |-> "m"]
Ref(name, id, form) == [name |-> name, sense |-> id, form |-> form]
Concept(session, key, m, members) == [session |-> session, key |-> key, meaning |-> m, members |-> members]
Relation(from, to, directed) == [session |-> "I", from |-> from, to |-> to, directed |-> directed]
Form(o, form, note) == [session |-> o.session, name |-> o.name, sense |-> o.sense, form |-> form, note |-> note]

\* Two senses of one root, a form of each, a concept declared in both sessions;
\* then forms, members, relations and meanings change and a concept goes.  Validate
\* warns of the first, in which the sessions disagree and a member is not an origin.
see == Root("I", "spec", one)
look == Root("II", "spec", other)
Before == [origins   |-> {see, look},
           forms     |-> {Form(see, "spic", "m"), Form(see, "spect", "m")},
           parts     |-> {[name |-> "sour", session |-> "I", refs |-> <<Ref("spec", one, "spic")>>]},
           concepts  |-> <<Concept("I", "sight", "m", {"spec"}), Concept("II", "sight", "n", {"spec"}),
                           Concept("II", "face", "m", {"spec", "gone"})>>,
           relations |-> {Relation("sight", "face", FALSE)},
           heads     |-> <<Concept("I", "sour", "m", {"sour"}), Concept("II", "sour", "n", {"sour", "bitter"})>>,
           cached    |-> {[word |-> "sour", response |-> "m"]}]
After ==  [origins   |-> {see},
           forms     |-> {Form(see, "spect", "n")},
           parts     |-> {[name |-> "turned sour", session |-> "II", refs |-> <<Ref("spec", Unpinned, "spect")>>]},
           concepts  |-> <<Concept("I", "sight", "n", {"spec"}), Concept("I", "form", "m", {"spec"})>>,
           relations |-> {Relation("sight", "form", TRUE)},
           heads     |-> <<Concept("II", "sour", "n", {"sour", "turned sour"})>>,
           cached    |-> {[word |-> "sour", response |-> "n"], [word |-> "spec", response |-> "m"]}]
MCEtymology == {Before, After}
=============================================================================
