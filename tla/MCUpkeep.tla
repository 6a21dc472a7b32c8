------------------------------- MODULE MCUpkeep -------------------------------
(* Small notebooks that were edited, and files that older versions wrote. *)
EXTENDS Upkeep

Word(key, expr, defn, origins) == [key |-> key, expr |-> expr, defn |-> defn, origins |-> origins]
Scene(title, words) == [title |-> title, words |-> words]
Source(kind, title, scenes, concepts) ==
    [kind |-> kind, title |-> title, scenes |-> scenes, concepts |-> concepts]
Log(at, type) == [at |-> at, type |-> type, usable |-> TRUE, marker |-> FALSE]
Block(title, scenes) == [title |-> title, etymology |-> FALSE, scenes |-> scenes]

Notebook(editions, blocks, keys) ==
    [editions |-> editions, file |-> blocks, ids |-> [k \in keys |-> None], excluded |-> [k \in keys |-> {}]]

\* A word of a story moves to another scene, and then the other is taken out.
Moving ==
    LET Edition(first, second) == Source("story", "e1", <<Scene("s1", first), Scene("s2", second)>>, {})
        ran == Word("ran", "ran", None, {})
        sour == Word("sour", "sour", None, {})
    IN  Notebook(<<Edition(<<ran, sour>>, <<>>), Edition(<<sour>>, <<ran>>), Edition(<<>>, <<ran>>)>>, <<>>, {"ran", "sour"})

\* A word gets a form of its own, and then moves.
Growing ==
    LET Edition(first, second) == Source("story", "e1", <<Scene("s1", first), Scene("s2", second)>>, {})
        ran == Word("ran", "ran", "run", {})
    IN  Notebook(<<Edition(<<Word("ran", "ran", None, {})>>, <<>>), Edition(<<ran>>, <<>>), Edition(<<>>, <<ran>>)>>,
                 <<>>, {"ran"})

\* A story with a word under a title in both quotes, from versions that told them
\* apart, and an old exclusion.
Quoted ==
    LET log(at) == [Stub("sour") EXCEPT !.learned = <<Log(at, None)>>]
        marked == [Stub("ran") EXCEPT !.learned = <<[Log(2, "notebook") EXCEPT !.marker = TRUE]>>]
    IN  [Notebook(<<Source("story", "e1", <<Scene("s1", <<Word("ran", "ran", None, {})>>),
                                            Scene("it's", <<Word("sour", "sour", None, {})>>)>>, {})>>,
                  <<Block("e1", <<NewScene("it's", <<log(1)>>), NewScene("it''s", <<log(3)>>),
                                  NewScene("s1", <<marked>>)>>)>>, {"ran", "sour"})
         EXCEPT !.excluded["ran"] = {"notebook"}]

\* A session of a definitions book, with entries under an old key and under the session.
Book ==
    LET cardiology == Word("cardiology", "cardiology", None, {"kard"})
        cardiac == Word("cardiac", "cardiac", None, {"kard"})
        spec == Word("spectator", "spectator", None, {})
    IN [Notebook(<<Source("definitions", "I", <<Scene("heart", <<cardiology, cardiac>>), Scene("look", <<spec>>)>>,
                          {[head |-> "cardiology", members |-> {"cardiology", "cardiac"}]})>>,
                 <<Block("I", <<NewScene("__index_1", <<[Stub("spectator") EXCEPT !.reverse = <<Log(1, "reverse")>>]>>),
                                NewScene("I", <<[Stub("spectator") EXCEPT !.learned = <<Log(2, "freeform")>>,
                                                                                !.skipped = {"notebook"}]>>)>>)>>,
                 {"cardiology", "cardiac", "spectator"})
        EXCEPT !.excluded["spectator"] = {"notebook"}]

\* Origins in the blocks of old etymology notebooks, one of them met in a scene since.
Etymology ==
    LET origin(logs) == [Stub("ego") EXCEPT !.origin = logs]
    IN  Notebook(<<Source("definitions", "I", <<Scene("self", <<Word("ego", "ego", None, {}),
                                                             Word("egoist", "egoist", None, {"ego"})>>)>>, {})>>,
                 <<[title |-> "roots", etymology |-> TRUE, scenes |-> <<NewScene("I", <<origin(<<Log(1, "etymology_origin")>>)>>)>>],
                   Block("I", <<NewScene("I", <<[origin(<<Log(2, "etymology_origin")>>) EXCEPT !.type = "origin"]>>)>>)>>,
                 {"ego", "egoist"})

\* An event is retitled, and a word loses its form and gets another.
Retitled ==
    LET Edition(title, defn) == Source("story", title, <<Scene("s1", <<Word("ran", "ran", defn, {})>>)>>, {})
    IN  Notebook(<<Edition("e1", None), Edition("e2", None)>>, <<>>, {"ran"})
Reformed ==
    LET Edition(defn) == Source("story", "e1", <<Scene("s1", <<Word("ran", "ran", defn, {})>>)>>, {})
    IN  Notebook(<<Edition("run"), Edition(None), Edition("running")>>, <<>>, {"ran"})

\* In a definitions book a word gets a form and moves.
Rebound ==
    LET Edition(first, second) == Source("definitions", "I", <<Scene("heart", first), Scene("look", second)>>, {})
    IN  Notebook(<<Edition(<<Word("ran", "ran", None, {})>>, <<>>), Edition(<<>>, <<Word("ran", "ran", "run", {})>>)>>,
                 <<>>, {"ran"})

\* An event under a title in both quotes, with a word under both spellings and a scene
\* under both titles.
Curly ==
    LET studied(scene, name, at) == NewScene(scene, <<[Stub(name) EXCEPT !.learned = <<Log(at, "notebook")>>]>>)
    IN  Notebook(<<Source("story", "it's", <<Scene("s1", <<Word("ran", "ran", "run", {})>>),
                                             Scene("it's", <<Word("sour", "sour", None, {})>>)>>, {})>>,
                 <<Block("it's", <<studied("s1", "run", 1), studied("it''s", "sour", 2), studied("it's", "sour", 3)>>),
                   Block("it''s", <<studied("s1", "ran", 4)>>)>>, {"ran", "sour"})

\* A spelling that two scenes of an event tell.
Twice ==
    Notebook(<<Source("story", "e1", <<Scene("s1", <<Word("ran-1", "ran", None, {})>>),
                                       Scene("s2", <<Word("ran-2", "ran", None, {})>>)>>, {})>>,
             <<>>, {"ran-1", "ran-2"})

\* Two origins of one name in a session, each with its id.
Homographs ==
    LET origin(id, at) == [Stub("ana") EXCEPT !.type = "origin", !.id = id, !.origin = <<Log(at, "etymology_origin")>>]
    IN  Notebook(<<Source("definitions", "I", <<Scene("up", <<Word("analyse", "analyse", None, {"ana"})>>)>>, {})>>,
                 <<Block("I", <<NewScene("up", <<origin(<<"ana", 1>>, 1), origin(<<"ana", 2>>, 2)>>)>>)>>, {"analyse"})

MCNotebooks == {Moving, Growing, Quoted, Book, Etymology, Retitled, Reformed, Rebound, Curly, Twice,
                Homographs}
MovingNotebooks == {Moving}
MCStraight == [t \in {"it''s"} |-> "it's"]
MCOldKeys == <<"__index_0", "__index_1">>
===============================================================================
