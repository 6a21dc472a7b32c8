----------------------------- MODULE MCReaders -----------------------------
(* Small notebooks of each kind, and the histories they start with. *)
EXTENDS RelearnPool

Note(kind, notebook, title, scene, expr, defn, id) ==
    [kind |-> kind, notebook |-> notebook, title |-> title, scene |-> scene, expr |-> expr, defn |-> defn,
     id |-> id, meaning |-> TRUE, usable |-> TRUE, prose |-> TRUE, examples |-> 0, parts |-> <<>>]

Part(origin, root) == [origin |-> origin, root |-> root]

Book(notes, concepts, file) ==
    [book |-> [notes |-> notes, concepts |-> concepts, conceptBook |-> notes[1].notebook], entries |-> file]

\* A log from before intervals, and one of a free-form answer.
Old(ok, type) == [ok |-> ok, type |-> type, interval |-> 0, day |-> 0]
Studied(place, name, logs, reverse) ==
    [place |-> place, name |-> name, id |-> None, learned |-> logs, reverse |-> reverse, skipped |-> {}]

\* A story of two scenes: a word in both, richer in the second, and one of two forms.
Story == Book(<<Note("story", "friends", "e1", "s1", "put off", None, None),
                [Note("story", "friends", "e1", "s2", "put off", None, None) EXCEPT !.examples = 1],
                Note("story", "friends", "e2", "s3", "ran", "run", "run-1")>>, {},
              <<Studied(<<"friends", "e2", "s3">>, "run", <<Old(TRUE, "notebook")>>, <<>>)>>)

\* Notes a quiz leaves out: no prose, not usable, no meaning.
Bare == Book(<<[Note("story", "friends", "e1", "s1", "put off", None, None) EXCEPT !.prose = FALSE],
               [Note("story", "friends", "e1", "s2", "give in", None, None) EXCEPT !.usable = FALSE]>>, {}, <<>>)
Meaningless ==
    Book(<<Note("story", "friends", "e1", "s1", "put off", None, None),
           [Note("story", "friends", "e2", "s3", "ran", "run", None) EXCEPT !.meaning = FALSE]>>, {}, <<>>)

\* Flashcards of a notebook whose title is the story that answers are stored under.
Flashcards == Book(<<Note("flashcard", "vocabulary", "flashcards", "", "sour", None, None),
                     Note("flashcard", "vocabulary", "flashcards", "", "ran", "run", "run-1")>>, {},
                   <<Studied(<<"vocabulary", "flashcards", "">>, "sour",
                             <<Old(FALSE, "freeform"), Old(TRUE, "notebook")>>, <<>>)>>)

\* A flashcard of a notebook with a title of its own.
Titled == Book(<<Note("flashcard", "vocabulary", "vocabulary 1", "", "sour", None, None)>>, {}, <<>>)

\* A family whose head comes first.
Definitions == Book(<<Note("definitions", "roots", "I", "kard", "cardiology", None, None),
                      Note("definitions", "roots", "I", "kard", "cardiac", None, None)>>,
                    {[head |-> "cardiology", members |-> {"cardiology", "cardiac"}]}, <<>>)

\* A word in each of two sessions.
Sessions == Book(<<Note("definitions", "roots", "I", "kard", "cardiology", None, None),
                   Note("definitions", "roots", "II", "spec", "spectator", None, "spectator-1")>>, {}, <<>>)

\* A word defined in two sessions.
Repeated == Book(<<Note("definitions", "roots", "I", "spec", "spectator", None, None),
                   Note("definitions", "roots", "II", "spec", "spectator", None, None)>>, {}, <<>>)

\* A family told in two scenes.
Scattered == Book(<<Note("definitions", "roots", "I", "kard", "cardiology", None, None),
                    Note("definitions", "roots", "II", "kard", "cardiac", None, None)>>,
                  {[head |-> "cardiology", members |-> {"cardiology", "cardiac"}]}, <<>>)

\* A word of a story that two etymology notes have too, and a word only these have.
Etymology == Book(<<Note("story", "friends", "e1", "s1", "spectator", None, None),
                    [Note("etymology", "latin", "I", "", "spectator", None, "spectator-1") EXCEPT
                        !.parts = <<Part("ator", FALSE)>>],
                    [Note("etymology", "latin", "II", "", "spectator", None, "spectator-2") EXCEPT
                        !.parts = <<Part("specere", TRUE)>>],
                    [Note("etymology", "latin", "I", "", "inspect", None, "inspect-1") EXCEPT
                        !.parts = <<Part("specere", TRUE), Part("in", FALSE)>>]>>, {}, <<>>)

\* A journal of two entries, in which two corrections have one id.
Journal == Book(<<Note("grammar", "journal", "w16", "", "I go yesterday", None, "w16-1"),
                  Note("grammar", "journal", "w16", "", "informations", None, "plural"),
                  Note("grammar", "journal", "w17", "", "advices", None, "plural")>>, {}, <<>>)

MCBooks == {Story, Bare, Meaningless, Flashcards, Titled, Definitions, Sessions, Repeated, Scattered,
            Etymology, Journal}
MCThresholds == <<1, 2>>
=============================================================================
