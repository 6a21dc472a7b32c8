--------------------------- MODULE MCEntryPlacement ---------------------------
(***************************************************************************)
(* A notebook with two homographs in one scene, the same word in another   *)
(* scene, a word with a definition form, and a plain word.                 *)
(***************************************************************************)
EXTENDS EntryPlacement, TLC

Words5 == {"run 1", "run 2", "run 3", "leapt", "jump"}
Homographs == {"run 1", "run 2"}

MCSpellings == {"run", "leap", "leapt", "jump"}
MCScenes == {"race", "park"}
MCName == [c \in Cards |-> CASE c = "leapt" -> "leap" [] c = "jump" -> "jump" [] OTHER -> "run"]
MCOriginal == [c \in Cards |-> IF c = "leapt" THEN "leapt" ELSE None]
MCSense == [c \in Cards |-> c]
MCPlace == [c \in Cards |-> IF c \in {"run 3", "leapt"} THEN "park" ELSE "race"]

\* Files from before ids: empty, or with one entry or two.
Old(place, name) == [place |-> place, entries |-> <<Entry(name, None, {Legacy})>>]
MCOldFiles == {<< >>, <<Old("race", "run")>>, <<Old("park", "run")>>, <<Old("park", "leapt")>>,
               <<Old("park", "leap"), Old("race", "jump")>>}
=============================================================================
