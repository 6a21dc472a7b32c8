---------------------------- MODULE MCQuizSession ----------------------------
(* Small instances of QuizSession. *)
EXTENDS QuizSession, TLC

CONSTANTS t1, t2, jump, leap

\* The ids of the database start at 1, like those of a session; a hash is large.
MCDbNotes   == 1 :> leap
MCRelearnID == jump :> 101 @@ leap :> 102

Symmetric == Permutations(Tabs)
=============================================================================
