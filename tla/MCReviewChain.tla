---------------------------- MODULE MCReviewChain ----------------------------
(***************************************************************************)
(* Small instances of ReviewChain.  A day has two ticks, morning and       *)
(* evening, so an answer in the evening and one the next morning are one   *)
(* calendar day but no 24 hours apart.                                     *)
(***************************************************************************)
EXTENDS Analytics

Grade(correct, quality) == [correct |-> correct, quality |-> quality]

\* A good answer and a miss; the fixed algorithm also tells a fast answer, two
\* levels, from a slow one.
MCOutcomes == [sm2 |-> {Grade(TRUE, 4), Grade(FALSE, 1)},
               fixed |-> {Grade(TRUE, 5), Grade(TRUE, 3), Grade(FALSE, 1)}]
\* Both quizzes that share learned_logs, and the one list of a recall quiz.
MCQuizTypes == [sm2 |-> {"notebook", "freeform"}, fixed |-> {"reverse"}]
MCFixed == <<1, 3, 7>>

=============================================================================
