------------------------------ MODULE MCGrading ------------------------------
(***************************************************************************)
(* A small instance of Grading: a batch of two answers, one retry, one     *)
(* slot for the blanks of a grammar post, and a page that sends twice.     *)
(***************************************************************************)
EXTENDS Grading

=============================================================================
