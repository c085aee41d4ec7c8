----------------------------- MODULE MCAnswers -----------------------------
(* An instance of Answers for TLC; the constants are in Answers.cfg. *)
EXTENDS Answers
=============================================================================
