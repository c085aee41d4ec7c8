--------------------------- MODULE MCSessionStore ----------------------------
EXTENDS SessionStore, TLC

(* Reads idle longer than writes, and both less than a session lives. *)
Idle == [k \in Kind |-> IF k = "read" THEN 2 ELSE 1]
Symmetry == Permutations(Call) \cup Permutations(Session)
=============================================================================
