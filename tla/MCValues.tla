------------------------------ MODULE MCValues ------------------------------
(* Two pointers and two statements of a connection with a function or two. *)
EXTENDS Values, TLC

Symmetry == Permutations(Pointers) \cup Permutations(Statements) \cup Permutations(Names)
=============================================================================
