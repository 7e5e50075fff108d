-------------------------- MODULE MCContactWindows --------------------------
(* Two requests at a time about spans of which neighbours overlap and the  *)
(* outer ones touch, beside entries from flight.                           *)
EXTENDS ContactWindows, TLC

SpansDef == {<<0, 2>>, <<1, 3>>, <<2, 4>>}
Symmetry == Permutations(Handlers)
=============================================================================
