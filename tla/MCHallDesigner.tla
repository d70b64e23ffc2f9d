--------------------------- MODULE MCHallDesigner ---------------------------
(* Model-checking instance of HallDesigner, to which all halls are alike.   *)
EXTENDS HallDesigner, TLC

Sym == Permutations(Halls)
=============================================================================
