------------------------- MODULE MCBatchCommission -------------------------
(* Model-checking instance of BatchCommission: a chain of a master and its  *)
(* slaves.                                                                  *)
EXTENDS BatchCommission

CONSTANTS m, s1, s2

OneChain == [s \in Slaves |-> m]
=============================================================================
