--------------------------- MODULE MCAccountFacts ---------------------------
(* An instance of AccountFacts for the model checker. *)
EXTENDS AccountFacts, TLC

CONSTANTS c1, c2

CallSymmetry == Permutations(Calls)
=============================================================================
