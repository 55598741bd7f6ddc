--------------------------- MODULE MCConfirmation ---------------------------
(***************************************************************************)
(* Model checking of Confirmation by itself: two calls of the gate at the  *)
(* same time.  Tokens, actions and callers are interchangeable.            *)
(***************************************************************************)
EXTENDS Confirmation, TLC

Symmetry == Permutations(Tokens) \cup Permutations(Actions) \cup Permutations(Callers)
=============================================================================
