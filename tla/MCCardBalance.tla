--------------------------- MODULE MCCardBalance ---------------------------
(***************************************************************************)
(* Instance of CardBalance for TLC: a deposit retried with a stored key, a *)
(* deduction made through CardBalance, and an operation of amount zero.    *)
(***************************************************************************)
EXTENDS CardBalance, FiniteSets, TLC

CONSTANTS deposit, deduct, nothing, w1, w2, k1, k2, k3

MCAmount == [op \in Ops |-> CASE op = deposit -> 3 [] op = deduct -> -2 [] OTHER -> 0]

WorkersAndKeys == Permutations(Workers) \cup Permutations(Keys)

=============================================================================
