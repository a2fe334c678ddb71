------------------------------ MODULE CheckoutMC ------------------------------
(* Two carts of one customer, of two lines and of one.                       *)
EXTENDS Checkout, TLC

CONSTANTS c1, c2

MCCarts == {c1, c2}
MCLines == [c \in MCCarts |-> IF c = c1 THEN {1, 2} ELSE {4}]

\* Workers and order numbers have no order and no name.
Alike == Permutations(Workers) \cup Permutations(Numbers)
=============================================================================
