-------------------------- MODULE TenantLifecycleMC --------------------------
(* Two shops; one business account with two numbers, one with one.           *)
EXTENDS TenantLifecycle, TLC

CONSTANTS p1, p2, p3, w1, w2

MCPhones  == {p1, p2, p3}
MCBelongs == [p \in MCPhones |-> IF p = p3 THEN w2 ELSE w1]

\* Shops and requests have no order and no name.
Alike == Permutations(Tenants) \cup Permutations(Handlers)
=============================================================================
