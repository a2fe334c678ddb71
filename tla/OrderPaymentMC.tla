--------------------------- MODULE OrderPaymentMC ---------------------------
(* Instances of OrderPayment for TLC: two overlapping runs.                 *)
EXTENDS OrderPayment, TLC

CONSTANTS r1, r2

TwoRuns == {r1, r2}

\* A tenant with no overrides, and one that routes O'mari to its own gateway.
DefaultTenant == [m \in {} |-> "paynow"]
OmariTenant   == [m \in {"omari"} |-> "omari"]

\* What the steps to come depend on: the order's mirror of the payment status
\* decides nothing but itself, and a loaded order is read until the gateway is
\* called.
Unread(o) == [o EXCEPT !.payStatus = "pending"]

Live == <<Unread(order), pay, latest, pc, push, callbacks, hooks,
          [r \in Runs |-> IF pc[r] \in {"loaded", "checked", "recorded"}
                          THEN Unread(snap[r]) ELSE NewOrder]>>

\* The same, and what ThankedOnce reads.
LiveThanks == <<Live, setBack, [r \in Runs |-> IF r \in setBack THEN 0 ELSE thanked[r]]>>

AnyRun == Permutations(Runs)
=============================================================================
