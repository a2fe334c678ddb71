---------------------------- MODULE PaymentLedger ----------------------------
(***************************************************************************)
(* What the payment code promises of one order, without its handlers: a    *)
(* ledger with one row per attempt, the order, and the customer's money.   *)
(*                                                                         *)
(* A row says the truth about the attempt it names, the order is confirmed *)
(* in the very step that records the money, and an order has one open row. *)
(***************************************************************************)
CONSTANT Attempts

VARIABLES
  row,          \* row[a]: the status of attempt a, "none" before it exists
  orderStatus,  \* the order
  charged       \* the attempts that took the customer's money

vars == <<row, orderStatus, charged>>

Init ==
  /\ row = [a \in Attempts |-> "none"]
  /\ orderStatus = "pending"
  /\ charged = {}

NoneOpen == \A a \in Attempts : row[a] # "pending"

\* A new attempt; with cash it confirms the order at once.
Open(a) ==
  /\ row[a] = "none"
  /\ NoneOpen
  /\ row' = [row EXCEPT ![a] = "pending"]
  /\ orderStatus' \in {orderStatus, "confirmed"}
  /\ UNCHANGED charged

\* The customer's wallet is charged for an attempt on record.
Charge(a) ==
  /\ row[a] # "none"
  /\ charged' = charged \cup {a}
  /\ UNCHANGED <<row, orderStatus>>

\* The money is recorded and the order confirmed, together.
Pay(a) ==
  /\ a \in charged
  /\ row[a] # "paid"
  /\ row' = [row EXCEPT ![a] = "paid"]
  /\ orderStatus' = "confirmed"
  /\ UNCHANGED charged

Fail(a) ==
  /\ row[a] # "none"
  /\ row' = [row EXCEPT ![a] = "failed"]
  /\ UNCHANGED <<orderStatus, charged>>

Refund(a) ==
  /\ a \in charged
  /\ row' = [row EXCEPT ![a] = "refunded"]
  /\ UNCHANGED <<orderStatus, charged>>

\* A late status opens a row again, never beside another open one.
Reopen(a) ==
  /\ row[a] # "none"
  /\ NoneOpen
  /\ row' = [row EXCEPT ![a] = "pending"]
  /\ UNCHANGED <<orderStatus, charged>>

Complete ==
  /\ orderStatus' = "completed"
  /\ UNCHANGED <<row, charged>>

Next ==
  \/ \E a \in Attempts : Open(a) \/ Charge(a) \/ Pay(a) \/ Fail(a) \/ Refund(a) \/ Reopen(a)
  \/ Complete

Spec == Init /\ [][Next]_vars

=============================================================================
