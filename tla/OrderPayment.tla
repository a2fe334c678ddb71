---------------------------- MODULE OrderPayment ----------------------------
(***************************************************************************)
(* Charging one order (controllers/payments/payment.controller.ts).        *)
(*                                                                         *)
(* initiateOrderPayment is started by a customer's message (the order form *)
(* the delivery pin, a fee confirmation, a "Try again" button).  The       *)
(* message handlers of the server are not serialised, so several runs of   *)
(* it for the same order interleave at its awaits.  A run creates at most  *)
(* one Payment document: the document is named after the run.              *)
(*                                                                         *)
(* Paynow charges the customer's wallet outside the server and posts every *)
(* status change back, again and again until it is answered 200.           *)
(* isPaynowWebhookAccepted settles the document and the order.             *)
(*                                                                         *)
(* The database keeps three things the handlers rely on: a unique index on *)
(* the PENDING payments of an order (models/Payment.ts:56), transactions   *)
(* that land whole or not at all, and documents whose save() writes only   *)
(* the paths that differ from what was loaded.                             *)
(***************************************************************************)
EXTENDS Naturals, FiniteSets

CONSTANTS
  Runs,            \* the executions of initiateOrderPayment for the order
  NoRun,           \* a value that is no run
  PaymentRouting,  \* the tenant's overrides: a function on some of Methods
  MaxHooks,        \* a bound: posts under way at once
  Faults           \* what may go wrong: a subset of AllFaults

AllFaults ==
  {"response_lost",  \* the push is live at Paynow, its HTTP answer never arrives
   "commit_fails",   \* a transaction aborts
   "interrupted",    \* the process dies, or an await throws, in a run
   "ack_lost",       \* Paynow never sees the 200 and posts again
   "reordered",      \* Paynow's posts arrive in any order
   "url_omitted"}    \* Paynow posts a status without its poll URL

Methods   == {"ecocash", "omari", "cash_on_delivery"}
Providers == {"paynow", "ecocash", "omari", "cash_on_delivery"}

ASSUME RunsAssumption    == NoRun \notin Runs
ASSUME FaultsAssumption  == Faults \subseteq AllFaults
ASSUME RoutingAssumption == /\ DOMAIN PaymentRouting \subseteq Methods
                            /\ \A m \in DOMAIN PaymentRouting : PaymentRouting[m] \in Providers

PaymentStatus == {"pending", "paid", "failed", "refunded"}
OrderStatus   == {"pending", "confirmed", "completed"}

\* The gateway that charges a method, unless the tenant routes it elsewhere.
DefaultRouting == [m \in Methods |-> IF m = "cash_on_delivery" THEN m ELSE "paynow"]

resolvePaymentProvider(m) ==
  IF m \in DOMAIN PaymentRouting THEN PaymentRouting[m] ELSE DefaultRouting[m]

\* PAYNOW_METHOD_TOKEN and the mobile number the adapter insists on.
AdapterAccepts(o) == o.method \in {"ecocash", "omari"} /\ o.mobile

(***************************************************************************)
(* Paynow's own states of a push, the moves between them, and what the     *)
(* code makes of each.                                                     *)
(***************************************************************************)
RawStatus == {"sent", "paid", "delivered", "cancelled", "disputed", "refunded"}

mapStatus(raw) ==
  CASE raw \in {"paid", "delivered"}     -> "paid"
    [] raw \in {"cancelled", "disputed"} -> "failed"
    [] raw = "refunded"                  -> "refunded"
    [] OTHER                             -> "pending"

GatewayMove == {<<"sent", "paid">>, <<"sent", "cancelled">>, <<"paid", "delivered">>,
                <<"paid", "disputed">>, <<"paid", "refunded">>}

\* The states of a push whose money has left the customer's wallet.
EverPaid == {"paid", "delivered", "disputed", "refunded"}

\* raw was posted before later.
PostedBefore(raw, later) ==
  \/ raw = "sent" /\ later # "sent"
  \/ raw = "paid" /\ later \notin {"sent", "paid"}

VARIABLES
  order,      \* [status, payStatus, method, mobile]: the Order document
  pay,        \* pay[r]: the Payment document run r created, "none" before
  latest,     \* the run of the newest Payment document, or NoRun
  pc,         \* where run r of initiateOrderPayment stands
  snap,       \* the Order document as run r loaded it
  push,       \* Paynow's state of the push of run r, "none" before it
  callbacks,  \* posts Paynow has not yet seen answered 200
  hooks,      \* the posts some webhook executions hold, and the document they found
  thanked,    \* thank-you messages sent for document r, counted up to 2
  setBack     \* history: the documents an outdated write has set back

vars == <<order, pay, latest, pc, snap, push, callbacks, hooks, thanked, setBack>>

\* method: what the form chose, "none" before it; mobile: a wallet number is
\* known, which only a form with EcoCash supplies.
Orders == [status : OrderStatus, payStatus : PaymentStatus,
           method : Methods \cup {"none"}, mobile : BOOLEAN]

\* provider and the poll URL (providerReference): linked says it is stored.
Payments  == [status : PaymentStatus \cup {"none"}, cash : BOOLEAN, linked : BOOLEAN]
NoPayment == [status |-> "none", cash |-> FALSE, linked |-> FALSE]

Callbacks == [run : Runs, raw : RawStatus]
Hooks     == [post : Callbacks, row : Runs]

TypeOK ==
  /\ order \in Orders
  /\ pay \in [Runs -> Payments]
  /\ latest \in Runs \cup {NoRun}
  /\ pc \in [Runs -> {"idle", "loaded", "checked", "recorded", "accepted", "refused", "done"}]
  /\ snap \in [Runs -> Orders]
  /\ push \in [Runs -> RawStatus \cup {"none"}]
  /\ callbacks \subseteq Callbacks
  /\ hooks \subseteq Hooks
  /\ thanked \in [Runs -> 0 .. 2]
  /\ setBack \subseteq Runs

NewOrder == [status |-> "pending", payStatus |-> "pending", method |-> "none", mobile |-> FALSE]

Init ==
  /\ order = NewOrder
  /\ pay = [r \in Runs |-> NoPayment]
  /\ latest = NoRun
  /\ pc = [r \in Runs |-> "idle"]
  /\ snap = [r \in Runs |-> NewOrder]
  /\ push = [r \in Runs |-> "none"]
  /\ callbacks = {}
  /\ hooks = {}
  /\ thanked = [r \in Runs |-> 0]
  /\ setBack = {}

PendingRow(r) == pay[r].status = "pending"

(***************************************************************************)
(* The parts of the order other handlers write.                            *)
(***************************************************************************)

\* The order form is submitted, the first time or again.  It never resets
\* the payment status it finds.
ChooseMethod(m) ==
  /\ order' = [order EXCEPT !.method = m, !.mobile = @ \/ m = "ecocash"]
  /\ UNCHANGED <<pay, latest, pc, snap, push, callbacks, hooks, thanked, setBack>>

\* The delivery job reached DELIVERED.
CompleteOrder ==
  /\ order.status # "completed"
  /\ order' = [order EXCEPT !.status = "completed"]
  /\ UNCHANGED <<pay, latest, pc, snap, push, callbacks, hooks, thanked, setBack>>

(***************************************************************************)
(* initiateOrderPayment, one action per stretch between two awaits.        *)
(***************************************************************************)
Goto(r, label) == pc' = [pc EXCEPT ![r] = label]

LoadOrder(r) ==
  /\ pc[r] = "idle"
  /\ snap' = [snap EXCEPT ![r] = order]
  /\ Goto(r, "loaded")
  /\ UNCHANGED <<order, pay, latest, push, callbacks, hooks, thanked, setBack>>

\* The double-charge guard, then the missing-method exit.
CheckPriorPayments(r) ==
  /\ pc[r] = "loaded"
  /\ Goto(r, IF (\E q \in Runs : pay[q].status \in {"pending", "paid"}) \/ snap[r].method = "none"
             THEN "done" ELSE "checked")
  /\ UNCHANGED <<order, pay, latest, snap, push, callbacks, hooks, thanked, setBack>>

Provider(r) == resolvePaymentProvider(snap[r].method)

\* Mutant: no unique index.
NoIndex(r) == TRUE

\* The unique partial index on PENDING rows refuses a second one.
IndexAllows(r) == \A q \in Runs \ {r} : ~ PendingRow(q)

\* A new Payment document.
CreatePayment(r, cash) ==
  /\ IndexAllows(r)
  /\ pay' = [pay EXCEPT ![r] = [status |-> "pending", cash |-> cash, linked |-> FALSE]]
  /\ latest' = r

\* save() writes a path only where the value set differs from the one loaded.
Written(loaded, new, stored) == IF new = loaded THEN stored ELSE new

\* Cash on delivery: the document and the confirmed order in one transaction.
ConfirmCashOnDelivery(r) ==
  /\ pc[r] = "checked"
  /\ Provider(r) = "cash_on_delivery"
  /\ CreatePayment(r, TRUE)
  /\ order' = [order EXCEPT !.status    = Written(snap[r].status, "confirmed", @),
                            !.payStatus = Written(snap[r].payStatus, "pending", @)]
  /\ Goto(r, "done")
  /\ UNCHANGED <<snap, push, callbacks, hooks, thanked, setBack>>

\* Paynow: the document is recorded before the gateway is called.
RecordAttempt(r) ==
  /\ pc[r] = "checked"
  /\ Provider(r) = "paynow"
  /\ CreatePayment(r, FALSE)
  /\ Goto(r, "recorded")
  /\ UNCHANGED <<order, snap, push, callbacks, hooks, thanked, setBack>>

\* Mutant: the order is saved outside the cash transaction, which aborts.
GiveUpConfirmed(r) ==
  /\ pc[r] = "checked"
  /\ Provider(r) = "cash_on_delivery"
  /\ order' = [order EXCEPT !.status = "confirmed"]
  /\ Goto(r, "done")
  /\ UNCHANGED <<pay, latest, snap, push, callbacks, hooks, thanked, setBack>>

\* The run ends with nothing written: no adapter for the provider, the index
\* refuses the document, or the cash transaction aborts.
GiveUp(r) ==
  /\ pc[r] = "checked"
  /\ \/ Provider(r) \in {"ecocash", "omari"}
     \/ ~ IndexAllows(r)
     \/ Provider(r) = "cash_on_delivery" /\ "commit_fails" \in Faults
  /\ Goto(r, "done")
  /\ UNCHANGED <<order, pay, latest, snap, push, callbacks, hooks, thanked, setBack>>

Post(r, raw) == callbacks' = callbacks \cup {[run |-> r, raw |-> raw]}

\* Paynow takes the push and says so, or its answer is lost on the way back.
GatewayAccepts(r) ==
  /\ pc[r] = "recorded"
  /\ AdapterAccepts(snap[r])
  /\ push' = [push EXCEPT ![r] = "sent"]
  /\ Post(r, "sent")
  /\ \/ Goto(r, "accepted")
     \/ "response_lost" \in Faults /\ Goto(r, "refused")
  /\ UNCHANGED <<order, pay, latest, snap, hooks, thanked, setBack>>

\* The adapter's own checks fail, or Paynow refuses the push.
GatewayRefuses(r) ==
  /\ pc[r] = "recorded"
  /\ Goto(r, "refused")
  /\ UNCHANGED <<order, pay, latest, snap, push, callbacks, hooks, thanked, setBack>>

\* A run that gives up marks its document FAILED, settled meanwhile or not.
NoteGivenUp(r) ==
  setBack' = IF pay[r].status \notin {"pending", "failed"} /\ pay'[r].status = "failed"
             THEN setBack \cup {r} ELSE setBack

\* Mutant: the poll URL is not stored.
SaveNoReference(r) ==
  /\ pc[r] \in {"accepted", "refused"}
  /\ pay' = [pay EXCEPT ![r].status = IF pc[r] = "refused" THEN "failed" ELSE @]
  /\ Goto(r, "done")
  /\ UNCHANGED <<order, latest, snap, push, callbacks, hooks, thanked, setBack>>

\* The outcome of the call, on the document and on the order's mirror of it.
\* The document was loaded PENDING, so a success writes only the poll URL.
SaveResult(r) ==
  /\ \/ /\ pc[r] = "accepted"
        /\ pay' = [pay EXCEPT ![r].linked = TRUE]
        /\ order' = [order EXCEPT !.payStatus = Written(snap[r].payStatus, "pending", @)]
     \/ /\ pc[r] = "refused"
        /\ pay' = [pay EXCEPT ![r].status = "failed"]
        /\ order' = [order EXCEPT !.payStatus = Written(snap[r].payStatus, "failed", @)]
  /\ NoteGivenUp(r)
  /\ Goto(r, "done")
  /\ UNCHANGED <<latest, snap, push, callbacks, hooks, thanked>>

\* The transaction aborts: the document alone is marked FAILED, and even that
\* write may fail unnoticed.
SaveAborts(r) ==
  /\ "commit_fails" \in Faults
  /\ pc[r] \in {"accepted", "refused"}
  /\ \/ pay' = [pay EXCEPT ![r].status = "failed"]
     \/ UNCHANGED pay
  /\ NoteGivenUp(r)
  /\ Goto(r, "done")
  /\ UNCHANGED <<order, latest, snap, push, callbacks, hooks, thanked>>

\* The run dies at an await.  Its message was already marked as processed, so
\* nothing restarts it.
Interrupted(r) ==
  /\ "interrupted" \in Faults
  /\ pc[r] \notin {"idle", "done"}
  /\ Goto(r, "done")
  /\ UNCHANGED <<order, pay, latest, snap, push, callbacks, hooks, thanked, setBack>>

(***************************************************************************)
(* Paynow and isPaynowWebhookAccepted.                                     *)
(***************************************************************************)

\* The customer approves or declines; later the merchant refunds, or the
\* customer disputes.
GatewayMoves(r) ==
  \E raw \in RawStatus :
    /\ <<push[r], raw>> \in GatewayMove
    /\ push' = [push EXCEPT ![r] = raw]
    /\ Post(r, raw)
    /\ UNCHANGED <<order, pay, latest, pc, snap, hooks, thanked, setBack>>

\* Mutant: the newest attempt, whatever the poll URL says.
FoundLatest(c) == {latest} \ {NoRun}

\* The document a post is about: the attempt with its poll URL, or the newest
\* one when the URL is missing.  No document: the post is answered 400.
FoundRow(c) ==
  {r \in Runs : r = c.run /\ pay[r].linked}
    \cup IF "url_omitted" \in Faults THEN {latest} \ {NoRun} ELSE {}

\* Nothing keeps another execution of a post from starting beside the first.
ReceiveCallback(c) ==
  /\ "reordered" \in Faults \/ \A d \in callbacks : d.run = c.run => ~ PostedBefore(d.raw, c.raw)
  /\ \E r \in FoundRow(c) : hooks' = hooks \cup {[post |-> c, row |-> r]}
  /\ Cardinality(hooks') <= MaxHooks
  /\ UNCHANGED <<order, pay, latest, pc, snap, push, callbacks, thanked, setBack>>

\* One execution ends; others of the same post may still be under way.
EndHook(h) == hooks' \in {hooks, hooks \ {h}}

\* The 200 reaches Paynow, which stops posting.
Acknowledged(h) == callbacks' = callbacks \ {h.post}

\* Mutants: no idempotency gate; the order is not confirmed with the document.
SettleAgain(r, status) ==
  /\ status = "pending" => IndexAllows(r)
  /\ pay' = [pay EXCEPT ![r].status = status]
  /\ order' = [order EXCEPT !.payStatus = status,
                            !.status = IF status = "paid" THEN "confirmed" ELSE @]
  /\ thanked' = IF status = "paid" /\ thanked[r] < 2
                THEN [thanked EXCEPT ![r] = @ + 1] ELSE thanked
SettlePaymentOnly(r, status) ==
  /\ pay' = [pay EXCEPT ![r].status = status]
  /\ UNCHANGED <<order, thanked>>

\* One transaction: claim the transition of the document unless it already
\* has the status, move the order with it; then thank the customer.
SettleRow(r, status) ==
  IF pay[r].status = status
  THEN UNCHANGED <<order, pay, thanked>>
  ELSE /\ status = "pending" => IndexAllows(r)
       /\ pay' = [pay EXCEPT ![r].status = status]
       /\ order' = [order EXCEPT !.payStatus = status,
                                 !.status = IF status = "paid" THEN "confirmed" ELSE @]
       /\ thanked' = IF status = "paid" /\ thanked[r] < 2
                     THEN [thanked EXCEPT ![r] = @ + 1] ELSE thanked

\* The post changes a document that is not its own, or takes a settled one to
\* a status Paynow's push has left behind.
Outdated(h) ==
  /\ pay[h.row].status # mapStatus(h.post.raw)
  /\ \/ h.row # h.post.run
     \/ pay[h.row].status # "pending" /\ mapStatus(h.post.raw) # mapStatus(push[h.row])

NoteOutdated(h) == setBack' = IF Outdated(h) THEN setBack \cup {h.row} ELSE setBack

SettleCallback(h) ==
  /\ SettleRow(h.row, mapStatus(h.post.raw))
  /\ NoteOutdated(h)
  /\ EndHook(h)
  /\ Acknowledged(h)
  /\ UNCHANGED <<latest, pc, snap, push>>

SettleUnseen(h) ==
  /\ "ack_lost" \in Faults
  /\ SettleRow(h.row, mapStatus(h.post.raw))
  /\ NoteOutdated(h)
  /\ EndHook(h)
  /\ UNCHANGED <<latest, pc, snap, push, callbacks>>

\* The transaction aborts, by the index on PENDING rows or otherwise: 400.
SettleAborts(h) ==
  /\ \/ "commit_fails" \in Faults
     \/ /\ mapStatus(h.post.raw) = "pending"
        /\ ~ PendingRow(h.row)
        /\ ~ IndexAllows(h.row)
  /\ EndHook(h)
  /\ UNCHANGED <<order, pay, latest, pc, snap, push, callbacks, thanked, setBack>>

RunStep(r) ==
  \/ CheckPriorPayments(r) \/ ConfirmCashOnDelivery(r) \/ RecordAttempt(r) \/ GiveUp(r)
  \/ GatewayAccepts(r) \/ GatewayRefuses(r) \/ SaveResult(r)

Next ==
  \/ \E m \in Methods : ChooseMethod(m)
  \/ CompleteOrder
  \/ \E r \in Runs : LoadOrder(r) \/ RunStep(r) \/ SaveAborts(r) \/ Interrupted(r) \/ GatewayMoves(r)
  \/ \E c \in callbacks : ReceiveCallback(c)
  \/ \E h \in hooks : SettleCallback(h) \/ SettleUnseen(h) \/ SettleAborts(h)

Spec == Init /\ [][Next]_vars

\* The server runs what it has started and every execution of a post ends;
\* Paynow keeps posting what was not acknowledged, and not every
\* acknowledgement is lost.  Customers and staff owe nothing.
Fairness ==
  \A r \in Runs :
    /\ WF_vars(RunStep(r))
    /\ WF_vars(\E c \in callbacks : c.run = r /\ ReceiveCallback(c))
    /\ SF_vars(\E h \in hooks : h.post.run = r /\ SettleCallback(h) /\ h \notin hooks')

FairSpec == Spec /\ Fairness

(***************************************************************************)
(* What the payments of an order promise.                                  *)
(***************************************************************************)

\* A payment document is never PAID while its order still waits to be
\* confirmed: the webhook lands both or neither (payment.controller.ts:327).
PaidIsConfirmed == \A r \in Runs : pay[r].status = "paid" => order.status # "pending"

\* The shop never sees a confirmed order that nobody paid for and no cash
\* document stands behind (payment.controller.ts:111, 358).
ConfirmedIsBacked ==
  order.status = "confirmed" => \E r \in Runs : pay[r].cash \/ push[r] \in EverPaid

\* A document says PAID or REFUNDED only of the attempt whose own push took
\* the money, however many attempts the order has (payment.controller.ts:314).
PaidOnlyIfCharged ==
  \A r \in Runs : pay[r].status \in {"paid", "refunded"} => push[r] \in EverPaid

\* The customer's phone never shows two live prompts for one order, whatever
\* handlers overlap: the second attempt waits until the first is over
\* (payment.controller.ts:72 and the index of models/Payment.ts:56).
OneOpenPush ==
  \A r, q \in Runs : push[r] = "sent" /\ push[q] = "sent" => r = q

\* No two attempts on one order both take the customer's money
\* ("Double-charge guard", payment.controller.ts:72).
AtMostOneCharge ==
  \A r, q \in Runs : {push[r], push[q]} \subseteq {"paid", "delivered"} => r = q

\* The customer is thanked once for a payment, however often Paynow posts it
\* and however its executions overlap: they "can't both pass the idempotency
\* gate" (payment.controller.ts:331).  The gate looks at the status alone, so
\* the promise ends where an outdated write has taken a settled status back.
ThankedOnce == \A r \in Runs \ setBack : thanked[r] <= 1

\* Money that left the wallet reaches the order: it does not wait for ever in
\* PENDING (payment.controller.ts:311-363 and the retried posts of the route).
ChargeConfirmsOrder ==
  \A r \in Runs : push[r] = "paid" ~> order.status # "pending"

\* Every behaviour of the handlers, with whatever overlaps, aborts and repeats,
\* is a behaviour of the ledger of PaymentLedger.
Ledger == INSTANCE PaymentLedger WITH
            Attempts    <- Runs,
            row         <- [r \in Runs |-> pay[r].status],
            orderStatus <- order.status,
            charged     <- {r \in Runs : push[r] \in EverPaid}
ImplementsLedger == Ledger!Spec

=============================================================================
