----------------------------- MODULE DeliveryFee -----------------------------
(***************************************************************************)
(* The delivery fee of one order: it is quoted, offered to the customer    *)
(* and, on the "Confirm & pay" tap, folded into the total that is charged  *)
(* (controllers/delivery/deliveryQuote.controller.ts, with the order form  *)
(* of whatsapp/orderFlowHandler.ts).                                       *)
(*                                                                         *)
(* The fee lives on the Delivery document, the total on the Order.  Every  *)
(* handler reads one or both, awaits, and saves; a save writes the paths   *)
(* that differ from what the handler loaded, with the values it computed   *)
(* from what it loaded.  Nothing serialises the handlers: several work on  *)
(* the order at once.  Prompts stay in the chat: an old button can be      *)
(* tapped at any time, and carries the order number only.                  *)
(***************************************************************************)
EXTENDS Integers, FiniteSets

CONSTANTS
  Handlers,    \* how many messages and requests are in progress at a time
  ItemsTotal,  \* the order's total before any delivery fee, in cents
  Fees,        \* the fees the quote engine or the shop may set, in cents
  CanCrash     \* TRUE if the process may die in the middle of a handler

Ops == {"form", "pin", "manual", "confirm", "collect"}

ASSUME TotalAssumption   == ItemsTotal \in Nat
ASSUME FeesAssumption    == Fees \subseteq Nat
ASSUME CrashAssumption   == CanCrash \in BOOLEAN

None == -1  \* no fee, no charge

\* method "none": no job yet.  address: a drop-off address is on record.
\* applied: the latch feeApplied, undefined | false | true.
Deliveries == [method : {"none", "collect", "door_delivery"}, address : BOOLEAN,
               quote : {"none", "quoted", "unquotable"}, fee : Fees \cup {None},
               applied : {"undefined", "false", "true"}]
NoDelivery == [method |-> "none", address |-> FALSE, quote |-> "none", fee |-> None,
               applied |-> "undefined"]

VARIABLES
  delivery,  \* the Delivery document
  total,     \* the Order's totalAmount
  charge,    \* the amount of the order's payment, None before there is one
  offered,   \* the fees shown to the customer in a "Confirm & pay" prompt
  asked,     \* a "Collect instead" button was sent
  unshown,   \* history: the fees that were saved and whose prompt did not go out
  cutOff,    \* history: a confirmation died between its latch and its money
  crossed,   \* history: a quote was saved over a confirmation it had not seen
  at         \* at[x]: the handler x is running, where, and what it loaded

history == <<unshown, cutOff, crossed>>
vars    == <<delivery, total, charge, offered, asked, unshown, cutOff, crossed, at>>

Idle    == [op |-> "none", pc |-> "idle", total |-> ItemsTotal, delivery |-> NoDelivery]
Labels  == {"idle", "load", "upsert", "save", "send", "latch", "money", "pay", "charge"}

TypeOK ==
  /\ delivery \in Deliveries
  /\ total \in Nat
  /\ charge \in Nat \cup {None}
  /\ offered \subseteq Fees
  /\ unshown \subseteq Fees
  /\ asked \in BOOLEAN /\ cutOff \in BOOLEAN /\ crossed \in BOOLEAN
  /\ at \in [Handlers -> [op : Ops \cup {"none"}, pc : Labels, total : Nat, delivery : Deliveries]]

Init ==
  /\ delivery = NoDelivery
  /\ total = ItemsTotal
  /\ charge = None
  /\ offered = {}
  /\ asked = FALSE
  /\ unshown = {}
  /\ cutOff = FALSE
  /\ crossed = FALSE
  /\ at = [x \in Handlers |-> Idle]

Running(x) == at[x].pc # "idle"
At(x, op, label) == at[x].op = op /\ at[x].pc = label
Goto(x, label)   == at' = [at EXCEPT ![x].pc = label]
Finish(x)        == at' = [at EXCEPT ![x] = Idle]

\* save() writes a path only where the value set differs from the one loaded.
Written(loaded, new, stored) == IF new = loaded THEN stored ELSE new

\* What must have happened before the message can arrive: a pin only answers
\* the request sent after a door-delivery form, taps need their button, the
\* dashboard needs a job.
Possible(op) ==
  CASE op = "form"    -> TRUE
    [] op = "pin"     -> delivery.address
    [] op = "manual"  -> delivery.method # "none"
    [] op = "confirm" -> offered # {}
    [] op = "collect" -> asked

\* A handler starts and loads the order.  The form writes no total.
Begin(x, op) ==
  /\ ~ Running(x)
  /\ Possible(op)
  /\ at' = [at EXCEPT ![x] = [Idle EXCEPT !.op = op, !.total = total,
                                          !.pc = IF op = "form" THEN "upsert" ELSE "load"]]
  /\ UNCHANGED <<delivery, total, charge, offered, asked, history>>

\* Mutant: a new quote forgets that the fee may already be confirmed.
DecisionUnlatched(op, d) ==
  CASE op \in {"pin", "manual"}              -> "save"
    [] op = "confirm" /\ d.applied = "true" -> "pay"
    [] op = "confirm" /\ d.applied # "true" -> "latch"
    [] op = "collect"                       -> "upsert"

\* What a handler does about the delivery it has loaded.
Decision(op, d) ==
  CASE op = "pin" /\ d.applied = "true" -> "pay"
    [] op = "pin" /\ d.applied # "true" -> "save"
    [] op = "manual" /\ d.method = "door_delivery" /\ d.applied # "true" -> "save"
    [] op = "confirm" /\ d.quote = "quoted" /\ d.fee # None /\ d.applied = "true" -> "pay"
    [] op = "confirm" /\ d.quote = "quoted" /\ d.fee # None /\ d.applied # "true" -> "latch"
    [] op = "collect" /\ d.applied # "true" -> "upsert"
    [] OTHER -> "refuse"

LoadDelivery(x) ==
  /\ at[x].pc = "load"
  /\ LET next == Decision(at[x].op, delivery)
     IN IF next = "refuse" THEN Finish(x)
        ELSE at' = [at EXCEPT ![x].pc = next, ![x].delivery = delivery]
  /\ UNCHANGED <<delivery, total, charge, offered, asked, history>>

\* ensureOrderDelivery: the job is created or re-pointed in one upsert that
\* touches neither the quote nor the latch.
SetMethod(m) == delivery' = [delivery EXCEPT !.method = m, !.address = @ \/ m = "door_delivery"]

\* A form without a delivery method makes no job and pays straight away.
FormUpsert(x) ==
  /\ At(x, "form", "upsert")
  /\ \/ SetMethod("collect") /\ Goto(x, "pay")
     \/ UNCHANGED delivery /\ Goto(x, "pay")
     \/ SetMethod("door_delivery") /\ Finish(x)
  /\ UNCHANGED <<total, charge, offered, asked, history>>

CollectUpsert(x) ==
  /\ At(x, "collect", "upsert")
  /\ SetMethod("collect")
  /\ Goto(x, "pay")
  /\ UNCHANGED <<total, charge, offered, asked, history>>

\* The document with the fields of a quote replaced, over what x loaded.
SaveQuote(x, status, fee, applied) ==
  LET d == at[x].delivery
  IN  delivery' = [delivery EXCEPT !.quote   = Written(d.quote, status, @),
                                   !.fee     = Written(d.fee, fee, @),
                                   !.applied = Written(d.applied, applied, @)]

\* The quote of x replaces one that has been confirmed since x loaded it, or
\* is being confirmed.
NoteCrossing(x) ==
  crossed' = (\/ crossed
              \/ at[x].delivery.applied # "true"
                 /\ (delivery.applied = "true" \/ \E y \in Handlers : At(y, "confirm", "latch")))

SaveFee(x, status, fee, applied) ==
  /\ SaveQuote(x, status, fee, applied)
  /\ NoteCrossing(x)
  /\ at' = [at EXCEPT ![x].pc = "send", ![x].delivery.fee = fee]
  /\ UNCHANGED <<total, charge, offered, asked, unshown, cutOff>>

\* quoteDelivery answered with a fee, or could not price the pin.
SavePinQuote(x) ==
  /\ At(x, "pin", "save")
  /\ \/ \E f \in Fees : SaveFee(x, "quoted", f, "false")
     \/ SaveFee(x, "unquotable", None, "undefined")

SaveManualFee(x) ==
  /\ At(x, "manual", "save")
  /\ \E f \in Fees : SaveFee(x, "quoted", f, "false")

\* Mutant: only the first quote is shown.
SendUnasked(x) ==
  /\ at[x].pc = "send"
  /\ asked' = TRUE
  /\ offered' = IF offered = {} THEN {at[x].delivery.fee} \ {None} ELSE offered
  /\ Finish(x)
  /\ UNCHANGED <<delivery, total, charge, history>>

\* The prompt with the fee just saved, or the apology with "Collect instead".
SendPrompt(x) ==
  /\ at[x].pc = "send"
  /\ offered' = offered \cup ({at[x].delivery.fee} \ {None})
  /\ asked' = TRUE
  /\ Finish(x)
  /\ UNCHANGED <<delivery, total, charge, history>>

\* WhatsApp refuses the message and nobody looks at the answer, or the fee is in
\* another currency and the shop is to follow up.
SendFails(x) ==
  /\ at[x].pc = "send"
  /\ unshown' = unshown \cup ({at[x].delivery.fee} \ {None})
  /\ Finish(x)
  /\ UNCHANGED <<delivery, total, charge, offered, asked, cutOff, crossed>>

\* Mutant: the latch is left for later.
SkipLatch(x) ==
  /\ At(x, "confirm", "latch")
  /\ Goto(x, "money")
  /\ UNCHANGED <<delivery, total, charge, offered, asked, history>>

\* "Confirm & pay": the latch first, then the money, each a save of its own.
SetLatch(x) ==
  /\ At(x, "confirm", "latch")
  /\ delivery' = [delivery EXCEPT !.applied = "true"]
  /\ Goto(x, "money")
  /\ UNCHANGED <<total, charge, offered, asked, history>>

\* Mutant: the new total is computed and never saved.
ForgetFee(x) ==
  /\ At(x, "confirm", "money")
  /\ Goto(x, "pay")
  /\ UNCHANGED <<delivery, total, charge, offered, asked, history>>

FoldFee(x) ==
  /\ At(x, "confirm", "money")
  /\ total' = Written(at[x].total, at[x].total + at[x].delivery.fee, total)
  /\ Goto(x, "pay")
  /\ UNCHANGED <<delivery, charge, offered, asked, history>>

\* initiateOrderPayment reads the order afresh, awaits, and charges what it has
\* read; it does nothing when a payment is on record (OrderPayment has its steps).
Pay(x) ==
  /\ at[x].pc = "pay"
  /\ IF charge = None
     THEN at' = [at EXCEPT ![x].pc = "charge", ![x].total = total]
     ELSE Finish(x)
  /\ UNCHANGED <<delivery, total, charge, offered, asked, history>>

Charge(x) ==
  /\ at[x].pc = "charge"
  /\ charge' = IF charge = None THEN at[x].total ELSE charge
  /\ Finish(x)
  /\ UNCHANGED <<delivery, total, offered, asked, history>>

\* The process dies, or an await throws.
Crash(x) ==
  /\ CanCrash
  /\ Running(x)
  /\ unshown' = unshown \cup (IF at[x].pc = "send" THEN {at[x].delivery.fee} \ {None} ELSE {})
  /\ cutOff' = (cutOff \/ at[x].pc = "money")
  /\ Finish(x)
  /\ UNCHANGED <<delivery, total, charge, offered, asked, crossed>>

Step(x) ==
  \/ LoadDelivery(x) \/ FormUpsert(x) \/ CollectUpsert(x) \/ SavePinQuote(x) \/ SaveManualFee(x)
  \/ SendPrompt(x) \/ SendFails(x) \/ SetLatch(x) \/ FoldFee(x) \/ Pay(x) \/ Charge(x)

Next == \E x \in Handlers : Step(x) \/ Crash(x) \/ \E op \in Ops : Begin(x, op)

Spec == Init /\ [][Next]_vars

\* A handler the server started runs on; nobody has to send a message.
FairSpec == Spec /\ \A x \in Handlers : WF_vars(Step(x))

(***************************************************************************)
(* What the fee of an order promises.                                      *)
(***************************************************************************)

\* The total never carries a fee the latch does not know of, and never two: a
\* crash between the two saves undercharges (deliveryQuote.controller.ts:268,
\* 301).  The one way round it is a quote saved over a confirmation.
LatchBeforeMoney ==
  total # ItemsTotal /\ ~ crossed => delivery.applied = "true" /\ total = ItemsTotal + delivery.fee

\* The fees on their way to the customer.
BeingShown == {at[x].delivery.fee : x \in {y \in Handlers : at[y].pc = "send"}} \ {None}

\* The items alone, or the items and one fee that the customer is shown, or
\* whose prompt did not go out.
Prices == {ItemsTotal} \cup {ItemsTotal + f : f \in offered \cup unshown \cup BeingShown}

\* The customer is charged such a price and no other: no fee twice, none that a
\* handler has read and another replaced (deliveryQuote.controller.ts:107, 221).
ChargedAsOffered == charge # None /\ ~ crossed => charge \in Prices

\* Once the fee is confirmed the price is final: no pin, form or manual fee that
\* comes after changes it (deliveryQuote.controller.ts:109, 224).
PriceIsFinal ==
  [][delivery.applied = "true" /\ ~ crossed'
     => delivery'.applied = "true" /\ delivery'.fee = delivery.fee]_vars

\* A latched fee reaches the total, unless the confirmation died between the two
\* saves or a quote was saved over it (deliveryQuote.controller.ts:300).
LatchedFeeReachesTotal ==
  delivery.applied = "true" ~> (cutOff \/ crossed \/ total = ItemsTotal + delivery.fee)

\* Not kept: a fee is charged only when the customer has seen it.  A prompt may
\* not go out, and an old button confirms the fee all the same.
ChargedAsShown == charge # None => charge \in {ItemsTotal} \cup {ItemsTotal + f : f \in offered}

\* Not kept: a confirmed fee is charged.  A second tap that finds the latch set
\* pays the total before the first has added the fee to it.
LatchedFeeIsCharged ==
  delivery.applied = "true" /\ charge # None /\ ~ crossed /\ ~ cutOff => charge # ItemsTotal

\* Not kept: a collection order is charged the items only, the quote stays as a
\* record, "but the fee is never applied" (deliveryQuote.controller.ts:321).  The
\* confirmation does not look at the method.
CollectionPaysNoFee ==
  delivery.method = "collect" /\ (\A x \in Handlers : ~ Running(x)) => total = ItemsTotal

=============================================================================
