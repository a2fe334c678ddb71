---------------------------- MODULE Delivery_proofs ----------------------------
(***************************************************************************)
(* The delivery of an order, its fee and its fulfilment: two components    *)
(* that share the Delivery document and write different fields of it.      *)
(*                                                                         *)
(* First what DeliveryFee promises for any fees, any total and any number  *)
(* of handlers that overlap, fail and crash as they like; then what        *)
(* DeliveryJob promises for any number of staff requests and drivers.      *)
(***************************************************************************)
EXTENDS DeliveryFee, DeliveryJob, TLAPS

(***************************************************************************)
(* The fee.                                                                *)
(***************************************************************************)
Quoting == {"pin", "manual"}

Work == [op : Ops \cup {"none"}, pc : Labels, total : Nat, delivery : Deliveries]

\* Which operation gets where; a fee is in hand from the latch on.
Stands(x) ==
  /\ at[x].pc \in {"save", "send"} => at[x].op \in Quoting
  /\ at[x].pc \in {"latch", "money"} => at[x].op = "confirm" /\ at[x].delivery.fee # None
  /\ Running(x) => at[x].op \in Ops

FeeTyped == TypeOK /\ \A x \in Handlers : Stands(x)

\* What a handler has loaded of an order whose confirmation nobody has crossed:
\* a quote is set on a delivery that was not confirmed; a confirmation holds the
\* total without the fee, and the fee on record; a payment holds a price.
Fresh(x) ==
  /\ at[x].pc = "save" => at[x].delivery.applied # "true"
  /\ ~crossed =>
       /\ at[x].pc = "load" /\ at[x].total # ItemsTotal => delivery.applied = "true"
       /\ at[x].pc \in {"latch", "money"} => /\ at[x].total = ItemsTotal
                                             /\ at[x].delivery.fee = delivery.fee
       /\ at[x].pc = "money" => delivery.applied = "true"
       /\ at[x].pc = "charge" => at[x].total \in Prices

\* A fee on record was shown, is about to be, or its prompt did not go out.
FeeShown == delivery.fee # None => delivery.fee \in offered \cup unshown \cup BeingShown

\* What is confirmed has a fee.
FeeConfirmed == delivery.applied = "true" /\ ~crossed => delivery.fee # None

FeeInv ==
  /\ \A x \in Handlers : Fresh(x)
  /\ FeeConfirmed
  /\ FeeShown
  /\ LatchBeforeMoney
  /\ ChargedAsOffered

(***************************************************************************)
(* Types.                                                                  *)
(***************************************************************************)

\* The fields of a handler other than where it stands.
Same(r, s) == r.op = s.op /\ r.total = s.total /\ r.delivery = s.delivery

\* What a handler that is done, and one that has loaded nothing yet, remember.
LEMMA Blank ==
  /\ NoDelivery \in Deliveries /\ None \notin Nat /\ None \notin Fees /\ ItemsTotal \in Nat
  /\ Idle = [op |-> "none", pc |-> "idle", total |-> ItemsTotal, delivery |-> NoDelivery]
  /\ Idle \in Work
<1>1. None \notin Nat /\ None \notin Fees /\ ItemsTotal \in Nat
  BY TotalAssumption, FeesAssumption DEF None
<1>2. NoDelivery \in Deliveries
  BY DEF NoDelivery, Deliveries
<1>3. Idle \in Work
  BY <1>1, <1>2 DEF Idle, Work, Labels
<1> QED
  BY <1>1, <1>2, <1>3 DEF Idle

\* Going on keeps what was loaded, and a handler that is done forgets it.
LEMMA Moves ==
  ASSUME FeeTyped, NEW x \in Handlers
  PROVE  /\ \A label \in Labels : Goto(x, label) =>
              \E r \in Work : at' = [at EXCEPT ![x] = r] /\ r.pc = label /\ Same(r, at[x])
         /\ Finish(x) => \E r \in Work : at' = [at EXCEPT ![x] = r] /\ r = Idle /\ r.pc = "idle"
<1>1. at[x] \in Work
  BY DEF FeeTyped, TypeOK, Work
<1>2. ASSUME NEW label \in Labels, Goto(x, label)
      PROVE  \E r \in Work : at' = [at EXCEPT ![x] = r] /\ r.pc = label /\ Same(r, at[x])
  <2> DEFINE r == [at[x] EXCEPT !.pc = label]
  <2>1. r \in Work /\ r.pc = label /\ Same(r, at[x])
    BY <1>1 DEF Work, Same
  <2>2. at' = [at EXCEPT ![x] = r]
    BY <1>2 DEF Goto
  <2> QED
    BY <2>1, <2>2
<1> QED
  BY <1>2, Blank DEF Finish

\* A step of one handler keeps the types when it keeps its own.
LEMMA OneHandler ==
  ASSUME FeeTyped, NEW x \in Handlers, NEW r \in Work, at' = [at EXCEPT ![x] = r],
         delivery' \in Deliveries, total' \in Nat, charge' \in Nat \cup {None},
         offered' \subseteq Fees, unshown' \subseteq Fees, asked' \in BOOLEAN,
         cutOff' \in BOOLEAN, crossed' \in BOOLEAN,
         r.pc \in {"save", "send"} => r.op \in Quoting,
         r.pc \in {"latch", "money"} => r.op = "confirm" /\ r.delivery.fee # None,
         r.pc # "idle" => r.op \in Ops
  PROVE  FeeTyped'
<1>1. /\ at' \in [Handlers -> Work] /\ at'[x] = r
      /\ \A y \in Handlers : y # x => at'[y] = at[y]
  BY DEF FeeTyped, TypeOK, Work
<1>2. TypeOK'
  BY <1>1 DEF TypeOK, Work
<1>3. \A y \in Handlers : Stands(y)'
  BY <1>1 DEF FeeTyped, Stands, Running
<1> QED
  BY <1>2, <1>3 DEF FeeTyped

\* The same, when only where the handler stands changes.
LEMMA OnlyMoves ==
  ASSUME FeeTyped, NEW x \in Handlers, NEW r \in Work, at' = [at EXCEPT ![x] = r],
         UNCHANGED <<delivery, total, charge, offered, asked, history>>,
         r.pc \in {"save", "send"} => r.op \in Quoting,
         r.pc \in {"latch", "money"} => r.op = "confirm" /\ r.delivery.fee # None,
         r.pc # "idle" => r.op \in Ops
  PROVE  FeeTyped'
BY OneHandler DEF FeeTyped, TypeOK, history

\* Each field of a delivery may be replaced by another of its type.
LEMMA DeliveryFields ==
  ASSUME NEW d \in Deliveries
  PROVE  /\ \A m \in {"collect", "door_delivery"} :
              [d EXCEPT !.method = m, !.address = @ \/ m = "door_delivery"] \in Deliveries
         /\ [d EXCEPT !.applied = "true"] \in Deliveries
         /\ \A q \in {"none", "quoted", "unquotable"}, f \in Fees \cup {None},
               a \in {"undefined", "false", "true"} :
              [d EXCEPT !.quote = q, !.fee = f, !.applied = a] \in Deliveries
<1>1. ASSUME NEW m \in {"collect", "door_delivery"}
      PROVE  [d EXCEPT !.method = m, !.address = @ \/ m = "door_delivery"] \in Deliveries
  BY DEF Deliveries
<1>2. [d EXCEPT !.applied = "true"] \in Deliveries
  BY DEF Deliveries
<1>3. ASSUME NEW q \in {"none", "quoted", "unquotable"}, NEW f \in Fees \cup {None},
             NEW a \in {"undefined", "false", "true"}
      PROVE  [d EXCEPT !.quote = q, !.fee = f, !.applied = a] \in Deliveries
  BY DEF Deliveries
<1> QED
  BY <1>1, <1>2, <1>3

\* A message brings its operation and the total.
LEMMA BeginIs ==
  ASSUME FeeTyped, NEW x \in Handlers, NEW op \in Ops, Begin(x, op)
  PROVE  /\ FeeTyped'
         /\ \E r \in Work : /\ at' = [at EXCEPT ![x] = r] /\ r.op = op /\ r.total = total
                            /\ r.pc = IF op = "form" THEN "upsert" ELSE "load"
<1>1. PICK label \in {"upsert", "load"} : label = IF op = "form" THEN "upsert" ELSE "load"
  OBVIOUS
<1> DEFINE r == [Idle EXCEPT !.op = op, !.total = total, !.pc = label]
<1>2. r \in Work /\ r.op = op /\ r.total = total /\ r.pc = label
  BY Blank DEF FeeTyped, TypeOK, Work, Labels
<1>3. at' = [at EXCEPT ![x] = r]
  BY <1>1 DEF Begin
<1> HIDE DEF r
<1>4. FeeTyped'
  BY <1>2, <1>3, OnlyMoves DEF Begin
<1> QED
  BY <1>1, <1>2, <1>3, <1>4

\* A handler that goes on has loaded the delivery, for a reason.
LEMMA LoadIs ==
  ASSUME FeeTyped, NEW x \in Handlers, LoadDelivery(x)
  PROVE  /\ FeeTyped'
         /\ \E r \in Work : /\ at' = [at EXCEPT ![x] = r]
                            /\ \/ r.pc = "idle"
                               \/ /\ r.pc = Decision(at[x].op, delivery) /\ r.pc # "refuse"
                                  /\ r.op = at[x].op /\ r.total = at[x].total /\ r.delivery = delivery
<1> DEFINE next == Decision(at[x].op, delivery)
<1>1. at[x] \in Work /\ at[x].op \in Ops /\ delivery \in Deliveries
  BY DEF FeeTyped, TypeOK, Work, LoadDelivery, Stands, Running
<1>2. /\ next \in {"pay", "save", "latch", "upsert", "refuse"}
      /\ next = "save" => at[x].op \in Quoting
      /\ next = "latch" => at[x].op = "confirm" /\ delivery.fee # None
  BY <1>1 DEF Decision, Ops, Quoting
<1>3. CASE next = "refuse"
  <2>1. PICK r \in Work : at' = [at EXCEPT ![x] = r] /\ r.pc = "idle"
    BY <1>3, Moves DEF LoadDelivery
  <2> QED
    BY <2>1, OnlyMoves DEF LoadDelivery
<1>4. CASE next # "refuse"
  <2> DEFINE r == [at[x] EXCEPT !.pc = next, !.delivery = delivery]
  <2>1. r \in Work /\ r.pc = next /\ r.op = at[x].op /\ r.total = at[x].total /\ r.delivery = delivery
    <3> HIDE DEF next
    <3> QED
      BY <1>1, <1>2, <1>4 DEF Work, Labels
  <2>2. at' = [at EXCEPT ![x] = r]
    BY <1>4 DEF LoadDelivery
  <2> HIDE DEF r, next
  <2>3. FeeTyped'
    BY <1>1, <1>2, <1>4, <2>1, <2>2, OnlyMoves DEF LoadDelivery
  <2> QED
    BY <1>4, <2>1, <2>2, <2>3 DEF next
<1> QED
  BY <1>3, <1>4

\* A form, or the wish to collect, changes the method and the address only.
LEMMA UpsertIs ==
  ASSUME FeeTyped, NEW x \in Handlers, FormUpsert(x) \/ CollectUpsert(x)
  PROVE  /\ FeeTyped'
         /\ \E r \in Work : /\ at' = [at EXCEPT ![x] = r] /\ r.pc \in {"idle", "pay"}
                            /\ r.pc = "pay" => r.op = at[x].op
         /\ delivery'.quote = delivery.quote /\ delivery'.fee = delivery.fee
         /\ delivery'.applied = delivery.applied
<1>1. delivery \in Deliveries /\ at[x].op \in Ops
  BY DEF FeeTyped, TypeOK, FormUpsert, CollectUpsert, At, Ops
<1>2. PICK r \in Work : /\ at' = [at EXCEPT ![x] = r] /\ r.pc \in {"idle", "pay"}
                        /\ r.pc = "pay" => Same(r, at[x])
  <2>1. Goto(x, "pay") \/ Finish(x)
    BY DEF FormUpsert, CollectUpsert
  <2>2. "pay" \in Labels
    BY DEF Labels
  <2> QED
    BY <2>1, <2>2, Moves
<1>3. \/ delivery' = delivery
      \/ \E m \in {"collect", "door_delivery"} :
           delivery' = [delivery EXCEPT !.method = m, !.address = @ \/ m = "door_delivery"]
  BY DEF FormUpsert, CollectUpsert, SetMethod
<1>4. /\ delivery' \in Deliveries /\ delivery'.quote = delivery.quote
      /\ delivery'.fee = delivery.fee /\ delivery'.applied = delivery.applied
  <2>1. CASE delivery' = delivery
    BY <1>1, <2>1
  <2>2. ASSUME NEW m \in {"collect", "door_delivery"},
               delivery' = [delivery EXCEPT !.method = m, !.address = @ \/ m = "door_delivery"]
        PROVE  /\ delivery' \in Deliveries /\ delivery'.quote = delivery.quote
               /\ delivery'.fee = delivery.fee /\ delivery'.applied = delivery.applied
    <3>1. delivery' \in Deliveries
      BY <1>1, <2>2, DeliveryFields
    <3> QED
      BY <1>1, <2>2, <3>1 DEF Deliveries
  <2> QED
    BY <1>3, <2>1, <2>2
<1>5. FeeTyped'
  BY <1>1, <1>2, <1>4, OneHandler DEF FormUpsert, CollectUpsert, FeeTyped, TypeOK, Same, history
<1> QED
  BY <1>2, <1>4, <1>5 DEF Same

\* A quote replaces the fee, and confirms nothing.
LEMMA QuoteIs ==
  ASSUME FeeTyped, NEW x \in Handlers, SavePinQuote(x) \/ SaveManualFee(x)
  PROVE  /\ FeeTyped'
         /\ \E q \in {"quoted", "unquotable"}, f \in Fees \cup {None}, a \in {"undefined", "false"} :
              /\ SaveQuote(x, q, f, a) /\ NoteCrossing(x)
              /\ \E r \in Work : /\ at' = [at EXCEPT ![x] = r] /\ r.pc = "send" /\ r.op = at[x].op
                                 /\ r.delivery.fee = f
<1>1. PICK q \in {"quoted", "unquotable"}, f \in Fees \cup {None}, a \in {"undefined", "false"} :
        /\ SaveQuote(x, q, f, a) /\ NoteCrossing(x)
        /\ at' = [at EXCEPT ![x].pc = "send", ![x].delivery.fee = f]
        /\ UNCHANGED <<total, charge, offered, asked, unshown, cutOff>>
  BY DEF SavePinQuote, SaveManualFee, SaveFee
<1>2. at[x] \in Work /\ at[x].op \in Quoting /\ at[x].delivery \in Deliveries /\ delivery \in Deliveries
  BY DEF FeeTyped, TypeOK, Work, SavePinQuote, SaveManualFee, At, Quoting
<1> DEFINE d == [at[x].delivery EXCEPT !.fee = f]
           r == [at[x] EXCEPT !.pc = "send", !.delivery = d]
<1>3. d \in Deliveries /\ d.fee = f
  BY <1>2 DEF Deliveries
<1>4. at' = [at EXCEPT ![x] = r]
  BY <1>1, <1>2 DEF Work
<1> HIDE DEF d
<1>5. r \in Work /\ r.pc = "send" /\ r.op = at[x].op /\ r.delivery = d
  BY <1>2, <1>3 DEF Work, Labels
<1> HIDE DEF r
<1>6. delivery' \in Deliveries
  <2> DEFINE sq == Written(at[x].delivery.quote, q, delivery.quote)
             sf == Written(at[x].delivery.fee, f, delivery.fee)
             sa == Written(at[x].delivery.applied, a, delivery.applied)
  <2>1. delivery' = [delivery EXCEPT !.quote = sq, !.fee = sf, !.applied = sa]
    BY <1>1 DEF SaveQuote
  <2>2. /\ sq \in {"none", "quoted", "unquotable"} /\ sf \in Fees \cup {None}
        /\ sa \in {"undefined", "false", "true"}
    BY <1>2 DEF Written, Deliveries
  <2> HIDE DEF sq, sf, sa
  <2> QED
    BY <1>2, <2>1, <2>2, DeliveryFields
<1>7. crossed' \in BOOLEAN
  BY <1>1 DEF NoteCrossing
<1>8. FeeTyped'
  BY <1>1, <1>2, <1>4, <1>5, <1>6, <1>7, OneHandler DEF FeeTyped, TypeOK, Quoting, Ops
<1> QED
  BY <1>1, <1>3, <1>4, <1>5, <1>8

\* The fee just saved is shown, if there is one, or its prompt is refused.
LEMMA SendIs ==
  ASSUME FeeTyped, NEW x \in Handlers, SendPrompt(x) \/ SendFails(x)
  PROVE  FeeTyped' /\ \E r \in Work : at' = [at EXCEPT ![x] = r] /\ r.pc = "idle"
<1>1. PICK r \in Work : at' = [at EXCEPT ![x] = r] /\ r.pc = "idle"
  BY Moves DEF SendPrompt, SendFails
<1>2. at[x].delivery.fee \in Fees \cup {None}
  BY DEF FeeTyped, TypeOK, Deliveries
<1>3. FeeTyped'
  BY <1>1, <1>2, OneHandler DEF SendPrompt, SendFails, FeeTyped, TypeOK, history
<1> QED
  BY <1>1, <1>3

\* The latch is set on whatever the delivery has become.
LEMMA LatchIs ==
  ASSUME FeeTyped, NEW x \in Handlers, SetLatch(x)
  PROVE  /\ FeeTyped' /\ delivery'.quote = delivery.quote /\ delivery'.fee = delivery.fee
         /\ delivery'.applied = "true"
         /\ \E r \in Work : at' = [at EXCEPT ![x] = r] /\ r.pc = "money" /\ Same(r, at[x])
<1>1. PICK r \in Work : at' = [at EXCEPT ![x] = r] /\ r.pc = "money" /\ Same(r, at[x])
  BY Moves DEF SetLatch, Labels
<1>2. delivery \in Deliveries /\ at[x].delivery.fee # None
  BY DEF FeeTyped, TypeOK, Stands, SetLatch, At
<1>3. /\ delivery' \in Deliveries /\ delivery'.quote = delivery.quote
      /\ delivery'.fee = delivery.fee /\ delivery'.applied = "true"
  <2>1. delivery' = [delivery EXCEPT !.applied = "true"]
    BY DEF SetLatch
  <2>2. delivery' \in Deliveries
    BY <1>2, <2>1, DeliveryFields
  <2> QED
    BY <1>2, <2>1, <2>2 DEF Deliveries
<1>4. FeeTyped'
  BY <1>1, <1>2, <1>3, OneHandler DEF SetLatch, At, FeeTyped, TypeOK, Same, Ops, history
<1> QED
  BY <1>1, <1>3, <1>4

\* A fee is added to the total the handler has loaded.
LEMMA FoldIs ==
  ASSUME FeeTyped, NEW x \in Handlers, FoldFee(x)
  PROVE  /\ FeeTyped' /\ at[x].delivery.fee \in Fees
         /\ \E r \in Work : at' = [at EXCEPT ![x] = r] /\ r.pc = "pay" /\ Same(r, at[x])
<1>1. PICK r \in Work : at' = [at EXCEPT ![x] = r] /\ r.pc = "pay" /\ Same(r, at[x])
  BY Moves DEF FoldFee, Labels
<1>2. at[x].delivery.fee \in Fees /\ at[x].total \in Nat
  BY DEF FeeTyped, TypeOK, Stands, FoldFee, At, Deliveries
<1>3. total' \in Nat
  <2>1. at[x].delivery.fee \in Nat /\ total \in Nat
    BY <1>2, FeesAssumption DEF FeeTyped, TypeOK
  <2>2. at[x].total + at[x].delivery.fee \in Nat
    BY <1>2, <2>1
  <2> QED
    BY <2>1, <2>2 DEF FoldFee, Written
<1>4. FeeTyped'
  BY <1>1, <1>3, OneHandler DEF FoldFee, At, FeeTyped, TypeOK, Same, Ops, history
<1> QED
  BY <1>1, <1>2, <1>4

\* A payment holds the total the order has, unless one is on record.
LEMMA PayIs ==
  ASSUME FeeTyped, NEW x \in Handlers, Pay(x)
  PROVE  /\ FeeTyped'
         /\ \E r \in Work : /\ at' = [at EXCEPT ![x] = r]
                            /\ r.pc = "idle" \/ (r.pc = "charge" /\ r.total = total)
<1>1. CASE charge = None
  <2> DEFINE r == [at[x] EXCEPT !.pc = "charge", !.total = total]
  <2>1. at[x] \in Work /\ at[x].op \in Ops /\ total \in Nat
    BY DEF FeeTyped, TypeOK, Work, Stands, Running, Pay
  <2>2. r \in Work /\ r.pc = "charge" /\ r.total = total /\ r.op = at[x].op
    BY <2>1 DEF Work, Labels
  <2>3. at' = [at EXCEPT ![x] = r]
    BY <1>1, <2>1 DEF Pay, Work
  <2> HIDE DEF r
  <2>4. FeeTyped'
    BY <2>1, <2>2, <2>3, OnlyMoves DEF Pay
  <2> QED
    BY <2>2, <2>3, <2>4
<1>2. CASE charge # None
  <2>1. PICK r \in Work : at' = [at EXCEPT ![x] = r] /\ r.pc = "idle"
    BY <1>2, Moves DEF Pay
  <2>2. FeeTyped'
    BY <2>1, OnlyMoves DEF Pay
  <2> QED
    BY <2>1, <2>2
<1> QED
  BY <1>1, <1>2

\* A charge and a crash end the handler.
LEMMA EndIs ==
  ASSUME FeeTyped, NEW x \in Handlers, Charge(x) \/ Crash(x)
  PROVE  FeeTyped' /\ \E r \in Work : at' = [at EXCEPT ![x] = r] /\ r.pc = "idle"
<1>1. PICK r \in Work : at' = [at EXCEPT ![x] = r] /\ r.pc = "idle"
  BY Moves DEF Charge, Crash
<1>2. at[x].delivery.fee \in Fees \cup {None} /\ at[x].total \in Nat
  BY DEF FeeTyped, TypeOK, Deliveries
<1>3. FeeTyped'
  BY <1>1, <1>2, OneHandler DEF Charge, Crash, FeeTyped, TypeOK, history
<1> QED
  BY <1>1, <1>3

\* Every step keeps the types.
LEMMA FeeTypeStep == FeeTyped /\ [Next]_vars => FeeTyped'
<1> SUFFICES ASSUME FeeTyped, [Next]_vars PROVE FeeTyped'
  OBVIOUS
<1>1. ASSUME NEW x \in Handlers, Step(x) \/ Crash(x) \/ \E op \in Ops : Begin(x, op) PROVE FeeTyped'
  BY <1>1, BeginIs, LoadIs, UpsertIs, QuoteIs, SendIs, LatchIs, FoldIs, PayIs, EndIs DEF Step
<1>2. CASE UNCHANGED vars
  BY <1>2 DEF vars, FeeTyped, TypeOK, Stands, Running
<1> QED
  BY <1>1, <1>2 DEF Next

\* So they hold in every state.
LEMMA FeeTypes == Spec => []FeeTyped
<1>1. Init => FeeTyped
  <2> SUFFICES ASSUME Init PROVE FeeTyped
    OBVIOUS
  <2>1. TypeOK
    BY Blank DEF Init, TypeOK, Work
  <2>2. ASSUME NEW x \in Handlers PROVE Stands(x)
    <3>1. at[x].pc = "idle"
      BY Blank DEF Init
    <3> QED
      BY <3>1 DEF Stands, Running
  <2> QED
    BY <2>1, <2>2 DEF FeeTyped
<1> QED
  BY <1>1, FeeTypeStep, PTL DEF Spec

\* The delivery, the total, the charge and the handlers have their types, whatever overlaps.
THEOREM TypeCorrect == Spec => []TypeOK
<1>1. FeeTyped => TypeOK
  BY DEF FeeTyped
<1> QED
  BY <1>1, FeeTypes, PTL

(***************************************************************************)
(* The invariant.                                                          *)
(***************************************************************************)

\* What is on its way to the customer arrives, or is noted.
LEMMA PricesGrow ==
  ASSUME FeeTyped, NEW x \in Handlers, NEW r \in Work, at' = [at EXCEPT ![x] = r],
         offered \subseteq offered', unshown \subseteq unshown',
         at[x].pc = "send" => at[x].delivery.fee \in offered' \cup unshown' \cup {None}
  PROVE  /\ offered \cup unshown \cup BeingShown \subseteq offered' \cup unshown' \cup BeingShown'
         /\ Prices \subseteq Prices'
<1>1. \A y \in Handlers : y # x => at'[y] = at[y]
  BY DEF FeeTyped, TypeOK
<1>2. ASSUME NEW f \in BeingShown PROVE f \in offered' \cup unshown' \cup BeingShown'
  <2>1. PICK y \in Handlers : at[y].pc = "send" /\ f = at[y].delivery.fee /\ f # None
    BY <1>2 DEF BeingShown
  <2>2. CASE y = x
    BY <2>1, <2>2
  <2>3. CASE y # x
    BY <1>1, <2>1, <2>3 DEF BeingShown
  <2> QED
    BY <2>2, <2>3
<1>3. offered \cup unshown \cup BeingShown \subseteq offered' \cup unshown' \cup BeingShown'
  BY <1>2
<1> QED
  BY <1>3 DEF Prices

\* A step that leaves the fee, the latch and the total alone keeps the invariant
\* when what its handler has loaded stays true.
LEMMA QuietKeeps ==
  ASSUME FeeTyped, FeeInv, NEW x \in Handlers, NEW r \in Work, at' = [at EXCEPT ![x] = r],
         offered \subseteq offered', unshown \subseteq unshown',
         at[x].pc = "send" => at[x].delivery.fee \in offered' \cup unshown' \cup {None},
         delivery'.fee = delivery.fee, delivery'.applied = delivery.applied,
         total' = total, charge' = charge, crossed' = crossed, Fresh(x)'
  PROVE  FeeInv'
<1>1. at'[x] = r /\ \A y \in Handlers : y # x => at'[y] = at[y]
  BY DEF FeeTyped, TypeOK
<1>2. /\ offered \cup unshown \cup BeingShown \subseteq offered' \cup unshown' \cup BeingShown'
      /\ Prices \subseteq Prices'
  BY PricesGrow
<1>3. ASSUME NEW y \in Handlers PROVE Fresh(y)'
  <2>1. CASE y # x
    <3>1. Fresh(y) /\ at'[y] = at[y]
      BY <1>1, <2>1 DEF FeeInv
    <3> QED
      BY <1>2, <3>1 DEF Fresh
  <2> QED
    BY <2>1
<1>4. FeeShown' /\ FeeConfirmed'
  BY <1>2 DEF FeeInv, FeeShown, FeeConfirmed
<1>5. LatchBeforeMoney' /\ ChargedAsOffered'
  BY <1>2 DEF FeeInv, LatchBeforeMoney, ChargedAsOffered
<1> QED
  BY <1>3, <1>4, <1>5 DEF FeeInv

\* A handler begins with a total that carries a fee only when the latch is set.
LEMMA BeginKeeps ==
  ASSUME FeeTyped, FeeInv, NEW x \in Handlers, NEW op \in Ops, Begin(x, op)
  PROVE  FeeInv'
<1>1. PICK r \in Work : /\ at' = [at EXCEPT ![x] = r] /\ r.op = op /\ r.total = total
                        /\ r.pc = IF op = "form" THEN "upsert" ELSE "load"
  BY BeginIs
<1>2. at'[x] = r
  BY <1>1 DEF FeeTyped, TypeOK
<1>3. UNCHANGED <<delivery, total, charge, offered, unshown, crossed>> /\ at[x].pc = "idle"
  BY DEF Begin, history, Running
<1>4. Fresh(x)'
  BY <1>1, <1>2, <1>3 DEF FeeInv, Fresh, LatchBeforeMoney
<1> QED
  BY <1>1, <1>3, <1>4, QuietKeeps

\* Only an unlatched delivery is quoted or confirmed, and then the total carries no fee yet.
LEMMA LoadKeeps ==
  ASSUME FeeTyped, FeeInv, NEW x \in Handlers, LoadDelivery(x)
  PROVE  FeeInv'
<1>1. PICK r \in Work : /\ at' = [at EXCEPT ![x] = r]
                        /\ \/ r.pc = "idle"
                           \/ /\ r.pc = Decision(at[x].op, delivery) /\ r.pc # "refuse"
                              /\ r.op = at[x].op /\ r.total = at[x].total /\ r.delivery = delivery
  BY LoadIs
<1>2. at'[x] = r
  BY <1>1 DEF FeeTyped, TypeOK
<1>3. UNCHANGED <<delivery, total, charge, offered, unshown, crossed>> /\ at[x].pc = "load"
  BY DEF LoadDelivery, history
<1>4. Fresh(x)'
  <2>1. at[x].op \in Ops
    BY <1>3 DEF FeeTyped, Stands, Running
  <2>2. /\ Decision(at[x].op, delivery) \in {"save", "pay", "latch", "upsert", "refuse"}
        /\ Decision(at[x].op, delivery) \in {"save", "latch"} => delivery.applied # "true"
    BY <2>1 DEF Decision, Ops
  <2>3. delivery.applied # "true" /\ ~crossed => at[x].total = ItemsTotal
    BY <1>3 DEF FeeInv, Fresh
  <2> QED
    BY <1>1, <1>2, <1>3, <2>2, <2>3 DEF Fresh
<1> QED
  BY <1>1, <1>3, <1>4, QuietKeeps

\* A form and the wish to collect leave fee, latch and total alone.
LEMMA UpsertKeeps ==
  ASSUME FeeTyped, FeeInv, NEW x \in Handlers, FormUpsert(x) \/ CollectUpsert(x)
  PROVE  FeeInv'
<1>1. PICK r \in Work : at' = [at EXCEPT ![x] = r] /\ r.pc \in {"idle", "pay"}
  BY UpsertIs
<1>2. at'[x] = r
  BY <1>1 DEF FeeTyped, TypeOK
<1>3. /\ UNCHANGED <<total, charge, offered, unshown, crossed>> /\ at[x].pc # "send"
      /\ delivery'.fee = delivery.fee /\ delivery'.applied = delivery.applied
  BY UpsertIs DEF FormUpsert, CollectUpsert, At, history
<1>4. Fresh(x)'
  BY <1>1, <1>2 DEF Fresh
<1> QED
  BY <1>1, <1>3, <1>4, QuietKeeps

\* A quote that crosses no confirmation finds the delivery unconfirmed, nobody about to confirm
\* it and a total without a fee.
LEMMA QuoteKeeps ==
  ASSUME FeeTyped, FeeInv, NEW x \in Handlers, SavePinQuote(x) \/ SaveManualFee(x)
  PROVE  FeeInv' /\ (delivery.applied = "true" => crossed')
<1>1. PICK q \in {"quoted", "unquotable"}, f \in Fees \cup {None}, a \in {"undefined", "false"} :
        /\ SaveQuote(x, q, f, a) /\ NoteCrossing(x)
        /\ \E r \in Work : /\ at' = [at EXCEPT ![x] = r] /\ r.pc = "send" /\ r.op = at[x].op
                           /\ r.delivery.fee = f
  BY QuoteIs
<1>2. PICK r \in Work : at' = [at EXCEPT ![x] = r] /\ r.pc = "send" /\ r.delivery.fee = f
  BY <1>1
<1>3. at'[x] = r /\ \A y \in Handlers : y # x => at'[y] = at[y]
  BY <1>2 DEF FeeTyped, TypeOK
<1>4. UNCHANGED <<total, charge, offered, unshown>> /\ at[x].pc = "save"
  BY DEF SavePinQuote, SaveManualFee, SaveFee, At
<1>5. delivery \in Deliveries /\ at[x].delivery.applied # "true"
  BY <1>4 DEF FeeInv, Fresh, FeeTyped, TypeOK
<1>6. ASSUME ~crossed'
      PROVE  ~crossed /\ delivery.applied # "true" /\ \A y \in Handlers : at[y].pc \notin {"latch", "money"}
  <2>1. ~crossed /\ delivery.applied # "true" /\ \A y \in Handlers : ~At(y, "confirm", "latch")
    BY <1>1, <1>5, <1>6 DEF NoteCrossing
  <2> QED
    BY <2>1 DEF FeeInv, Fresh, FeeTyped, Stands, At
<1>7. /\ delivery'.fee \in {f, delivery.fee}
      /\ delivery.applied # "true" => delivery'.applied # "true"
  BY <1>1, <1>5 DEF SaveQuote, Written, Deliveries
<1>8. /\ offered \cup unshown \cup BeingShown \subseteq offered' \cup unshown' \cup BeingShown'
      /\ Prices \subseteq Prices'
  BY <1>2, <1>4, PricesGrow
<1>9. ASSUME NEW y \in Handlers PROVE Fresh(y)'
  <2>1. CASE y = x
    BY <1>2, <1>3, <2>1 DEF Fresh
  <2>2. CASE y # x
    <3>1. at'[y] = at[y] /\ Fresh(y)
      BY <1>3, <2>2 DEF FeeInv
    <3> QED
      BY <1>6, <1>8, <3>1 DEF Fresh
  <2> QED
    BY <2>1, <2>2
<1>10. FeeShown'
  <2>1. f # None => f \in BeingShown'
    BY <1>2, <1>3 DEF BeingShown
  <2> QED
    BY <1>7, <1>8, <2>1 DEF FeeInv, FeeShown
<1>11. ~crossed' => total' = ItemsTotal /\ delivery'.applied # "true"
  BY <1>4, <1>6, <1>7 DEF FeeInv, LatchBeforeMoney
<1>12. ChargedAsOffered'
  BY <1>4, <1>6, <1>8 DEF FeeInv, ChargedAsOffered
<1> QED
  BY <1>6, <1>9, <1>10, <1>11, <1>12 DEF FeeInv, FeeConfirmed, LatchBeforeMoney

\* The fee is shown, or it is noted that it was not.
LEMMA SendKeeps ==
  ASSUME FeeTyped, FeeInv, NEW x \in Handlers, SendPrompt(x) \/ SendFails(x)
  PROVE  FeeInv'
<1>1. PICK r \in Work : at' = [at EXCEPT ![x] = r] /\ r.pc = "idle"
  BY SendIs
<1>2. at'[x] = r
  BY <1>1 DEF FeeTyped, TypeOK
<1>3. /\ UNCHANGED <<delivery, total, charge, crossed>>
      /\ offered \subseteq offered' /\ unshown \subseteq unshown'
      /\ at[x].delivery.fee \in offered' \cup unshown' \cup {None}
  BY DEF SendPrompt, SendFails, history
<1>4. Fresh(x)'
  BY <1>1, <1>2 DEF Fresh
<1> QED
  BY <1>1, <1>3, <1>4, QuietKeeps

\* The latch goes with the fee the handler is about to fold.
LEMMA LatchKeeps ==
  ASSUME FeeTyped, FeeInv, NEW x \in Handlers, SetLatch(x)
  PROVE  FeeInv'
<1>1. PICK r \in Work : at' = [at EXCEPT ![x] = r] /\ r.pc = "money" /\ Same(r, at[x])
  BY LatchIs
<1>2. at'[x] = r /\ \A y \in Handlers : y # x => at'[y] = at[y]
  BY <1>1 DEF FeeTyped, TypeOK
<1>3. /\ UNCHANGED <<total, charge, offered, unshown, crossed>> /\ at[x].pc = "latch"
      /\ delivery'.fee = delivery.fee /\ delivery'.applied = "true"
  BY LatchIs DEF SetLatch, At, history
<1>4. at[x].delivery.fee # None
  BY <1>3 DEF FeeTyped, Stands
<1>5. ~crossed => at[x].total = ItemsTotal /\ at[x].delivery.fee = delivery.fee
  BY <1>3 DEF FeeInv, Fresh
<1>6. /\ offered \cup unshown \cup BeingShown \subseteq offered' \cup unshown' \cup BeingShown'
      /\ Prices \subseteq Prices'
  BY <1>1, <1>3, PricesGrow
<1>7. ASSUME NEW y \in Handlers PROVE Fresh(y)'
  <2>1. CASE y = x
    BY <1>1, <1>2, <1>3, <1>5, <2>1 DEF Fresh, Same
  <2>2. CASE y # x
    <3>1. at'[y] = at[y] /\ Fresh(y)
      BY <1>2, <2>2 DEF FeeInv
    <3> QED
      BY <1>3, <1>6, <3>1 DEF Fresh
  <2> QED
    BY <2>1, <2>2
<1>8. FeeShown' /\ FeeConfirmed'
  BY <1>3, <1>4, <1>5, <1>6 DEF FeeInv, FeeShown, FeeConfirmed
<1>9. LatchBeforeMoney' /\ ChargedAsOffered'
  BY <1>3, <1>6 DEF FeeInv, LatchBeforeMoney, ChargedAsOffered
<1> QED
  BY <1>7, <1>8, <1>9 DEF FeeInv

\* However many confirmations fold the fee, each adds it to the bare total.
LEMMA FoldKeeps ==
  ASSUME FeeTyped, FeeInv, NEW x \in Handlers, FoldFee(x)
  PROVE  FeeInv'
<1>1. PICK r \in Work : at' = [at EXCEPT ![x] = r] /\ r.pc = "pay" /\ Same(r, at[x])
  BY FoldIs
<1>2. at'[x] = r /\ \A y \in Handlers : y # x => at'[y] = at[y]
  BY <1>1 DEF FeeTyped, TypeOK
<1>3. UNCHANGED <<delivery, charge, offered, unshown, crossed>> /\ at[x].pc = "money"
  BY DEF FoldFee, At, history
<1>4. ~crossed => /\ at[x].total = ItemsTotal /\ at[x].delivery.fee = delivery.fee
                  /\ delivery.applied = "true"
  BY <1>3 DEF FeeInv, Fresh
<1>5. /\ offered \cup unshown \cup BeingShown \subseteq offered' \cup unshown' \cup BeingShown'
      /\ Prices \subseteq Prices'
  BY <1>1, <1>3, PricesGrow
<1>6. ASSUME NEW y \in Handlers PROVE Fresh(y)'
  <2>1. CASE y = x
    BY <1>1, <1>2, <2>1 DEF Fresh
  <2>2. CASE y # x
    <3>1. at'[y] = at[y] /\ Fresh(y)
      BY <1>2, <2>2 DEF FeeInv
    <3> QED
      BY <1>3, <1>5, <3>1 DEF Fresh
  <2> QED
    BY <2>1, <2>2
<1>7. ~crossed => total' = total \/ total' = ItemsTotal + delivery.fee
  BY <1>4 DEF FoldFee, Written
<1>8. LatchBeforeMoney'
  BY <1>3, <1>4, <1>7 DEF FeeInv, LatchBeforeMoney
<1>9. FeeShown' /\ FeeConfirmed' /\ ChargedAsOffered'
  BY <1>3, <1>5 DEF FeeInv, FeeShown, FeeConfirmed, ChargedAsOffered
<1> QED
  BY <1>6, <1>8, <1>9 DEF FeeInv

\* The total a payment reads carries no fee, or the one on record.
LEMMA PayKeeps ==
  ASSUME FeeTyped, FeeInv, NEW x \in Handlers, Pay(x)
  PROVE  FeeInv'
<1>1. PICK r \in Work : /\ at' = [at EXCEPT ![x] = r]
                        /\ r.pc = "idle" \/ (r.pc = "charge" /\ r.total = total)
  BY PayIs
<1>2. at'[x] = r
  BY <1>1 DEF FeeTyped, TypeOK
<1>3. UNCHANGED <<delivery, total, charge, offered, unshown, crossed>> /\ at[x].pc = "pay"
  BY DEF Pay, history
<1>4. Prices \subseteq Prices'
  BY <1>1, <1>3, PricesGrow
<1>5. ~crossed => total \in Prices
  <2>1. CASE total = ItemsTotal
    BY <2>1 DEF Prices
  <2>2. CASE total # ItemsTotal /\ ~crossed
    <3>1. total = ItemsTotal + delivery.fee /\ delivery.fee \in offered \cup unshown \cup BeingShown
      BY <2>2 DEF FeeInv, LatchBeforeMoney, FeeConfirmed, FeeShown
    <3> QED
      BY <3>1 DEF Prices
  <2> QED
    BY <2>1, <2>2
<1>6. Fresh(x)'
  BY <1>1, <1>2, <1>3, <1>4, <1>5 DEF Fresh
<1> QED
  BY <1>1, <1>3, <1>6, QuietKeeps

\* The charge is the price the payment has read.
LEMMA ChargeKeeps ==
  ASSUME FeeTyped, FeeInv, NEW x \in Handlers, Charge(x)
  PROVE  FeeInv'
<1>1. PICK r \in Work : at' = [at EXCEPT ![x] = r] /\ r.pc = "idle"
  BY EndIs
<1>2. at'[x] = r /\ \A y \in Handlers : y # x => at'[y] = at[y]
  BY <1>1 DEF FeeTyped, TypeOK
<1>3. UNCHANGED <<delivery, total, offered, unshown, crossed>> /\ at[x].pc = "charge"
  BY DEF Charge, history
<1>4. /\ offered \cup unshown \cup BeingShown \subseteq offered' \cup unshown' \cup BeingShown'
      /\ Prices \subseteq Prices'
  BY <1>1, <1>3, PricesGrow
<1>5. ASSUME NEW y \in Handlers PROVE Fresh(y)'
  <2>1. CASE y = x
    BY <1>1, <1>2, <2>1 DEF Fresh
  <2>2. CASE y # x
    <3>1. at'[y] = at[y] /\ Fresh(y)
      BY <1>2, <2>2 DEF FeeInv
    <3> QED
      BY <1>3, <1>4, <3>1 DEF Fresh
  <2> QED
    BY <2>1, <2>2
<1>6. ~crossed => at[x].total \in Prices
  BY <1>3 DEF FeeInv, Fresh
<1>7. ChargedAsOffered'
  BY <1>3, <1>4, <1>6 DEF Charge, FeeInv, ChargedAsOffered
<1>8. FeeShown' /\ FeeConfirmed' /\ LatchBeforeMoney'
  BY <1>3, <1>4 DEF FeeInv, FeeShown, FeeConfirmed, LatchBeforeMoney
<1> QED
  BY <1>5, <1>7, <1>8 DEF FeeInv

\* A crash forgets a handler; only the showing of a fee is lost, and that is noted.
LEMMA CrashKeeps ==
  ASSUME FeeTyped, FeeInv, NEW x \in Handlers, Crash(x)
  PROVE  FeeInv'
<1>1. PICK r \in Work : at' = [at EXCEPT ![x] = r] /\ r.pc = "idle"
  BY EndIs
<1>2. at'[x] = r
  BY <1>1 DEF FeeTyped, TypeOK
<1>3. /\ UNCHANGED <<delivery, total, charge, offered, crossed>> /\ unshown \subseteq unshown'
      /\ at[x].pc = "send" => at[x].delivery.fee \in unshown' \cup {None}
  BY DEF Crash
<1>4. Fresh(x)'
  BY <1>1, <1>2 DEF Fresh
<1> QED
  BY <1>1, <1>3, <1>4, QuietKeeps

\* The invariant holds in every state.
LEMMA FeeHolds == Spec => [](FeeTyped /\ FeeInv)
<1>1. Init => FeeInv
  <2> SUFFICES ASSUME Init PROVE FeeInv
    OBVIOUS
  <2>1. \A x \in Handlers : at[x].pc = "idle"
    BY Blank DEF Init
  <2> QED
    BY <2>1 DEF Init, FeeInv, Fresh, FeeConfirmed, FeeShown, LatchBeforeMoney, ChargedAsOffered, NoDelivery
<1>2. FeeTyped /\ FeeInv /\ [Next]_vars => FeeInv'
  <2> SUFFICES ASSUME FeeTyped, FeeInv, [Next]_vars PROVE FeeInv'
    OBVIOUS
  <2>1. ASSUME NEW x \in Handlers, Step(x) \/ Crash(x) \/ \E op \in Ops : Begin(x, op) PROVE FeeInv'
    BY <2>1, BeginKeeps, LoadKeeps, UpsertKeeps, QuoteKeeps, SendKeeps, LatchKeeps, FoldKeeps, PayKeeps,
       ChargeKeeps, CrashKeeps DEF Step
  <2>2. CASE UNCHANGED vars
    BY <2>2 DEF vars, FeeInv, Fresh, FeeConfirmed, FeeShown, LatchBeforeMoney, ChargedAsOffered, Prices,
                BeingShown
  <2> QED
    BY <2>1, <2>2 DEF Next
<1> QED
  BY <1>1, <1>2, FeeTypes, PTL DEF Spec

\* However many handlers overlap, and wherever the process dies: unless a quote was saved over a
\* confirmation, the total carries a fee only with the latch set, and then that fee once.
THEOREM LatchComesFirst == Spec => []LatchBeforeMoney
<1>1. FeeInv => LatchBeforeMoney
  BY DEF FeeInv
<1> QED
  BY <1>1, FeeHolds, PTL

\* The customer is charged the items, or the items and one fee the shop has quoted and sent to
\* them, or failed to send.
THEOREM ChargesWereOffered == Spec => []ChargedAsOffered
<1>1. FeeInv => ChargedAsOffered
  BY DEF FeeInv
<1> QED
  BY <1>1, FeeHolds, PTL

\* Once the fee is confirmed no form, pin or manual fee changes it, but a quote that was loaded
\* before and is saved over it.
THEOREM ConfirmedPricesAreFinal == Spec => PriceIsFinal
<1>1. FeeTyped /\ FeeInv /\ [Next]_vars
      => [delivery.applied = "true" /\ ~crossed'
          => delivery'.applied = "true" /\ delivery'.fee = delivery.fee]_vars
  <2> SUFFICES ASSUME FeeTyped, FeeInv, [Next]_vars, delivery.applied = "true", ~crossed', ~UNCHANGED vars
               PROVE  delivery'.applied = "true" /\ delivery'.fee = delivery.fee
    OBVIOUS
  <2>1. PICK x \in Handlers : Step(x) \/ Crash(x) \/ \E op \in Ops : Begin(x, op)
    BY DEF Next
  <2>2. CASE FormUpsert(x) \/ CollectUpsert(x)
    BY <2>2, UpsertIs
  <2>3. ~(SavePinQuote(x) \/ SaveManualFee(x))
    BY QuoteKeeps
  <2>4. CASE SetLatch(x)
    BY <2>4, LatchIs
  <2>5. CASE \/ LoadDelivery(x) \/ SendPrompt(x) \/ SendFails(x) \/ FoldFee(x) \/ Pay(x) \/ Charge(x)
             \/ Crash(x) \/ \E op \in Ops : Begin(x, op)
    BY <2>5 DEF LoadDelivery, SendPrompt, SendFails, FoldFee, Pay, Charge, Crash, Begin
  <2> QED
    BY <2>1, <2>2, <2>3, <2>4, <2>5 DEF Step
<1> QED
  BY <1>1, FeeHolds, PTL DEF Spec, PriceIsFinal

(***************************************************************************)
(* The job.                                                                *)
(***************************************************************************)
\* The milestones in their order.
LEMMA Ranks == rank("pending") = 0 /\ rank("shipped") = 1 /\ rank("delivered") = 2
BY DEF rank, STATUS_ORDER

\* What a milestone does, in the three cases the code tells apart: the job
\* moves, a repeat completes an order that is not completed, nothing happens.
LEMMA AdvanceEffect ==
  ASSUME JobTypeOK, NEW x \in Staff, NEW next \in Milestones, advanceDeliveryStatus(x, next)
  PROVE  /\ desk[x].pc = "idle" /\ rank(job.status) <= rank(next)
         /\ UNCHANGED <<roster, messages, late>>
         /\ orderStatus' = IF next = "delivered" THEN "completed" ELSE orderStatus
         /\ \/ /\ job.status # next
               /\ desk' = [desk EXCEPT ![x] = [DeskIdle EXCEPT !.pc = "notify", !.milestone = next]]
               /\ job' \in Jobs /\ job'.status = next
               /\ job'.dispatchedAt = IF next = "shipped" \/ job.dispatchedAt = 0
                                      THEN Once(job.dispatchedAt) ELSE job.dispatchedAt
               /\ job'.deliveredAt = IF next = "delivered" THEN Once(job.deliveredAt)
                                     ELSE job.deliveredAt
            \/ /\ job.status = next /\ job' = job
               /\ next = "delivered" /\ orderStatus # "completed"
               /\ desk' = [desk EXCEPT ![x] = [DeskIdle EXCEPT !.pc = "notify", !.milestone = next]]
            \/ job.status = next /\ job' = job /\ desk' = desk
<1> USE DEF JobTypeOK, Jobs, Milestones
<1>1. /\ desk[x].pc = "idle" /\ rank(job.status) <= rank(next)
      /\ UNCHANGED <<roster, messages, late>>
      /\ orderStatus' = IF next = "delivered" THEN "completed" ELSE orderStatus
  BY DEF advanceDeliveryStatus
<1>2. CASE job.status # next
  <2>1. /\ desk' = [desk EXCEPT ![x] = [DeskIdle EXCEPT !.pc = "notify", !.milestone = next]]
        /\ job' = [job EXCEPT
                     !.status = next,
                     !.dispatchedAt = IF next = "shipped" \/ @ = 0 THEN Once(@) ELSE @,
                     !.deliveredAt = IF next = "delivered" THEN Once(@) ELSE @]
    BY <1>2 DEF advanceDeliveryStatus
  <2>2. \A n \in 0 .. 2 : Once(n) \in 0 .. 2
    BY DEF Once
  <2> QED
    BY <1>1, <1>2, <2>1, <2>2
<1>3. CASE job.status = next
  <2>1. job' = job
    BY <1>3 DEF advanceDeliveryStatus
  <2>2. \/ next = "delivered" /\ orderStatus # "completed"
           /\ desk' = [desk EXCEPT ![x] = [DeskIdle EXCEPT !.pc = "notify", !.milestone = next]]
        \/ desk' = desk
    BY <1>3 DEF advanceDeliveryStatus
  <2> QED
    BY <1>1, <1>3, <2>1, <2>2
<1> QED
  BY <1>2, <1>3

\* A milestone leaves only values the code knows.
LEMMA AdvanceTypes ==
  ASSUME JobTypeOK, NEW x \in Staff, NEW next \in Milestones, advanceDeliveryStatus(x, next)
  PROVE  JobTypeOK'
<1>1. /\ UNCHANGED <<roster, messages, late>>
      /\ orderStatus' \in {"completed", orderStatus}
      /\ \/ desk' = desk
         \/ desk' = [desk EXCEPT ![x] = [DeskIdle EXCEPT !.pc = "notify", !.milestone = next]]
      /\ job' \in Jobs
  BY AdvanceEffect DEF JobTypeOK
<1>2. desk' \in [Staff -> [pc : {"idle", "load", "save", "notify"}, driver : Drivers \cup {NoDriver},
                        seen : Drivers \cup {NoDriver}, milestone : Milestones]]
  BY <1>1 DEF JobTypeOK, DeskIdle
<1> QED
  BY <1>1, <1>2 DEF JobTypeOK

\* The job, the order and the requests only hold values the code knows.
LEMMA JobTypeStep == JobTypeOK /\ [JobNext]_jobVars => JobTypeOK'
<1> SUFFICES ASSUME JobTypeOK, [JobNext]_jobVars PROVE JobTypeOK'
  OBVIOUS
<1> USE DEF JobTypeOK, Jobs, Milestones, DeskIdle
<1>1. ASSUME NEW m \in {"collect", "door_delivery"}, upsertDeliveryForOrder(m) PROVE JobTypeOK'
  BY <1>1 DEF upsertDeliveryForOrder
<1>2. ASSUME NEW d \in Drivers, UpdateRoster(d) PROVE JobTypeOK'
  BY <1>2 DEF UpdateRoster
<1>3. ASSUME NEW x \in Staff, NEW d \in Drivers \cup {NoDriver}, BeginAssign(x, d) PROVE JobTypeOK'
  BY <1>3 DEF BeginAssign
<1>4. ASSUME NEW x \in Staff, LoadJob(x) PROVE JobTypeOK'
  BY <1>4 DEF LoadJob
<1>5. ASSUME NEW x \in Staff, SaveDriver(x) PROVE JobTypeOK'
  BY <1>5 DEF SaveDriver
<1>6. ASSUME NEW x \in Staff, NEW m \in Milestones, advanceDeliveryStatus(x, m) PROVE JobTypeOK'
  BY <1>6, AdvanceTypes
<1>7. ASSUME NEW x \in Staff, NotifyCustomer(x) PROVE JobTypeOK'
  <2>1. messages' \in [Milestones -> 0 .. 2]
    BY <1>7 DEF NotifyCustomer, Once
  <2> QED
    BY <1>7, <2>1 DEF NotifyCustomer
<1>8. ASSUME ConfirmOrder PROVE JobTypeOK'
  BY <1>8 DEF ConfirmOrder
<1>9. CASE UNCHANGED jobVars
  BY <1>9 DEF jobVars
<1> QED
  BY <1>1, <1>2, <1>3, <1>4, <1>5, <1>6, <1>7, <1>8, <1>9 DEF JobNext

\* The database and the requests only hold values the code knows.
THEOREM JobTypeCorrect == JobSpec => []JobTypeOK
<1>1. ASSUME JobInit PROVE JobTypeOK
  <2>1. job \in Jobs
    BY <1>1 DEF JobInit, Jobs, NoJob
  <2>2. desk \in [Staff -> [pc : {"idle", "load", "save", "notify"}, driver : Drivers \cup {NoDriver},
                           seen : Drivers \cup {NoDriver}, milestone : Milestones]]
    BY <1>1 DEF JobInit, DeskIdle, Milestones
  <2>3. messages \in [Milestones -> 0 .. 2] /\ late \in BOOLEAN
    <3>1. 0 \in 0 .. 2
      OBVIOUS
    <3>2. messages = [m \in Milestones |-> 0] /\ late = FALSE
      BY <1>1 DEF JobInit
    <3> QED
      BY <3>1, <3>2
  <2>4. roster \in [Drivers -> {"active", "inactive", "deleted"}]
    BY <1>1 DEF JobInit
  <2>5. orderStatus \in {"pending", "confirmed", "completed"}
    BY <1>1 DEF JobInit
  <2> QED
    BY <2>1, <2>2, <2>3, <2>4, <2>5 DEF JobTypeOK
<1> QED
  BY <1>1, JobTypeStep, PTL DEF JobSpec

(***************************************************************************)
(* Forward only.                                                           *)
(***************************************************************************)

\* Whatever staff and customers do to a job, it never goes back to an earlier
\* milestone, however late its payment arrives.
THEOREM JobsGoForward == JobSpec => ForwardOnly
<1>1. JobTypeOK /\ [JobNext]_jobVars => [rank(job'.status) >= rank(job.status)]_jobVars
  <2> SUFFICES ASSUME JobTypeOK, JobNext PROVE rank(job'.status) >= rank(job.status)
    OBVIOUS
  <2>1. job.status \in {"pending", "shipped", "delivered"} /\ rank(job.status) \in Nat
    BY Ranks DEF JobTypeOK, Jobs, Milestones
  <2>2. CASE job'.status = job.status
    BY <2>1, <2>2
  <2>3. ASSUME NEW x \in Staff, NEW m \in Milestones, advanceDeliveryStatus(x, m)
        PROVE  rank(job'.status) >= rank(job.status)
    BY <2>1, <2>3, AdvanceEffect, Ranks DEF Milestones
  <2> QED
    BY <2>2, <2>3 DEF JobNext, upsertDeliveryForOrder, UpdateRoster, BeginAssign, LoadJob, SaveDriver,
                      NotifyCustomer, ConfirmOrder, JobTypeOK, Jobs
<1> QED
  BY <1>1, JobTypeCorrect, PTL DEF JobSpec, ForwardOnly

(***************************************************************************)
(* Delivered means completed, and what a milestone brings happens once.    *)
(***************************************************************************)

\* No step delivers without completing, completes without delivering, or opens a
\* completed order again without noting it.
LEMMA DeliveredStep ==
  JobTypeOK /\ DeliveredMeansCompleted /\ [JobNext]_jobVars => DeliveredMeansCompleted'
<1> SUFFICES ASSUME JobTypeOK, DeliveredMeansCompleted, [JobNext]_jobVars PROVE DeliveredMeansCompleted'
  OBVIOUS
<1>1. CASE job'.status = job.status /\ orderStatus' = orderStatus /\ late' = late
  BY <1>1 DEF DeliveredMeansCompleted
<1>2. ASSUME NEW x \in Staff, NEW m \in Milestones, advanceDeliveryStatus(x, m)
      PROVE  DeliveredMeansCompleted'
  <2>1. /\ rank(job.status) <= rank(m) /\ job'.status = m /\ late' = late
        /\ orderStatus' = IF m = "delivered" THEN "completed" ELSE orderStatus
    BY <1>2, AdvanceEffect
  <2>2. m = "shipped" => job.status # "delivered"
    BY <2>1, Ranks
  <2> QED
    BY <2>1, <2>2 DEF DeliveredMeansCompleted, Milestones
<1>3. CASE ConfirmOrder
  BY <1>3 DEF ConfirmOrder, DeliveredMeansCompleted
<1> QED
  BY <1>1, <1>2, <1>3 DEF JobNext, jobVars, upsertDeliveryForOrder, UpdateRoster, BeginAssign, LoadJob,
                          SaveDriver, NotifyCustomer, JobTypeOK, Jobs

\* The delivery milestone and the completed order land together, and only a
\* payment that settles after the delivery parts them.
THEOREM DeliveredOrdersAreCompleted == JobSpec => []DeliveredMeansCompleted
<1>1. JobInit => DeliveredMeansCompleted
  BY DEF JobInit, NoJob, DeliveredMeansCompleted
<1> QED
  BY <1>1, JobTypeCorrect, DeliveredStep, PTL DEF JobSpec

\* A request that is about to tell the customer of a milestone is the only one,
\* the customer has not been told, and the job has reached it; after a late
\* payment that is only said of the dispatch.
Telling(x, m) == desk[x].pc = "notify" /\ desk[x].milestone = m

ToldOnceOf(m) ==
  /\ messages[m] <= 1
  /\ messages[m] = 1 => rank(job.status) >= rank(m)
  /\ \A x \in Staff : Telling(x, m) => /\ messages[m] = 0
                                       /\ rank(job.status) >= rank(m)
                                       /\ \A y \in Staff : Telling(y, m) => y = x

ToldOnce == \A m \in Milestones : (m = "delivered" /\ late) \/ ToldOnceOf(m)

StampedOnce ==
  /\ job.dispatchedAt = IF rank(job.status) >= 1 THEN 1 ELSE 0
  /\ job.deliveredAt = IF job.status = "delivered" THEN 1 ELSE 0

\* A stamp is written by the step that first passes its milestone only.
LEMMA StampStep == JobTypeOK /\ StampedOnce /\ [JobNext]_jobVars => StampedOnce'
<1> SUFFICES ASSUME JobTypeOK, StampedOnce, [JobNext]_jobVars PROVE StampedOnce'
  OBVIOUS
<1>1. CASE /\ job'.status = job.status /\ job'.dispatchedAt = job.dispatchedAt
           /\ job'.deliveredAt = job.deliveredAt
  BY <1>1 DEF StampedOnce
<1>2. ASSUME NEW x \in Staff, NEW m \in Milestones, advanceDeliveryStatus(x, m) PROVE StampedOnce'
  <2>1. CASE job' = job
    BY <1>1, <2>1
  <2>2. CASE job' # job
    <3>1. /\ job.status # m /\ rank(job.status) <= rank(m) /\ job'.status = m
          /\ job'.dispatchedAt = IF m = "shipped" \/ job.dispatchedAt = 0
                                 THEN Once(job.dispatchedAt) ELSE job.dispatchedAt
          /\ job'.deliveredAt = IF m = "delivered" THEN Once(job.deliveredAt) ELSE job.deliveredAt
      BY <1>2, <2>2, AdvanceEffect
    <3>2. job.status \in {"pending", "shipped", "delivered"}
      BY DEF JobTypeOK, Jobs, Milestones
    <3> QED
      BY <3>1, <3>2, Ranks DEF StampedOnce, Once, Milestones
  <2> QED
    BY <2>1, <2>2
<1> QED
  BY <1>1, <1>2 DEF JobNext, jobVars, upsertDeliveryForOrder, UpdateRoster, BeginAssign, LoadJob,
                    SaveDriver, NotifyCustomer, ConfirmOrder, JobTypeOK, Jobs

\* Only the step that moves the job, or completes an order that was opened again,
\* makes a request tell the customer.
LEMMA ToldStep ==
  JobTypeOK /\ DeliveredMeansCompleted /\ ToldOnce /\ [JobNext]_jobVars => ToldOnce'
<1> SUFFICES ASSUME JobTypeOK, DeliveredMeansCompleted, ToldOnce, [JobNext]_jobVars,
                    NEW k \in Milestones, ~(k = "delivered" /\ late')
             PROVE  ToldOnceOf(k)'
  BY DEF ToldOnce
<1> USE DEF JobTypeOK
<1>0. late => late'
  BY AdvanceEffect DEF JobNext, jobVars, upsertDeliveryForOrder, UpdateRoster, ConfirmOrder, BeginAssign,
                       LoadJob, SaveDriver, NotifyCustomer
<1>a. ToldOnceOf(k)
  BY <1>0 DEF ToldOnce
<1>1. ASSUME job'.status = job.status, UNCHANGED messages,
             \A x \in Staff : Telling(x, k)' => Telling(x, k)
      PROVE  ToldOnceOf(k)'
  BY <1>1, <1>a DEF ToldOnceOf
<1>2. ASSUME NEW x \in Staff, NEW n \in Milestones, advanceDeliveryStatus(x, n) PROVE ToldOnceOf(k)'
  <2>1. CASE job.status = n
    <3>1. job' = job /\ UNCHANGED messages
      BY <1>2, <2>1, AdvanceEffect
    <3>2. \/ desk' = desk
          \/ /\ n = "delivered" /\ late
             /\ desk' = [desk EXCEPT ![x] = [DeskIdle EXCEPT !.pc = "notify", !.milestone = n]]
      BY <1>2, <2>1, AdvanceEffect DEF DeliveredMeansCompleted
    <3>3. \A y \in Staff : Telling(y, k)' => Telling(y, k)
      BY <1>0, <3>2 DEF Telling, DeskIdle
    <3> QED
      BY <1>1, <3>1, <3>3
  <2>2. CASE job.status # n
    <3>1. /\ rank(job.status) <= rank(n) /\ job'.status = n /\ UNCHANGED messages
          /\ desk' = [desk EXCEPT ![x] = [DeskIdle EXCEPT !.pc = "notify", !.milestone = n]]
      BY <1>2, <2>2, AdvanceEffect
    <3>2. rank(job.status) < rank(n)
      BY <2>2, <3>1, Ranks DEF Jobs, Milestones
    <3>3. k = n => messages[k] = 0 /\ \A y \in Staff : ~ Telling(y, k)
      BY <1>a, <3>2, Ranks DEF ToldOnceOf, Jobs, Milestones
    <3>4. \A y \in Staff : Telling(y, k)' <=> IF y = x THEN k = n ELSE Telling(y, k)
      BY <3>1 DEF Telling, DeskIdle
    <3>5. CASE k = n
      BY <3>1, <3>3, <3>4, <3>5, Ranks DEF ToldOnceOf, Milestones
    <3>6. CASE k # n
      BY <1>a, <3>1, <3>2, <3>4, <3>6, Ranks DEF ToldOnceOf, Jobs, Milestones
    <3> QED
      BY <3>5, <3>6
  <2> QED
    BY <2>1, <2>2
<1>3. ASSUME NEW x \in Staff, NotifyCustomer(x) PROVE ToldOnceOf(k)'
  <2> DEFINE n == desk[x].milestone
  <2>1. /\ Telling(x, n) /\ n \in Milestones /\ desk' = [desk EXCEPT ![x] = DeskIdle]
        /\ job' = job
    BY <1>3 DEF NotifyCustomer, Telling
  <2>2. \A y \in Staff : Telling(y, k)' <=> y # x /\ Telling(y, k)
    BY <2>1 DEF Telling, DeskIdle
  <2>3. /\ k # n => messages'[k] = messages[k]
        /\ k = n => messages'[k] \in {messages[k], 1}
    <3>1. k = n => messages[k] = 0
      BY <1>a, <2>1 DEF ToldOnceOf
    <3> QED
      BY <1>3, <2>1, <3>1 DEF NotifyCustomer, Once
  <2>4. CASE k = n
    BY <1>a, <2>1, <2>2, <2>3, <2>4 DEF ToldOnceOf, Telling
  <2>5. CASE k # n
    BY <1>a, <2>1, <2>2, <2>3, <2>5 DEF ToldOnceOf, Telling
  <2> QED
    BY <2>4, <2>5
<1>4. ASSUME NEW x \in Staff, NEW d \in Drivers \cup {NoDriver},
             BeginAssign(x, d) \/ LoadJob(x) \/ SaveDriver(x)
      PROVE  ToldOnceOf(k)'
  <2>1. job'.status = job.status /\ UNCHANGED messages
    BY <1>4 DEF BeginAssign, LoadJob, SaveDriver, Jobs
  <2>2. /\ \A y \in Staff : y # x => desk'[y] = desk[y]
        /\ desk'[x].pc # "notify"
    <3>1. CASE LoadJob(x)
      BY <3>1 DEF LoadJob, DeskIdle
    <3>2. CASE BeginAssign(x, d)
      <4>1. desk' = [desk EXCEPT ![x] = [DeskIdle EXCEPT !.pc = "load", !.driver = d]]
        BY <3>2 DEF BeginAssign
      <4>2. [DeskIdle EXCEPT !.pc = "load", !.driver = d].pc = "load"
        BY DEF DeskIdle
      <4> QED
        BY <4>1, <4>2
    <3>3. CASE SaveDriver(x)
      BY <3>3 DEF SaveDriver, DeskIdle
    <3> QED
      BY <1>4, <3>1, <3>2, <3>3
  <2> QED
    BY <1>1, <2>1, <2>2 DEF Telling
<1> QED
  BY <1>1, <1>2, <1>3, <1>4
     DEF JobNext, jobVars, upsertDeliveryForOrder, UpdateRoster, ConfirmOrder, Telling, Jobs

\* However often and by however many a milestone is tapped, its stamp is written
\* once and the customer told at most once, but of the delivery of an order that
\* a late payment has opened again.
THEOREM MilestonesHappenOnce == JobSpec => []OncePerMilestone
<1>1. JobInit => StampedOnce /\ ToldOnce
  BY Ranks DEF JobInit, NoJob, StampedOnce, ToldOnce, ToldOnceOf, Telling, DeskIdle
<1>2. StampedOnce /\ ToldOnce => OncePerMilestone
  BY DEF StampedOnce, ToldOnce, ToldOnceOf, OncePerMilestone, Milestones
<1> QED
  BY <1>1, <1>2, JobTypeCorrect, DeliveredOrdersAreCompleted, StampStep, ToldStep, PTL DEF JobSpec
================================================================================
