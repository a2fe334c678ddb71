------------------------- MODULE OrderPayment_proofs -------------------------
(***************************************************************************)
(* What OrderPayment promises for any number of overlapping runs, any      *)
(* routing and any of the faults a theorem does not exclude.               *)
(***************************************************************************)
EXTENDS OrderPayment, TLAPS

\* Changing one field of a Payment document or of the order gives another.
LEMMA PaymentFields ==
  ASSUME NEW p \in Payments, NEW s \in PaymentStatus
  PROVE  /\ [p EXCEPT !.status = s] \in Payments
         /\ [p EXCEPT !.linked = TRUE] \in Payments
         /\ [p EXCEPT !.status = s].status = s
         /\ [p EXCEPT !.status = s].linked = p.linked
         /\ [p EXCEPT !.linked = TRUE].status = p.status
BY DEF Payments

\* The same for the order, whichever of its two statuses is set first.
LEMMA OrderFields ==
  ASSUME NEW o \in Orders, NEW s \in PaymentStatus, NEW t \in OrderStatus
  PROVE  /\ [o EXCEPT !.payStatus = s] \in Orders
         /\ [o EXCEPT !.status = t, !.payStatus = s] \in Orders
         /\ [o EXCEPT !.payStatus = s, !.status = t] \in Orders
BY DEF Orders

\* The type invariant is preserved by every step: the database never holds a
\* status, and a handler never stands at a point, that the code does not know.
LEMMA TypeStep == TypeOK /\ [Next]_vars => TypeOK'
<1> SUFFICES ASSUME TypeOK, [Next]_vars PROVE TypeOK'
  OBVIOUS
<1> USE DEF TypeOK, Orders, Payments, Callbacks, Hooks, OrderStatus, PaymentStatus, Methods,
            RawStatus, Goto, Written, Post
<1>1. ASSUME NEW m \in Methods, ChooseMethod(m) PROVE TypeOK'
  BY <1>1 DEF ChooseMethod
<1>2. ASSUME CompleteOrder PROVE TypeOK'
  BY <1>2 DEF CompleteOrder
<1>3. ASSUME NEW r \in Runs, LoadOrder(r) PROVE TypeOK'
  BY <1>3 DEF LoadOrder
<1>4. ASSUME NEW r \in Runs, CheckPriorPayments(r) PROVE TypeOK'
  BY <1>4 DEF CheckPriorPayments
<1>5. ASSUME NEW r \in Runs, ConfirmCashOnDelivery(r) PROVE TypeOK'
  BY <1>5 DEF ConfirmCashOnDelivery, CreatePayment
<1>6. ASSUME NEW r \in Runs, RecordAttempt(r) PROVE TypeOK'
  BY <1>6 DEF RecordAttempt, CreatePayment
<1>7. ASSUME NEW r \in Runs, GiveUp(r) PROVE TypeOK'
  BY <1>7 DEF GiveUp
<1>8. ASSUME NEW r \in Runs, GatewayAccepts(r) PROVE TypeOK'
  BY <1>8 DEF GatewayAccepts
<1>9. ASSUME NEW r \in Runs, GatewayRefuses(r) PROVE TypeOK'
  BY <1>9 DEF GatewayRefuses
<1>10. ASSUME NEW r \in Runs, SaveResult(r) PROVE TypeOK'
  <2>1. order' \in Orders
    BY <1>10 DEF SaveResult
  <2>2. pay' \in [Runs -> Payments]
    <3>1. CASE pc[r] = "accepted" /\ pay' = [pay EXCEPT ![r].linked = TRUE]
      <4> HIDE DEF Payments
      <4>1. [pay[r] EXCEPT !.linked = TRUE] \in Payments
        BY PaymentFields
      <4> QED
        BY <3>1, <4>1
    <3>2. CASE pc[r] = "refused" /\ pay' = [pay EXCEPT ![r].status = "failed"]
      <4> HIDE DEF Payments
      <4>1. [pay[r] EXCEPT !.status = "failed"] \in Payments
        BY PaymentFields
      <4> QED
        BY <3>2, <4>1
    <3> QED
      BY <1>10, <3>1, <3>2 DEF SaveResult
  <2>3. /\ UNCHANGED <<latest, snap, push, callbacks, hooks, thanked>>
        /\ pc' = [pc EXCEPT ![r] = "done"] /\ setBack' \subseteq Runs
    BY <1>10 DEF SaveResult, NoteGivenUp
  <2> QED
    BY <2>1, <2>2, <2>3
<1>11. ASSUME NEW r \in Runs, SaveAborts(r) PROVE TypeOK'
  <2>1. CASE pay' = [pay EXCEPT ![r].status = "failed"]
    <3>1. pay' \in [Runs -> Payments]
      BY <2>1
    <3> QED
      BY <1>11, <3>1 DEF SaveAborts, NoteGivenUp
  <2>2. CASE UNCHANGED pay
    BY <1>11, <2>2 DEF SaveAborts, NoteGivenUp
  <2> QED
    BY <1>11, <2>1, <2>2 DEF SaveAborts
<1>12. ASSUME NEW r \in Runs, Interrupted(r) PROVE TypeOK'
  BY <1>12 DEF Interrupted
<1>13. ASSUME NEW r \in Runs, GatewayMoves(r) PROVE TypeOK'
  BY <1>13 DEF GatewayMoves
<1>14. ASSUME NEW c \in callbacks, ReceiveCallback(c) PROVE TypeOK'
  BY <1>14 DEF ReceiveCallback, FoundRow
<1>15. ASSUME NEW h \in hooks, NEW s \in PaymentStatus, SettleRow(h.row, s)
       PROVE /\ order' \in Orders
             /\ pay' \in [Runs -> Payments]
             /\ thanked' \in [Runs -> 0 .. 2]
  <2> DEFINE r == h.row
             t == IF s = "paid" THEN "confirmed" ELSE order.status
  <2>1. r \in Runs /\ pay[r] \in Payments /\ t \in OrderStatus /\ thanked[r] \in 0 .. 2
    OBVIOUS
  <2>2. CASE pay[r].status = s
    BY <1>15, <2>2 DEF SettleRow
  <2>3. CASE pay[r].status # s
    <3>1. order' = [order EXCEPT !.payStatus = s, !.status = t]
      BY <1>15, <2>3 DEF SettleRow
    <3>2. pay' = [pay EXCEPT ![r].status = s]
      BY <1>15, <2>3 DEF SettleRow
    <3>3. (thanked' = [thanked EXCEPT ![r] = @ + 1] /\ thanked[r] < 2) \/ thanked' = thanked
      BY <1>15, <2>3 DEF SettleRow
    <3>4. thanked' \in [Runs -> 0 .. 2]
      BY <2>1, <3>3
    <3>5. pay' \in [Runs -> Payments]
      BY <2>1, <3>2
    <3>6. order' \in Orders
      BY <2>1, <3>1
    <3> QED
      BY <3>4, <3>5, <3>6
  <2> QED
    BY <2>2, <2>3
<1>16. \A h \in hooks : mapStatus(h.post.raw) \in PaymentStatus
  BY DEF mapStatus
<1>17. ASSUME NEW h \in hooks, SettleCallback(h) PROVE TypeOK'
  BY <1>15, <1>16, <1>17 DEF SettleCallback, NoteOutdated, EndHook, Acknowledged
<1>18. ASSUME NEW h \in hooks, SettleUnseen(h) PROVE TypeOK'
  BY <1>15, <1>16, <1>18 DEF SettleUnseen, NoteOutdated, EndHook
<1>19. ASSUME NEW h \in hooks, SettleAborts(h) PROVE TypeOK'
  BY <1>19 DEF SettleAborts, EndHook
<1>20. CASE UNCHANGED vars
  BY <1>20 DEF vars
<1> QED
  BY <1>1, <1>2, <1>3, <1>4, <1>5, <1>6, <1>7, <1>8, <1>9, <1>10, <1>11, <1>12, <1>13, <1>14,
     <1>17, <1>18, <1>19, <1>20 DEF Next, RunStep

\* The database and the handlers only hold values the code knows.
THEOREM TypeCorrect == Spec => []TypeOK
<1>1. Init => TypeOK
  BY RunsAssumption
     DEF Init, TypeOK, Orders, NewOrder, Payments, NoPayment, OrderStatus, PaymentStatus, Methods
<1>2. TypeOK /\ [Next]_vars => TypeOK'
  BY TypeStep
<1> QED
  BY <1>1, <1>2, PTL DEF Spec

(***************************************************************************)
(* A PAID document has its order confirmed, whatever goes wrong.           *)
(***************************************************************************)

\* What one settlement does to the document and its order.
LEMMA SettleEffect ==
  ASSUME TypeOK, NEW h \in hooks, NEW s \in PaymentStatus, SettleRow(h.row, s)
  PROVE  /\ h.row \in Runs
         /\ \A r \in Runs : pay'[r] = IF r = h.row THEN [pay[r] EXCEPT !.status = s] ELSE pay[r]
         /\ order'.status = order.status \/ order'.status = "confirmed"
         /\ s = "paid" /\ pay[h.row].status # "paid" => order'.status = "confirmed"
         /\ s = "pending" /\ pay[h.row].status # "pending" => IndexAllows(h.row)
<1>1. h.row \in Runs /\ pay[h.row] \in Payments /\ order \in Orders
  BY DEF TypeOK, Hooks
<1>2. CASE pay[h.row].status = s
  <2>1. pay' = pay /\ order' = order
    BY <1>2 DEF SettleRow
  <2>2. [pay[h.row] EXCEPT !.status = s] = pay[h.row]
    BY <1>1, <1>2 DEF Payments
  <2> QED
    BY <1>1, <1>2, <2>1, <2>2
<1>3. CASE pay[h.row].status # s
  <2>1. /\ s = "pending" => IndexAllows(h.row)
        /\ pay' = [pay EXCEPT ![h.row].status = s]
        /\ order' = [order EXCEPT !.payStatus = s,
                                 !.status = IF s = "paid" THEN "confirmed" ELSE @]
    BY <1>3 DEF SettleRow
  <2>2. order'.status = IF s = "paid" THEN "confirmed" ELSE order.status
    BY <1>1, <2>1 DEF Orders
  <2>3. \A r \in Runs : pay'[r] = IF r = h.row THEN [pay[r] EXCEPT !.status = s] ELSE pay[r]
    BY <1>1, <2>1 DEF TypeOK
  <2> QED
    BY <1>1, <2>1, <2>2, <2>3
<1> QED
  BY <1>2, <1>3

\* A settlement changes one status and no link.
LEMMA SettleStatus ==
  ASSUME TypeOK, NEW h \in hooks, NEW s \in PaymentStatus, SettleRow(h.row, s)
  PROVE  \A r \in Runs : /\ pay'[r].status = IF r = h.row THEN s ELSE pay[r].status
                         /\ pay'[r].linked = pay[r].linked
<1> TAKE r \in Runs
<1>1. pay[r] \in Payments /\ pay'[r] = IF r = h.row THEN [pay[r] EXCEPT !.status = s] ELSE pay[r]
  BY SettleEffect DEF TypeOK
<1>2. CASE r = h.row
  BY <1>1, <1>2, PaymentFields
<1>3. CASE r # h.row
  BY <1>1, <1>3
<1> QED
  BY <1>2, <1>3

\* Whatever word Paynow posts, mapStatus answers with a status of the code.
LEMMA MappedStatus == \A raw \in RawStatus : mapStatus(raw) \in PaymentStatus
BY DEF RawStatus, mapStatus, PaymentStatus

\* Saving the outcome of a call leaves a document's status or fails it.
LEMMA SaveEffect ==
  ASSUME NEW r \in Runs, TypeOK, SaveResult(r) \/ SaveAborts(r)
  PROVE  /\ push' = push
         /\ order'.status = order.status
         /\ \A q \in Runs : pay'[q].status \in {pay[q].status, "failed"}
<1> USE DEF TypeOK
<1>1. push' = push
  BY DEF SaveResult, SaveAborts
<1>2. order'.status = order.status
  BY DEF SaveResult, SaveAborts, Orders
<1>3. \/ pay' = pay
      \/ pay' = [pay EXCEPT ![r].status = "failed"]
      \/ pay' = [pay EXCEPT ![r].linked = TRUE]
  BY DEF SaveResult, SaveAborts
<1>4. \A q \in Runs : pay'[q].status \in {pay[q].status, "failed"}
  <2>1. CASE pay' = pay
    BY <2>1
  <2>2. CASE pay' = [pay EXCEPT ![r].status = "failed"]
    BY <2>2, PaymentFields
  <2>3. CASE pay' = [pay EXCEPT ![r].linked = TRUE]
    BY <2>3, PaymentFields
  <2> QED
    BY <1>3, <2>1, <2>2, <2>3
<1> QED
  BY <1>1, <1>2, <1>4

\* No step makes a document PAID without its order, or takes a confirmed order
\* back to PENDING: the webhook and the cash save move both, or the order only
\* forward.
LEMMA PaidStep == TypeOK /\ PaidIsConfirmed /\ [Next]_vars => PaidIsConfirmed'
<1> SUFFICES ASSUME TypeOK, PaidIsConfirmed, [Next]_vars PROVE PaidIsConfirmed'
  OBVIOUS
<1> USE DEF TypeOK, Payments, Orders
<1>1. ASSUME UNCHANGED <<pay, order>> PROVE PaidIsConfirmed'
  BY <1>1 DEF PaidIsConfirmed
<1>2. ASSUME NEW m \in Methods, ChooseMethod(m) PROVE PaidIsConfirmed'
  BY <1>2 DEF ChooseMethod, PaidIsConfirmed
<1>3. ASSUME CompleteOrder PROVE PaidIsConfirmed'
  BY <1>3 DEF CompleteOrder, PaidIsConfirmed
<1>4. ASSUME NEW r \in Runs, ConfirmCashOnDelivery(r) PROVE PaidIsConfirmed'
  BY <1>4 DEF ConfirmCashOnDelivery, CreatePayment, Written, PaidIsConfirmed
<1>5. ASSUME NEW r \in Runs, RecordAttempt(r) PROVE PaidIsConfirmed'
  BY <1>5 DEF RecordAttempt, CreatePayment, PaidIsConfirmed
<1>6. ASSUME NEW r \in Runs, SaveResult(r) \/ SaveAborts(r) PROVE PaidIsConfirmed'
  BY <1>6, SaveEffect DEF PaidIsConfirmed
<1>7. ASSUME NEW h \in hooks, SettleRow(h.row, mapStatus(h.post.raw)) PROVE PaidIsConfirmed'
  <2>1. mapStatus(h.post.raw) \in PaymentStatus
    BY MappedStatus DEF Hooks, Callbacks
  <2> QED
    BY <1>7, <2>1, SettleEffect DEF PaidIsConfirmed
<1> QED
  BY <1>1, <1>2, <1>3, <1>4, <1>5, <1>6, <1>7
     DEF Next, RunStep, vars, LoadOrder, CheckPriorPayments, GiveUp, GatewayAccepts,
         GatewayRefuses, Interrupted, GatewayMoves, ReceiveCallback, SettleCallback, SettleUnseen,
         SettleAborts

\* The webhook never leaves a payment PAID while its order stays unconfirmed,
\* under every fault of AllFaults.
THEOREM PaidOrdersAreConfirmed == Spec => []PaidIsConfirmed
<1>1. Init => PaidIsConfirmed
  BY DEF Init, PaidIsConfirmed, NoPayment
<1> QED
  BY <1>1, TypeCorrect, PaidStep, PTL DEF Spec

(***************************************************************************)
(* Posts that carry their poll URL settle the attempt whose money they     *)
(* report.                                                                 *)
(***************************************************************************)

\* What a post says of its push was true when it was posted and still counts.
Truthful(c) ==
  /\ push[c.run] # "none"
  /\ c.raw # "sent" => push[c.run] # "sent"
  /\ c.raw \in EverPaid => push[c.run] \in EverPaid

PostsTruthful == /\ \A c \in callbacks : Truthful(c)
                 /\ \A h \in hooks : Truthful(h.post)

\* A run that has not called the gateway has no push.
FreshPush ==
  \A r \in Runs : pc[r] \in {"idle", "loaded", "checked", "recorded"} => push[r] = "none"

\* A webhook execution holds the document of the attempt its post is about.
ExactRow == \A h \in hooks : h.row = h.post.run

\* No step turns a post into a lie: a push only moves on, and a run makes its
\* push before the first post of it.
LEMMA TruthStep == TypeOK /\ FreshPush /\ PostsTruthful /\ [Next]_vars
                   => FreshPush' /\ PostsTruthful'
<1> SUFFICES ASSUME TypeOK, FreshPush, PostsTruthful, [Next]_vars
             PROVE  FreshPush' /\ PostsTruthful'
  OBVIOUS
<1> USE DEF TypeOK, Callbacks, Hooks, Goto
<1>1. ASSUME UNCHANGED push, callbacks' \subseteq callbacks,
             \A h \in hooks' : h \in hooks \/ h.post \in callbacks
      PROVE  PostsTruthful'
  BY <1>1 DEF PostsTruthful, Truthful
<1>2. ASSUME UNCHANGED push,
             \A r \in Runs : pc'[r] \in {"idle", "loaded", "checked", "recorded"}
                             => pc[r] \in {"idle", "loaded", "checked", "recorded"}
      PROVE  FreshPush'
  BY <1>2 DEF FreshPush
<1>3. ASSUME NEW r \in Runs, GatewayAccepts(r) PROVE FreshPush' /\ PostsTruthful'
  <2>1. push[r] = "none"
    BY <1>3 DEF GatewayAccepts, FreshPush
  <2>2. /\ push' = [push EXCEPT ![r] = "sent"] /\ hooks' = hooks
        /\ callbacks' = callbacks \cup {[run |-> r, raw |-> "sent"]}
        /\ pc' = [pc EXCEPT ![r] = "accepted"] \/ pc' = [pc EXCEPT ![r] = "refused"]
    BY <1>3 DEF GatewayAccepts, Post
  <2>3. \A c \in callbacks \cup {h.post : h \in hooks} : c.run # r
    BY <2>1 DEF PostsTruthful, Truthful
  <2>4. PostsTruthful'
    BY <2>2, <2>3 DEF PostsTruthful, Truthful, EverPaid
  <2>5. FreshPush'
    BY <2>2 DEF FreshPush
  <2> QED
    BY <2>4, <2>5
<1>4. ASSUME NEW r \in Runs, GatewayMoves(r) PROVE FreshPush' /\ PostsTruthful'
  <2>1. PICK raw \in RawStatus : /\ <<push[r], raw>> \in GatewayMove
                                /\ push' = [push EXCEPT ![r] = raw]
                                /\ callbacks' = callbacks \cup {[run |-> r, raw |-> raw]}
                                /\ UNCHANGED <<pc, hooks>>
    BY <1>4 DEF GatewayMoves, Post
  <2>2. push[r] # "none" /\ raw # "sent" /\ raw # "none"
        /\ (push[r] \in EverPaid => raw \in EverPaid)
    BY <2>1 DEF GatewayMove, EverPaid
  <2>3. PostsTruthful'
    BY <2>1, <2>2 DEF PostsTruthful, Truthful
  <2>4. FreshPush'
    BY <2>1, <2>2 DEF FreshPush
  <2> QED
    BY <2>3, <2>4
<1>5. ASSUME NEW c \in callbacks, ReceiveCallback(c) PROVE FreshPush' /\ PostsTruthful'
  BY <1>1, <1>2, <1>5 DEF ReceiveCallback
<1>6. ASSUME NEW h \in hooks, SettleCallback(h) \/ SettleUnseen(h) \/ SettleAborts(h)
      PROVE  FreshPush' /\ PostsTruthful'
  BY <1>1, <1>2, <1>6 DEF SettleCallback, SettleUnseen, SettleAborts, EndHook, Acknowledged
<1>7. ASSUME NEW r \in Runs, \/ LoadOrder(r) \/ CheckPriorPayments(r) \/ ConfirmCashOnDelivery(r)
                             \/ RecordAttempt(r) \/ GiveUp(r) \/ GatewayRefuses(r)
                             \/ SaveResult(r) \/ SaveAborts(r) \/ Interrupted(r)
      PROVE  FreshPush' /\ PostsTruthful'
  <2>1. UNCHANGED <<push, callbacks, hooks>>
    BY <1>7 DEF LoadOrder, CheckPriorPayments, ConfirmCashOnDelivery, RecordAttempt, GiveUp,
                GatewayRefuses, SaveResult, SaveAborts, Interrupted
  <2>2. \/ pc[r] = "idle" /\ pc' = [pc EXCEPT ![r] = "loaded"]
        \/ pc[r] = "loaded" /\ pc' = [pc EXCEPT ![r] = "checked"]
        \/ pc[r] = "checked" /\ pc' = [pc EXCEPT ![r] = "recorded"]
        \/ pc' = [pc EXCEPT ![r] = "refused"]
        \/ pc' = [pc EXCEPT ![r] = "done"]
    BY <1>7 DEF LoadOrder, CheckPriorPayments, ConfirmCashOnDelivery, RecordAttempt, GiveUp,
                GatewayRefuses, SaveResult, SaveAborts, Interrupted
  <2>3. FreshPush'
    BY <2>1, <2>2 DEF FreshPush
  <2> QED
    BY <1>1, <2>1, <2>3
<1>8. CASE (\E m \in Methods : ChooseMethod(m)) \/ CompleteOrder \/ UNCHANGED vars
  BY <1>1, <1>2, <1>8 DEF ChooseMethod, CompleteOrder, vars
<1> QED
  BY <1>3, <1>4, <1>5, <1>6, <1>7, <1>8 DEF Next, RunStep

\* Every post and every webhook execution tells the truth, whatever goes wrong.
LEMMA Truth == Spec => [](TypeOK /\ FreshPush /\ PostsTruthful)
<1>1. Init => FreshPush /\ PostsTruthful
  BY DEF Init, FreshPush, PostsTruthful
<1> QED
  BY <1>1, TypeCorrect, TruthStep, PTL DEF Spec

\* With a poll URL on every post, the webhook finds the document of that push.
LEMMA ExactStep ==
  ASSUME "url_omitted" \notin Faults
  PROVE  TypeOK /\ ExactRow /\ [Next]_vars => ExactRow'
<1> SUFFICES ASSUME TypeOK, ExactRow, [Next]_vars PROVE ExactRow'
  OBVIOUS
<1>1. ASSUME hooks' \subseteq hooks PROVE ExactRow'
  BY <1>1 DEF ExactRow
<1>2. ASSUME NEW c \in callbacks, ReceiveCallback(c) PROVE ExactRow'
  BY <1>2 DEF ReceiveCallback, FoundRow, ExactRow
<1> QED
  BY <1>1, <1>2
     DEF Next, RunStep, vars, ChooseMethod, CompleteOrder, LoadOrder, CheckPriorPayments,
         ConfirmCashOnDelivery, RecordAttempt, GiveUp, GatewayAccepts, GatewayRefuses, SaveResult,
         SaveAborts, Interrupted, GatewayMoves, SettleCallback, SettleUnseen, SettleAborts, EndHook

\* A settlement never marks an attempt PAID or REFUNDED whose own push did not
\* take the money.
LEMMA HonestStep ==
  TypeOK /\ FreshPush /\ PostsTruthful /\ ExactRow /\ PaidOnlyIfCharged /\ [Next]_vars
  => PaidOnlyIfCharged'
<1> SUFFICES ASSUME TypeOK, FreshPush, PostsTruthful, ExactRow, PaidOnlyIfCharged, [Next]_vars
             PROVE  PaidOnlyIfCharged'
  OBVIOUS
<1> USE DEF TypeOK, Payments
<1>1. ASSUME \A r \in Runs : pay'[r].status \in {pay[r].status, "pending", "failed"},
             \A r \in Runs : push[r] \in EverPaid => push'[r] \in EverPaid
      PROVE  PaidOnlyIfCharged'
  BY <1>1 DEF PaidOnlyIfCharged
<1>2. ASSUME NEW r \in Runs, GatewayAccepts(r) PROVE PaidOnlyIfCharged'
  BY <1>1, <1>2 DEF GatewayAccepts, FreshPush, EverPaid
<1>3. ASSUME NEW r \in Runs, GatewayMoves(r) PROVE PaidOnlyIfCharged'
  BY <1>1, <1>3 DEF GatewayMoves, GatewayMove, EverPaid
<1>4. ASSUME NEW r \in Runs, ConfirmCashOnDelivery(r) \/ RecordAttempt(r) PROVE PaidOnlyIfCharged'
  BY <1>1, <1>4 DEF ConfirmCashOnDelivery, RecordAttempt, CreatePayment
<1>5. ASSUME NEW r \in Runs, SaveResult(r) \/ SaveAborts(r) PROVE PaidOnlyIfCharged'
  BY <1>1, <1>5, SaveEffect
<1>6. ASSUME NEW h \in hooks, SettleRow(h.row, mapStatus(h.post.raw)), UNCHANGED push
      PROVE  PaidOnlyIfCharged'
  <2> DEFINE s == mapStatus(h.post.raw)
  <2>1. s \in PaymentStatus /\ h.post.raw \in RawStatus
    BY MappedStatus DEF Hooks, Callbacks
  <2>2. \A r \in Runs : pay'[r] = IF r = h.row THEN [pay[r] EXCEPT !.status = s] ELSE pay[r]
    BY <1>6, <2>1, SettleEffect
  <2>3. \A r \in Runs : pay'[r].status = IF r = h.row THEN s ELSE pay[r].status
    BY <2>2
  <2>4. s \in {"paid", "refunded"} => push[h.row] \in EverPaid
    BY <2>1 DEF mapStatus, RawStatus, EverPaid, PostsTruthful, Truthful, ExactRow
  <2> QED
    BY <1>6, <2>3, <2>4 DEF PaidOnlyIfCharged
<1>7. ASSUME UNCHANGED <<pay, push>> PROVE PaidOnlyIfCharged'
  BY <1>1, <1>7
<1> QED
  BY <1>2, <1>3, <1>4, <1>5, <1>6, <1>7
     DEF Next, RunStep, vars, ChooseMethod, CompleteOrder, LoadOrder, CheckPriorPayments, GiveUp,
         GatewayRefuses, Interrupted, ReceiveCallback, SettleCallback, SettleUnseen, SettleAborts

\* With poll URLs on the posts, a payment reads PAID or REFUNDED only if its own
\* push took the customer's money, under every other fault.
THEOREM PaidMeansCharged ==
  ASSUME "url_omitted" \notin Faults
  PROVE  Spec => []PaidOnlyIfCharged
<1>1. Init => ExactRow /\ PaidOnlyIfCharged
  BY DEF Init, ExactRow, PaidOnlyIfCharged, NoPayment
<1>2. TypeOK /\ ExactRow /\ [Next]_vars => ExactRow'
  BY ExactStep
<1> QED
  BY <1>1, <1>2, Truth, HonestStep, PTL DEF Spec

(***************************************************************************)
(* One live prompt at a time.                                              *)
(***************************************************************************)

\* While a run is between recording its attempt and saving the outcome, no
\* webhook can find the document: its poll URL is not stored.
AttemptUntouched ==
  \A r \in Runs :
    /\ pc[r] \in {"idle", "loaded", "checked"} => pay[r].status = "none" /\ ~ pay[r].linked
    /\ pc[r] \in {"recorded", "accepted", "refused"} => PendingRow(r) /\ ~ pay[r].linked
    /\ pc[r] = "refused" => push[r] = "none"

LinkedHook == \A h \in hooks : pay[h.row].linked

\* A live prompt has its PENDING document, and there is one of those.
SentIsPending == \A r \in Runs : push[r] = "sent" => PendingRow(r)
OnePending    == \A r, q \in Runs : PendingRow(r) /\ PendingRow(q) => r = q

OpenInv == AttemptUntouched /\ LinkedHook /\ SentIsPending /\ OnePending

\* The faults that leave a live prompt behind a document already marked FAILED,
\* or settle a document other than the prompt's own.
Unhidden == Faults \cap {"response_lost", "commit_fails", "url_omitted"} = {}

\* A settlement touches a document whose poll URL is stored, so never one a run
\* still works on; it closes the document only when the prompt is gone, and
\* reopens one only if no other is PENDING.
LEMMA SettleKeepsOpen ==
  ASSUME NEW h \in hooks, TypeOK, PostsTruthful, ExactRow, OpenInv,
         SettleRow(h.row, mapStatus(h.post.raw)),
         UNCHANGED <<pc, push>>, hooks' \subseteq hooks
  PROVE  OpenInv'
<1> USE DEF TypeOK, PendingRow
<1> DEFINE s == mapStatus(h.post.raw)
<1>1. h.row \in Runs /\ s \in PaymentStatus /\ h.post.raw \in RawStatus /\ h.row = h.post.run
  BY MappedStatus DEF Hooks, Callbacks, ExactRow
<1>2. \A r \in Runs : /\ pay'[r].status = IF r = h.row THEN s ELSE pay[r].status
                      /\ pay'[r].linked = pay[r].linked
  BY <1>1, SettleStatus
<1>3. AttemptUntouched'
  BY <1>1, <1>2 DEF OpenInv, AttemptUntouched, LinkedHook
<1>4. LinkedHook'
  <2>1. \A g \in hooks : g.row \in Runs
    BY DEF Hooks
  <2> QED
    BY <1>2, <2>1 DEF OpenInv, LinkedHook
<1>5. SentIsPending'
  <2>1. push[h.row] = "sent" => s = "pending"
    BY <1>1 DEF PostsTruthful, Truthful, mapStatus, EverPaid, RawStatus
  <2> QED
    BY <1>2, <2>1 DEF OpenInv, SentIsPending
<1>6. OnePending'
  <2>1. s = "pending" /\ ~ PendingRow(h.row) => IndexAllows(h.row)
    BY DEF SettleRow
  <2> QED
    BY <1>1, <1>2, <2>1 DEF OpenInv, OnePending, IndexAllows
<1> QED
  BY <1>3, <1>4, <1>5, <1>6 DEF OpenInv

\* A new document passes the index, so it is the only PENDING one, and no
\* prompt goes with it yet.
LEMMA CreateKeepsOpen ==
  ASSUME NEW r \in Runs, NEW cash \in BOOLEAN, TypeOK, FreshPush, OpenInv,
         pc[r] = "checked", CreatePayment(r, cash), UNCHANGED <<push, hooks>>,
         pc' = [pc EXCEPT ![r] = "recorded"] \/ pc' = [pc EXCEPT ![r] = "done"]
  PROVE  OpenInv'
<1> USE DEF TypeOK, PendingRow
<1>1. \A q \in Runs : q # r => pay'[q] = pay[q]
  BY DEF CreatePayment
<1>2. pay'[r].status = "pending" /\ ~ pay'[r].linked /\ push[r] = "none"
  BY DEF CreatePayment, FreshPush
<1>3. AttemptUntouched'
  BY <1>1, <1>2 DEF OpenInv, AttemptUntouched
<1>4. LinkedHook'
  <2>1. \A g \in hooks : g.row \in Runs /\ g.row # r
    BY DEF Hooks, OpenInv, AttemptUntouched, LinkedHook
  <2> QED
    BY <1>1, <2>1 DEF OpenInv, LinkedHook
<1>5. SentIsPending'
  BY <1>1, <1>2 DEF OpenInv, SentIsPending
<1>6. OnePending'
  BY <1>1, <1>2 DEF OpenInv, OnePending, CreatePayment, IndexAllows
<1> QED
  BY <1>3, <1>4, <1>5, <1>6 DEF OpenInv

\* Every step keeps a live prompt tied to the one PENDING document.
LEMMA OpenStep ==
  ASSUME Unhidden
  PROVE  TypeOK /\ FreshPush /\ PostsTruthful /\ ExactRow /\ OpenInv /\ [Next]_vars => OpenInv'
<1> SUFFICES ASSUME TypeOK, FreshPush, PostsTruthful, ExactRow, OpenInv, [Next]_vars PROVE OpenInv'
  OBVIOUS
<1> USE DEF TypeOK, PendingRow, Goto
<1>1. ASSUME UNCHANGED <<pay, push, pc>>, hooks' \subseteq hooks PROVE OpenInv'
  BY <1>1 DEF OpenInv, AttemptUntouched, LinkedHook, SentIsPending, OnePending
<1>2. ASSUME NEW c \in callbacks, ReceiveCallback(c) PROVE OpenInv'
  BY <1>2 DEF ReceiveCallback, FoundRow, Unhidden, OpenInv, AttemptUntouched, LinkedHook,
              SentIsPending, OnePending
<1>3. ASSUME NEW r \in Runs, LoadOrder(r) \/ CheckPriorPayments(r) \/ GiveUp(r) \/ Interrupted(r)
      PROVE  OpenInv'
  <2>1. UNCHANGED <<pay, push, hooks>>
    BY <1>3 DEF LoadOrder, CheckPriorPayments, GiveUp, Interrupted
  <2>2. \/ pc[r] = "idle" /\ pc' = [pc EXCEPT ![r] = "loaded"]
        \/ pc[r] = "loaded" /\ pc' = [pc EXCEPT ![r] = "checked"]
        \/ pc' = [pc EXCEPT ![r] = "done"]
    BY <1>3 DEF LoadOrder, CheckPriorPayments, GiveUp, Interrupted
  <2> QED
    BY <2>1, <2>2 DEF OpenInv, AttemptUntouched, LinkedHook, SentIsPending, OnePending
<1>4. ASSUME NEW r \in Runs, ConfirmCashOnDelivery(r) \/ RecordAttempt(r) PROVE OpenInv'
  BY <1>4, CreateKeepsOpen DEF ConfirmCashOnDelivery, RecordAttempt
<1>5. ASSUME NEW r \in Runs, GatewayAccepts(r) PROVE OpenInv'
  <2>1. /\ pc[r] = "recorded" /\ pc' = [pc EXCEPT ![r] = "accepted"]
        /\ push' = [push EXCEPT ![r] = "sent"] /\ UNCHANGED <<pay, hooks>>
    BY <1>5 DEF GatewayAccepts, Unhidden
  <2> QED
    BY <2>1 DEF OpenInv, AttemptUntouched, LinkedHook, SentIsPending, OnePending
<1>6. ASSUME NEW r \in Runs, GatewayRefuses(r) PROVE OpenInv'
  BY <1>6 DEF GatewayRefuses, FreshPush, OpenInv, AttemptUntouched, LinkedHook, SentIsPending,
              OnePending
<1>7. ASSUME NEW r \in Runs, SaveResult(r) PROVE OpenInv'
  <2>1. UNCHANGED <<push, hooks>> /\ pc' = [pc EXCEPT ![r] = "done"]
    BY <1>7 DEF SaveResult
  <2>2. \A q \in Runs : q # r => pay'[q] = pay[q]
    BY <1>7 DEF SaveResult
  <2>3. \/ pc[r] = "accepted" /\ pay' = [pay EXCEPT ![r].linked = TRUE]
        \/ pc[r] = "refused" /\ pay' = [pay EXCEPT ![r].status = "failed"]
    BY <1>7 DEF SaveResult
  <2>4. \/ pay'[r].status = pay[r].status
        \/ pay'[r].status = "failed" /\ push[r] = "none"
    <3>1. CASE pc[r] = "accepted" /\ pay' = [pay EXCEPT ![r].linked = TRUE]
      BY <3>1, PaymentFields
    <3>2. CASE pc[r] = "refused" /\ pay' = [pay EXCEPT ![r].status = "failed"]
      BY <3>2, PaymentFields DEF OpenInv, AttemptUntouched, PaymentStatus
    <3> QED
      BY <2>3, <3>1, <3>2
  <2>5. \A h \in hooks : h.row \in Runs /\ h.row # r
    BY <2>3 DEF Hooks, OpenInv, AttemptUntouched, LinkedHook
  <2>6. AttemptUntouched' /\ LinkedHook'
    BY <2>1, <2>2, <2>5 DEF OpenInv, AttemptUntouched, LinkedHook
  <2>7. SentIsPending' /\ OnePending'
    BY <2>1, <2>2, <2>4 DEF OpenInv, SentIsPending, OnePending
  <2> QED
    BY <2>6, <2>7 DEF OpenInv
<1>8. ASSUME NEW r \in Runs, GatewayMoves(r) PROVE OpenInv'
  <2>1. PICK raw \in RawStatus : /\ <<push[r], raw>> \in GatewayMove
                                /\ push' = [push EXCEPT ![r] = raw]
                                /\ UNCHANGED <<pay, pc, hooks>>
    BY <1>8 DEF GatewayMoves
  <2>2. raw # "sent" /\ push[r] # "none"
    BY <2>1 DEF GatewayMove
  <2> QED
    BY <2>1, <2>2 DEF OpenInv, AttemptUntouched, LinkedHook, SentIsPending, OnePending
<1>9. ASSUME NEW h \in hooks, SettleCallback(h) \/ SettleUnseen(h) PROVE OpenInv'
  BY <1>9, SettleKeepsOpen DEF SettleCallback, SettleUnseen, EndHook
<1>10. ASSUME NEW r \in Runs, SaveAborts(r) PROVE FALSE
  BY <1>10 DEF SaveAborts, Unhidden
<1> QED
  BY <1>1, <1>2, <1>3, <1>4, <1>5, <1>6, <1>7, <1>8, <1>9, <1>10
     DEF Next, RunStep, vars, ChooseMethod, CompleteOrder, SettleAborts, EndHook

\* The customer never has two live prompts for one order, however many handlers
\* overlap and however often or late Paynow posts, as long as no answer of Paynow
\* is lost and no transaction aborts after the call.
THEOREM OneLivePrompt ==
  ASSUME Unhidden
  PROVE  Spec => []OneOpenPush
<1>1. Init => ExactRow /\ OpenInv
  BY DEF Init, ExactRow, OpenInv, AttemptUntouched, LinkedHook, SentIsPending, OnePending,
         PendingRow, NoPayment
<1>2. TypeOK /\ ExactRow /\ [Next]_vars => ExactRow'
  BY ExactStep DEF Unhidden
<1>3. TypeOK /\ FreshPush /\ PostsTruthful /\ ExactRow /\ OpenInv /\ [Next]_vars => OpenInv'
  BY OpenStep
<1>4. OpenInv => OneOpenPush
  BY DEF OpenInv, SentIsPending, OnePending, OneOpenPush
<1> QED
  BY <1>1, <1>2, <1>3, <1>4, Truth, PTL DEF Spec

(***************************************************************************)
(* A confirmed order has money or a cash document behind it.               *)
(***************************************************************************)

\* A run has no cash document before it has passed the guard.
CashAfterCheck == \A r \in Runs : pc[r] \in {"idle", "loaded", "checked"} => ~ pay[r].cash

BackedInv == CashAfterCheck /\ ConfirmedIsBacked

\* Money that was taken stays taken, and a cash document stays one.
Kept == \A r \in Runs : /\ push[r] \in EverPaid => push'[r] \in EverPaid
                        /\ pay[r].cash => pay'[r].cash

\* A settlement leaves the kind of every document alone, and confirms the order
\* only on a post of money that has left the wallet.
LEMMA SettleBacks ==
  ASSUME NEW h \in hooks, TypeOK, PostsTruthful, SettleRow(h.row, mapStatus(h.post.raw))
  PROVE  /\ \A r \in Runs : pay'[r].cash = pay[r].cash
         /\ order'.status = "confirmed" => \/ order.status = "confirmed"
                                           \/ \E r \in Runs : push[r] \in EverPaid
<1> USE DEF TypeOK
<1> DEFINE s == mapStatus(h.post.raw)
<1>1. h.row \in Runs /\ h.post.run \in Runs /\ h.post.raw \in RawStatus /\ s \in PaymentStatus
  BY MappedStatus DEF Hooks, Callbacks
<1>2. \A r \in Runs : pay'[r].cash = pay[r].cash
  <2>1. CASE pay' = pay
    BY <2>1
  <2>2. CASE pay' = [pay EXCEPT ![h.row].status = s]
    BY <1>1, <2>2 DEF Payments
  <2> QED
    BY <2>1, <2>2 DEF SettleRow
<1>3. s = "paid" => push[h.post.run] \in EverPaid
  BY <1>1 DEF mapStatus, RawStatus, EverPaid, PostsTruthful, Truthful
<1>4. s # "paid" => order'.status = order.status
  BY <1>1 DEF SettleRow, Orders
<1> QED
  BY <1>1, <1>2, <1>3, <1>4

\* No step confirms an order that nothing backs, or takes away what backs one.
LEMMA BackedStep == TypeOK /\ FreshPush /\ PostsTruthful /\ BackedInv /\ [Next]_vars => BackedInv'
<1> SUFFICES ASSUME TypeOK, FreshPush, PostsTruthful, BackedInv, [Next]_vars PROVE BackedInv'
  OBVIOUS
<1> USE DEF TypeOK, Goto
<1>1. ASSUME Kept,
             order'.status = "confirmed" => \/ order.status = "confirmed"
                                            \/ \E r \in Runs : pay'[r].cash \/ push'[r] \in EverPaid
      PROVE  ConfirmedIsBacked'
  BY <1>1 DEF Kept, BackedInv, ConfirmedIsBacked
<1>2. ASSUME \A r \in Runs : /\ pc'[r] \in {"idle", "loaded", "checked"}
                                => pc[r] \in {"idle", "loaded", "checked"}
                             /\ pay'[r].cash = pay[r].cash
      PROVE  CashAfterCheck'
  BY <1>2 DEF BackedInv, CashAfterCheck
<1>3. ASSUME UNCHANGED <<pay, push>>, order'.status \in {order.status, "completed"},
             \A r \in Runs : pc'[r] \in {"idle", "loaded", "checked"}
                             => pc[r] \in {"idle", "loaded", "checked"}
      PROVE  BackedInv'
  BY <1>1, <1>2, <1>3 DEF Kept, BackedInv
<1>4. ASSUME NEW m \in Methods, ChooseMethod(m) PROVE BackedInv'
  BY <1>3, <1>4 DEF ChooseMethod, Orders
<1>5. ASSUME CompleteOrder PROVE BackedInv'
  BY <1>3, <1>5 DEF CompleteOrder, Orders
<1>6. ASSUME NEW r \in Runs, ConfirmCashOnDelivery(r) PROVE BackedInv'
  <2>1. /\ pc[r] = "checked" /\ pc' = [pc EXCEPT ![r] = "done"] /\ push' = push
        /\ pay' = [pay EXCEPT ![r] = [status |-> "pending", cash |-> TRUE, linked |-> FALSE]]
    BY <1>6 DEF ConfirmCashOnDelivery, CreatePayment
  <2>2. pay'[r].cash /\ \A q \in Runs : q # r => pay'[q] = pay[q]
    BY <2>1
  <2> QED
    BY <2>1, <2>2 DEF BackedInv, CashAfterCheck, ConfirmedIsBacked
<1>7. ASSUME NEW r \in Runs, RecordAttempt(r) PROVE BackedInv'
  <2>1. /\ pc[r] = "checked" /\ pc' = [pc EXCEPT ![r] = "recorded"] /\ UNCHANGED <<push, order>>
        /\ pay' = [pay EXCEPT ![r] = [status |-> "pending", cash |-> FALSE, linked |-> FALSE]]
    BY <1>7 DEF RecordAttempt, CreatePayment
  <2>2. ~ pay[r].cash
    BY <2>1 DEF BackedInv, CashAfterCheck
  <2>3. \A q \in Runs : pay'[q].cash = pay[q].cash
    BY <2>1, <2>2 DEF Payments
  <2> QED
    BY <1>1, <1>2, <2>1, <2>3 DEF Kept, BackedInv
<1>8. ASSUME NEW r \in Runs, LoadOrder(r) \/ CheckPriorPayments(r) \/ GiveUp(r) \/ GatewayRefuses(r)
                             \/ Interrupted(r)
      PROVE  BackedInv'
  <2>1. UNCHANGED <<pay, push, order>>
    BY <1>8 DEF LoadOrder, CheckPriorPayments, GiveUp, GatewayRefuses, Interrupted
  <2>2. \A q \in Runs : pc'[q] \in {"idle", "loaded", "checked"}
                        => pc[q] \in {"idle", "loaded", "checked"}
    BY <1>8 DEF LoadOrder, CheckPriorPayments, GiveUp, GatewayRefuses, Interrupted
  <2> QED
    BY <1>3, <2>1, <2>2
<1>9. ASSUME NEW r \in Runs, GatewayAccepts(r) \/ GatewayMoves(r) PROVE BackedInv'
  <2>1. UNCHANGED <<pay, order>>
    BY <1>9 DEF GatewayAccepts, GatewayMoves
  <2>2. \A q \in Runs : push[q] \in EverPaid => push'[q] \in EverPaid
    <3>1. CASE GatewayAccepts(r)
      BY <3>1 DEF GatewayAccepts, FreshPush, EverPaid
    <3>2. CASE GatewayMoves(r)
      BY <3>2 DEF GatewayMoves, GatewayMove, EverPaid
    <3> QED
      BY <1>9, <3>1, <3>2
  <2>3. \A q \in Runs : pc'[q] \in {"idle", "loaded", "checked"}
                        => pc[q] \in {"idle", "loaded", "checked"}
    BY <1>9 DEF GatewayAccepts, GatewayMoves
  <2> QED
    BY <1>1, <1>2, <2>1, <2>2, <2>3 DEF Kept, BackedInv
<1>10. ASSUME NEW r \in Runs, SaveResult(r) \/ SaveAborts(r) PROVE BackedInv'
  <2>1. push' = push /\ order'.status = order.status
    BY <1>10, SaveEffect
  <2>2. pc' = [pc EXCEPT ![r] = "done"]
    BY <1>10 DEF SaveResult, SaveAborts
  <2>3. \A q \in Runs : pay'[q].cash = pay[q].cash
    BY <1>10 DEF SaveResult, SaveAborts, Payments
  <2> QED
    BY <1>1, <1>2, <2>1, <2>2, <2>3 DEF Kept, BackedInv
<1>11. ASSUME NEW h \in hooks, SettleRow(h.row, mapStatus(h.post.raw)), UNCHANGED <<pc, push>>
       PROVE  BackedInv'
  <2> HIDE DEF TypeOK
  <2>1. /\ \A r \in Runs : pay'[r].cash = pay[r].cash
        /\ order'.status = "confirmed" => \/ order.status = "confirmed"
                                          \/ \E r \in Runs : push[r] \in EverPaid
    BY <1>11, SettleBacks
  <2> QED
    BY <1>1, <1>2, <1>11, <2>1 DEF Kept, BackedInv
<1>12. ASSUME UNCHANGED <<pay, push, order, pc>> PROVE BackedInv'
  BY <1>3, <1>12
<1> QED
  BY <1>4, <1>5, <1>6, <1>7, <1>8, <1>9, <1>10, <1>11, <1>12
     DEF Next, RunStep, vars, ReceiveCallback, SettleCallback, SettleUnseen, SettleAborts

\* The shop never sees a confirmed order that neither the customer's money nor a
\* cash document stands behind, under every fault of AllFaults.
THEOREM ConfirmedOrdersAreBacked == Spec => []ConfirmedIsBacked
<1>1. Init => BackedInv
  BY DEF Init, BackedInv, CashAfterCheck, ConfirmedIsBacked, NoPayment, NewOrder
<1>2. BackedInv => ConfirmedIsBacked
  BY DEF BackedInv
<1> QED
  BY <1>1, <1>2, Truth, BackedStep, PTL DEF Spec

(***************************************************************************)
(* The customer is thanked once for a payment no outdated write sets back. *)
(***************************************************************************)

\* A document exists from the moment its run passed the guard, and webhooks
\* find only documents that exist.
RowsExist ==
  /\ \A r \in Runs :
       /\ pc[r] \in {"idle", "loaded", "checked"} => pay[r].status = "none"
       /\ pc[r] \in {"recorded", "accepted", "refused"} => pay[r].status # "none"
       /\ pay[r].linked => pay[r].status # "none"
  /\ latest # NoRun => pay[latest].status # "none"
  /\ \A h \in hooks : pay[h.row].status # "none"

\* After the thanks the document stays PAID, or says what Paynow last said of a
\* push whose money went back.
Settled(r) ==
  \/ pay[r].status = "paid" /\ push[r] \in EverPaid
  \/ push[r] \in {"disputed", "refunded"} /\ pay[r].status = mapStatus(push[r])

ThankInv == \A r \in Runs \ setBack : thanked[r] <= 1 /\ (thanked[r] = 1 => Settled(r))

\* No step loses a document, and a webhook finds one that exists.
LEMMA RowsStep == TypeOK /\ RowsExist /\ [Next]_vars => RowsExist'
<1> SUFFICES ASSUME TypeOK, RowsExist, [Next]_vars PROVE RowsExist'
  OBVIOUS
<1> USE RunsAssumption DEF TypeOK, Goto
<1>1. ASSUME NEW r \in Runs, UNCHANGED hooks, latest' \in {latest, r},
             \A q \in Runs : q # r => pay'[q] = pay[q] /\ pc'[q] = pc[q],
             pay[r].status # "none" => pay'[r].status # "none",
             latest' = r /\ latest # r => pay'[r].status # "none",
             pc'[r] \in {"idle", "loaded", "checked"} => pay'[r].status = "none",
             pc'[r] \in {"recorded", "accepted", "refused"} => pay'[r].status # "none",
             pay'[r].linked => pay'[r].status # "none"
      PROVE  RowsExist'
  BY <1>1 DEF RowsExist, Hooks
<1>2. ASSUME NEW r \in Runs, LoadOrder(r) \/ CheckPriorPayments(r) \/ GiveUp(r) \/ GatewayRefuses(r)
                             \/ Interrupted(r) \/ GatewayAccepts(r)
      PROVE  RowsExist'
  <2>1. UNCHANGED <<pay, latest, hooks>>
    BY <1>2 DEF LoadOrder, CheckPriorPayments, GiveUp, GatewayRefuses, Interrupted, GatewayAccepts
  <2>2. \/ pc[r] = "idle" /\ pc' = [pc EXCEPT ![r] = "loaded"]
        \/ pc[r] = "loaded" /\ pc' = [pc EXCEPT ![r] = "checked"]
        \/ pc[r] = "recorded" /\ pc' = [pc EXCEPT ![r] = "refused"]
        \/ pc[r] = "recorded" /\ pc' = [pc EXCEPT ![r] = "accepted"]
        \/ pc' = [pc EXCEPT ![r] = "done"]
    BY <1>2 DEF LoadOrder, CheckPriorPayments, GiveUp, GatewayRefuses, Interrupted, GatewayAccepts
  <2> QED
    BY <2>1, <2>2 DEF RowsExist
<1>3. ASSUME NEW r \in Runs, ConfirmCashOnDelivery(r) \/ RecordAttempt(r) PROVE RowsExist'
  <2>1. /\ UNCHANGED hooks /\ latest' = r /\ pc'[r] \in {"recorded", "done"}
        /\ \A q \in Runs : q # r => pc'[q] = pc[q] /\ pay'[q] = pay[q]
    BY <1>3 DEF ConfirmCashOnDelivery, RecordAttempt, CreatePayment
  <2>2. pay'[r].status = "pending"
    BY <1>3 DEF ConfirmCashOnDelivery, RecordAttempt, CreatePayment
  <2> QED
    BY <1>1, <2>1, <2>2
<1>4. ASSUME NEW r \in Runs, SaveResult(r) \/ SaveAborts(r) PROVE RowsExist'
  <2>1. /\ UNCHANGED <<latest, hooks>> /\ pc[r] \in {"accepted", "refused"} /\ pc'[r] = "done"
        /\ \A q \in Runs : q # r => pay'[q] = pay[q] /\ pc'[q] = pc[q]
    BY <1>4 DEF SaveResult, SaveAborts
  <2>2. pay'[r].status \in {pay[r].status, "failed"} /\ pay[r].status # "none"
    BY <1>4, <2>1, SaveEffect DEF RowsExist
  <2> QED
    BY <1>1, <2>1, <2>2
<1>5. ASSUME NEW c \in callbacks, ReceiveCallback(c) PROVE RowsExist'
  <2>1. PICK r \in FoundRow(c) : hooks' = hooks \cup {[post |-> c, row |-> r]}
    BY <1>5 DEF ReceiveCallback
  <2>2. r \in Runs /\ pay[r].status # "none"
    BY <2>1 DEF FoundRow, RowsExist
  <2> QED
    BY <1>5, <2>1, <2>2 DEF ReceiveCallback, RowsExist
<1>6. ASSUME NEW h \in hooks, SettleRow(h.row, mapStatus(h.post.raw)), hooks' \subseteq hooks,
             UNCHANGED <<latest, pc>>
      PROVE  RowsExist'
  <2>1. mapStatus(h.post.raw) \in PaymentStatus
    BY MappedStatus DEF Hooks, Callbacks
  <2>2. \A r \in Runs : /\ pay'[r].status = IF r = h.row THEN mapStatus(h.post.raw) ELSE pay[r].status
                        /\ pay'[r].linked = pay[r].linked
    BY <1>6, <2>1, SettleStatus
  <2>3. mapStatus(h.post.raw) # "none" /\ pay[h.row].status # "none"
    BY <2>1 DEF RowsExist, PaymentStatus
  <2> QED
    BY <1>6, <2>2, <2>3 DEF RowsExist, Hooks
<1>7. ASSUME UNCHANGED <<pay, pc, latest>>, hooks' \subseteq hooks PROVE RowsExist'
  BY <1>7 DEF RowsExist
<1> QED
  BY <1>2, <1>3, <1>4, <1>5, <1>6, <1>7
     DEF Next, RunStep, vars, ChooseMethod, CompleteOrder, GatewayMoves, SettleCallback,
         SettleUnseen, SettleAborts, EndHook

\* A settlement thanks only for a document that was never thanked for, and
\* leaves what was thanked for settled, or is noted as outdated.
LEMMA SettleThanks ==
  ASSUME NEW h \in hooks, TypeOK, PostsTruthful, ThankInv,
         SettleRow(h.row, mapStatus(h.post.raw)), NoteOutdated(h), UNCHANGED push
  PROVE  ThankInv'
<1> USE DEF TypeOK
<1> DEFINE s == mapStatus(h.post.raw)
           r == h.row
<1>1. r \in Runs /\ s \in PaymentStatus /\ h.post.raw \in RawStatus
  BY MappedStatus DEF Hooks, Callbacks
<1>2. \A q \in Runs : pay'[q].status = IF q = r THEN s ELSE pay[q].status
  BY <1>1, SettleStatus
<1>3. \A q \in Runs : q # r => thanked'[q] = thanked[q]
  BY <1>1 DEF SettleRow
<1>4. setBack \subseteq setBack' /\ (Outdated(h) => r \in setBack')
  BY DEF NoteOutdated
<1>5. ASSUME r \notin setBack' PROVE thanked'[r] <= 1 /\ (thanked'[r] = 1 => Settled(r)')
  <2>1. thanked[r] <= 1 /\ (thanked[r] = 1 => Settled(r))
    BY <1>1, <1>4, <1>5 DEF ThankInv
  <2>2. CASE pay[r].status = s
    <3>1. thanked' = thanked
      BY <2>2 DEF SettleRow
    <3> QED
      BY <1>1, <1>2, <2>1, <2>2, <3>1 DEF Settled
  <2>3. CASE pay[r].status # s
    <3>1. r = h.post.run /\ (pay[r].status = "pending" \/ s = mapStatus(push[r]))
      BY <1>4, <1>5, <2>3 DEF Outdated
    <3>2. s = "paid" => push[r] \in EverPaid
      BY <1>1, <3>1 DEF PostsTruthful, Truthful, mapStatus, RawStatus, EverPaid
    <3>3. thanked'[r] = IF s = "paid" /\ thanked[r] < 2 THEN thanked[r] + 1 ELSE thanked[r]
      BY <1>1, <2>3 DEF SettleRow
    <3>4. CASE thanked[r] = 1
      <4>1. pay[r].status # "pending"
        BY <1>1, <2>1, <3>4 DEF Settled, mapStatus
      <4>2. s = mapStatus(push[r]) /\ push[r] \in EverPaid
        BY <2>1, <3>1, <3>4, <4>1 DEF Settled, EverPaid
      <4>3. pay[r].status = "paid" /\ s # "paid"
        BY <2>1, <2>3, <3>4, <4>2 DEF Settled
      <4>4. push[r] \in {"disputed", "refunded"}
        BY <4>2, <4>3 DEF EverPaid, mapStatus
      <4> QED
        BY <1>1, <1>2, <3>3, <3>4, <4>2, <4>3, <4>4 DEF Settled
    <3>5. CASE thanked[r] # 1
      <4>1. thanked[r] = 0
        BY <1>1, <2>1, <3>5
      <4>2. thanked'[r] = IF s = "paid" THEN 1 ELSE 0
        BY <3>3, <4>1
      <4> QED
        BY <1>1, <1>2, <3>2, <4>2 DEF Settled
    <3> QED
      BY <3>4, <3>5
  <2> QED
    BY <2>2, <2>3
<1>6. ASSUME NEW q \in Runs \ setBack', q # r PROVE thanked'[q] <= 1 /\ (thanked'[q] = 1 => Settled(q)')
  BY <1>2, <1>3, <1>4, <1>6 DEF ThankInv, Settled
<1> QED
  BY <1>5, <1>6 DEF ThankInv

\* No step undoes what was thanked for, or brings a second thanks within reach,
\* without noting the document as set back.
LEMMA ThankStep ==
  TypeOK /\ FreshPush /\ PostsTruthful /\ RowsExist /\ ThankInv /\ [Next]_vars => ThankInv'
<1> SUFFICES ASSUME TypeOK, FreshPush, PostsTruthful, RowsExist, ThankInv, [Next]_vars
             PROVE  ThankInv'
  OBVIOUS
<1> USE DEF TypeOK
<1>1. ASSUME UNCHANGED <<push, thanked>>, setBack \subseteq setBack',
             \A r \in Runs \ setBack' : pay'[r].status = pay[r].status \/ ~ Settled(r)
      PROVE  ThankInv'
  BY <1>1 DEF ThankInv, Settled
<1>2. ASSUME NEW r \in Runs, ConfirmCashOnDelivery(r) \/ RecordAttempt(r) PROVE ThankInv'
  <2>1. /\ UNCHANGED <<push, thanked, setBack>> /\ pc[r] = "checked"
        /\ \A q \in Runs : q # r => pay'[q] = pay[q]
    BY <1>2 DEF ConfirmCashOnDelivery, RecordAttempt, CreatePayment
  <2>2. ~ Settled(r)
    BY <2>1 DEF RowsExist, Settled, mapStatus
  <2> QED
    BY <1>1, <2>1, <2>2
<1>3. ASSUME NEW r \in Runs, SaveResult(r) \/ SaveAborts(r) PROVE ThankInv'
  <2>1. /\ UNCHANGED <<push, thanked>> /\ NoteGivenUp(r)
        /\ \A q \in Runs : q # r => pay'[q] = pay[q]
    BY <1>3 DEF SaveResult, SaveAborts
  <2>2. pay'[r].status \in {pay[r].status, "failed"}
    BY <1>3, SaveEffect
  <2>3. setBack \subseteq setBack'
    BY <2>1 DEF NoteGivenUp
  <2>4. r \notin setBack' => pay'[r].status = pay[r].status \/ pay[r].status = "pending"
    BY <2>1, <2>2 DEF NoteGivenUp
  <2>5. pay[r].status = "pending" => ~ Settled(r)
    BY DEF Settled, mapStatus
  <2> QED
    BY <1>1, <2>1, <2>3, <2>4, <2>5
<1>4. ASSUME NEW r \in Runs, GatewayAccepts(r) PROVE ThankInv'
  <2>1. /\ UNCHANGED <<pay, thanked, setBack>> /\ push[r] = "none"
        /\ \A q \in Runs : q # r => push'[q] = push[q]
    BY <1>4 DEF GatewayAccepts, FreshPush
  <2>2. ~ Settled(r)
    BY <2>1 DEF Settled, EverPaid
  <2> QED
    BY <2>1, <2>2 DEF ThankInv, Settled
<1>5. ASSUME NEW r \in Runs, GatewayMoves(r) PROVE ThankInv'
  <2>1. PICK raw \in RawStatus : /\ <<push[r], raw>> \in GatewayMove
                                /\ push' = [push EXCEPT ![r] = raw]
                                /\ UNCHANGED <<pay, thanked, setBack>>
    BY <1>5 DEF GatewayMoves
  <2>2. push[r] \notin {"disputed", "refunded"} /\ (push[r] \in EverPaid => raw \in EverPaid)
    BY <2>1 DEF GatewayMove, EverPaid
  <2> QED
    BY <2>1, <2>2 DEF ThankInv, Settled
<1>6. ASSUME NEW h \in hooks, SettleCallback(h) \/ SettleUnseen(h) PROVE ThankInv'
  BY <1>6, SettleThanks DEF SettleCallback, SettleUnseen
<1>7. ASSUME UNCHANGED <<pay, push, thanked, setBack>> PROVE ThankInv'
  BY <1>1, <1>7
<1> QED
  BY <1>2, <1>3, <1>4, <1>5, <1>6, <1>7
     DEF Next, RunStep, vars, ChooseMethod, CompleteOrder, LoadOrder, CheckPriorPayments, GiveUp,
         GatewayRefuses, Interrupted, ReceiveCallback, SettleAborts

\* The customer is thanked once for a payment, however many webhook executions
\* overlap and under every fault of AllFaults, unless an outdated write has set
\* the document back.
THEOREM ThankedOncePerPayment == Spec => []ThankedOnce
<1>1. Init => RowsExist /\ ThankInv
  BY DEF Init, RowsExist, ThankInv, NoPayment
<1>2. ThankInv => ThankedOnce
  BY DEF ThankInv, ThankedOnce
<1> QED
  BY <1>1, <1>2, Truth, RowsStep, ThankStep, PTL DEF Spec

(***************************************************************************)
(* The handlers keep the ledger of PaymentLedger.                          *)
(***************************************************************************)

\* An attempt is on record from the moment its run passed the guard: before a
\* push, before a poll URL, and for good.
OnRecord ==
  \A r \in Runs :
    /\ pc[r] \in {"idle", "loaded", "checked"} => pay[r].status = "none"
    /\ pc[r] \in {"recorded", "accepted", "refused"} => pay[r].status # "none"
    /\ push[r] # "none" \/ pay[r].linked => pay[r].status # "none"

LedgerInv == TypeOK /\ FreshPush /\ PostsTruthful /\ ExactRow /\ LinkedHook /\ OnRecord

\* A settlement leaves every other document alone and takes none off the record.
LEMMA SettleOnRecord ==
  ASSUME NEW h \in hooks, LedgerInv, SettleRow(h.row, mapStatus(h.post.raw)),
         hooks' \subseteq hooks, UNCHANGED <<pc, push>>
  PROVE  LinkedHook' /\ OnRecord'
<1>1. mapStatus(h.post.raw) \in PaymentStatus
  BY MappedStatus DEF LedgerInv, TypeOK, Hooks, Callbacks
<1>2. \A r \in Runs : /\ pay'[r].status = IF r = h.row THEN mapStatus(h.post.raw) ELSE pay[r].status
                      /\ pay'[r].linked = pay[r].linked
  BY <1>1, SettleStatus DEF LedgerInv
<1>3. h.row \in Runs /\ pay[h.row].linked /\ mapStatus(h.post.raw) # "none"
  BY <1>1 DEF LedgerInv, TypeOK, Hooks, LinkedHook, PaymentStatus
<1>4. LinkedHook'
  BY <1>2 DEF LedgerInv, TypeOK, Hooks, LinkedHook
<1>5. OnRecord'
  BY <1>2, <1>3 DEF LedgerInv, OnRecord
<1> QED
  BY <1>4, <1>5

\* What the ledger's refinement rests on is kept by every step.
LEMMA RecordStep ==
  ASSUME "url_omitted" \notin Faults
  PROVE  LedgerInv /\ [Next]_vars => LinkedHook' /\ OnRecord'
<1> SUFFICES ASSUME LedgerInv, TypeOK, [Next]_vars PROVE LinkedHook' /\ OnRecord'
  BY DEF LedgerInv
<1> USE DEF TypeOK, Goto
<1>1. ASSUME NEW r \in Runs, UNCHANGED <<push, hooks>>,
             \A q \in Runs : q # r => pay'[q] = pay[q] /\ pc'[q] = pc[q],
             pay[r].linked => pay'[r].linked,
             pc'[r] \in {"idle", "loaded", "checked"} => pay'[r].status = "none",
             pc'[r] \in {"recorded", "accepted", "refused"} => pay'[r].status # "none",
             push[r] # "none" \/ pay'[r].linked => pay'[r].status # "none"
      PROVE  LinkedHook' /\ OnRecord'
  BY <1>1 DEF LedgerInv, LinkedHook, OnRecord, Hooks
<1>2. ASSUME NEW r \in Runs, LoadOrder(r) \/ CheckPriorPayments(r) \/ GiveUp(r) \/ GatewayRefuses(r)
                             \/ Interrupted(r)
      PROVE  LinkedHook' /\ OnRecord'
  <2>1. UNCHANGED <<pay, push, hooks>>
    BY <1>2 DEF LoadOrder, CheckPriorPayments, GiveUp, GatewayRefuses, Interrupted
  <2>2. \/ pc[r] = "idle" /\ pc' = [pc EXCEPT ![r] = "loaded"]
        \/ pc[r] = "loaded" /\ pc' = [pc EXCEPT ![r] = "checked"]
        \/ pc[r] = "recorded" /\ pc' = [pc EXCEPT ![r] = "refused"]
        \/ pc' = [pc EXCEPT ![r] = "done"]
    BY <1>2 DEF LoadOrder, CheckPriorPayments, GiveUp, GatewayRefuses, Interrupted
  <2> QED
    BY <2>1, <2>2 DEF LedgerInv, LinkedHook, OnRecord
<1>3. ASSUME NEW r \in Runs, ConfirmCashOnDelivery(r) \/ RecordAttempt(r)
      PROVE  LinkedHook' /\ OnRecord'
  <2>1. UNCHANGED <<push, hooks>> /\ pc[r] = "checked" /\ pc'[r] \in {"recorded", "done"}
        /\ \A q \in Runs : q # r => pc'[q] = pc[q]
    BY <1>3 DEF ConfirmCashOnDelivery, RecordAttempt
  <2>2. pay'[r].status = "pending" /\ \A q \in Runs : q # r => pay'[q] = pay[q]
    BY <1>3 DEF ConfirmCashOnDelivery, RecordAttempt, CreatePayment
  <2>3. ~ pay[r].linked
    BY <2>1 DEF LedgerInv, OnRecord
  <2> QED
    BY <1>1, <2>1, <2>2, <2>3
<1>4. ASSUME NEW r \in Runs, SaveResult(r) \/ SaveAborts(r) PROVE LinkedHook' /\ OnRecord'
  <2>1. /\ UNCHANGED <<push, hooks>> /\ pc[r] \in {"accepted", "refused"} /\ pc'[r] = "done"
        /\ \A q \in Runs : q # r => pay'[q] = pay[q] /\ pc'[q] = pc[q]
    BY <1>4 DEF SaveResult, SaveAborts
  <2>2. pay'[r].status \in {pay[r].status, "failed"}
    BY <1>4, SaveEffect DEF LedgerInv
  <2>3. pay[r].status # "none"
    BY <2>1 DEF LedgerInv, OnRecord
  <2>4. pay[r].linked => pay'[r].linked
    BY <1>4 DEF SaveResult, SaveAborts, LedgerInv, Payments
  <2> QED
    BY <1>1, <2>1, <2>2, <2>3, <2>4
<1>5. ASSUME NEW r \in Runs, GatewayAccepts(r) \/ GatewayMoves(r) PROVE LinkedHook' /\ OnRecord'
  <2>1. UNCHANGED <<pay, hooks>> /\ \A q \in Runs : q # r => push'[q] = push[q]
    BY <1>5 DEF GatewayAccepts, GatewayMoves, LedgerInv
  <2>2. push[r] # "none" \/ pc[r] = "recorded"
    BY <1>5 DEF GatewayAccepts, GatewayMoves, GatewayMove
  <2>3. \A q \in Runs : \/ pc'[q] = pc[q]
                        \/ pc[q] = "recorded" /\ pc'[q] \in {"accepted", "refused"}
    BY <1>5 DEF GatewayAccepts, GatewayMoves, LedgerInv
  <2> QED
    BY <2>1, <2>2, <2>3 DEF LedgerInv, LinkedHook, OnRecord
<1>6. ASSUME NEW c \in callbacks, ReceiveCallback(c) PROVE LinkedHook' /\ OnRecord'
  BY <1>6 DEF ReceiveCallback, FoundRow, LedgerInv, LinkedHook, OnRecord
<1>7. ASSUME NEW h \in hooks, SettleCallback(h) \/ SettleUnseen(h) PROVE LinkedHook' /\ OnRecord'
  BY <1>7, SettleOnRecord DEF SettleCallback, SettleUnseen, EndHook
<1>8. ASSUME UNCHANGED <<pay, pc, push>>, hooks' \subseteq hooks PROVE LinkedHook' /\ OnRecord'
  BY <1>8 DEF LedgerInv, LinkedHook, OnRecord
<1> QED
  BY <1>2, <1>3, <1>4, <1>5, <1>6, <1>7, <1>8
     DEF Next, RunStep, vars, ChooseMethod, CompleteOrder, SettleAborts, EndHook

\* The ledger's view of the handlers' state.
RowOf    == [r \in Runs |-> pay[r].status]
ChargedBy == {r \in Runs : push[r] \in EverPaid}

\* A step that changes no status, no order status and no charge is none of the
\* ledger's.
LEMMA LedgerStutter ==
  ASSUME order'.status = order.status,
         \A r \in Runs : /\ pay'[r].status = pay[r].status
                         /\ push'[r] \in EverPaid <=> push[r] \in EverPaid
  PROVE  UNCHANGED Ledger!vars
<1>1. RowOf' = RowOf /\ ChargedBy' = ChargedBy
  BY DEF RowOf, ChargedBy
<1> QED
  BY <1>1 DEF Ledger!vars, RowOf, ChargedBy

\* One document takes one status: the row of the ledger does.
LEMMA LedgerRow ==
  ASSUME NEW r \in Runs, NEW s,
         \A q \in Runs : pay'[q].status = IF q = r THEN s ELSE pay[q].status
  PROVE  RowOf' = [RowOf EXCEPT ![r] = s]
BY DEF RowOf

\* A settlement is the ledger's Pay, Fail, Refund or Reopen, or nothing.
LEMMA SettleSimulates ==
  ASSUME NEW h \in hooks, LedgerInv, SettleRow(h.row, mapStatus(h.post.raw)), UNCHANGED push
  PROVE  [Ledger!Next]_(Ledger!vars)
<1> DEFINE r == h.row
           s == mapStatus(h.post.raw)
<1>1. /\ TypeOK /\ r \in Runs /\ s \in PaymentStatus /\ h.post.raw \in RawStatus /\ r = h.post.run
      /\ pay[r].status # "none"
  BY MappedStatus DEF LedgerInv, TypeOK, Hooks, Callbacks, ExactRow, LinkedHook, OnRecord
<1>2. \A q \in Runs : pay'[q].status = IF q = r THEN s ELSE pay[q].status
  BY <1>1, SettleStatus
<1>3. CASE pay[r].status = s
  <2>1. order' = order /\ pay' = pay
    BY <1>3 DEF SettleRow
  <2> QED
    BY <2>1, LedgerStutter
<1>4. CASE pay[r].status # s
  <2>1. RowOf' = [RowOf EXCEPT ![r] = s] /\ RowOf[r] = pay[r].status /\ ChargedBy' = ChargedBy
    BY <1>1, <1>2, LedgerRow DEF RowOf, ChargedBy
  <2>2. order'.status = IF s = "paid" THEN "confirmed" ELSE order.status
    BY <1>1, <1>4 DEF SettleRow, TypeOK, Orders
  <2>3. s \in {"paid", "refunded"} => r \in ChargedBy
    BY <1>1 DEF LedgerInv, PostsTruthful, Truthful, mapStatus, RawStatus, EverPaid, ChargedBy
  <2>4. s = "pending" => \A q \in Runs : RowOf[q] # "pending"
    BY <1>1, <1>4 DEF SettleRow, IndexAllows, PendingRow, RowOf
  <2>5. CASE s = "paid"
    <3>1. Ledger!Pay(r)
      BY <1>1, <1>4, <2>1, <2>2, <2>3, <2>5 DEF Ledger!Pay, RowOf, ChargedBy
    <3> QED
      BY <1>1, <3>1 DEF Ledger!Next
  <2>6. CASE s = "failed"
    <3>1. Ledger!Fail(r)
      BY <1>1, <2>1, <2>2, <2>6 DEF Ledger!Fail, RowOf, ChargedBy
    <3> QED
      BY <1>1, <3>1 DEF Ledger!Next
  <2>7. CASE s = "refunded"
    <3>1. Ledger!Refund(r)
      BY <2>1, <2>2, <2>3, <2>7 DEF Ledger!Refund, RowOf, ChargedBy
    <3> QED
      BY <1>1, <3>1 DEF Ledger!Next
  <2>8. CASE s = "pending"
    <3>1. Ledger!Reopen(r)
      BY <1>1, <2>1, <2>2, <2>4, <2>8 DEF Ledger!Reopen, Ledger!NoneOpen, RowOf, ChargedBy
    <3> QED
      BY <1>1, <3>1 DEF Ledger!Next
  <2> QED
    BY <1>1, <2>5, <2>6, <2>7, <2>8 DEF PaymentStatus
<1> QED
  BY <1>3, <1>4

\* Every step of the handlers, of Paynow and of the shop is a step of the ledger
\* or leaves it as it is.
LEMMA LedgerStep == LedgerInv /\ [Next]_vars => [Ledger!Next]_(Ledger!vars)
<1> SUFFICES ASSUME LedgerInv, TypeOK, [Next]_vars PROVE [Ledger!Next]_(Ledger!vars)
  BY DEF LedgerInv
<1> USE DEF TypeOK, Goto
<1>1. ASSUME UNCHANGED <<pay, push>>, order'.status = order.status PROVE UNCHANGED Ledger!vars
  BY <1>1, LedgerStutter
<1>2. ASSUME NEW m \in Methods, ChooseMethod(m) PROVE UNCHANGED Ledger!vars
  BY <1>1, <1>2 DEF ChooseMethod, Orders
<1>3. ASSUME CompleteOrder PROVE Ledger!Complete
  BY <1>3 DEF CompleteOrder, Ledger!Complete, Orders
<1>4. ASSUME NEW r \in Runs, ConfirmCashOnDelivery(r) \/ RecordAttempt(r) PROVE Ledger!Open(r)
  <2>1. pc[r] = "checked" /\ push' = push /\ IndexAllows(r)
    BY <1>4 DEF ConfirmCashOnDelivery, RecordAttempt, CreatePayment
  <2>2. \A q \in Runs : pay'[q].status = IF q = r THEN "pending" ELSE pay[q].status
    BY <1>4 DEF ConfirmCashOnDelivery, RecordAttempt, CreatePayment
  <2>3. order'.status \in {order.status, "confirmed"}
    BY <1>4 DEF ConfirmCashOnDelivery, RecordAttempt, Written, Orders
  <2>4. RowOf' = [RowOf EXCEPT ![r] = "pending"] /\ ChargedBy' = ChargedBy
    BY <2>1, <2>2, LedgerRow DEF ChargedBy
  <2>5. RowOf[r] = "none" /\ \A q \in Runs : RowOf[q] # "pending"
    BY <2>1 DEF LedgerInv, OnRecord, IndexAllows, PendingRow, RowOf
  <2> QED
    BY <2>3, <2>4, <2>5 DEF Ledger!Open, Ledger!NoneOpen, RowOf, ChargedBy
<1>5. ASSUME NEW r \in Runs, SaveResult(r) \/ SaveAborts(r) PROVE Ledger!Fail(r) \/ UNCHANGED Ledger!vars
  <2>1. push' = push /\ order'.status = order.status /\ pay'[r].status \in {pay[r].status, "failed"}
    BY <1>5, SaveEffect
  <2>2. pay[r].status # "none" /\ \A q \in Runs : q # r => pay'[q] = pay[q]
    BY <1>5 DEF SaveResult, SaveAborts, LedgerInv, OnRecord
  <2>3. CASE pay'[r].status = pay[r].status
    BY <2>1, <2>2, <2>3, LedgerStutter
  <2>4. CASE pay'[r].status = "failed"
    <3>1. RowOf' = [RowOf EXCEPT ![r] = "failed"] /\ ChargedBy' = ChargedBy /\ RowOf[r] # "none"
      BY <2>1, <2>2, <2>4, LedgerRow DEF ChargedBy, RowOf
    <3> QED
      BY <2>1, <3>1 DEF Ledger!Fail, RowOf, ChargedBy
  <2> QED
    BY <2>1, <2>3, <2>4
<1>6. ASSUME NEW r \in Runs, GatewayAccepts(r) PROVE UNCHANGED Ledger!vars
  <2>1. UNCHANGED <<pay, order>> /\ push' = [push EXCEPT ![r] = "sent"] /\ push[r] = "none"
    BY <1>6 DEF GatewayAccepts, LedgerInv, FreshPush
  <2> QED
    BY <2>1, LedgerStutter DEF EverPaid
<1>7. ASSUME NEW r \in Runs, GatewayMoves(r) PROVE Ledger!Charge(r) \/ UNCHANGED Ledger!vars
  <2>1. PICK raw \in RawStatus : /\ <<push[r], raw>> \in GatewayMove
                                /\ push' = [push EXCEPT ![r] = raw]
                                /\ UNCHANGED <<pay, order>>
    BY <1>7 DEF GatewayMoves
  <2>2. push[r] # "none" /\ pay[r].status # "none"
    BY <2>1 DEF GatewayMove, LedgerInv, OnRecord
  <2>3. CASE raw = "paid"
    <3>1. ChargedBy' = ChargedBy \cup {r} /\ RowOf' = RowOf /\ RowOf[r] # "none"
      BY <2>1, <2>2, <2>3 DEF ChargedBy, RowOf, EverPaid
    <3> QED
      BY <2>1, <3>1 DEF Ledger!Charge, RowOf, ChargedBy
  <2>4. CASE raw # "paid"
    BY <2>1, <2>4, LedgerStutter DEF GatewayMove, EverPaid
  <2> QED
    BY <2>3, <2>4
<1>8. ASSUME NEW h \in hooks, SettleCallback(h) \/ SettleUnseen(h) PROVE [Ledger!Next]_(Ledger!vars)
  BY <1>8, SettleSimulates DEF SettleCallback, SettleUnseen
<1> QED
  BY <1>1, <1>2, <1>3, <1>4, <1>5, <1>6, <1>7, <1>8
     DEF Next, RunStep, vars, LoadOrder, CheckPriorPayments, GiveUp, GatewayRefuses, Interrupted,
         ReceiveCallback, SettleAborts, Ledger!Next

\* The handlers, with whatever overlaps, aborts, repeats and gets lost, keep the
\* ledger of PaymentLedger, as long as posts name their push.
THEOREM HandlersKeepLedger ==
  ASSUME "url_omitted" \notin Faults
  PROVE  Spec => ImplementsLedger
<1>1. Init => Ledger!Init
  BY DEF Init, Ledger!Init, NoPayment, NewOrder, EverPaid
<1>2. Init => ExactRow /\ LinkedHook /\ OnRecord
  BY DEF Init, ExactRow, LinkedHook, OnRecord, NoPayment
<1>3. TypeOK /\ ExactRow /\ [Next]_vars => ExactRow'
  BY ExactStep
<1>4. LedgerInv /\ [Next]_vars => LinkedHook' /\ OnRecord'
  BY RecordStep
<1>5. LedgerInv <=> TypeOK /\ FreshPush /\ PostsTruthful /\ ExactRow /\ LinkedHook /\ OnRecord
  BY DEF LedgerInv
<1>6. Spec => []LedgerInv
  BY <1>2, <1>3, <1>4, <1>5, Truth, PTL DEF Spec
<1> QED
  BY <1>1, <1>6, LedgerStep, PTL DEF Spec, ImplementsLedger, Ledger!Spec

=============================================================================
