------------------------------- MODULE Checkout -------------------------------
(***************************************************************************)
(* From a cart to an order that can be charged or delivered: the cart      *)
(* message becomes an order (whatsapp/whatsappOrderHandler.ts), the form   *)
(* completes it (whatsapp/orderFlowHandler.ts), a door delivery needs a    *)
(* user, an address and a pin (delivery/deliveryAddress.controller.ts,     *)
(* delivery/deliveryFlowHandler.ts).                                       *)
(*                                                                         *)
(* A form and a pin say nothing of the order they are about: they reach it *)
(* through the sender's session, one Redis hash that holds the order       *)
(* number and whether a pin is awaited.  One customer, so one session;     *)
(* their messages are handled side by side, and the process may die.       *)
(* The two writes of the session's unused `items' are left out, and so is  *)
(* the order's convenience pointer to its job.                             *)
(***************************************************************************)
EXTENDS Naturals, FiniteSets, FiniteSetsExt

CONSTANTS
  Carts,      \* the carts the customer submits; the form sent for c is called c too
  Lines,      \* Lines[c]: the amounts of c's lines
  Numbers,    \* the order numbers there is time for (ORD-<milliseconds>)
  Workers,    \* messages in progress at a time
  Nothing,    \* no cart, no number, no address
  MaxForms,   \* bound on submitted forms
  MaxEvents   \* bound on failures, crashes and expired sessions together

ASSUME LineAssumption    == \A c \in Carts : Lines[c] \subseteq Nat \ {0} /\ IsFiniteSet(Lines[c])
ASSUME NothingAssumption == Nothing \notin Carts \cup Numbers /\ Nothing \notin Nat

\* What matters of a form: an address comes with door delivery only.  Name and
\* payment details are written with it.
DeliveryMethods == {"collect", "door_delivery"}

\* A form may name no method, or one that is not known.
Methods == DeliveryMethods \cup {"none"}

VARIABLES
  sent,       \* the carts submitted so far
  orders,     \* orders[n]: the order of number n with its lines
  users,      \* how many users the phone has
  addresses,  \* the drop-off addresses: the order they were made for, and the pin
  jobs,       \* jobs[n]: the fulfilment job of n
  session,    \* the Redis hash of the phone
  forms,      \* the forms in the chat, by the cart they were sent for
  submitted,  \* how many forms were submitted
  told,       \* the orders whose pin the customer was told is saved
  due,        \* the orders handed to the payment, each with what its form chose
  at,         \* at[w]: the message w works on
  events

vars == <<sent, orders, users, addresses, jobs, session, forms, submitted, told, due, at, events>>

NoOrder   == [cart |-> Nothing, lines |-> {}, total |-> 0, filledBy |-> Nothing,
              user |-> FALSE]
NoJob     == [method |-> "none", address |-> Nothing]
NoSession == [number |-> Nothing, awaiting |-> FALSE, expires |-> FALSE]
Idle      == [pc |-> "idle", n |-> Nothing, c |-> Nothing, lines |-> {}, total |-> 0,
              method |-> "none", address |-> Nothing]

Init ==
  /\ sent = {} /\ users = 0 /\ submitted = 0 /\ addresses = {} /\ forms = {} /\ told = {} /\ due = {}
  /\ orders = [n \in Numbers |-> NoOrder]
  /\ jobs = [n \in Numbers |-> NoJob]
  /\ session = NoSession
  /\ at = [w \in Workers |-> Idle]
  /\ events = 0

Event == events < MaxEvents /\ events' = events + 1

Goto(w, label) == at' = [at EXCEPT ![w].pc = label]
Finish(w)      == at' = [at EXCEPT ![w] = Idle]

\* Any call to the database may fail: the handler apologises and is done.
Fail(w) == Event /\ Finish(w)

Has(n) == orders[n] # NoOrder

-----------------------------------------------------------------------------
(* The cart.                                                               *)

BeginCart(w, c, n) ==
  /\ at[w].pc = "idle" /\ c \notin sent
  /\ sent' = sent \cup {c}
  /\ at' = [at EXCEPT ![w] = [Idle EXCEPT !.pc = "commit", !.c = c, !.n = n]]
  /\ UNCHANGED <<orders, users, addresses, jobs, session, forms, submitted, told, due, events>>

\* Each line is saved in the transaction, with the product's name if the
\* catalogue has it, and counts towards the total.
SaveLine(w, line) ==
  /\ at[w].pc = "commit" /\ line \in Lines[at[w].c] \ at[w].lines
  /\ at' = [at EXCEPT ![w].lines = @ \cup {line}, ![w].total = @ + line]
  /\ UNCHANGED <<sent, orders, users, addresses, jobs, session, forms, submitted, told, due, events>>

\* Mutant: the order is committed inside the loop.
AnyLineSaved(w) == at[w].lines # {}

AllLinesSaved(w) == at[w].lines = Lines[at[w].c]

\* Mutant: the order is remembered before its transaction is committed.
CommitAfterSession(w) ==
  LET n == at[w].n IN
  /\ at[w].pc = "commit" /\ AllLinesSaved(w) /\ ~Has(n)
  /\ IF session.number # n
       THEN session' = [session EXCEPT !.number = n, !.expires = TRUE] /\ UNCHANGED <<orders, at>>
       ELSE /\ orders' = [orders EXCEPT ![n] = [NoOrder EXCEPT !.cart = at[w].c,
                                                 !.lines = at[w].lines, !.total = at[w].total]]
            /\ Goto(w, "form") /\ UNCHANGED session
  /\ UNCHANGED <<sent, users, addresses, jobs, forms, submitted, told, due, events>>

\* Lines and order are committed together, or aborted together: also when
\* another cart of the same millisecond has taken the number.
CommitOrder(w) ==
  LET n == at[w].n IN
  /\ at[w].pc = "commit"
  /\ \/ /\ AllLinesSaved(w) /\ ~Has(n)
        /\ orders' = [orders EXCEPT ![n] = [NoOrder EXCEPT !.cart = at[w].c,
                                              !.lines = at[w].lines, !.total = at[w].total]]
        /\ Goto(w, "session")
        /\ UNCHANGED events
     \/ AllLinesSaved(w) /\ Has(n) /\ Finish(w) /\ UNCHANGED <<orders, events>>
     \/ Fail(w) /\ UNCHANGED orders
  /\ UNCHANGED <<sent, users, addresses, jobs, session, forms, submitted, told, due>>

\* hSet and expire are two commands, and a failure of either is only logged.
Remember(w, key, value, next) ==
  \/ /\ session' = [session EXCEPT ![key] = value, !.expires = TRUE]
     /\ Goto(w, next)
     /\ UNCHANGED events
  \/ /\ Event
     /\ session' \in {session, [session EXCEPT ![key] = value]}
     /\ Goto(w, next)

RememberOrder(w) ==
  /\ at[w].pc = "session"
  /\ Remember(w, "number", at[w].n, "form")
  /\ UNCHANGED <<sent, orders, users, addresses, jobs, forms, submitted, told, due>>

\* The shop's options are read and the form is sent; a failure here is reported
\* by nobody, the transaction being over.
SendForm(w) ==
  /\ at[w].pc = "form"
  /\ Finish(w)
  /\ \/ forms' = forms \cup {at[w].c} /\ UNCHANGED events
     \/ Event /\ UNCHANGED forms
  /\ UNCHANGED <<sent, orders, users, addresses, jobs, session, submitted, told, due>>

-----------------------------------------------------------------------------
(* The form.                                                               *)

\* EcoCash without a number: the form is only sent again.  No order number in the
\* session, or Redis is down: the customer is asked to start over.
BeginForm(w, f, method) ==
  /\ at[w].pc = "idle" /\ f \in forms /\ submitted < MaxForms
  /\ submitted' = submitted + 1
  /\ session.number # Nothing
  /\ at' = [at EXCEPT ![w] = [Idle EXCEPT !.pc = "order", !.n = session.number, !.c = f,
                                          !.method = method]]
  /\ UNCHANGED <<sent, orders, users, addresses, jobs, session, forms, told, due, events>>

Door(w) == at[w].method = "door_delivery"

LoadOrder(w) ==
  /\ at[w].pc = "order"
  /\ IF ~Has(at[w].n) THEN Finish(w)
     ELSE Goto(w, IF ~Door(w) THEN "save" ELSE IF users = 0 THEN "user" ELSE "existing")
  /\ UNCHANGED <<sent, orders, users, addresses, jobs, session, forms, submitted, told, due, events>>

\* Mutant: no unique index on (tenantId, phoneNumber).
SaveUserAnyway(w) == users' = users + 1 /\ Goto(w, "existing")

\* The user was not there a moment ago; the index on (tenantId, phoneNumber)
\* refuses a second one, and the form's handler apologises.
SaveUser(w) == IF users = 0 THEN users' = users + 1 /\ Goto(w, "existing")
               ELSE Finish(w) /\ UNCHANGED users

resolveUserByPhone(w) ==
  /\ at[w].pc = "user"
  /\ SaveUser(w)
  /\ UNCHANGED <<sent, orders, addresses, jobs, session, forms, submitted, told, due, events>>

ReadJobAddress(w) ==
  /\ at[w].pc = "existing"
  /\ at' = [at EXCEPT ![w].pc = "address", ![w].address = jobs[at[w].n].address]
  /\ UNCHANGED <<sent, orders, users, addresses, jobs, session, forms, submitted, told, due, events>>

\* Mutant: the document is replaced, not updated.
TypedOver(a) == [a EXCEPT !.pin = FALSE]

\* The typed fields of an address change, the pin beside them does not.
Typed(a) == a

\* The address of the job if it had one, a new one otherwise.
resolveDeliveryAddress(w) ==
  LET id  == IF at[w].address # Nothing THEN at[w].address ELSE Cardinality(addresses) + 1
      old == {a \in addresses : a.id = id}
  IN
  /\ at[w].pc = "address"
  /\ \/ /\ addresses' = (addresses \ old) \cup
             (IF old = {} THEN {[id |-> id, n |-> at[w].n, pin |-> FALSE]} ELSE {Typed(a) : a \in old})
        /\ at' = [at EXCEPT ![w].pc = "save", ![w].address = id]
        /\ UNCHANGED events
     \/ Fail(w) /\ UNCHANGED addresses
  /\ UNCHANGED <<sent, orders, users, jobs, session, forms, submitted, told, due>>

\* Where no method was chosen there is no job to save, and the order is charged.
SaveOrder(w) ==
  /\ at[w].pc = "save"
  /\ \/ /\ orders' = [orders EXCEPT ![at[w].n].filledBy = at[w].c,
                                    ![at[w].n].user = @ \/ Door(w)]
        /\ Goto(w, IF at[w].method \in DeliveryMethods THEN "job" ELSE "pay")
        /\ UNCHANGED events
     \/ Fail(w) /\ UNCHANGED orders
  /\ UNCHANGED <<sent, users, addresses, jobs, session, forms, submitted, told, due>>

ensureOrderDelivery(w) ==
  /\ at[w].pc = "job"
  /\ \/ /\ jobs' = [jobs EXCEPT ![at[w].n].method = at[w].method,
                                ![at[w].n].address = IF Door(w) THEN at[w].address ELSE @]
        /\ Goto(w, IF Door(w) THEN "prompt" ELSE "pay")
        /\ UNCHANGED events
     \/ Fail(w) /\ UNCHANGED jobs
  /\ UNCHANGED <<sent, orders, users, addresses, session, forms, submitted, told, due>>

\* The request for a pin is sent; only then is one awaited.
promptForLocation(w) ==
  /\ at[w].pc = "prompt"
  /\ \/ Remember(w, "awaiting", TRUE, "idle")
     \/ Fail(w) /\ UNCHANGED session
  /\ UNCHANGED <<sent, orders, users, addresses, jobs, forms, submitted, told, due>>

Pay(w) ==
  /\ at[w].pc = "pay"
  /\ due' = due \cup {<<at[w].n, at[w].method>>}
  /\ Finish(w)
  /\ UNCHANGED <<sent, orders, users, addresses, jobs, session, forms, submitted, told, events>>

-----------------------------------------------------------------------------
(* The pin.                                                                *)

BeginPin(w) ==
  /\ at[w].pc = "idle" /\ session.awaiting /\ session.number # Nothing
  /\ at' = [at EXCEPT ![w] = [Idle EXCEPT !.pc = "pin", !.n = session.number]]
  /\ UNCHANGED <<sent, orders, users, addresses, jobs, session, forms, submitted, told, due, events>>

\* No job, or a job without an address: the pin is ignored.
LoadAddress(w) ==
  /\ at[w].pc = "pin"
  /\ IF jobs[at[w].n].address = Nothing THEN Finish(w)
     ELSE at' = [at EXCEPT ![w].pc = "gps", ![w].address = jobs[at[w].n].address]
  /\ UNCHANGED <<sent, orders, users, addresses, jobs, session, forms, submitted, told, due, events>>

\* The pin is saved and the customer told so; on a failure a pin is awaited
\* again.  The quote that follows is DeliveryFee's.
SavePin(w) ==
  /\ at[w].pc = "gps"
  /\ Finish(w)
  /\ \/ /\ addresses' = {IF a.id = at[w].address THEN [a EXCEPT !.pin = TRUE] ELSE a : a \in addresses}
        /\ told' = told \cup {at[w].n}
        /\ UNCHANGED <<session, events>>
     \/ /\ Event
        /\ session' = [session EXCEPT !.awaiting = TRUE, !.expires = TRUE]
        /\ UNCHANGED <<addresses, told>>
  /\ UNCHANGED <<sent, orders, users, jobs, forms, submitted, due>>

-----------------------------------------------------------------------------
Expire ==
  /\ session.expires
  /\ Event
  /\ session' = NoSession
  /\ UNCHANGED <<sent, orders, users, addresses, jobs, forms, submitted, told, due, at>>

Crash ==
  /\ Event
  /\ at' = [w \in Workers |-> Idle]
  /\ UNCHANGED <<sent, orders, users, addresses, jobs, session, forms, submitted, told, due>>

Cart(w) == \/ CommitOrder(w) \/ RememberOrder(w) \/ SendForm(w)
           \/ at[w].pc = "commit" /\ \E line \in Lines[at[w].c] : SaveLine(w, line)
Form(w) == \/ LoadOrder(w) \/ resolveUserByPhone(w) \/ ReadJobAddress(w) \/ resolveDeliveryAddress(w)
           \/ SaveOrder(w) \/ ensureOrderDelivery(w) \/ promptForLocation(w) \/ Pay(w)
Pin(w)  == LoadAddress(w) \/ SavePin(w)

Next ==
  \/ \E w \in Workers, c \in Carts, n \in Numbers : BeginCart(w, c, n)
  \/ \E w \in Workers, f \in Carts, m \in Methods : BeginForm(w, f, m)
  \/ \E w \in Workers : BeginPin(w) \/ Cart(w) \/ Form(w) \/ Pin(w)
  \/ Expire \/ Crash

Spec == Init /\ [][Next]_vars

-----------------------------------------------------------------------------
TypeOK ==
  /\ sent \subseteq Carts /\ forms \subseteq Carts
  /\ told \subseteq Numbers /\ due \subseteq Numbers \X Methods
  /\ \A n \in Numbers : /\ orders[n].cart \in Carts \cup {Nothing}
                        /\ orders[n].filledBy \in Carts \cup {Nothing}
                        /\ jobs[n].method \in {"none", "collect", "door_delivery"}
  /\ users \in Nat
  /\ session \in [number : Numbers \cup {Nothing}, awaiting : BOOLEAN, expires : BOOLEAN]

\* An order is there with all its lines and their total, or not at all, wherever
\* the handler of the cart fails or dies (whatsappOrderHandler.ts:56-118).
OrderIsWhole ==
  \A n \in Numbers : Has(n) => /\ orders[n].lines = Lines[orders[n].cart]
                               /\ orders[n].total = SumSet(orders[n].lines)

\* The session never leads a form or a pin to an order that was rolled back
\* (whatsappOrderHandler.ts:119-125); a pin is awaited only once some job has an
\* address to put it in, and the payment gets only orders whose form is saved and,
\* where the form chose a method, whose job is (orderFlowHandler.ts:115-141).
NoStepAhead ==
  /\ session.number # Nothing => Has(session.number)
  /\ session.awaiting => \E n \in Numbers : jobs[n].address # Nothing
  /\ \A n \in Numbers, m \in Methods : <<n, m>> \in due =>
       orders[n].filledBy # Nothing /\ (m \in DeliveryMethods => jobs[n].method # "none")

\* However many forms of a new customer are handled at once, the phone has one
\* user, and an order for the door has its user (deliveryAddress.controller.ts:9-19).
OneUserPerPhone ==
  /\ users <= 1
  /\ \A n \in Numbers : jobs[n].address # Nothing => users = 1 /\ orders[n].user

\* The pin the customer was told is saved stays with the job's address, through
\* further forms and pins, unless two forms at once gave the order two addresses
\* (deliveryFlowHandler.ts:95-107, deliveryAddress.controller.ts:28-62).
PinKept ==
  \A n \in told :
    Cardinality({a \in addresses : a.n = n}) = 1 =>
      \E a \in addresses : a.n = n /\ a.id = jobs[n].address /\ a.pin

\* An order that is charged is on the delivery board ("it is what the shop's
\* delivery board works from", orderFlowHandler.ts:119-121).  Not kept by a form
\* without a method the shop knows.
ChargedIsOnTheBoard ==
  \A n \in Numbers, m \in Methods : <<n, m>> \in due => jobs[n].method # "none"

\* A form completes the order it was sent for: "the Redis session orderNumber
\* still ties the re-submission back to the same order"
\* (whatsappOrderHandler.ts:24-26).  Not kept once a second cart has taken the
\* session over.
FormReachesItsOrder ==
  \A n \in Numbers : orders[n].filledBy \in {Nothing, orders[n].cart}
=============================================================================
