# Formal models of the grocery-shop backend

This directory specifies the parts of the backend where money, orders, messages and
access depend on the order in which independent requests interleave. The models are
written in TLA+, checked on small instances with TLC, and proved about with TLAPS, for
every instance. Source paths below are relative to the repository's `src/`;
`PROJECT.json` gives, for every definition, the lines it was translated from.

## 1. The system

A multi-tenant shop over WhatsApp. Meta posts customers' messages, the server
answers through Meta's API; Paynow charges mobile wallets and posts the outcome;
shops and the platform work through a dashboard whose identities live in
Authentik. MongoDB keeps the documents, Redis the short-lived state. One Node
process runs all requests: **a handler runs alone between two awaits and
interleaves with every other handler at each of them**, and there is no queue, no
lock and no per-order serialisation. Nearly every hazard comes from that.

| Component | State | Operations | Interacts with | What is hard | What makes it correct |
|---|---|---|---|---|---|
| Inbound messages, conversations (`incomingMessages.ts`, `redis.controller.ts`, `whatsapp.utils.ts`) | dedup keys, message log, conversation summary | webhook, rebuild script, dashboard thread | every WhatsApp handler; Meta | acknowledged before handled, redelivery, Redis down, two writes per message | handled at most once, never lost in silence; the thread tells what the log says |
| Order intake and order form (`controllers/whatsapp`, `controllers/delivery`) | Order, items, user, address, job, the Redis session | cart, form, pin | payments, delivery fee | one session for every open form; re-submitted forms; partial failure | orders whole, nothing handed on before it is saved, one user per phone, a pin stays |
| Payments (`controllers/payments`) | Payment documents, the order's status and payment status | `initiateOrderPayment`, the Paynow webhook | order form, delivery fee (callers); Paynow; fulfilment (shares the order) | overlapping runs, lost answers, repeated and reordered posts, aborted transactions | one live prompt; document and order settle together; money only where it was taken; thanked once unless set back |
| Delivery fee (`controllers/delivery/deliveryQuote…`) | quote, fee and latch on the job; the order's total | pin, manual fee, Confirm & pay, Collect instead | order form, quote engine, payments | stale reads over a network call, sends that fail unseen, crash between latch and total, old buttons | the fee behind its latch, as quoted, final |
| Delivery configuration and quote engine (`delivery/*.service.ts`) | zones, vehicles, rates | CRUD, cascade, starter set-up, quote | dashboard, delivery fee | overlapping edits, edits under a quote, borders and ties | a cell holds one request's price; a zone has a matcher of its kind; the quote is what the set-up promises |
| Fulfilment job (`delivery/delivery.service.ts`) | method, driver, milestone, stamps | upsert, assign driver, advance | order status, driver roster, customer messages | two staff and the customer on one job | forward only, stamped once, delivered iff completed until a late payment |
| Catalog (`controllers/catalog`) | products | create, edit, publish, archive, import, public feed | dashboard, Meta's listing, tenant scoping | overlapping edits, an import that fails half way, foreign ids in paths | sold out means off sale, true reports, the listing follows |
| Signup (`vendor.controller.ts`, `signupOtp.ts`) | claim, code, attempts, stashed details; tenant, group, account, owner | start, verify | Redis, WhatsApp, Authentik, staff seats | double taps, expiry, partial failure of a saga over four systems | all or nothing, right details, one phone one shop |
| Tenant life cycle (`admin.controller.ts`, `Tenant.ts`, `whatsappOnboarding.ts`) | tenant status, WhatsApp connection, delivery methods | approve, reject, invite, activate; connect, disconnect | signup, every resolver, Meta | operator and owner on stale reads | live means ready; no number unproved; nobody in unapproved |
| Staff seats (`vendor.controller.ts`, the resolvers) | VendorUser, Authentik account, sessions | invite, revoke, remove, activate, sign-in | Authentik, Redis codes | sessions that outlive accounts, removal beside activation | one account per document; the removed stay out, the joined stay |
| Tenant scoping (`tenantContext.ts`, `tenantScope.ts`) | async context | every query | all | an id of another tenant in a path | no query without its tenant |
| Dashboard sign-in, flow endpoint, driver notification, infrastructure, scripts | session; none | OIDC callback, crypto, sends | Authentik, Meta | protocol work of libraries | request-local |

`PROJECT.json` lists the same components with their status, and 40 hazards with
the line where each bites and the properties that catch it.

### What the handlers may rely on

Modelled in every module, because the code leans on it:

* **A mongoose `save()` writes the paths that differ from what was loaded**, with
  the values the handler computed. `Written(loaded, new, stored)` says so; it is
  why a stale handler sometimes overwrites and sometimes does not.
* **A transaction lands whole or not at all.** An aborted one is a fault.
* **A unique index decides a race.** The partial index on PENDING payments
  (`models/Payment.ts:56`) is `IndexAllows`; other indexes are `EmailTaken`,
  `Conflict`, `Collides`, `SaveUser`, `NumberFree`, `NamesUnique`, `TiersUnique`, `CellsUnique`.
* An upsert and a `findOneAndUpdate` are one step.

## 2. The modules

| Module | Models | State ↔ code | Actions ↔ code |
|---|---|---|---|
| `InboundMessages`, `…MC` | the messages of one phone, from Meta's post to the dashboard | `processed` the `wa:msg:` keys, `log` the WhatsappMessage rows, `summary` the Conversation document; `at` the webhook requests; `rebuild`, `reader` the script and a dashboard user | `Resolve` (look-up and acknowledgement), `Dedup`, `Handle` (dispatch and the rows it leaves to save), `Insert`, `Summarise` (whose update fails, see below); `Aggregate` and `Overwrite` of the script; `Open` and `ReadPage` of the thread |
| `Checkout`, `…MC` | one customer's carts, forms and pins | `orders`, `users`, `addresses`, `jobs` documents; `session` the Redis hash; `forms` what is open in the chat; `at` the messages in progress | each await of the cart, form and pin handlers; `Pay` hands the order to `OrderPayment`, the quote after `SavePin` is `DeliveryFee`'s |
| `PaymentLedger` | what payments promise of an order, without handlers | `row`, `orderStatus`, `charged` | abstract |
| `OrderPayment`, `…MC` | payments of one order | `order`, `pay[r]` are the documents; `pc`, `snap` a run's place and what it loaded; `push`, `callbacks` Paynow's side; `hooks` webhook executions under way | each stretch of `initiateOrderPayment` between awaits; `ReceiveCallback` and `SettleCallback` are the webhook's lookup and its transaction; `ChooseMethod`, `CompleteOrder` are what other handlers write on the order |
| `DeliveryFee`, `…MC` | the fee of one order | `delivery`, `total`, `charge` documents; `offered`, `asked` the buttons in the chat; `at` the handlers | read, save and send of every handler, and sends that fail (`SendFails`); `Pay` and `Charge` are `OrderPayment` as seen from here: the total is read, and charged once |
| `RateMatrix`, `…MC` | one shop's delivery set-up and a quote made from it | `zones`, `vehicles`, `rates` collections; `at` the edits in progress; `quote` what the engine has read so far | every edit as the read with its validation and the save; `DeleteZone` and its `Cascade`; the quote's four reads |
| `DeliveryJob` | the fulfilment of one order | `job`, `orderStatus`, `roster`, `messages`; `desk` the dashboard requests | `upsertDeliveryForOrder`, `assignDriver` in three steps, `advanceDeliveryStatus` as its one transaction, then the message |
| `Catalogue`, `…MC` | the products of the shops, the import, and what Meta lists | `products` documents, `import` and its report, `fetch` a feed request between its two reads, `listed` Meta's side | `CreateProduct`, `BeginUpdate`/`SaveUpdate` for edit, publish, archive and out of stock, `ImportRow`, `ResolveFeed`/`ServeFeed` |
| `TenantLifecycle`, `…MC` | shops after their signup | `tenants` documents; `subscribed` Meta's side; `approved`, `invited`, `proved` what has happened; `at` the requests | read and save of every decision; `RecoverOwner`; the four calls of a connection; disconnect; `UpdateBusiness` |
| `StaffSeat`, `…MC` | the invitations of one email | `seat[i]`, `account[i]`, `sessions`, `code`, `entered`; `at` the requests | each call of invite, revoke, remove, the two resolvers and activation |
| `Signup`, `…MC` | signing up with one phone | the four Redis keys; `made[v]` the parts verification `v` has created; `used`, `details` for whom | each call of `signupStart` and `signupVerify`, and each call that undoes one |

`X_proofs` holds the theorems about module `X` and what they rest on (section 4), for
`OrderPayment`, `Checkout`, `InboundMessages`, `StaffSeat`, `RateMatrix` and `Catalogue`.
Two such modules hold the theorems of two components each, side by side: `Delivery_proofs`
of `DeliveryFee` and `DeliveryJob`, `Shop_proofs` of `Signup` and `TenantLifecycle`. Both
components are extended there, so the general names of one of each pair carry the name of
its component: `JobInit`, `JobNext`, `JobSpec`, `JobTypeOK`; `SignupInit`, `SignupNext`,
`SignupSpec`, `SignupTypeOK`.

### How they interact

A message goes through `InboundMessages`, whose `Handle` is one of the handlers of
`Checkout` or `DeliveryFee`; `HandledOnce` is what lets those count a cart, a form or
a tap once. `Checkout` hands an order to `OrderPayment` (`due`), a pin to
`DeliveryFee`; the fee `DeliveryFee` may be offered is what `RateMatrix` quotes, and
what `DeliveryFee` charges goes through `OrderPayment`. Approval and activation of a
shop in `TenantLifecycle` open the webhook (`Resolve`) and the feed (`IsFeedTenant`).

The modules share documents of the code: the order's status is written by
`OrderPayment` (settling), `DeliveryJob` (delivering) and the form; the job by
`Checkout`, `DeliveryFee` and `DeliveryJob`. Each module carries the others' writes as
an environment action (`CompleteOrder`, `ConfirmOrder`, `ChooseMethod`, `Pay`,
`FormUpsert`, `SetStatus`) that is as free as the code, so that what holds in a module
holds next to the others. No pair of operations is kept apart: where the code does not
survive an overlap, a history variable marks what it has touched, and the property says
so (section 3). The refinement `OrderPayment ⇒ PaymentLedger` is the
interface a composition needs: it says what a payment run may do to an order whoever
else works on it.

### Data left out

* `OrderPayment`: amounts (the fee's effect on the total is `DeliveryFee`'s subject),
  wording, the test-tenant override of the phone. The branch for a quote in another
  currency than the order's cannot be reached: both come from `ORDER_CURRENCY`
  (`deliveryConfig.controller.ts:123`, `dashboard/orders.controller.ts:175`).
* `StaffSeat`: the tenant is active; who may manage whom, the phone check of an
  invitation and the resend (which changes no document).
* `Signup`: Redis never fails, the check of a code (read, count, compare) is one step
  and its clearing another; the local-environment branch, the slug retries and the
  seeding of delivery defaults, which is best effort.
* `InboundMessages`: the texts; the dedup keys' lifetime (a day); timestamps that are
  no number. Only the first message of a batch is handled, as in the code: the others
  are in `lost`. The summary's update is an array pipeline (`whatsapp.utils.ts:63-81`), which
  the mongoose that `package.json` asks for refuses unless the option `updatePipeline` is
  set, and the code sets it nowhere: every update ends in the logged error of
  `whatsapp.utils.ts:96-106`, and `updateConversationSummary` changes nothing. Only the
  script writes summaries.
* `Checkout`: one customer; the session's unused `items`, the order's pointer to its
  job, names, notes and payment details, which are written with the order. A form without a
  delivery method it knows makes no job and goes straight to payment, as in the code.
* `RateMatrix`: the haversine distance is the constant `Distance`, fees are not rounded,
  a polygon is the set of pins in it, distances and amounts are whole numbers, and a cart is
  the set of its lines. A save is refused when the collection would break a unique index
  (`NamesUnique`, `TiersUnique`, `CellsUnique`). The comment that "the cheapest vehicle" wins
  (`quote.service.ts:84`) is modelled as the code is: the smallest that has a price.
* `Catalogue`: a product's fields other than status, availability, quantity and image;
  the products' prices and texts. The scope of a tenant is guarded twice (the query
  hook and the validate hook), and both are in the model.
* `TenantLifecycle`: the profile other than its delivery methods, tokens other than
  that there is one.

## 3. The runs

Each run answers a question of its own; the bounds are the smallest at which the
interesting case happens, and every mutant listed in `PROJECT.json` shows the case
does happen: a plausible bug in one definition violates the property at these
bounds.

| Run | Question and answer | Bounds |
|---|---|---|
| `inbound` | Two messages of one second, one of them an order step that may throw, delivered again and in batches, while Redis, the look-up or the process fails, the script runs and somebody reads the thread. None is handled twice, each is handled or was dropped by a step that answered it, the thread agrees with the log. **Holds.** | 2 messages, 2 requests, pages of 1 row, 2 events (duplicates, failures, crashes, rebuilds and readers together) |
| `checkout` | Two carts of one customer, three forms with a delivery method or none and any number of pins, two messages at a time over one session. Orders are whole, session and payment never run ahead of what is saved, one user per phone, a pin stays. **Holds.** | 2 carts (2 lines and 1), 2 order numbers, 2 workers, 3 forms, 2 failures, crashes or expiries |
| `payment_fair` | With Paynow's posts in order but repeated (`ack_lost`), any two executions of the webhook at once, of one post too, and overlapping runs: never two live prompts, never two thanks for a document no outdated write has set back, and money that was taken confirms the order. **Holds.** | 2 runs: every interleaving of a pair; 2 posts under way at once |
| `payment_faults` | With posts in any order and repeated, commits that abort, runs that die, answers that are lost: PAID documents sit beside confirmed orders, confirmed orders are backed by money or cash, a document is PAID only for its own charge, and the handlers implement `PaymentLedger`. **Holds.** | 2 runs, 2 posts under way at once, a tenant that routes O'mari elsewhere |
| `payment_double_charge` | Is the "double-charge guard" one? **No**, see the finding. | 2 runs, 2 posts under way at once, no fault at all |
| `fee_taps` | Quotes, forms, confirmations and collect taps overlap, die anywhere and may fail to send their prompt. Until a quote is saved over a confirmation it has not seen: the fee behind its latch and once, the charge a price the shop has quoted, the price final, a latched fee in the total. **Holds.** | 2 handlers of any kind and a third that only confirms, 2 fees |
| `rates` | Edits overlap each other and a quote: cells hold one request's price, zones keep a matcher of their kind, cells go with their zone, a quote of an unchanged set-up is the one a reference definition gives. **Holds.** | 7 first set-ups, 3 carts, 3 pins (one on a ring's border), 2 handlers, 2 edits |
| `job` | Two staff requests, the customer, two drivers, and payments that settle at any time: forward only, stamped once; delivered exactly when completed, and told once, until a payment settles after the delivery. **Holds.** | 2 requests, 2 drivers |
| `catalogue` | Two shops with a sku in common: overlapping edits, imports with bad and repeated rows, lost answers, crashes, a suspended shop, Meta's fetches. **Holds.** | 2 tenants, 1 sku, 2 staff requests at a time, 3 in all, 1 fault |
| `tenant` | Operator and owner of two shops, three numbers of two business accounts, requests that overlap, fail and die: live shops are ready, numbers proved, entrants approved. **Holds.** | 2 requests at a time, 4 in all, 1 failure or crash |
| `seats` | Invitations, sign-ins, visits, activations, revocations and removals of one email, any three at once: a document lets in one account, the removed stay out, the joined stay, seats and accounts agree, each but for one overlap that the property names. **Holds.** | 2 invitations, 3 requests, crashes, lost answers, failing Authentik calls |
| `signup` | Late, repeated and wrong codes, failing calls and failing undo, crashes, every start and verification free to overlap: all or nothing, and a sign-up that overlaps no other gets its own details, can finish and is the phone's only one. **Holds.** | 3 starts for 2 businesses, 3 verifications, 2 attempts per code |

About the bounds and settings:

* **Views.** `payment_fair`, `payment_faults`, `fee_taps`, `seats` and `signup` check under a
  `VIEW`, defined and commented in their MC modules, which leaves out what no step to come
  and no property of the run reads: the order a finished run had loaded, the total a
  request that only sends has read, who entered a document bound twice. States it merges
  have the same future, as far as the properties go.
* `MaxHooks` bounds the webhook executions under way at once: two are a pair of one post,
  or of two. An execution is kept as the post it answers and the document it found, so any
  number of executions of one post on one document count as one, which `EndHook` may or may
  not end.
* `payment_faults` does not claim `ThankedOnce`, which is about a document no outdated write
  has set back (`setBack`), and is proved for every fault.
* The fault `url_omitted`, a post without its poll URL, for which the code falls back
  to the newest document, is in no run: `TypeCorrect` and `PaidOrdersAreConfirmed`
  cover it by proof, and `PaidOnlyIfCharged` plainly does not hold under it.
* `inbound`: two requests and two events are enough for a redelivery beside the first
  delivery, a failed dedup before or after the key was set, and a rebuild around a save;
  a page of one row makes every row a page border, and the messages and replies share
  seconds.
* `checkout`: two carts are what takes a session over; three forms are a re-submission
  beside another form. Workers and order numbers are interchangeable, hence the
  symmetry; no temporal property is checked.
* `rates`: six of the set-ups give the bike's cell of the inner zone each kind of price (none,
  refused, flat, per kilometre) beside a flat one of the van's, and let a refused bike be
  followed by no van or one priced per kilometre; carts are billed by weight, by volume,
  and by a line's smallest vehicle with a line of quantity zero. Two edits overlap each
  other and the quote; zones and cells of a zone deleted under a request are among them.
  The seventh is a polygon zone that still has a ring; patches change a zone's kind, or put
  an empty ring on it, so that two of them overlapping leave a ring zone with an empty ring
  (`crossed`).
* `catalogue`: three requests suffice for two overlapping edits after an import or a
  creation. Products whose save overlapped another (`raced`) are exempt from
  `StockAgrees`; see below.
* `tenant`: four requests are a decision, a connection, an activation and one beside
  it; shops and requests are interchangeable.
* `fee_taps`: a third handler of any kind would take the run beyond minutes; one that confirms
  is what a second tap beside a confirmation and a quote or a form takes (`Tapping`, in
  `DeliveryFeeMC`), and the theorems are about any number of handlers of any kind. Two fees tell an old quote from a new one. In a
  state in which a quote was saved over a confirmation nothing is claimed any more, and
  the view has one such state.
* `seats`: any three requests overlap; the handlers have no names of their own, hence the
  symmetry. Each property exempts the documents of one overlap, which history variables
  mark as it happens: `overtaken` (removed while an activation of it was under way),
  `contested` (joined while a revocation of it was under way), `rebound` (two resolvers that
  had found it unbound saved their binding one over the other).
* `signup`: every request overlaps every other. A sign-up is in `overlapped` once a request
  of it goes on without the claim, or beside a request of another sign-up while it has the
  claim; two verifications of one code are not such an overlap. `Expire` lets the keys of a
  sign-up lapse together while no request runs. `MaxAttempts` is 2 instead of 5, so that the
  cap is reached. Two verifications are a race, the third is a wrong code or another shop's.
* Deadlock is checked in `fee_taps` and `job`, where some message can always arrive. In
  the others every run, request, invitation or event is bounded, so the system does stop.
* A module's `TypeOK` documents its types; the runs spend their time on what could be
  wrong. Each is proved.

### Fairness

`payment_fair`, `fee_taps`, `inbound` and `catalogue` use it. The server carries on with
what it has started (`WF` on a run's or handler's steps: a promise that settles is
scheduled; a crash is an action of its own). Paynow posts again until it sees a 200
(`WF` on receiving, per attempt), and not every 200 is lost forever (`SF` on an
acknowledged settlement: a lost acknowledgement disables and re-enables it, so weak
fairness would assume less than retries give). Meta posts a message that has no 200
again (`WF` on its delivery) and fetches each shop's feed on a schedule (`WF` on both
steps of a fetch). Customers, staff, the merchant and Paynow's own decisions are never
assumed to act.

### Finding

**A second charge** (`AtMostOneCharge`, run `payment_double_charge`). A run reads the
prior payments; another run creates its document, is paid or marked failed; the first one
then passes the index, which knows PENDING documents only. The comment at
`payment.controller.ts:72` calls the check the "Double-charge guard".

### What the code does not keep

Statements met in comments or expected of the code which TLC refutes. Each is a
definition in its module that no run claims. The claimed properties next to them exempt,
by a history variable, exactly what is named here.

| Statement | Module | Where it fails |
|---|---|---|
| `CollectionPaysNoFee`: a collection is never charged the fee (`deliveryQuote.controller.ts:321`) | `DeliveryFee` | as `fee_taps`, no overlap needed: Confirm & pay tapped after Collect instead |
| `ChargedAsShown`: the customer is charged a fee they have seen | `DeliveryFee` | as `fee_taps`: a newer quote is saved, its prompt fails unseen (`outgoingMessages.ts:121-141`, its result ignored at `deliveryQuote.controller.ts:168, 197`), and an older button confirms it |
| `LatchedFeeIsCharged`: a confirmed fee is charged | `DeliveryFee` | as `fee_taps`: a second tap finds the latch set and pays the total before the first tap has added the fee |
| `LatchBeforeMoney`, `ChargedAsOffered` and `PriceIsFinal` without `crossed` | `DeliveryFee` | as `fee_taps`: a quote is saved over a confirmation it has not seen, and writes `feeApplied = false` and another fee over it |
| `ThankedOnce` without `setBack` (`payment.controller.ts:331-334`: retries "can't both pass the idempotency gate and double-notify the customer") | `OrderPayment` | as `payment_fair`, posts in order: an execution of "sent" lingers, "paid" settles and thanks, the lingering one takes the document back to PENDING (the filter of line 338 asks only that the status differs), and the repeated "paid" thanks again |
| `ToldAtMostOnce`, and `DeliveredMeansCompleted` without `late` (`deliveryStatus.controller.ts:67`) | `DeliveryJob` | as `job`: a PAID post after the delivery confirms a completed order again, and the next tap on Delivered completes and tells again |
| `OwnSeatOnly`: a seat is entered by the account that was provisioned with it | `StaffSeat` | as `seats`: an invitation is revoked after its invitee signed in, the email is invited again, and the old session, found by the email (`vendorMembership.ts:56-69`), binds the new seat |
| `RemovedStaysOut` and `SeatsMatchAccounts` without `overtaken` | `StaffSeat` | as `seats`: an activation under way sets the removed seat ACTIVE (`vendor.controller.ts:733-740`) |
| `JoinedIsKept` without `contested`, `EnteredByOne` without `rebound` | `StaffSeat` | as `seats`: a revocation deletes by id who has joined meanwhile; two resolvers both find the seat unbound |
| `DetailsMatchCode`, `ClaimCanFinish`, `OnePhoneOneOwner` without `overlapped` | `Signup` | as `signup`, no faults needed: a Verify releases the claim another Verify still provisions under, and the next start comes in between |
| `SummaryAgrees`: the list of conversations tells what the log says (`whatsapp.utils.ts:36-42`: it "still increments for every stored message") | `InboundMessages` | as `inbound`: with the first message that is saved; see "Data left out" |
| `ChargedIsOnTheBoard`: an order handed to payment has the job "the shop's delivery board works from" (`orderFlowHandler.ts:119-121`) | `Checkout` | as `checkout`: a form without a delivery method the handler knows |
| `FormReachesItsOrder` (`whatsappOrderHandler.ts:24-26`) | `Checkout` | as `checkout`: a second cart takes the session over |
| `AttemptsRecorded` (`outgoingMessages.ts:386-388`) | `InboundMessages` | as `inbound`: the unique index on (tenantId, externalId) is compound, so sparse does not exempt rows without an externalId, and a shop's second refused send has no row |
| `PairIsOwned` (`whatsappOnboarding.ts:82-84`) | `TenantLifecycle` | as `tenant`: two overlapping connections leave the number of one and the business account of the other |
| `DecidedOnce` (`admin.controller.ts:118-121`) | `TenantLifecycle` | as `tenant`: two operators decide at once |
| `CellIsPriced` (`DeliveryRate.ts:62`) | `RateMatrix` | `Setups <- StraySetups`, `Pricings <- StrayPricings`: two requests for one cell mix a kind with no amount into it |
| `EveryZoneIsValid` (`DeliveryZone.ts:76-77`: "the matcher must match the kind") | `RateMatrix` | as `rates`: a patch puts an empty ring onto a polygon zone, whose ring nobody validates, and another, which loaded the zone before it, makes the zone a ring |
| `StockAgrees` without its exemption (`product.service.ts:43`) | `Catalogue` | two overlapping edits of one product, one setting it in stock and one its quantity to 0 |

Besides, `whatsappOnboarding.ts:190-192` asks that inbound processing "must gate on
whatsappConnectionStatus", and `whatsappTenantResolver` looks at the tenant's status
only; `Resolve` is modelled as the code is. A reconnect without a token after a disconnect
keeps the revoked credential (`credential` in `TenantLifecycle`), which nobody reads. A
driver can be saved on a job that became a collection meanwhile
(`delivery.service.ts:199`), and a payment whose run dies before the gateway answers
leaves a PENDING document that nothing settles.

Proved, and claimed by no run because others say more: `NumberHeldByOne`
(`TenantLifecycle`), `ListedHasPage` (`Catalogue`).

### The properties, by what could go wrong

* *Messages*: `HandledOnce` and `HandledOrDropped` (the dedup key between redelivery and
  failure), `ThreadIsComplete` (ties on a page border while rows arrive).
* *Checkout*: `OrderIsWhole`, `NoStepAhead`, `OneUserPerPhone`, `PinKept`.
* *Payments*: `OneOpenPush`, `AtMostOneCharge` (two runs), `PaidIsConfirmed`,
  `ConfirmedIsBacked` (two documents), `PaidOnlyIfCharged` (the document and the
  customer's wallet), `ThankedOnce` (repeated and overlapping executions), `ChargeConfirmsOrder` (progress),
  `ImplementsLedger` (refinement).
* *Fee*: `LatchBeforeMoney`, `ChargedAsOffered`, `PriceIsFinal`, `LatchedFeeReachesTotal`
  (a latched fee is added to the total; that it is charged is not kept, see above).
* *Set-up and quotes*: `CellAsRequested`, `ZoneHasMatcher`, `NoStrayCells` (overlapping edits and the
  cascade), `QuoteIsRight` (the engine's
  reads and loops against a definition by quantifiers).
* *Job*: `ForwardOnly`, `DeliveredMeansCompleted`, `OncePerMilestone`.
* *Catalogue*: `StockAgrees`, `RestockIsAsked` (overlapping saves), `ImportReported`
  (partial failure), `ListingFollows` (progress).
* *Tenants*: `ActiveIsReady`, `NumberIsProved`, `ApprovedFirst` (stale reads).
* *Seats*: `EnteredByOne` (one account per document, whichever it is), `RemovedStaysOut`,
  `JoinedIsKept`, `SeatsMatchAccounts` (no
  account without a seat takes the email for ever, unless a fault did it).
* *Signup*: `DetailsMatchCode`, `AllOrNothing`, `ClaimCanFinish`, `OnePhoneOneOwner`.

`AllOrNothing`, `ClaimCanFinish` and `SeatsMatchAccounts` are claimed where no crash
and no lost or failed clean-up happened (`failed`): the code has no sweeper for
these. The properties without that condition hold through the faults.

## 4. The proofs

Every theorem below holds for every value of the constants: any number of requests,
runs, handlers, carts, shops, invitations or messages, any bound on failures, and, where
nothing is said, every fault and every overlap the module knows. No theorem assumes that
two operations do not overlap: what an overlap breaks is exempt in the property itself, by
the history variable that marks it. The hypotheses left are about Paynow's posts and
answers (faults of the other side) and about there being a message.

| Module | Theorem | Property | Needs |
|---|---|---|---|
| `OrderPayment` | `PaidOrdersAreConfirmed` | `PaidIsConfirmed` | – |
| | `ConfirmedOrdersAreBacked` | `ConfirmedIsBacked` | – |
| | `PaidMeansCharged` | `PaidOnlyIfCharged` | posts carry their poll URL |
| | `HandlersKeepLedger` | `ImplementsLedger`, the refinement | posts carry their poll URL |
| | `ThankedOncePerPayment` | `ThankedOnce` | – |
| | `OneLivePrompt` | `OneOpenPush` | `Unhidden`: posts carry their poll URL, Paynow's answers arrive, the commit of an answer does not abort |
| `DeliveryFee` | `LatchComesFirst`, `ChargesWereOffered`, `ConfirmedPricesAreFinal` | `LatchBeforeMoney`, `ChargedAsOffered`, `PriceIsFinal` | – |
| `DeliveryJob` | `JobsGoForward`, `DeliveredOrdersAreCompleted`, `MilestonesHappenOnce` | `ForwardOnly`, `DeliveredMeansCompleted`, `OncePerMilestone` | – |
| `Checkout` | `OrdersAreWhole`, `NobodyStepsAhead`, `PhonesHaveOneUser`, `PinsAreKept` | `OrderIsWhole`, `NoStepAhead`, `OneUserPerPhone`, `PinKept` | – |
| `InboundMessages` | `MessagesAreHandledOnce`, `ThreadsAreComplete` | `HandledOnce`, `ThreadIsComplete` | – |
| `TenantLifecycle` | `LiveShopsAreReady`, `StoredNumbersAreProved`, `ApprovalComesFirst`, `NumbersHaveOneShop` | `ActiveIsReady`, `NumberIsProved`, `ApprovedFirst`, `NumberHeldByOne` | – |
| `StaffSeat` | `SeatsAdmitOne`, `RemovedStayOut`, `JoinedAreKept`, `SeatsHaveAccounts` | `EnteredByOne`, `RemovedStaysOut`, `JoinedIsKept`, `SeatsMatchAccounts` | – |
| `Signup` | `ShopsAreWhole`, `DetailsAreTheCodes`, `ClaimsCanFinish`, `PhonesHaveOneOwner` | `AllOrNothing`, `DetailsMatchCode`, `ClaimCanFinish`, `OnePhoneOneOwner` | – |
| `Catalogue` | `SoldOutIsNotOnSale`, `RestocksAreAsked`, `ImportsAreReported`, `ListingsHavePages` | `StockAgrees`, `RestockIsAsked`, `ImportReported`, `ListedHasPage` | – |
| `RateMatrix` | `CellsHoldOnePrice`, `CellsGoWithTheirZone`, `ZonesKeepTheirMatcher`, `QuotesAreRight` | `CellAsRequested`, `NoStrayCells`, `ZoneHasMatcher`, `QuoteIsRight` | – |
| each of the ten | `TypeCorrect` (`JobTypeCorrect`, `SignupTypeCorrect`) | `TypeOK` (`JobTypeOK`, `SignupTypeOK`) | – (`InboundMessages`: there is a message) |

The named assumptions on constants say that `Nothing`, `NoRun` and the like are not among
the values they stand beside, that faults come from the sets the code knows, and, in
`Signup`, that a request to start is not a request to verify. TLC evaluates them in every
run.

**How the arguments go.** Few of these properties are inductive with the types
alone (`PaidIsConfirmed`, `ForwardOnly`, `DeliveredMeansCompleted`). Every strengthening was checked
with TLC as an invariant of the module's run before it was proved, one step per action, with a frame
lemma for the steps that leave it alone; the temporal step is the last line.

* *Payments.* A step leaves a document's status, fails it, or moves document and order
  together, and no step takes an order back to PENDING (`SaveEffect`, `SettleEffect`).
  `PaidOnlyIfCharged` needs that posts are true (`PostsTruthful`), hence that a run's push
  starts with its first post (`FreshPush`), and that a webhook holds the document of the
  push it reports (`ExactRow`). `ConfirmedIsBacked` adds that cash documents come only
  after the guard (`CashAfterCheck`). `OneOpenPush` is about Paynow's phones and the index
  about documents; `OpenInv` ties them: webhooks leave a document alone until its poll URL
  is stored (`AttemptUntouched`, `LinkedHook`), a live prompt has a PENDING document
  (`SentIsPending`), and there is one (`OnePending`). `ThankedOnce` needs that a thanked
  document is still PAID, or says what Paynow last said of a push whose money went back
  (`ThankInv`, `Settled`), for as long as no outdated write has touched it.
  The refinement maps each step to a `Charge`, `Settle` or `Reopen` of the ledger or to a
  stutter (`LedgerStep`), given that a document the ledger knows is on record (`OnRecord`).
* *Fee.* What a handler has loaded is, until a confirmation is crossed, what its next save
  needs: a quote has seen a delivery that was not confirmed, a confirmation the total
  without the fee and the fee that is stored, a payment a price (`Fresh`). A fee on record
  was shown, is about to be, or its prompt failed (`FeeShown`).
* *Job.* Transactions compare and write in one step, so only the types and the order of
  milestones milestones are needed, besides who is about to tell the customer (`ToldOnce`).
* *Checkout.* `Knows` says what each message in progress may rely on at each await, whatever
  happens beside it; `OrderOK`, `SessionOK` and `AddressOK` what holds of the documents.
  The total of an order is a sum over a finite set: lemmas `SumUnfolds`, `SumSplits` and
  `SumAdds` are proved from a smallest counterexample (`SmallestSubset`).
* *Messages.* A handler runs only for the request that set the key (`OnceInv`). The rows are
  numbered in order and one is newest (`LogInv`); what a reader has not seen lies
  before the cursor and what was seen does not (`ThreadInv`).
* *Tenants.* `Knows` again: an activation in progress has found nothing missing, and nothing
  that happens meanwhile takes it away (`Keeps`); a connection in progress was proved.
* *Seats.* What a request found was there and what had joined stays joined (`Found`), an
  invitation in progress is the only one of its name (`Inviting`), an account and a seat
  differ only while some request sees to it (`Matched`), a document is bound only to the
  account that enters, unless a binding overwrote it (`BoundInv`), a seat being activated
  is not disabled unless it was removed meanwhile (`RemovalInv`), a seat being revoked has
  not joined unless it joined meanwhile (`RevocationInv`).
* *Signup.* Where a verification stands says what it has made, also on its way back
  (`MadeSoFar`). A sign-up that overlapped no other holds the claim while a request of it is
  in progress, and then no other sign-up has one (`KeptInv`); the stash is of who has the
  claim (`StashInv`), so such a verification provisions the details of the code it accepted
  (`CodeInv`) and is the only one that makes the owner (`CreateInv`); who holds the claim
  clears it or leaves a code (`HeldInv`).
* *Catalogue.* What a step does to the products is stated once (`ProductsMove`): a new one
  enters under the inventory rule, a save writes one, or none changes. `WrittenIs` says what
  a save writes: over the document the request has seen, what the rules made of it; over
  any other, never a product back on sale that the patch does not ask for. For the import,
  `RowsCounted` counts each row before the next once, and knows that a product it has
  created is there, so that a repeated row is a failure.
* *Set-up.* The types are inductive only with the ids: those given are below the counter, and
  what each request holds has the id of the document it read (`IInv`). `AsAsked` adds that
  what a request is about to write was asked for. A patch never takes a matcher away, so
  one validated on an older zone still leaves a matcher of its kind (`MatchersHold`); one
  saved over the zone it has read leaves a valid zone (`ValidHold`).
* *Quotes.* The engine's loops are against a definition by quantifiers, so the lemmas are about
  its operators: the sum over a cart's lines is unfolded one line at a time from a
  smallest counterexample (`AddsUp`, `SmallestSubset`, as in `Checkout`), the largest tier a
  line asks for is one of them and none is above it (`LargestOf`), hence a fitting vehicle
  carries the cart and the converse (`FitsWhatItCarries`). `FoundSoFar` then says what each
  of the reads has found, while the set-up is as it was: the zone that comes first, the
  fleet that fits (`QuoteRings`, `QuoteVehicles`, `QuoteRates`).

**Only model-checked, and why.** Liveness under fairness and anything about `ENABLED`
(`ChargeConfirmsOrder`, `HandledOrDropped`, `LatchedFeeReachesTotal`, `ListingFollows`) is
beyond the prover. So are the library's induction theorems, which take an operator as a
parameter; well-founded arguments are made with least counterexamples instead.
Every other property of a passing run is a theorem. What section 3 lists as not kept is of
course not proved; nor is the total absence of a second charge, which is a finding.

## 5. Not modelled, and why

* `utils/whatsappFlows.ts` has no importer; `types/types.ts` has types only;
  `scripts/authDoctor.ts` and its helpers only read.
* Sign-in protocol, cookies, CSRF, rate limits, the signature check of webhooks and the
  flow endpoint with its cryptography are request-local or library work. Google Drive
  uploads answer a URL and change no document.
* The platform's own administrators, the seeding and migration scripts other than the
  rebuild of conversations: run by hand, once.
* The scoping plugin's hooks for aggregates, `insertMany`, replacements and updates that
  set a tenant: the requests of the modelled components do not reach them with a foreign
  tenant. The modules other than `Catalogue` and `TenantLifecycle` describe one tenant.
* Lists, searches and single reads of the dashboard, except the thread.
* The driver's own notification: best effort, its failure is swallowed.
* Configuration, logging, wiring, encryption of secrets.
* Redis failures in `Signup`, expiry in the middle of a request, process-wide limits.

## 6. Plan

Done: messages, checkout, payments, the fee, the set-up and its quotes, the job, the
catalogue, tenants, staff seats, signup; the theorems about all ten. What would follow a
change of the code: the statements of section 3 that are not kept, each claimed as it
stands once the code keeps it, and the history variable of its exemption removed.
