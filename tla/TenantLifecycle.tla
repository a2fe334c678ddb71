--------------------------- MODULE TenantLifecycle ---------------------------
(***************************************************************************)
(* A shop after its signup: an operator approves or rejects it and invites *)
(* its owner, the owner connects a WhatsApp number, the operator activates *)
(* it (controllers/dashboard/admin.controller.ts,                          *)
(* services/whatsappOnboarding.ts, controllers/dashboard/                  *)
(* business.controller.ts, models/Tenant.ts).                              *)
(*                                                                         *)
(* Every handler reads the Tenant document, decides, and saves the paths   *)
(* it changed; there is no version check between the two, and requests of  *)
(* the same shop overlap.  Meta knows which number belongs to which        *)
(* business account (WABA) and is asked before a number is stored.         *)
(***************************************************************************)
EXTENDS Naturals, FiniteSets

CONSTANTS
  Tenants, Phones, Wabas,
  Belongs,      \* Belongs[p]: the WABA Meta lists p under
  Handlers,     \* requests in progress at a time
  None,         \* no number, no WABA, no shop
  MaxRequests,  \* bound on requests that change something
  MaxEvents     \* bound on failures and crashes

ASSUME BelongsAssumption == Belongs \in [Phones -> Wabas]
ASSUME NoneAssumption    == None \notin Phones \cup Wabas \cup Tenants

Statuses == {"PENDING", "TRIAL", "ACTIVE", "REJECTED"}
Methods  == {"collect", "door_delivery"}

VARIABLES
  tenants,     \* the Tenant documents
  subscribed,  \* the WABAs whose webhooks reach the app
  approved,    \* the shops some operator's approval was saved for
  invited,     \* the shops whose owner got a link to set a password
  proved,      \* [t, phone, waba]: Meta confirmed the pair to a request of t
  requests,    \* requests so far
  events,      \* failures and crashes so far
  at           \* at[h]: the request h works on and what it loaded

vars == <<tenants, subscribed, approved, invited, proved, requests, events, at>>

\* A shop as signup leaves it: waiting for approval, collection only.
NewTenant == [status |-> "PENDING", phone |-> None, waba |-> None, connected |-> FALSE,
              credential |-> "none", methods |-> {"collect"}]
Idle      == [pc |-> "idle", t |-> None, status |-> "none", phone |-> None, waba |-> None,
              token |-> FALSE, seen |-> NewTenant]

Init ==
  /\ tenants = [t \in Tenants |-> NewTenant]
  /\ subscribed = {} /\ approved = {} /\ invited = {} /\ proved = {}
  /\ requests = 0 /\ events = 0
  /\ at = [h \in Handlers |-> Idle]

Start(h, request) ==
  /\ at[h].pc = "idle"
  /\ requests < MaxRequests
  /\ requests' = requests + 1
  /\ at' = [at EXCEPT ![h] = request]

Goto(h, pc) == at' = [at EXCEPT ![h].pc = pc]
Finish(h)   == at' = [at EXCEPT ![h] = Idle]
Event       == events < MaxEvents /\ events' = events + 1

\* save() writes a path only where the value set differs from the one loaded.
Written(loaded, new, stored) == IF new = loaded THEN stored ELSE new

-----------------------------------------------------------------------------
(* The operator.                                                           *)

\* Approve and reject: only a shop that is PENDING when it is read.
BeginDecision(h, t, status) ==
  /\ tenants[t].status = "PENDING"
  /\ Start(h, [Idle EXCEPT !.pc = "decide", !.t = t, !.status = status])
  /\ UNCHANGED <<tenants, subscribed, approved, invited, proved, events>>

\* Mutant: the invitation does not wait for the save.
SaveAfterInvite(h) ==
  /\ at[h].pc = "decide"
  /\ IF at[h].status = "TRIAL" /\ at[h].t \notin invited
       THEN invited' = invited \cup {at[h].t} /\ UNCHANGED <<tenants, approved, at>>
       ELSE /\ tenants' = [tenants EXCEPT ![at[h].t].status = at[h].status]
            /\ approved' = IF at[h].status = "TRIAL" THEN approved \cup {at[h].t} ELSE approved
            /\ Finish(h) /\ UNCHANGED invited
  /\ UNCHANGED <<subscribed, proved, requests, events>>

SaveDecision(h) ==
  LET t == at[h].t IN
  /\ at[h].pc = "decide"
  /\ tenants' = [tenants EXCEPT ![t].status = at[h].status]
  /\ IF at[h].status = "TRIAL"
       THEN approved' = approved \cup {t} /\ Goto(h, "recover")
       ELSE Finish(h) /\ UNCHANGED approved
  /\ UNCHANGED <<subscribed, invited, proved, requests, events>>

\* An invitation again, for a shop that is TRIAL or ACTIVE when it is read.
BeginInvite(h, t) ==
  /\ tenants[t].status \in {"TRIAL", "ACTIVE"}
  /\ Start(h, [Idle EXCEPT !.pc = "recover", !.t = t])
  /\ UNCHANGED <<tenants, subscribed, approved, invited, proved, events>>

\* The recovery email, or the same link for the operator to pass on, or neither;
\* the decision stands in any case.
RecoverOwner(h) ==
  /\ at[h].pc = "recover"
  /\ Finish(h)
  /\ \/ invited' = invited \cup {at[h].t} /\ UNCHANGED events
     \/ Event /\ UNCHANGED invited
  /\ UNCHANGED <<tenants, subscribed, approved, proved, requests>>

MissingActivationFields(d) ==
  {f \in {"phone", "waba"} : d[f] = None} \cup (IF d.methods = {} THEN {"methods"} ELSE {})

\* The pre-validate hook asks the same of the document that was read.
BeginActivation(h, t) ==
  /\ tenants[t].status = "TRIAL"
  /\ MissingActivationFields(tenants[t]) = {}
  /\ Start(h, [Idle EXCEPT !.pc = "activate", !.t = t])
  /\ UNCHANGED <<tenants, subscribed, approved, invited, proved, events>>

SaveActivation(h) ==
  /\ at[h].pc = "activate"
  /\ tenants' = [tenants EXCEPT ![at[h].t].status = "ACTIVE"]
  /\ Finish(h)
  /\ UNCHANGED <<subscribed, approved, invited, proved, requests, events>>

-----------------------------------------------------------------------------
(* The owner.                                                              *)

\* Mutant: the number and the WABA are taken on the owner's word.
BeginConnectUnproved(h, t, p, w, token) ==
  /\ Start(h, [Idle EXCEPT !.pc = "subscribe", !.t = t, !.phone = p, !.waba = w, !.token = token])
  /\ UNCHANGED <<tenants, subscribed, approved, invited, proved, events>>

\* Meta lists the numbers of the WABA; any other number ends the request.
BeginConnect(h, t, p, w, token) ==
  /\ Belongs[p] = w
  /\ Start(h, [Idle EXCEPT !.pc = "subscribe", !.t = t, !.phone = p, !.waba = w, !.token = token])
  /\ proved' = proved \cup {[t |-> t, phone |-> p, waba |-> w]}
  /\ UNCHANGED <<tenants, subscribed, approved, invited, events>>

SubscribeApp(h) ==
  /\ at[h].pc = "subscribe"
  /\ subscribed' = subscribed \cup {at[h].waba}
  /\ Goto(h, "load")
  /\ UNCHANGED <<tenants, approved, invited, proved, requests, events>>

LoadForConnect(h) ==
  /\ at[h].pc = "load"
  /\ at' = [at EXCEPT ![h].pc = "connect", ![h].seen = tenants[at[h].t]]
  /\ UNCHANGED <<tenants, subscribed, approved, invited, proved, requests, events>>

\* The sparse unique index on the number judges the number that is written.
NumberFree(h) ==
  at[h].phone # at[h].seen.phone =>
    \A t \in Tenants \ {at[h].t} : tenants[t].phone # at[h].phone

SaveConnect(h) ==
  LET r == at[h] IN
  /\ r.pc = "connect"
  /\ IF NumberFree(h)
       THEN tenants' = [tenants EXCEPT
              ![r.t].phone      = Written(r.seen.phone, r.phone, @),
              ![r.t].waba       = Written(r.seen.waba, r.waba, @),
              ![r.t].connected  = Written(r.seen.connected, TRUE, @),
              ![r.t].credential = IF r.token THEN "live" ELSE @]
       ELSE UNCHANGED tenants
  /\ Finish(h)
  /\ UNCHANGED <<subscribed, approved, invited, proved, requests, events>>

LoadForDisconnect(h, t) ==
  /\ Start(h, [Idle EXCEPT !.pc = "disconnect", !.t = t, !.seen = tenants[t]])
  /\ UNCHANGED <<tenants, subscribed, approved, invited, proved, events>>

\* Mutant: disconnecting forgets the number.
SaveDisconnectForgets(h) ==
  /\ at[h].pc = "disconnect"
  /\ tenants' = [tenants EXCEPT ![at[h].t].connected = FALSE, ![at[h].t].phone = None]
  /\ Finish(h)
  /\ UNCHANGED <<subscribed, approved, invited, proved, requests, events>>

\* The number and the WABA stay, and a credential that was read is revoked.
SaveDisconnect(h) ==
  LET r == at[h] IN
  /\ r.pc = "disconnect"
  /\ tenants' = [tenants EXCEPT
       ![r.t].connected  = Written(r.seen.connected, FALSE, @),
       ![r.t].credential = IF r.seen.credential # "none" THEN "revoked" ELSE @]
  /\ Finish(h)
  /\ UNCHANGED <<subscribed, approved, invited, proved, requests, events>>

\* The profile is loaded and saved by itself: the delivery methods, never none.
UpdateBusiness(t, methods) ==
  /\ requests < MaxRequests
  /\ requests' = requests + 1
  /\ methods # {}
  /\ tenants' = [tenants EXCEPT ![t].methods = methods]
  /\ UNCHANGED <<subscribed, approved, invited, proved, events, at>>

-----------------------------------------------------------------------------
\* A call to Meta or to the database fails: the request is answered with an error.
Fail(h) ==
  /\ at[h].pc \notin {"idle", "recover"}
  /\ Event
  /\ Finish(h)
  /\ UNCHANGED <<tenants, subscribed, approved, invited, proved, requests>>

Crash ==
  /\ Event
  /\ at' = [h \in Handlers |-> Idle]
  /\ UNCHANGED <<tenants, subscribed, approved, invited, proved, requests>>

Operator(h, t) ==
  \/ \E status \in {"TRIAL", "REJECTED"} : BeginDecision(h, t, status)
  \/ BeginInvite(h, t) \/ BeginActivation(h, t)

Owner(h, t) ==
  \/ \E p \in Phones, w \in Wabas, token \in BOOLEAN : BeginConnect(h, t, p, w, token)
  \/ LoadForDisconnect(h, t)

Step(h) ==
  \/ SaveDecision(h) \/ RecoverOwner(h) \/ SaveActivation(h)
  \/ SubscribeApp(h) \/ LoadForConnect(h) \/ SaveConnect(h) \/ SaveDisconnect(h)

Next ==
  \/ \E h \in Handlers, t \in Tenants : Operator(h, t) \/ Owner(h, t)
  \/ \E t \in Tenants, methods \in SUBSET Methods : UpdateBusiness(t, methods)
  \/ \E h \in Handlers : Step(h) \/ Fail(h)
  \/ Crash

Spec == Init /\ [][Next]_vars

-----------------------------------------------------------------------------
TypeOK ==
  /\ tenants \in [Tenants -> [status : Statuses, phone : Phones \cup {None},
                              waba : Wabas \cup {None}, connected : BOOLEAN,
                              credential : {"none", "live", "revoked"}, methods : SUBSET Methods]]
  /\ subscribed \subseteq Wabas /\ approved \subseteq Tenants /\ invited \subseteq Tenants
  /\ proved \subseteq [t : Tenants, phone : Phones, waba : Wabas]

\* A shop that is live keeps what it was activated for, through any disconnect,
\* reconnect and profile change that overlaps the activation
\* (models/Tenant.ts:172-199, 314-333).
ActiveIsReady ==
  \A t \in Tenants : tenants[t].status = "ACTIVE" => MissingActivationFields(tenants[t]) = {}

\* No number is stored that Meta has not confirmed to a request of this shop, and
\* no WABA either; the app hears of the number's messages before the shop has it
\* (whatsappOnboarding.ts:80-86, 135-153).
NumberIsProved ==
  \A t \in Tenants :
    /\ tenants[t].phone # None => /\ \E x \in proved : x.t = t /\ x.phone = tenants[t].phone
                                  /\ Belongs[tenants[t].phone] \in subscribed
    /\ tenants[t].waba # None => \E x \in proved : x.t = t /\ x.waba = tenants[t].waba

\* The resolver finds at most one shop for a number, however many connect it at
\* once (whatsappOnboarding.ts:168-185, models/Tenant.ts:291-293).
NumberHeldByOne ==
  \A t, u \in Tenants : t # u /\ tenants[t].phone # None => tenants[t].phone # tenants[u].phone

\* Nobody gets a link into a shop, and no shop serves customers, that an operator
\* has not approved at some time (admin.controller.ts:150-166, 270-282).
ApprovedFirst ==
  \A t \in Tenants : t \in invited \/ tenants[t].status \in {"TRIAL", "ACTIVE"} => t \in approved

\* "a tenant must prove the number really lives in the WABA they claim before we
\* store it" (whatsappOnboarding.ts:82-84): the stored pair is one Meta knows.  Not
\* kept when two connections overlap: each saves what differs from what it read.
PairIsOwned ==
  \A t \in Tenants :
    tenants[t].phone # None /\ tenants[t].waba # None => Belongs[tenants[t].phone] = tenants[t].waba

\* "Only PENDING tenants are a valid source": a decision once saved is not
\* overruled by another (admin.controller.ts:118-121).  Not kept when two decisions
\* overlap, both having read PENDING.
DecidedOnce ==
  [][\A t \in Tenants :
       tenants'[t].status # tenants[t].status /\ tenants'[t].status \in {"TRIAL", "REJECTED"}
         => tenants[t].status = "PENDING"]_vars
=============================================================================
