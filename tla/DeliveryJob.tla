----------------------------- MODULE DeliveryJob -----------------------------
(***************************************************************************)
(* The fulfilment job of one order (delivery/delivery.service.ts): the     *)
(* method the customer chose, the driver, and the milestones the shop      *)
(* moves it along, with the order status and the customer message each     *)
(* milestone implies (controllers/delivery/deliveryStatus.controller.ts).  *)
(*                                                                         *)
(* A milestone is one transaction over job and order.  The assignment of a *)
(* driver reads the roster, then the job, then saves the job, so customers *)
(* and staff can act between its reads and its save.                       *)
(***************************************************************************)
EXTENDS Naturals

CONSTANTS
  Staff,         \* dashboard requests in progress at a time
  Drivers,       \* the roster
  NoDriver       \* a value that is no driver

ASSUME DriverAssumption == NoDriver \notin Drivers

Milestones == {"shipped", "delivered"}

STATUS_ORDER == [s \in {"pending", "shipped", "delivered"} |->
                   CASE s = "pending" -> 0 [] s = "shipped" -> 1 [] OTHER -> 2]
rank(s) == STATUS_ORDER[s]

\* dispatchedAt and deliveredAt: how often the stamp was written, up to 2.
\* method "none": the customer has not chosen, there is no job.
Jobs == [method : {"none", "collect", "door_delivery"}, driver : Drivers \cup {NoDriver},
         status : {"pending"} \cup Milestones, dispatchedAt : 0 .. 2, deliveredAt : 0 .. 2]
NoJob == [method |-> "none", driver |-> NoDriver, status |-> "pending",
          dispatchedAt |-> 0, deliveredAt |-> 0]

VARIABLES
  job,          \* the Delivery document
  orderStatus,  \* the Order's status
  roster,       \* roster[d]: "active", "inactive" or "deleted"
  desk,         \* desk[x]: the request x, where it stands, what it read
  messages,     \* messages[m]: times the customer was told of milestone m, up to 2
  late          \* history: a payment has confirmed an order already completed

jobVars == <<job, orderStatus, roster, desk, messages, late>>

DeskIdle == [pc |-> "idle", driver |-> NoDriver, seen |-> NoDriver, milestone |-> "shipped"]

JobTypeOK ==
  /\ job \in Jobs
  /\ orderStatus \in {"pending", "confirmed", "completed"}
  /\ roster \in [Drivers -> {"active", "inactive", "deleted"}]
  /\ desk \in [Staff -> [pc : {"idle", "load", "save", "notify"}, driver : Drivers \cup {NoDriver},
                       seen : Drivers \cup {NoDriver}, milestone : Milestones]]
  /\ messages \in [Milestones -> 0 .. 2]
  /\ late \in BOOLEAN

JobInit ==
  /\ job = NoJob
  /\ orderStatus = "pending"
  /\ roster = [d \in Drivers |-> "active"]
  /\ desk = [x \in Staff |-> DeskIdle]
  /\ messages = [m \in Milestones |-> 0]
  /\ late = FALSE

Once(n) == IF n < 2 THEN n + 1 ELSE n

\* Mutant: a re-run starts the job over.
upsertReset(m) ==
  /\ job' = [NoJob EXCEPT !.method = m]
  /\ UNCHANGED <<orderStatus, roster, desk, messages, late>>

\* upsertDeliveryForOrder: one atomic upsert.  A job never loses its
\* milestones; collection retires the driver.
upsertDeliveryForOrder(m) ==
  /\ job' = [job EXCEPT !.method = m, !.driver = IF m = "collect" THEN NoDriver ELSE @]
  /\ UNCHANGED <<orderStatus, roster, desk, messages, late>>

\* The roster is edited from the dashboard.
UpdateRoster(d) ==
  /\ roster[d] # "deleted"
  /\ \E s \in {"active", "inactive", "deleted"} : roster' = [roster EXCEPT ![d] = s]
  /\ UNCHANGED <<job, orderStatus, desk, messages, late>>

\* assignDriverHandler: the driver must be on the roster and active; NoDriver
\* clears the assignment without a look at the roster.
BeginAssign(x, d) ==
  /\ desk[x].pc = "idle"
  /\ d # NoDriver => roster[d] = "active"
  /\ desk' = [desk EXCEPT ![x] = [DeskIdle EXCEPT !.pc = "load", !.driver = d]]
  /\ UNCHANGED <<job, orderStatus, roster, messages, late>>

\* assignDriver loads the job; only a door delivery takes a driver.
LoadJob(x) ==
  /\ desk[x].pc = "load"
  /\ IF job.method = "none" \/ (desk[x].driver # NoDriver /\ job.method # "door_delivery")
     THEN desk' = [desk EXCEPT ![x] = DeskIdle]
     ELSE desk' = [desk EXCEPT ![x].pc = "save", ![x].seen = job.driver]
  /\ UNCHANGED <<job, orderStatus, roster, messages, late>>

\* save() writes the driver where it differs from the one loaded; the driver's
\* own message follows and cannot fail the request.
SaveDriver(x) ==
  /\ desk[x].pc = "save"
  /\ job' = [job EXCEPT !.driver = IF desk[x].driver = desk[x].seen THEN @ ELSE desk[x].driver]
  /\ desk' = [desk EXCEPT ![x] = DeskIdle]
  /\ UNCHANGED <<orderStatus, roster, messages, late>>

\* Mutant: a repeat counts as a change, and the order is left alone.
advanceAgain(x, next) ==
  /\ desk[x].pc = "idle" /\ job.method # "none" /\ rank(job.status) <= rank(next)
  /\ job' = [job EXCEPT !.status = next]
  /\ desk' = [desk EXCEPT ![x] = [DeskIdle EXCEPT !.pc = "notify", !.milestone = next]]
  /\ UNCHANGED <<orderStatus, roster, messages, late>>

\* advanceDelivery and the order it implies, in one transaction: forward only,
\* a repeat changes nothing, DELIVERED completes an order that is not yet
\* completed even on a repeat, and stamps a dispatch that was skipped.
advanceDeliveryStatus(x, next) ==
  /\ desk[x].pc = "idle"
  /\ job.method # "none"
  /\ rank(job.status) <= rank(next)
  /\ LET moves     == job.status # next
         completes == next = "delivered" /\ orderStatus # "completed"
     IN /\ job' = IF ~ moves THEN job
                  ELSE [job EXCEPT
                          !.status = next,
                          !.dispatchedAt = IF next = "shipped" \/ @ = 0 THEN Once(@) ELSE @,
                          !.deliveredAt = IF next = "delivered" THEN Once(@) ELSE @]
        /\ orderStatus' = IF completes THEN "completed" ELSE orderStatus
        /\ desk' = IF moves \/ completes
                    THEN [desk EXCEPT ![x] = [DeskIdle EXCEPT !.pc = "notify", !.milestone = next]]
                    ELSE desk
  /\ UNCHANGED <<roster, messages, late>>

\* The customer is told after the commit; the attempt may fail unnoticed.
NotifyCustomer(x) ==
  /\ desk[x].pc = "notify"
  /\ \/ messages' = [messages EXCEPT ![desk[x].milestone] = Once(@)]
     \/ UNCHANGED messages
  /\ desk' = [desk EXCEPT ![x] = DeskIdle]
  /\ UNCHANGED <<job, orderStatus, roster, late>>

\* A payment settles, or cash on delivery confirms the order, whatever the shop
\* has done with it meanwhile.
ConfirmOrder ==
  /\ orderStatus' = "confirmed"
  /\ late' = (late \/ orderStatus = "completed")
  /\ UNCHANGED <<job, roster, desk, messages>>

JobNext ==
  \/ \E m \in {"collect", "door_delivery"} : upsertDeliveryForOrder(m)
  \/ \E d \in Drivers : UpdateRoster(d)
  \/ \E x \in Staff, d \in Drivers \cup {NoDriver} : BeginAssign(x, d)
  \/ \E x \in Staff : LoadJob(x) \/ SaveDriver(x) \/ NotifyCustomer(x)
  \/ \E x \in Staff, m \in Milestones : advanceDeliveryStatus(x, m)
  \/ ConfirmOrder

JobSpec == JobInit /\ [][JobNext]_jobVars

(***************************************************************************)
(* What the fulfilment of an order promises.                               *)
(***************************************************************************)

\* A job never goes back, whatever staff and customers do to it
\* (delivery.service.ts:11, 50).
ForwardOnly == [][rank(job'.status) >= rank(job.status)]_jobVars

\* The delivery milestone and the completed order land together or not at all
\* (deliveryStatus.controller.ts:67), and only a payment that settles after the
\* delivery opens the order again.
DeliveredMeansCompleted ==
  /\ orderStatus = "completed" => job.status = "delivered"
  /\ job.status = "delivered" => orderStatus = "completed" \/ late

\* However often and by however many a milestone is tapped, what it brings
\* happens once: its stamp, also that of a dispatch that was skipped, and the
\* customer's message, but for the delivery of an order that a payment has
\* opened again (delivery.service.ts:213-219).
OncePerMilestone ==
  /\ job.dispatchedAt = IF rank(job.status) >= 1 THEN 1 ELSE 0
  /\ job.deliveredAt = IF job.status = "delivered" THEN 1 ELSE 0
  /\ messages["shipped"] <= 1
  /\ messages["delivered"] <= 1 \/ late

\* Not kept: the customer is told of each milestone once.  A payment that settles
\* after the delivery puts the order back, and the next tap on "Delivered"
\* completes and tells again.
ToldAtMostOnce == \A m \in Milestones : messages[m] <= 1

=============================================================================
