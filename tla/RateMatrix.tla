------------------------------ MODULE RateMatrix ------------------------------
(***************************************************************************)
(* A shop's delivery set-up and the quotes made from it: zones, vehicles   *)
(* and the matrix of rates (controllers/delivery/                          *)
(* deliveryConfig.controller.ts, delivery/{zone,vehicle,rate}.service.ts), *)
(* its starter set-up (delivery/defaults.ts), and the quote engine         *)
(* (delivery/quote.service.ts).                                            *)
(*                                                                         *)
(* An edit reads a document, merges the patch, validates the result and    *)
(* saves the paths it changed.  A quote is four reads with edits between   *)
(* them.  A collection is a set of documents; an edit gives the document   *)
(* it creates the number of the edit as its id, as ids are never reused.   *)
(***************************************************************************)
EXTENDS Integers, FiniteSetsExt, Functions

CONSTANTS
  Handlers,     \* edits in progress at a time
  Pins,         \* drop-off points
  Distance,     \* Distance[p]: kilometres from the shop
  Names,        \* names of zones
  Carts,        \* carts: sets of [quantity, kg, bulk, tier]
  Setups,       \* what the shop may have at first: [zones, vehicles, rates]
  ZoneInputs, ZonePatches, VehicleInputs, VehiclePatches,
  TiersPriced, Pricings,  \* tiers and bodies of a PUT of a cell
  None,         \* a field that is not set
  MaxEdits      \* bound on requests that change the set-up

\* "none" is the floor of a product that asks for no tier (constants/models.ts).
RankOf  == [none |-> 0, bike |-> 1, van |-> 2, small_truck |-> 3, truck |-> 4]
Rank(t) == RankOf[t]
Tiers   == DOMAIN RankOf \ {"none"}

\* The documents, and what the fields of a patch hold.
Rings      == [min : Nat, max : Nat]
ZoneBodies == [name : Names, kind : {"ring", "polygon"}, ring : Rings \cup {None},
               area : {None} \cup SUBSET Pins, priority : Int, active : BOOLEAN]
Zones      == [id : Nat, name : Names, kind : {"ring", "polygon"}, ring : Rings \cup {None},
               area : {None} \cup SUBSET Pins, priority : Int, active : BOOLEAN]
ZoneValues == [name |-> Names, kind |-> {"ring", "polygon"}, ring |-> Rings,
               area |-> SUBSET Pins, priority |-> Int, active |-> BOOLEAN]

VehicleBodies == [tier : Tiers, max : Nat, active : BOOLEAN]
Vehicles      == [id : Nat, tier : Tiers, max : Nat, active : BOOLEAN]
VehicleValues == [tier |-> Tiers, max |-> Nat, active |-> BOOLEAN]

Kinds   == {"flat", "base_per_km", "not_served"}
Amounts == Nat \cup {None}
Prices  == [kind : Kinds, flat : Amounts, base : Amounts, perKm : Amounts]
Rates   == [id : Nat, zone : Nat, tier : Tiers,
            kind : Kinds, flat : Amounts, base : Amounts, perKm : Amounts]

Ids(coll) == {d.id : d \in coll}

\* The ids below are those of the first set-up's documents.
FirstEdit == 10

\* The matcher must be the kind's own.
ZoneValid(z) ==
  /\ z.kind = "ring" => z.ring # None /\ z.ring.min < z.ring.max
  /\ z.kind = "polygon" => z.area # None

\* The unique indexes.
NamesUnique(coll) == \A y, z \in coll : y.name = z.name => y = z
TiersUnique(coll) == \A u, v \in coll : u.tier = v.tier => u = v
CellsUnique(coll) == \A q, r \in coll : q.zone = r.zone /\ q.tier = r.tier => q = r
IdsUnique(coll)   == \A c, d \in coll : c.id = d.id => c = d

ASSUME NoneAssumption     ==
  None \notin Rings /\ None \notin Nat /\ \A area \in SUBSET Pins : area # None
ASSUME DistanceAssumption == \A p \in Pins : Distance[p] \in Nat
ASSUME CartAssumption ==
  \A cart \in Carts :
    /\ IsFiniteSet(cart)
    /\ \A l \in cart : l.quantity \in Int /\ l.kg \in Nat /\ l.bulk \in Nat /\ l.tier \in DOMAIN RankOf
ASSUME SetupAssumption ==
  \A s \in Setups :
    /\ s.zones \subseteq Zones /\ s.vehicles \subseteq Vehicles /\ s.rates \subseteq Rates
    /\ \A coll \in {s.zones, s.vehicles, s.rates} : IdsUnique(coll) /\ \A d \in coll : d.id < FirstEdit
    /\ NamesUnique(s.zones) /\ TiersUnique(s.vehicles) /\ CellsUnique(s.rates)
    /\ \A z \in s.zones : ZoneValid(z)
    /\ \A r \in s.rates : r.zone \in Ids(s.zones)
\* The starter zone has a name of its own; a patch names only the fields it sets.
ASSUME InputAssumption ==
  /\ "Citywide" \in Names
  /\ ZoneInputs \subseteq ZoneBodies /\ VehicleInputs \subseteq VehicleBodies
  /\ \A p \in ZonePatches : \A f \in DOMAIN p : f \in DOMAIN ZoneValues /\ p[f] \in ZoneValues[f]
  /\ \A p \in VehiclePatches : \A f \in DOMAIN p : f \in DOMAIN VehicleValues /\ p[f] \in VehicleValues[f]
  /\ TiersPriced \subseteq Tiers /\ Pricings \subseteq Prices

VARIABLES
  zones, vehicles, rates,  \* the three collections
  edits,     \* FirstEdit and the edits so far
  asked,     \* [zone, tier, price] of every cell that was ever asked for
  torn,      \* cells saved over a change the request had not seen
  crossed,   \* zones saved over a change the request had not seen
  late,      \* cells created for a zone that was gone by then
  cut,       \* zones whose cascade a crash has cut off
  at,        \* at[h]: the edit h works on
  quote      \* the quote in progress, and whether the set-up is as it was at its start

setup   == <<zones, vehicles, rates>>
history == <<asked, torn, crossed, late, cut>>
vars    == <<setup, edits, history, at, quote>>

Price(r) == [kind |-> r.kind, flat |-> r.flat, base |-> r.base, perKm |-> r.perKm]
Rate(n, zone, tier, p) == [id |-> n, zone |-> zone, tier |-> tier, kind |-> p.kind,
                           flat |-> p.flat, base |-> p.base, perKm |-> p.perKm]
Ask(zone, tier, price) == [zone |-> zone, tier |-> tier, price |-> price]

Idle    == [pc |-> "idle", id |-> None, seen |-> None, new |-> None]
NoQuote == [pc |-> "idle", pin |-> None, cart |-> {}, origin |-> FALSE, found |-> {},
            zone |-> None, fleet |-> {}, clean |-> FALSE, result |-> None]

Init ==
  /\ \E s \in Setups :
       /\ zones = s.zones /\ vehicles = s.vehicles /\ rates = s.rates
       /\ asked = {Ask(r.zone, r.tier, Price(r)) : r \in s.rates}
  /\ edits = FirstEdit
  /\ torn = {} /\ crossed = {} /\ late = {} /\ cut = {}
  /\ at = [h \in Handlers |-> Idle]
  /\ quote = NoQuote

Goto(h, pc)  == at' = [at EXCEPT ![h].pc = pc]
Finish(h)    == at' = [at EXCEPT ![h] = Idle]
Edit         == edits < FirstEdit + MaxEdits /\ edits' = edits + 1
Write        == quote' = [quote EXCEPT !.clean = FALSE]
Start(h, request) == at[h].pc = "idle" /\ Edit /\ at' = [at EXCEPT ![h] = request]

WithId(n, body)  == [f \in DOMAIN body \cup {"id"} |-> IF f = "id" THEN n ELSE body[f]]

\* Mutant: the matcher of the other kind goes, as the other amounts of a price do.
MergedAndCleared(d, patch) ==
  LET m == [f \in DOMAIN d |-> IF f \in DOMAIN patch THEN patch[f] ELSE d[f]] IN
  IF "kind" \notin DOMAIN d THEN m
  ELSE [m EXCEPT !.ring = IF m.kind = "ring" THEN @ ELSE None,
                 !.area = IF m.kind = "polygon" THEN @ ELSE None]

Merged(d, patch) == [f \in DOMAIN d |-> IF f \in DOMAIN patch THEN patch[f] ELSE d[f]]

\* save() writes a path only where the value set differs from the one loaded, and
\* nothing at all to a document that is gone.
Written(loaded, new, stored) == IF new = loaded THEN stored ELSE new
Overwritten(d, loaded, new) == [f \in DOMAIN d |-> Written(loaded[f], new[f], d[f])]
Saved(coll, loaded, new) ==
  {IF d.id = loaded.id THEN Overwritten(d, loaded, new) ELSE d : d \in coll}

-----------------------------------------------------------------------------
(* Zones.  The name is unique.                                             *)

CreateZone(input) ==
  LET z == WithId(edits, input) IN
  /\ Edit /\ Write
  /\ ZoneValid(z) /\ NamesUnique(zones \cup {z})
  /\ zones' = zones \cup {z}
  /\ UNCHANGED <<vehicles, rates, history, at>>

BeginUpdateZone(h, z, patch) ==
  /\ ZoneValid(Merged(z, patch))
  /\ Start(h, [Idle EXCEPT !.pc = "zone", !.seen = z, !.new = Merged(z, patch)])
  /\ UNCHANGED <<setup, history, quote>>

SaveZone(h) ==
  LET seen  == at[h].seen
      saved == Saved(zones, seen, at[h].new)
  IN
  /\ at[h].pc = "zone"
  /\ IF NamesUnique(saved)
       THEN /\ zones' = saved
            /\ crossed' = crossed \cup {z.id : z \in {z \in zones : z.id = seen.id /\ z # seen}}
       ELSE UNCHANGED <<zones, crossed>>
  /\ Write /\ Finish(h)
  /\ UNCHANGED <<vehicles, rates, edits, asked, torn, late, cut>>

\* Mutant: the cells stay.
DeleteZoneOnly(h, z) ==
  /\ at[h].pc = "idle" /\ Edit /\ Write
  /\ zones' = zones \ {z}
  /\ UNCHANGED <<vehicles, rates, history, at>>

DeleteZone(h, z) ==
  /\ Start(h, [Idle EXCEPT !.pc = "cascade", !.id = z.id])
  /\ zones' = zones \ {z}
  /\ Write
  /\ UNCHANGED <<vehicles, rates, history>>

Cascade(h) ==
  /\ at[h].pc = "cascade"
  /\ rates' = {r \in rates : r.zone # at[h].id}
  /\ Write /\ Finish(h)
  /\ UNCHANGED <<zones, vehicles, edits, history>>

-----------------------------------------------------------------------------
(* Vehicles, one of a tier.                                                *)

CreateVehicle(input) ==
  LET v == WithId(edits, input) IN
  /\ Edit /\ Write
  /\ TiersUnique(vehicles \cup {v})
  /\ vehicles' = vehicles \cup {v}
  /\ UNCHANGED <<zones, rates, history, at>>

BeginUpdateVehicle(h, v, patch) ==
  /\ Start(h, [Idle EXCEPT !.pc = "vehicle", !.seen = v, !.new = Merged(v, patch)])
  /\ UNCHANGED <<setup, history, quote>>

SaveVehicle(h) ==
  LET saved == Saved(vehicles, at[h].seen, at[h].new) IN
  /\ at[h].pc = "vehicle"
  /\ vehicles' = IF TiersUnique(saved) THEN saved ELSE vehicles
  /\ Write /\ Finish(h)
  /\ UNCHANGED <<zones, rates, edits, history>>

DeleteVehicle(v) ==
  /\ Edit /\ Write
  /\ vehicles' = vehicles \ {v}
  /\ UNCHANGED <<zones, rates, history, at>>

-----------------------------------------------------------------------------
(* The matrix: one cell for a zone and a tier.                             *)

Cell(zone, tier) == {r \in rates : r.zone = zone /\ r.tier = tier}

\* The zone is looked up; an unknown one is refused.
BeginUpsertRate(h, z, tier, price) ==
  /\ Start(h, [Idle EXCEPT !.pc = "find", !.new = Rate(edits, z.id, tier, price)])
  /\ asked' = asked \cup {Ask(z.id, tier, price)}
  /\ UNCHANGED <<setup, torn, crossed, late, cut, quote>>

\* Mutant: the fields of another kind of price stay.
ClearedNot(r, new) ==
  [r EXCEPT !.kind = new.kind, !.flat  = IF new.flat = None THEN @ ELSE new.flat,
            !.base = IF new.base = None THEN @ ELSE new.base,
            !.perKm = IF new.perKm = None THEN @ ELSE new.perKm]

\* A price has no fields but those asked for.
Cleared(r, new) == Rate(r.id, r.zone, r.tier, Price(new))

FindRate(h) ==
  LET new == at[h].new  cell == Cell(new.zone, new.tier) IN
  /\ at[h].pc = "find"
  /\ at' = IF cell = {} THEN [at EXCEPT ![h].pc = "create"]
           ELSE \* one cell, by the index
                LET r == CHOOSE r \in cell : TRUE IN
                [at EXCEPT ![h].pc = "rate", ![h].seen = r, ![h].new = Cleared(r, new)]
  /\ UNCHANGED <<setup, edits, history, quote>>

SaveRate(h) ==
  LET seen == at[h].seen  old == {r \in rates : r.id = seen.id} IN
  /\ at[h].pc = "rate"
  /\ rates' = Saved(rates, seen, at[h].new)
  /\ torn' = torn \cup {r.id : r \in old \ {seen}}
  /\ Write /\ Finish(h)
  /\ UNCHANGED <<zones, vehicles, edits, asked, crossed, late, cut>>

\* The index refuses a second cell; the request then fails.
CreateRate(h) ==
  LET new == at[h].new IN
  /\ at[h].pc = "create"
  /\ IF Cell(new.zone, new.tier) = {}
       THEN /\ rates' = rates \cup {new}
            /\ late' = IF new.zone \in Ids(zones) THEN late ELSE late \cup {new.id}
       ELSE UNCHANGED <<rates, late>>
  /\ Write /\ Finish(h)
  /\ UNCHANGED <<zones, vehicles, edits, asked, torn, crossed, cut>>

DeleteRate(r) ==
  /\ Edit /\ Write
  /\ rates' = rates \ {r}
  /\ UNCHANGED <<zones, vehicles, history, at>>

-----------------------------------------------------------------------------
(* The starter set-up: whichever of its three parts is missing, in one     *)
(* transaction.                                                            *)

DefaultZone    == [name |-> "Citywide", kind |-> "ring", ring |-> [min |-> 0, max |-> 50],
                   area |-> None, priority |-> 1000, active |-> TRUE]
DefaultVehicle == [tier |-> "van", max |-> 500, active |-> TRUE]
DefaultPrice   == [kind |-> "flat", flat |-> 300, base |-> None, perKm |-> None]

seedDefaultDeliverySetup ==
  LET mine(z) == z.name = DefaultZone.name
      zone    == IF \E z \in zones : mine(z) THEN CHOOSE z \in zones : mine(z)
                 ELSE WithId(edits, DefaultZone)
      vehicle == IF \E v \in vehicles : v.tier = "van" THEN {} ELSE {WithId(edits, DefaultVehicle)}
      cell    == IF Cell(zone.id, "van") # {} THEN {} ELSE {Rate(edits, zone.id, "van", DefaultPrice)}
  IN
  /\ Edit /\ Write
  /\ zones' = zones \cup {zone}
  /\ vehicles' = vehicles \cup vehicle
  /\ rates' = rates \cup cell
  /\ asked' = asked \cup {Ask(r.zone, r.tier, Price(r)) : r \in cell}
  /\ UNCHANGED <<torn, crossed, late, cut, at>>

-----------------------------------------------------------------------------
(* A quote.                                                                *)

BeginQuote(pin, cart, origin) ==
  /\ quote.pc = "idle"
  /\ quote' = [NoQuote EXCEPT !.pc = "polygons", !.pin = pin, !.cart = cart,
                              !.origin = origin, !.clean = TRUE]
  /\ UNCHANGED <<setup, edits, history, at>>

Quoted(zone, tier, fee) ==
  quote' = [quote EXCEPT !.pc = "quoted", !.zone = zone,
                   !.result = [status |-> "QUOTED", tier |-> tier, fee |-> fee]]
Refused(zone, status) ==
  quote' = [quote EXCEPT !.pc = "quoted", !.zone = zone,
                   !.result = [status |-> status, tier |-> None, fee |-> 0]]

ReadPolygons ==
  /\ quote.pc = "polygons"
  /\ quote' = [quote EXCEPT !.pc = "rings",
              !.found = {z \in zones : z.kind = "polygon" /\ z.active /\ quote.pin \in z.area}]
  /\ UNCHANGED <<setup, edits, history, at>>

\* Mutant: a pin on the border between two rings is in both.
InRingClosed(z, pin) == z.ring.min <= Distance[pin] /\ Distance[pin] <= z.ring.max

InRing(z, pin) == z.ring.min <= Distance[pin] /\ Distance[pin] < z.ring.max

\* Lowest priority number first.
BestMatches(found) == {z \in found : \A y \in found : z.priority <= y.priority}

\* Equal priorities keep their order: polygons, which were found first, then rings.
ReadRings ==
  LET rings   == {z \in zones : z.kind = "ring" /\ z.active /\ quote.origin /\ InRing(z, quote.pin)}
      matches == quote.found \cup rings
      best    == BestMatches(matches)
      first   == IF best \cap quote.found # {} THEN best \cap quote.found ELSE best
  IN
  /\ quote.pc = "rings"
  /\ IF matches = {} THEN Refused(None, "OUT_OF_AREA")
     ELSE \E z \in first : quote' = [quote EXCEPT !.pc = "vehicles", !.zone = z]
  /\ UNCHANGED <<setup, edits, history, at>>

\* Billed by weight or by bulk, whichever is more; the strongest floor of its lines.
Billed(cart) == {l \in cart : l.quantity > 0}
Weight(cart) == SumFunction([l \in Billed(cart) |-> l.kg * l.quantity])
Bulk(cart)   == SumFunction([l \in Billed(cart) |-> l.bulk * l.quantity])

computeVehicleRequirement(cart) ==
  [weightKg |-> Max({Weight(cart), Bulk(cart)}),
   minTier  |-> Max({0} \cup {Rank(l.tier) : l \in Billed(cart)})]

Fits(v, requirement) ==
  v.active /\ Rank(v.tier) >= requirement.minTier /\ v.max >= requirement.weightKg

ReadVehicles ==
  LET fitting == {v \in vehicles : Fits(v, computeVehicleRequirement(quote.cart))} IN
  /\ quote.pc = "vehicles"
  /\ IF fitting = {} THEN Refused(quote.zone, "NO_VEHICLE")
     ELSE quote' = [quote EXCEPT !.pc = "rates", !.fleet = fitting]
  /\ UNCHANGED <<setup, edits, history, at>>

computeDeliveryFee(r, pin) ==
  CASE r.kind = "flat"        -> r.flat
    [] r.kind = "base_per_km" -> r.base + r.perKm * Distance[pin]

Unpriced(r) == \/ r.kind = "flat" /\ r.flat = None
               \/ r.kind = "base_per_km" /\ None \in {r.base, r.perKm}

Serves(r, origin) == r.kind # "not_served" /\ (r.kind = "base_per_km" => origin)

\* The smallest of the fitting vehicles that has a price.
ReadRates ==
  LET cells(v) == {r \in rates : r.zone = quote.zone.id /\ r.tier = v.tier /\ Serves(r, quote.origin)}
      priced   == {v \in quote.fleet : cells(v) # {}}
  IN
  /\ quote.pc = "rates"
  /\ IF priced = {} THEN Refused(quote.zone, "NOT_SERVED")
     ELSE \E v \in priced : \E r \in cells(v) :
            /\ \A u \in priced : Rank(v.tier) <= Rank(u.tier)
            \* a price whose amount is missing throws
            /\ IF Unpriced(r) THEN Refused(quote.zone, "ERROR")
               ELSE Quoted(quote.zone, r.tier, computeDeliveryFee(r, quote.pin))
  /\ UNCHANGED <<setup, edits, history, at>>

EndQuote ==
  /\ quote.pc = "quoted"
  /\ quote' = NoQuote
  /\ UNCHANGED <<setup, edits, history, at>>

-----------------------------------------------------------------------------
Crash ==
  /\ Edit
  /\ cut' = cut \cup {at[h].id : h \in {h \in Handlers : at[h].pc = "cascade"}}
  /\ at' = [h \in Handlers |-> Idle]
  /\ quote' = NoQuote
  /\ UNCHANGED <<setup, asked, torn, crossed, late>>

EditZones(h) ==
  \/ \E input \in ZoneInputs : CreateZone(input)
  \/ \E z \in zones : DeleteZone(h, z) \/ \E patch \in ZonePatches : BeginUpdateZone(h, z, patch)
  \/ SaveZone(h) \/ Cascade(h)

EditVehicles(h) ==
  \/ \E input \in VehicleInputs : CreateVehicle(input)
  \/ \E v \in vehicles : \/ DeleteVehicle(v)
                         \/ \E patch \in VehiclePatches : BeginUpdateVehicle(h, v, patch)
  \/ SaveVehicle(h)

EditRates(h) ==
  \/ \E z \in zones, t \in TiersPriced, p \in Pricings : BeginUpsertRate(h, z, t, p)
  \/ FindRate(h) \/ SaveRate(h) \/ CreateRate(h)
  \/ \E r \in rates : DeleteRate(r)

Quote ==
  \/ \E pin \in Pins, cart \in Carts, origin \in BOOLEAN : BeginQuote(pin, cart, origin)
  \/ ReadPolygons \/ ReadRings \/ ReadVehicles \/ ReadRates \/ EndQuote

Next ==
  \/ \E h \in Handlers : EditZones(h) \/ EditVehicles(h) \/ EditRates(h)
  \/ Quote \/ seedDefaultDeliverySetup \/ Crash

Spec == Init /\ [][Next]_vars

-----------------------------------------------------------------------------
\* Types, and the unique indexes.
Requests ==
  [pc : {"idle"}, id : {None}, seen : {None}, new : {None}] \cup
  [pc : {"cascade"}, id : Nat, seen : {None}, new : {None}] \cup
  [pc : {"zone"}, id : {None}, seen : Zones, new : Zones] \cup
  [pc : {"vehicle"}, id : {None}, seen : Vehicles, new : Vehicles] \cup
  [pc : {"rate"}, id : {None}, seen : Rates, new : Rates] \cup
  [pc : {"find", "create"}, id : {None}, seen : {None}, new : Rates]

Results == [status : {"OUT_OF_AREA", "NO_VEHICLE", "NOT_SERVED", "QUOTED", "ERROR"},
            tier : Tiers \cup {None}, fee : Nat]

TypeOK ==
  /\ zones \subseteq Zones /\ vehicles \subseteq Vehicles /\ rates \subseteq Rates
  /\ \A coll \in {zones, vehicles, rates} : IdsUnique(coll)
  /\ NamesUnique(zones) /\ TiersUnique(vehicles) /\ CellsUnique(rates)
  /\ edits \in Nat
  /\ at \in [Handlers -> Requests]
  /\ quote.pc = "idle" => quote = NoQuote
  /\ quote.pc # "idle" =>
       quote \in [pc : {"polygons", "rings", "vehicles", "rates", "quoted"}, pin : Pins, cart : Carts,
                  origin : BOOLEAN, found : SUBSET Zones, zone : Zones \cup {None},
                  fleet : SUBSET Vehicles, clean : BOOLEAN, result : Results \cup {None}]

\* A cell holds exactly the price that was asked for it, whatever kind of price it
\* held before, unless a request saved over a change it had not seen
\* (rate.service.ts:28-43).
CellAsRequested ==
  \A r \in rates : r.id \notin torn => Ask(r.zone, r.tier, Price(r)) \in asked

\* However two patches of a zone overlap, one changing its kind and the other its
\* matcher, the zone has a matcher of its kind, so a quote can look for the pin in
\* it; and the ring of a ring zone is not empty, unless the zone was saved over a
\* change the request had not seen (zone.service.ts:38-46, DeliveryZone.ts:76-89).
Matched(z) == (z.kind = "ring" => z.ring # None) /\ (z.kind = "polygon" => z.area # None)

ZoneHasMatcher ==
  \A z \in zones : Matched(z) /\ (z.id \notin crossed => ZoneValid(z))

\* A deleted zone takes its cells with it, unless a crash cuts its cascade off or
\* a cell is created by a request that saw the zone before (zone.service.ts:46-57).
NoStrayCells ==
  \A r \in rates :
    \/ r.zone \in Ids(zones) \cup cut \/ r.id \in late
    \/ \E h \in Handlers : at[h].pc = "cascade" /\ at[h].id = r.zone

Covers(z, pin, origin) ==
  z.active /\ IF z.kind = "polygon" THEN pin \in z.area ELSE origin /\ Distance[pin] \in z.ring.min .. z.ring.max - 1

\* No line asks for a larger vehicle, and neither weight nor bulk is too much.
Carries(v, cart) ==
  LET lines == {l \in cart : l.quantity > 0} IN
  /\ v.active
  /\ \A l \in lines : Rank(l.tier) <= Rank(v.tier)
  /\ SumFunction([l \in lines |-> l.kg * l.quantity]) <= v.max
  /\ SumFunction([l \in lines |-> l.bulk * l.quantity]) <= v.max

HasPrice(z, v, origin) == \E r \in Cell(z.id, v.tier) : Serves(r, origin)

\* What a quote promises, when nobody edits the set-up under it: the zone is not
\* outranked by another that covers the pin, the vehicle carries the cart, no
\* smaller one that does has a price, the fee is the cell's; and a refusal says
\* truly what is missing (quote.service.ts:78-146, zone.service.ts:59-117).
QuoteIsRight ==
  quote.pc = "quoted" /\ quote.clean =>
      LET q == quote.result  z == quote.zone
          able == {v \in vehicles : Carries(v, quote.cart)}
      IN
      /\ q.status # "OUT_OF_AREA" =>
           /\ z \in zones /\ Covers(z, quote.pin, quote.origin)
           /\ \A y \in zones : Covers(y, quote.pin, quote.origin) => z.priority <= y.priority
      /\ q.status = "OUT_OF_AREA" => \A y \in zones : ~ Covers(y, quote.pin, quote.origin)
      /\ q.status = "NO_VEHICLE" <=> q.status # "OUT_OF_AREA" /\ able = {}
      /\ q.status = "NOT_SERVED" => \A v \in able : ~ HasPrice(z, v, quote.origin)
      /\ q.status = "QUOTED" =>
           \E v \in able, r \in rates :
             /\ v.tier = q.tier /\ r.zone = z.id /\ r.tier = q.tier
             /\ q.fee = computeDeliveryFee(r, quote.pin)
             /\ \A u \in able : Rank(u.tier) < Rank(v.tier) => ~ HasPrice(z, u, quote.origin)

\* "The matcher must match the kind ... Fail fast at validation rather than silently
\* never matching" (delivery/models/DeliveryZone.ts:76-77).  Not kept when a patch
\* puts an empty ring onto a polygon zone, whose ring nobody validates, while
\* another makes it a ring zone.
EveryZoneIsValid == \A z \in zones : ZoneValid(z)

\* "The pricing fields must match the kind - fail at validation, not at quote time"
\* (delivery/models/DeliveryRate.ts:62).  Not kept when two requests for one cell
\* overlap, one of them leaving an amount in a price that has none.
CellIsPriced == \A r \in rates : ~ Unpriced(r)
=============================================================================
