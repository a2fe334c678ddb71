--------------------------- MODULE RateMatrix_proofs ---------------------------
(* What RateMatrix keeps, for every set-up, every input and any number of      *)
(* requests in progress.                                                       *)
EXTENDS RateMatrix, FiniteSetTheorems, WellFoundedInduction, TLAPS

(***************************************************************************)
(* Documents: created, patched and saved.                                  *)
(***************************************************************************)

LEMMA ZoneCreated ==
  ASSUME NEW n \in Nat, NEW b \in ZoneBodies
  PROVE  /\ WithId(n, b) \in Zones /\ WithId(n, b).id = n /\ WithId(n, b).name = b.name
<1>1. WithId(n, b) = [id |-> n, name |-> b.name, kind |-> b.kind, ring |-> b.ring,
                      area |-> b.area, priority |-> b.priority, active |-> b.active]
  BY DEF WithId, ZoneBodies
<1> QED
  BY <1>1 DEF ZoneBodies, Zones

LEMMA VehicleCreated ==
  ASSUME NEW n \in Nat, NEW b \in VehicleBodies
  PROVE  WithId(n, b) \in Vehicles /\ WithId(n, b).id = n /\ WithId(n, b).tier = b.tier
<1>1. WithId(n, b) = [id |-> n, tier |-> b.tier, max |-> b.max, active |-> b.active]
  BY DEF WithId, VehicleBodies
<1> QED
  BY <1>1 DEF VehicleBodies, Vehicles

LEMMA RateCreated ==
  ASSUME NEW n \in Nat, NEW zone \in Nat, NEW tier \in Tiers, NEW p \in Prices
  PROVE  /\ Rate(n, zone, tier, p) \in Rates
         /\ Rate(n, zone, tier, p).id = n /\ Rate(n, zone, tier, p).zone = zone
         /\ Rate(n, zone, tier, p).tier = tier /\ Price(Rate(n, zone, tier, p)) = p
BY DEF Rate, Rates, Prices, Price

LEMMA PriceIs == ASSUME NEW r \in Rates PROVE Price(r) \in Prices
BY DEF Price, Rates, Prices

\* A patch keeps the id and takes no matcher away.
LEMMA ZonePatched ==
  ASSUME NEW z \in Zones, NEW patch \in ZonePatches
  PROVE  /\ Merged(z, patch) \in Zones /\ Merged(z, patch).id = z.id
         /\ Merged(z, patch).ring = None => z.ring = None
         /\ Merged(z, patch).area = None => z.area = None
         /\ Merged(z, patch).ring # z.ring => "ring" \in DOMAIN patch /\ Merged(z, patch).ring = patch.ring
<1> DEFINE m(f) == IF f \in DOMAIN patch THEN patch[f] ELSE z[f]
<1>1. DOMAIN z = {"id", "name", "kind", "ring", "area", "priority", "active"}
  BY DEF Zones
<1>2. Merged(z, patch) = [id |-> m("id"), name |-> m("name"), kind |-> m("kind"), ring |-> m("ring"),
                          area |-> m("area"), priority |-> m("priority"), active |-> m("active")]
  BY <1>1 DEF Merged
<1>3. \A f \in DOMAIN patch : f \in DOMAIN ZoneValues /\ patch[f] \in ZoneValues[f]
  BY InputAssumption
<1>4. m("id") = z.id
  BY <1>3 DEF ZoneValues
<1>5. m("name") \in Names /\ m("kind") \in {"ring", "polygon"} /\ m("priority") \in Int /\ m("active") \in BOOLEAN
  BY <1>3 DEF ZoneValues, Zones
<1>6. m("ring") \in Rings \cup {None} /\ (m("ring") = None => z.ring = None)
  BY <1>3, NoneAssumption DEF ZoneValues, Zones
<1>7. m("area") \in {None} \cup SUBSET Pins /\ (m("area") = None => z.area = None)
  BY <1>3, NoneAssumption DEF ZoneValues, Zones
<1>8. m("ring") # z.ring => "ring" \in DOMAIN patch /\ m("ring") = patch.ring
  OBVIOUS
<1>9. z.id \in Nat
  BY DEF Zones
<1> HIDE DEF m
<1> QED
  BY <1>2, <1>4, <1>5, <1>6, <1>7, <1>8, <1>9 DEF Zones

LEMMA VehiclePatched ==
  ASSUME NEW v \in Vehicles, NEW patch \in VehiclePatches
  PROVE  Merged(v, patch) \in Vehicles /\ Merged(v, patch).id = v.id
<1> DEFINE m(f) == IF f \in DOMAIN patch THEN patch[f] ELSE v[f]
<1>1. Merged(v, patch) = [id |-> m("id"), tier |-> m("tier"), max |-> m("max"), active |-> m("active")]
  BY DEF Merged, Vehicles
<1>2. \A f \in DOMAIN patch : f \in DOMAIN VehicleValues /\ patch[f] \in VehicleValues[f]
  BY InputAssumption
<1>3. m("id") = v.id /\ m("tier") \in Tiers /\ m("max") \in Nat /\ m("active") \in BOOLEAN /\ v.id \in Nat
  BY <1>2 DEF VehicleValues, Vehicles
<1> HIDE DEF m
<1> QED
  BY <1>1, <1>3 DEF Vehicles

\* A save writes each field as it was or as it is to be.
LEMMA ZoneOverwritten ==
  ASSUME NEW z \in Zones, NEW seen \in Zones, NEW new \in Zones, new.id = seen.id
  PROVE  LET o == Overwritten(z, seen, new) IN
         /\ o \in Zones /\ o.id = z.id
         /\ o.kind = Written(seen.kind, new.kind, z.kind)
         /\ o.ring = Written(seen.ring, new.ring, z.ring)
         /\ o.area = Written(seen.area, new.area, z.area)
<1> DEFINE w(f) == Written(seen[f], new[f], z[f])
<1>1. Overwritten(z, seen, new) =
        [id |-> w("id"), name |-> w("name"), kind |-> w("kind"), ring |-> w("ring"),
         area |-> w("area"), priority |-> w("priority"), active |-> w("active")]
  BY DEF Overwritten, Zones
<1>2. w("id") = z.id /\ z.id \in Nat
  BY DEF Written, Zones
<1>3. /\ w("name") \in Names /\ w("kind") \in {"ring", "polygon"} /\ w("ring") \in Rings \cup {None}
      /\ w("area") \in {None} \cup SUBSET Pins /\ w("priority") \in Int /\ w("active") \in BOOLEAN
  BY DEF Written, Zones
<1>4. [id |-> w("id"), name |-> w("name"), kind |-> w("kind"), ring |-> w("ring"),
       area |-> w("area"), priority |-> w("priority"), active |-> w("active")] \in Zones
  <2> HIDE DEF w
  <2> QED
    BY <1>2, <1>3 DEF Zones
<1> QED
  BY <1>1, <1>2, <1>4

LEMMA VehicleOverwritten ==
  ASSUME NEW v \in Vehicles, NEW seen \in Vehicles, NEW new \in Vehicles, new.id = seen.id
  PROVE  Overwritten(v, seen, new) \in Vehicles /\ Overwritten(v, seen, new).id = v.id
<1> DEFINE w(f) == Written(seen[f], new[f], v[f])
<1>1. Overwritten(v, seen, new) = [id |-> w("id"), tier |-> w("tier"), max |-> w("max"), active |-> w("active")]
  BY DEF Overwritten, Vehicles
<1>2. w("id") = v.id /\ v.id \in Nat /\ w("tier") \in Tiers /\ w("max") \in Nat /\ w("active") \in BOOLEAN
  BY DEF Written, Vehicles
<1> HIDE DEF w
<1> QED
  BY <1>1, <1>2 DEF Vehicles

LEMMA RateOverwritten ==
  ASSUME NEW r \in Rates, NEW seen \in Rates, NEW new \in Rates,
         new.id = seen.id, new.zone = seen.zone, new.tier = seen.tier
  PROVE  LET o == Overwritten(r, seen, new) IN
         /\ o \in Rates /\ o.id = r.id /\ o.zone = r.zone /\ o.tier = r.tier
         /\ r = seen => o = new
<1> DEFINE w(f) == Written(seen[f], new[f], r[f])
           o == [id |-> w("id"), zone |-> w("zone"), tier |-> w("tier"), kind |-> w("kind"),
                 flat |-> w("flat"), base |-> w("base"), perKm |-> w("perKm")]
<1>1. Overwritten(r, seen, new) = o
  BY DEF Overwritten, Rates
<1>2. w("id") = r.id /\ w("zone") = r.zone /\ w("tier") = r.tier
  BY DEF Written
<1>3. r.id \in Nat /\ r.zone \in Nat /\ r.tier \in Tiers
  BY DEF Rates
<1>4. w("kind") \in Kinds /\ w("flat") \in Amounts /\ w("base") \in Amounts /\ w("perKm") \in Amounts
  BY DEF Written, Rates
<1>5. ASSUME r = seen
      PROVE  /\ w("id") = new.id /\ w("zone") = new.zone /\ w("tier") = new.tier /\ w("kind") = new.kind
             /\ w("flat") = new.flat /\ w("base") = new.base /\ w("perKm") = new.perKm
  BY <1>5 DEF Written
<1> HIDE DEF w
<1>6. o \in Rates
  BY <1>2, <1>3, <1>4 DEF Rates
<1>7. r = seen => o = new
  BY <1>5 DEF Rates
<1> QED
  BY <1>1, <1>2, <1>6, <1>7

\* A save keeps the ids of a collection, one of each.
LEMMA SavedIds ==
  ASSUME NEW coll, IdsUnique(coll), NEW seen, NEW new,
         \A d \in coll : Overwritten(d, seen, new).id = d.id
  PROVE  IdsUnique(Saved(coll, seen, new)) /\ Ids(Saved(coll, seen, new)) = Ids(coll)
<1> DEFINE o(d) == IF d.id = seen.id THEN Overwritten(d, seen, new) ELSE d
<1>1. Saved(coll, seen, new) = {o(d) : d \in coll}
  BY DEF Saved
<1>2. \A d \in coll : o(d).id = d.id
  OBVIOUS
<1> HIDE DEF o
<1> QED
  BY <1>1, <1>2 DEF IdsUnique, Ids

\* Every document of a saved collection comes from one before.
LEMMA SavedFrom ==
  ASSUME NEW coll, NEW seen, NEW new, NEW s \in Saved(coll, seen, new)
  PROVE  \E d \in coll : \/ d.id # seen.id /\ s = d
                         \/ d.id = seen.id /\ s = Overwritten(d, seen, new)
BY DEF Saved

(***************************************************************************)
(* Types.  Beside TypeOK: ids come from one counter, so a document is told *)
(* apart from every other by its id, also one that a request is still to   *)
(* create; and a request saves the document it has read.                   *)
(***************************************************************************)
DocsTyped == zones \subseteq Zones /\ vehicles \subseteq Vehicles /\ rates \subseteq Rates

Indexed ==
  /\ IdsUnique(zones) /\ IdsUnique(vehicles) /\ IdsUnique(rates)
  /\ NamesUnique(zones) /\ TiersUnique(vehicles) /\ CellsUnique(rates)

\* A quote in progress.
Quotes ==
  [pc : {"polygons", "rings", "vehicles", "rates", "quoted"}, pin : Pins, cart : Carts,
   origin : BOOLEAN, found : SUBSET Zones, zone : Zones \cup {None},
   fleet : SUBSET Vehicles, clean : BOOLEAN, result : Results \cup {None}]

QuoteTyped == (quote.pc = "idle" => quote = NoQuote) /\ (quote.pc # "idle" => quote \in Quotes)

LEMMA TypeParts ==
  TypeOK <=> DocsTyped /\ Indexed /\ edits \in Nat /\ at \in [Handlers -> Requests] /\ QuoteTyped
BY DEF TypeOK, DocsTyped, Indexed, QuoteTyped, Quotes

Numbered == \A coll \in {zones, vehicles, rates} : \A d \in coll : d.id < edits

\* What each kind of request holds.
SavesWhatItRead(q) == q.new.id = q.seen.id /\ q.seen.id < edits
Pending(q) ==
  /\ q.pc \in {"zone", "vehicle", "rate"} => SavesWhatItRead(q)
  /\ q.pc = "rate" => q.new.zone = q.seen.zone /\ q.new.tier = q.seen.tier
  /\ q.pc \in {"find", "create"} => q.new.id < edits /\ q.new.id \notin Ids(rates)

ToCreate(h) == at[h].pc \in {"find", "create"}

RequestsHold ==
  /\ \A h \in Handlers : Pending(at[h])
  /\ \A h, k \in Handlers : ToCreate(h) /\ ToCreate(k) /\ at[h].new.id = at[k].new.id => h = k

\* A request with what its kind says.
LEMMA RequestKinds ==
  ASSUME NEW q \in Requests
  PROVE  /\ q.pc = "zone" => q.seen \in Zones /\ q.new \in Zones
         /\ q.pc = "vehicle" => q.seen \in Vehicles /\ q.new \in Vehicles
         /\ q.pc = "rate" => q.seen \in Rates /\ q.new \in Rates
         /\ q.pc \in {"find", "create"} => q.new \in Rates
         /\ q.pc = "cascade" => q.id \in Nat
         /\ q.pc = "idle" => q = Idle
BY DEF Requests, Idle

LEMMA IdleIsRequest == Idle \in Requests /\ Pending(Idle)
BY DEF Idle, Requests, Pending

LEMMA QuoteOutcomes ==
  ASSUME QuoteTyped, quote.pc # "idle", NEW zone \in Zones \cup {None}
  PROVE  /\ \A status \in {"OUT_OF_AREA", "NO_VEHICLE", "NOT_SERVED", "ERROR"} :
              Refused(zone, status) => QuoteTyped'
         /\ \A tier \in Tiers, fee \in Nat : Quoted(zone, tier, fee) => QuoteTyped'
<1>1. quote \in Quotes
  BY DEF QuoteTyped
<1>2. ASSUME NEW status \in {"OUT_OF_AREA", "NO_VEHICLE", "NOT_SERVED", "ERROR"}, Refused(zone, status)
      PROVE  QuoteTyped'
  <2>1. [status |-> status, tier |-> None, fee |-> 0] \in Results
    BY DEF Results
  <2> QED
    BY <1>1, <1>2, <2>1 DEF Refused, Quotes, QuoteTyped
<1>3. ASSUME NEW tier \in Tiers, NEW fee \in Nat, Quoted(zone, tier, fee) PROVE QuoteTyped'
  <2>1. [status |-> "QUOTED", tier |-> tier, fee |-> fee] \in Results
    BY DEF Results
  <2> QED
    BY <1>1, <1>3, <2>1 DEF Quoted, Quotes, QuoteTyped
<1> QED
  BY <1>2, <1>3

\* A price that is complete gives a number.
LEMMA FeeIsNumber ==
  ASSUME NEW r \in Rates, NEW pin \in Pins, r.kind # "not_served", ~Unpriced(r)
  PROVE  computeDeliveryFee(r, pin) \in Nat
<1>1. CASE r.kind = "flat"
  BY <1>1 DEF computeDeliveryFee, Unpriced, Rates, Amounts
<1>2. CASE r.kind = "base_per_km"
  <2>1. r.base \in Nat /\ r.perKm \in Nat /\ Distance[pin] \in Nat
    BY <1>2, DistanceAssumption DEF Unpriced, Rates, Amounts
  <2>2. r.perKm * Distance[pin] \in Nat
    BY <2>1
  <2> QED
    BY <1>2, <2>1, <2>2 DEF computeDeliveryFee
<1> QED
  BY <1>1, <1>2 DEF Rates, Kinds

LEMMA QuoteTypes ==
  ASSUME DocsTyped, QuoteTyped, [Next]_vars
  PROVE  QuoteTyped'
<1>1. CASE UNCHANGED quote
  BY <1>1 DEF QuoteTyped
<1>2. CASE Write
  <2>1. CASE quote.pc = "idle"
    <3>1. quote' = [NoQuote EXCEPT !.clean = FALSE]
      BY <1>2, <2>1 DEF Write, QuoteTyped
    <3>2. [NoQuote EXCEPT !.clean = FALSE] = NoQuote
      <4>1. NoQuote = [f \in DOMAIN NoQuote |-> NoQuote[f]] /\ NoQuote.clean = FALSE
        BY DEF NoQuote
      <4> QED
        BY <4>1
    <3>3. quote' = NoQuote /\ NoQuote.pc = "idle"
      BY <3>1, <3>2 DEF NoQuote
    <3> QED
      BY <3>3 DEF QuoteTyped
  <2>2. CASE quote.pc # "idle"
    BY <1>2, <2>2 DEF Write, QuoteTyped, Quotes
  <2> QED
    BY <2>1, <2>2
<1>3. CASE quote' = NoQuote
  BY <1>3 DEF NoQuote, QuoteTyped
<1>4. ASSUME NEW pin \in Pins, NEW cart \in Carts, NEW origin \in BOOLEAN, BeginQuote(pin, cart, origin)
      PROVE  QuoteTyped'
  BY <1>4 DEF BeginQuote, NoQuote, QuoteTyped, Quotes
<1>5. CASE ReadPolygons
  <2>1. quote \in Quotes /\ {z \in zones : z.kind = "polygon" /\ z.active /\ quote.pin \in z.area} \in SUBSET Zones
    BY <1>5 DEF ReadPolygons, QuoteTyped, DocsTyped
  <2> QED
    BY <1>5, <2>1 DEF ReadPolygons, Quotes, QuoteTyped
<1>6. CASE ReadRings
  <2>1. quote \in Quotes /\ quote.pc # "idle" /\ quote.found \in SUBSET Zones
    BY <1>6 DEF ReadRings, QuoteTyped, Quotes
  <2>2. CASE Refused(None, "OUT_OF_AREA")
    BY <2>1, <2>2, QuoteOutcomes
  <2>3. ASSUME NEW z \in Zones, quote' = [quote EXCEPT !.pc = "vehicles", !.zone = z] PROVE QuoteTyped'
    BY <2>1, <2>3 DEF QuoteTyped, Quotes
  <2> QED
    BY <1>6, <2>1, <2>2, <2>3 DEF ReadRings, BestMatches, DocsTyped
<1>7. CASE ReadVehicles
  <2>1. quote \in Quotes /\ quote.pc # "idle" /\ quote.zone \in Zones \cup {None}
    BY <1>7 DEF ReadVehicles, QuoteTyped, Quotes
  <2>2. CASE Refused(quote.zone, "NO_VEHICLE")
    BY <2>1, <2>2, QuoteOutcomes
  <2>3. ASSUME NEW fitting \in SUBSET Vehicles, quote' = [quote EXCEPT !.pc = "rates", !.fleet = fitting]
        PROVE  QuoteTyped'
    BY <2>1, <2>3 DEF QuoteTyped, Quotes
  <2>4. {v \in vehicles : Fits(v, computeVehicleRequirement(quote.cart))} \in SUBSET Vehicles
    BY DEF DocsTyped
  <2> QED
    BY <1>7, <2>2, <2>3, <2>4 DEF ReadVehicles
<1>8. CASE ReadRates
  <2>1. /\ quote \in Quotes /\ quote.pc # "idle" /\ quote.zone \in Zones \cup {None} /\ quote.pin \in Pins
    BY <1>8 DEF ReadRates, QuoteTyped, Quotes
  <2>2. CASE \E status \in {"NOT_SERVED", "ERROR"} : Refused(quote.zone, status)
    BY <2>1, <2>2, QuoteOutcomes
  <2>3. ASSUME NEW r \in rates, Serves(r, quote.origin), ~Unpriced(r),
               Quoted(quote.zone, r.tier, computeDeliveryFee(r, quote.pin))
        PROVE  QuoteTyped'
    <3>1. r \in Rates /\ r.tier \in Tiers
      BY DEF DocsTyped, Rates
    <3>2. computeDeliveryFee(r, quote.pin) \in Nat
      BY <2>1, <2>3, <3>1, FeeIsNumber DEF Serves
    <3> QED
      BY <2>1, <2>3, <3>1, <3>2, QuoteOutcomes
  <2> QED
    BY <1>8, <2>2, <2>3 DEF ReadRates
<1> QED
  BY <1>1, <1>2, <1>3, <1>4, <1>5, <1>6, <1>7, <1>8
  DEF Next, EditZones, EditVehicles, EditRates, Quote, CreateZone, BeginUpdateZone, SaveZone, DeleteZone,
      Cascade, CreateVehicle, BeginUpdateVehicle, SaveVehicle, DeleteVehicle, BeginUpsertRate, FindRate,
      SaveRate, CreateRate, DeleteRate, seedDefaultDeliverySetup, EndQuote, Crash, vars

(***************************************************************************)
(* The three collections, with ids below n.                                *)
(***************************************************************************)
Below(coll, n) == \A d \in coll : d.id < n
GoodZones(coll, n)    == coll \subseteq Zones /\ IdsUnique(coll) /\ NamesUnique(coll) /\ Below(coll, n)
GoodVehicles(coll, n) == coll \subseteq Vehicles /\ IdsUnique(coll) /\ TiersUnique(coll) /\ Below(coll, n)
GoodRates(coll, n)    == coll \subseteq Rates /\ IdsUnique(coll) /\ CellsUnique(coll) /\ Below(coll, n)

Good == GoodZones(zones, edits) /\ GoodVehicles(vehicles, edits) /\ GoodRates(rates, edits)

LEMMA GoodParts == Good <=> DocsTyped /\ Indexed /\ Numbered
BY DEF Good, GoodZones, GoodVehicles, GoodRates, DocsTyped, Indexed, Numbered, Below

LEMMA ZonesShrink ==
  ASSUME NEW n \in Nat, NEW m \in Nat, n <= m, NEW coll, GoodZones(coll, n), NEW some \in SUBSET coll
  PROVE  GoodZones(some, m)
<1>1. \A z \in coll : z.id \in Nat
  BY DEF GoodZones, Zones
<1> QED
  BY <1>1 DEF GoodZones, IdsUnique, NamesUnique, Below

LEMMA ZonesGrow ==
  ASSUME NEW n \in Nat, NEW m \in Nat, n <= m, NEW coll, GoodZones(coll, n),
         NEW z \in Zones, z.id < m, z.id \notin Ids(coll), NamesUnique(coll \cup {z})
  PROVE  GoodZones(coll \cup {z}, m)
<1>1. \A x \in coll : x.id \in Nat /\ x.id # z.id
  BY DEF GoodZones, Zones, Ids
<1>2. IdsUnique(coll \cup {z})
  BY <1>1 DEF GoodZones, IdsUnique
<1>3. Below(coll \cup {z}, m)
  BY <1>1 DEF GoodZones, Below
<1> QED
  BY <1>2, <1>3 DEF GoodZones

LEMMA ZonesSaved ==
  ASSUME NEW n \in Nat, NEW coll, GoodZones(coll, n), NEW seen \in Zones, NEW new \in Zones, new.id = seen.id,
         NamesUnique(Saved(coll, seen, new))
  PROVE  GoodZones(Saved(coll, seen, new), n) /\ Ids(Saved(coll, seen, new)) = Ids(coll)
<1>1. \A x \in coll : Overwritten(x, seen, new) \in Zones /\ Overwritten(x, seen, new).id = x.id
  BY ZoneOverwritten DEF GoodZones
<1>2. Saved(coll, seen, new) \subseteq Zones
  BY <1>1, SavedFrom DEF GoodZones
<1>3. IdsUnique(Saved(coll, seen, new)) /\ Ids(Saved(coll, seen, new)) = Ids(coll)
  BY <1>1, SavedIds DEF GoodZones
<1>4. Below(Saved(coll, seen, new), n)
  BY <1>3 DEF GoodZones, Below, Ids
<1> QED
  BY <1>2, <1>3, <1>4 DEF GoodZones

LEMMA VehiclesShrink ==
  ASSUME NEW n \in Nat, NEW m \in Nat, n <= m, NEW coll, GoodVehicles(coll, n), NEW some \in SUBSET coll
  PROVE  GoodVehicles(some, m)
<1>1. \A v \in coll : v.id \in Nat
  BY DEF GoodVehicles, Vehicles
<1> QED
  BY <1>1 DEF GoodVehicles, IdsUnique, TiersUnique, Below

LEMMA VehiclesGrow ==
  ASSUME NEW n \in Nat, NEW m \in Nat, n <= m, NEW coll, GoodVehicles(coll, n),
         NEW v \in Vehicles, v.id < m, v.id \notin Ids(coll), TiersUnique(coll \cup {v})
  PROVE  GoodVehicles(coll \cup {v}, m)
<1>1. \A x \in coll : x.id \in Nat /\ x.id # v.id
  BY DEF GoodVehicles, Vehicles, Ids
<1>2. IdsUnique(coll \cup {v})
  BY <1>1 DEF GoodVehicles, IdsUnique
<1>3. Below(coll \cup {v}, m)
  BY <1>1 DEF GoodVehicles, Below
<1> QED
  BY <1>2, <1>3 DEF GoodVehicles

LEMMA VehiclesSaved ==
  ASSUME NEW n \in Nat, NEW coll, GoodVehicles(coll, n), NEW seen \in Vehicles, NEW new \in Vehicles, new.id = seen.id,
         TiersUnique(Saved(coll, seen, new))
  PROVE  GoodVehicles(Saved(coll, seen, new), n) /\ Ids(Saved(coll, seen, new)) = Ids(coll)
<1>1. \A x \in coll : Overwritten(x, seen, new) \in Vehicles /\ Overwritten(x, seen, new).id = x.id
  BY VehicleOverwritten DEF GoodVehicles
<1>2. Saved(coll, seen, new) \subseteq Vehicles
  BY <1>1, SavedFrom DEF GoodVehicles
<1>3. IdsUnique(Saved(coll, seen, new)) /\ Ids(Saved(coll, seen, new)) = Ids(coll)
  BY <1>1, SavedIds DEF GoodVehicles
<1>4. Below(Saved(coll, seen, new), n)
  BY <1>3 DEF GoodVehicles, Below, Ids
<1> QED
  BY <1>2, <1>3, <1>4 DEF GoodVehicles

LEMMA RatesShrink ==
  ASSUME NEW n \in Nat, NEW m \in Nat, n <= m, NEW coll, GoodRates(coll, n), NEW some \in SUBSET coll
  PROVE  GoodRates(some, m)
<1>1. \A r \in coll : r.id \in Nat
  BY DEF GoodRates, Rates
<1> QED
  BY <1>1 DEF GoodRates, IdsUnique, CellsUnique, Below

LEMMA RatesGrow ==
  ASSUME NEW n \in Nat, NEW m \in Nat, n <= m, NEW coll, GoodRates(coll, n),
         NEW r \in Rates, r.id < m, r.id \notin Ids(coll), CellsUnique(coll \cup {r})
  PROVE  GoodRates(coll \cup {r}, m)
<1>1. \A x \in coll : x.id \in Nat /\ x.id # r.id
  BY DEF GoodRates, Rates, Ids
<1>2. IdsUnique(coll \cup {r})
  BY <1>1 DEF GoodRates, IdsUnique
<1>3. Below(coll \cup {r}, m)
  BY <1>1 DEF GoodRates, Below
<1> QED
  BY <1>2, <1>3 DEF GoodRates

LEMMA RatesSaved ==
  ASSUME NEW n \in Nat, NEW coll, GoodRates(coll, n), NEW seen \in Rates, NEW new \in Rates,
         new.id = seen.id, new.zone = seen.zone, new.tier = seen.tier
  PROVE  GoodRates(Saved(coll, seen, new), n) /\ Ids(Saved(coll, seen, new)) = Ids(coll)
<1>1. \A x \in coll : LET o == Overwritten(x, seen, new) IN
                        o \in Rates /\ o.id = x.id /\ o.zone = x.zone /\ o.tier = x.tier
  BY RateOverwritten DEF GoodRates
<1>2. Saved(coll, seen, new) \subseteq Rates
  BY <1>1, SavedFrom DEF GoodRates
<1>3. IdsUnique(Saved(coll, seen, new)) /\ Ids(Saved(coll, seen, new)) = Ids(coll)
  BY <1>1, SavedIds DEF GoodRates
<1>4. Below(Saved(coll, seen, new), n)
  BY <1>3 DEF GoodRates, Below, Ids
<1>5. \A s \in Saved(coll, seen, new) : \E x \in coll : x.id = s.id /\ x.zone = s.zone /\ x.tier = s.tier
  BY <1>1, SavedFrom
<1>6. CellsUnique(Saved(coll, seen, new))
  BY <1>3, <1>5 DEF GoodRates, CellsUnique, IdsUnique
<1> QED
  BY <1>2, <1>3, <1>4, <1>6 DEF GoodRates


\* The starter set-up is of the right type.
LEMMA DefaultsTyped ==
  DefaultZone \in ZoneBodies /\ DefaultVehicle \in VehicleBodies /\ DefaultPrice \in Prices
<1>1. [min |-> 0, max |-> 50] \in Rings
  BY DEF Rings
<1>2. DefaultZone \in ZoneBodies
  <2>1. "Citywide" \in Names
    BY InputAssumption
  <2>2. None \in {None} \cup SUBSET Pins
    OBVIOUS
  <2> QED
    BY <1>1, <2>1, <2>2 DEF DefaultZone, ZoneBodies
<1>3. DefaultVehicle \in VehicleBodies
  BY DEF DefaultVehicle, VehicleBodies, Tiers, RankOf
<1>4. DefaultPrice \in Prices
  BY DEF DefaultPrice, Prices, Kinds, Amounts
<1> QED
  BY <1>2, <1>3, <1>4

\* What the starter set-up adds: to each collection at most one document.
LEMMA SeedEffect ==
  ASSUME Good, edits \in Nat, seedDefaultDeliverySetup
  PROVE  /\ edits' = edits + 1 /\ at' = at /\ Write
         /\ \E zone \in Zones :
              /\ zones' = zones \cup {zone}
              /\ \/ zone \in zones
                 \/ /\ zone.id = edits /\ zone.name = DefaultZone.name /\ \A y \in zones : y.name # zone.name
                    /\ zone = WithId(edits, DefaultZone)
              /\ \/ rates' = rates /\ asked' = asked
                 \/ \E r \in Rates : /\ r = Rate(edits, zone.id, "van", DefaultPrice)
                                     /\ Cell(zone.id, "van") = {}
                                     /\ rates' = rates \cup {r}
                                     /\ asked' = asked \cup {Ask(r.zone, r.tier, Price(r))}
         /\ \/ vehicles' = vehicles
            \/ \E v \in Vehicles : /\ v.id = edits /\ vehicles' = vehicles \cup {v}
                                   /\ \A u \in vehicles : u.tier # v.tier
<1> DEFINE mine(z) == z.name = DefaultZone.name
           zone == IF \E z \in zones : mine(z) THEN CHOOSE z \in zones : mine(z)
                   ELSE WithId(edits, DefaultZone)
           cell == IF Cell(zone.id, "van") # {} THEN {} ELSE {Rate(edits, zone.id, "van", DefaultPrice)}
           vehicle == IF \E v \in vehicles : v.tier = "van" THEN {} ELSE {WithId(edits, DefaultVehicle)}
<1>1. /\ edits' = edits + 1 /\ at' = at /\ Write
      /\ zones' = zones \cup {zone} /\ vehicles' = vehicles \cup vehicle /\ rates' = rates \cup cell
      /\ asked' = asked \cup {Ask(r.zone, r.tier, Price(r)) : r \in cell}
  BY DEF seedDefaultDeliverySetup, Edit
<1>2. \/ zone \in zones
      \/ /\ zone = WithId(edits, DefaultZone) /\ \A y \in zones : y.name # DefaultZone.name
  OBVIOUS
<1>3. /\ WithId(edits, DefaultZone) \in Zones /\ WithId(edits, DefaultZone).id = edits
      /\ WithId(edits, DefaultZone).name = DefaultZone.name
      /\ WithId(edits, DefaultVehicle) \in Vehicles /\ WithId(edits, DefaultVehicle).id = edits
      /\ WithId(edits, DefaultVehicle).tier = "van"
  BY DefaultsTyped, ZoneCreated, VehicleCreated DEF DefaultVehicle
<1>4. \/ vehicles' = vehicles
      \/ \E v \in Vehicles : /\ v.id = edits /\ vehicles' = vehicles \cup {v}
                             /\ \A u \in vehicles : u.tier # v.tier
  <2>1. CASE \E v \in vehicles : v.tier = "van"
    BY <1>1, <2>1
  <2>2. CASE ~ \E v \in vehicles : v.tier = "van"
    BY <1>1, <1>3, <2>2
  <2> QED
    BY <2>1, <2>2
<1> HIDE DEF zone
<1>5. zone \in Zones /\ zone.id \in Nat
  BY <1>2, <1>3 DEF Good, GoodZones, Zones
<1>6. Rate(edits, zone.id, "van", DefaultPrice) \in Rates
  BY <1>5, DefaultsTyped, RateCreated DEF Tiers, RankOf
<1>7. \/ rates' = rates /\ asked' = asked
      \/ \E r \in Rates : /\ r = Rate(edits, zone.id, "van", DefaultPrice)
                          /\ Cell(zone.id, "van") = {}
                          /\ rates' = rates \cup {r}
                          /\ asked' = asked \cup {Ask(r.zone, r.tier, Price(r))}
  <2>1. CASE Cell(zone.id, "van") # {}
    BY <1>1, <2>1
  <2>2. CASE Cell(zone.id, "van") = {}
    BY <1>1, <1>6, <2>2
  <2> QED
    BY <2>1, <2>2
<1> QED
  BY <1>1, <1>2, <1>3, <1>4, <1>5, <1>7

\* A rate joins a matrix that has no cell for its zone and tier.
LEMMA CellFree ==
  ASSUME Good, NEW r, Cell(r.zone, r.tier) = {}
  PROVE  CellsUnique(rates \cup {r})
<1>1. \A q \in rates : ~(q.zone = r.zone /\ q.tier = r.tier)
  BY DEF Cell
<1> QED
  BY <1>1 DEF Good, GoodRates, CellsUnique

\* Ids not yet given are in no collection.
LEMMA IdsFresh ==
  ASSUME Good, edits \in Nat
  PROVE  edits \notin Ids(zones) /\ edits \notin Ids(vehicles) /\ edits \notin Ids(rates)
BY DEF Good, GoodZones, GoodVehicles, GoodRates, Below, Ids, Zones, Vehicles, Rates

LEMMA SetupStep ==
  ASSUME Good, edits \in Nat, at \in [Handlers -> Requests], RequestsHold, [Next]_vars
  PROVE  Good' /\ edits' \in Nat /\ edits <= edits'
<1> USE DEF setup
<1>1. edits' \in Nat /\ edits <= edits'
  <2>1. edits' = edits \/ edits' = edits + 1
   BY DEF Next, EditZones, EditVehicles, EditRates, Quote, CreateZone, BeginUpdateZone, SaveZone, DeleteZone,
      Cascade, CreateVehicle, BeginUpdateVehicle, SaveVehicle, DeleteVehicle, BeginUpsertRate, FindRate,
      SaveRate, CreateRate, DeleteRate, seedDefaultDeliverySetup, BeginQuote, ReadPolygons, ReadRings,
      ReadVehicles, ReadRates, EndQuote, Crash, vars, Start, Edit
  <2> QED
    BY <2>1
<1>2. ASSUME vehicles' \in SUBSET vehicles, zones' \in SUBSET zones, rates' \in SUBSET rates
      PROVE  Good'
  <2>1. GoodZones(zones', edits')
    BY <1>1, <1>2, ZonesShrink DEF Good
  <2>2. GoodVehicles(vehicles', edits')
    BY <1>1, <1>2, VehiclesShrink DEF Good
  <2>3. GoodRates(rates', edits')
    BY <1>1, <1>2, RatesShrink DEF Good
  <2> QED
    BY <2>1, <2>2, <2>3 DEF Good
<1>3. /\ zones' = zones => GoodZones(zones', edits')
      /\ vehicles' = vehicles => GoodVehicles(vehicles', edits')
      /\ rates' = rates => GoodRates(rates', edits')
  BY <1>1, ZonesShrink, VehiclesShrink, RatesShrink DEF Good
<1>4. ASSUME NEW input \in ZoneInputs, CreateZone(input) PROVE Good'
  <2> DEFINE z == WithId(edits, input)
  <2>1. /\ edits' = edits + 1 /\ NamesUnique(zones \cup {z}) /\ zones' = zones \cup {z}
        /\ vehicles' = vehicles /\ rates' = rates
    BY <1>4 DEF CreateZone, Edit
  <2>2. z \in Zones /\ z.id = edits
    BY InputAssumption, ZoneCreated
  <2> HIDE DEF z
  <2>3. GoodZones(zones', edits')
    BY <1>1, <2>1, <2>2, IdsFresh, ZonesGrow DEF Good
  <2> QED
    BY <1>3, <2>1, <2>3 DEF Good
<1>5. ASSUME NEW input \in VehicleInputs, CreateVehicle(input) PROVE Good'
  <2> DEFINE v == WithId(edits, input)
  <2>1. /\ edits' = edits + 1 /\ TiersUnique(vehicles \cup {v}) /\ vehicles' = vehicles \cup {v}
        /\ zones' = zones /\ rates' = rates
    BY <1>5 DEF CreateVehicle, Edit
  <2>2. v \in Vehicles /\ v.id = edits
    BY InputAssumption, VehicleCreated
  <2> HIDE DEF v
  <2>3. GoodVehicles(vehicles', edits')
    BY <1>1, <2>1, <2>2, IdsFresh, VehiclesGrow DEF Good
  <2> QED
    BY <1>3, <2>1, <2>3 DEF Good
<1>6. ASSUME NEW h \in Handlers, SaveZone(h) PROVE Good'
  <2>1. /\ at[h] \in Requests /\ at[h].pc = "zone" /\ at[h].new.id = at[h].seen.id
        /\ at[h].seen \in Zones /\ at[h].new \in Zones
    BY <1>6, RequestKinds DEF SaveZone, RequestsHold, Pending, SavesWhatItRead
  <2>2. /\ edits' = edits /\ vehicles' = vehicles /\ rates' = rates
        /\ \/ zones' = zones
           \/ NamesUnique(zones') /\ zones' = Saved(zones, at[h].seen, at[h].new)
    BY <1>6 DEF SaveZone
  <2>3. GoodZones(zones', edits')
    BY <1>3, <2>1, <2>2, ZonesSaved DEF Good
  <2> QED
    BY <1>3, <2>2, <2>3 DEF Good
<1>7. ASSUME NEW h \in Handlers, SaveVehicle(h) PROVE Good'
  <2>1. /\ at[h] \in Requests /\ at[h].pc = "vehicle" /\ at[h].new.id = at[h].seen.id
        /\ at[h].seen \in Vehicles /\ at[h].new \in Vehicles
    BY <1>7, RequestKinds DEF SaveVehicle, RequestsHold, Pending, SavesWhatItRead
  <2>2. /\ edits' = edits /\ zones' = zones /\ rates' = rates
        /\ \/ vehicles' = vehicles
           \/ TiersUnique(vehicles') /\ vehicles' = Saved(vehicles, at[h].seen, at[h].new)
    BY <1>7 DEF SaveVehicle
  <2>3. GoodVehicles(vehicles', edits')
    BY <1>3, <2>1, <2>2, VehiclesSaved DEF Good
  <2> QED
    BY <1>3, <2>2, <2>3 DEF Good
<1>8. ASSUME NEW h \in Handlers, SaveRate(h) PROVE Good'
  <2>1. /\ at[h] \in Requests /\ at[h].pc = "rate" /\ at[h].new.id = at[h].seen.id
        /\ at[h].new.zone = at[h].seen.zone /\ at[h].new.tier = at[h].seen.tier
        /\ at[h].seen \in Rates /\ at[h].new \in Rates
    BY <1>8, RequestKinds DEF SaveRate, RequestsHold, Pending, SavesWhatItRead
  <2>2. /\ edits' = edits /\ zones' = zones /\ vehicles' = vehicles
        /\ rates' = Saved(rates, at[h].seen, at[h].new)
    BY <1>8 DEF SaveRate
  <2>3. GoodRates(rates', edits')
    BY <2>1, <2>2, RatesSaved DEF Good
  <2> QED
    BY <1>3, <2>2, <2>3 DEF Good
<1>9. ASSUME NEW h \in Handlers, CreateRate(h) PROVE Good'
  <2>1. /\ at[h] \in Requests /\ at[h].pc = "create" /\ at[h].new \in Rates
        /\ at[h].new.id < edits /\ at[h].new.id \notin Ids(rates)
    BY <1>9, RequestKinds DEF CreateRate, RequestsHold, Pending
  <2>2. /\ edits' = edits /\ zones' = zones /\ vehicles' = vehicles
        /\ \/ rates' = rates
           \/ Cell(at[h].new.zone, at[h].new.tier) = {} /\ rates' = rates \cup {at[h].new}
    BY <1>9 DEF CreateRate
  <2>3. CASE Cell(at[h].new.zone, at[h].new.tier) = {} /\ rates' = rates \cup {at[h].new}
    <3>1. CellsUnique(rates \cup {at[h].new})
      BY <2>3, CellFree
    <3>2. GoodRates(rates', edits')
      BY <2>1, <2>2, <2>3, <3>1, RatesGrow DEF Good
    <3> QED
      BY <1>3, <2>2, <3>2 DEF Good
  <2> QED
    BY <1>2, <2>2, <2>3
<1>10. CASE seedDefaultDeliverySetup
  <2>1. PICK zone \in Zones :
          /\ zones' = zones \cup {zone}
          /\ \/ zone \in zones
             \/ zone.id = edits /\ \A y \in zones : y.name # zone.name
          /\ \/ rates' = rates
             \/ \E r \in Rates : /\ r = Rate(edits, zone.id, "van", DefaultPrice)
                                 /\ Cell(zone.id, "van") = {} /\ rates' = rates \cup {r}
    BY <1>10, SeedEffect
  <2>2. edits' = edits + 1
    BY <1>10, SeedEffect
  <2>3. GoodZones(zones', edits')
    <3>1. CASE zone \in zones
      <4>1. zones' = zones
        BY <2>1, <3>1
      <4> QED
        BY <1>3, <4>1
    <3>2. CASE zone.id = edits /\ \A y \in zones : y.name # zone.name
      <4>1. NamesUnique(zones \cup {zone})
        BY <3>2 DEF NamesUnique, Good, GoodZones
      <4> QED
        BY <1>1, <2>1, <2>2, <3>2, <4>1, IdsFresh, ZonesGrow DEF Good
    <3> QED
      BY <2>1, <3>1, <3>2
  <2>4. GoodRates(rates', edits')
    <3>1. CASE rates' = rates
      BY <1>3, <3>1
    <3>2. ASSUME NEW r \in Rates, r = Rate(edits, zone.id, "van", DefaultPrice),
                 Cell(zone.id, "van") = {}, rates' = rates \cup {r}
          PROVE  GoodRates(rates', edits')
      <4>1. r.id = edits /\ r.zone = zone.id /\ r.tier = "van"
        BY <3>2 DEF Rate
      <4>2. CellsUnique(rates \cup {r})
        BY <3>2, <4>1, CellFree
      <4> QED
        BY <1>1, <2>2, <3>2, <4>1, <4>2, IdsFresh, RatesGrow DEF Good
    <3> QED
      BY <2>1, <3>1, <3>2
  <2>5. GoodVehicles(vehicles', edits')
    <3>1. CASE vehicles' = vehicles
      BY <1>3, <3>1
    <3>2. ASSUME NEW v \in Vehicles, v.id = edits, vehicles' = vehicles \cup {v},
                 \A u \in vehicles : u.tier # v.tier
          PROVE  GoodVehicles(vehicles', edits')
      <4>1. TiersUnique(vehicles \cup {v})
        BY <3>2 DEF TiersUnique, Good, GoodVehicles
      <4> QED
        BY <1>1, <2>2, <3>2, <4>1, IdsFresh, VehiclesGrow DEF Good
    <3> QED
      BY <1>10, <3>1, <3>2, SeedEffect
  <2> QED
    BY <1>1, <2>3, <2>4, <2>5 DEF Good
<1>11. ASSUME NEW h \in Handlers, EditZones(h) PROVE Good'
  BY <1>2, <1>4, <1>6, <1>11 DEF EditZones, BeginUpdateZone, DeleteZone, Cascade
<1>12. ASSUME NEW h \in Handlers, EditVehicles(h) PROVE Good'
  BY <1>2, <1>5, <1>7, <1>12 DEF EditVehicles, BeginUpdateVehicle, DeleteVehicle
<1>13. ASSUME NEW h \in Handlers, EditRates(h) PROVE Good'
  BY <1>2, <1>8, <1>9, <1>13 DEF EditRates, BeginUpsertRate, FindRate, DeleteRate
<1>14. CASE Quote \/ Crash \/ UNCHANGED vars
  BY <1>1, <1>2, <1>14 DEF Quote, BeginQuote, ReadPolygons, ReadRings, ReadVehicles, ReadRates, EndQuote, Crash, vars
<1> QED
  BY <1>1, <1>10, <1>11, <1>12, <1>13, <1>14 DEF Next

\* What a request holds stays true of it while the ids it is to give are not taken.
LEMMA PendingStays ==
  ASSUME NEW q \in Requests, Pending(q), edits \in Nat, edits' \in Nat, edits <= edits',
         q.pc \in {"find", "create"} => q.new.id \notin Ids(rates')
  PROVE  Pending(q)'
<1>1. q.pc \in {"zone", "vehicle", "rate"} => q.seen.id \in Nat
  BY RequestKinds DEF Zones, Vehicles, Rates
<1>2. q.pc \in {"find", "create"} => q.new.id \in Nat
  BY RequestKinds DEF Rates
<1> QED
  BY <1>1, <1>2 DEF Pending, SavesWhatItRead

LEMMA RequestsSame ==
  ASSUME at \in [Handlers -> Requests], RequestsHold, edits \in Nat, edits' \in Nat, edits <= edits', at' = at,
         \A k \in Handlers : ToCreate(k) => at[k].new.id \notin Ids(rates')
  PROVE  at' \in [Handlers -> Requests] /\ RequestsHold'
<1>1. ASSUME NEW k \in Handlers PROVE Pending(at[k])'
  <2>1. PICK p \in Requests : p = at[k]
    OBVIOUS
  <2>2. Pending(p)'
    BY <2>1, PendingStays DEF RequestsHold, ToCreate
  <2> QED
    BY <2>1, <2>2 DEF Pending, SavesWhatItRead
<1> QED
  BY <1>1 DEF RequestsHold, ToCreate

\* One request moves on; an id it is to give is the one it had, or new.
LEMMA RequestChanges ==
  ASSUME at \in [Handlers -> Requests], RequestsHold, edits \in Nat, edits' \in Nat, edits <= edits',
         NEW h \in Handlers, NEW q \in Requests, at' = [at EXCEPT ![h] = q], Pending(q)',
         \A k \in Handlers \ {h} : ToCreate(k) => at[k].new.id \notin Ids(rates'),
         q.pc \in {"find", "create"} => \/ q.new.id = edits
                                        \/ ToCreate(h) /\ q.new.id = at[h].new.id
  PROVE  at' \in [Handlers -> Requests] /\ RequestsHold'
<1>1. at'[h] = q /\ \A k \in Handlers \ {h} : at'[k] = at[k] /\ at[k] \in Requests
  OBVIOUS
<1>2. ASSUME NEW k \in Handlers PROVE Pending(at[k])'
  <2>1. CASE k = h
    BY <1>1, <2>1 DEF Pending, SavesWhatItRead
  <2>2. CASE k # h
    <3>1. PICK p \in Requests : p = at[k]
      OBVIOUS
    <3>2. Pending(p)'
      BY <2>2, <3>1, PendingStays DEF RequestsHold, ToCreate
    <3> QED
      BY <1>1, <2>2, <3>1, <3>2 DEF Pending, SavesWhatItRead
  <2> QED
    BY <2>1, <2>2
<1>3. ASSUME NEW k \in Handlers \ {h}, ToCreate(k), q.pc \in {"find", "create"}
      PROVE  at[k].new.id # q.new.id
  <2>1. at[k].new.id \in Nat /\ at[k].new.id < edits
    BY <1>3, RequestKinds DEF RequestsHold, Pending, ToCreate, Rates
  <2>2. CASE q.new.id = edits
    BY <2>1, <2>2
  <2>3. CASE ToCreate(h) /\ q.new.id = at[h].new.id
    BY <1>3, <2>3 DEF RequestsHold
  <2> QED
    BY <1>3, <2>2, <2>3
<1>4. \A j, k \in Handlers : ToCreate(j)' /\ ToCreate(k)' /\ at'[j].new.id = at'[k].new.id => j = k
  BY <1>1, <1>3 DEF RequestsHold, ToCreate
<1> QED
  BY <1>2, <1>4 DEF RequestsHold

LEMMA RequestsStep ==
  ASSUME Good, edits \in Nat, at \in [Handlers -> Requests], RequestsHold, [Next]_vars
  PROVE  at' \in [Handlers -> Requests] /\ RequestsHold'
<1> DEFINE Goal == at' \in [Handlers -> Requests] /\ RequestsHold'
<1>1. edits' \in Nat /\ edits <= edits'
  BY SetupStep
<1>2. \A k \in Handlers : ToCreate(k) => /\ at[k].new \in Rates /\ at[k].new.id \in Nat
                                         /\ at[k].new.id < edits /\ at[k].new.id \notin Ids(rates)
  BY RequestKinds DEF RequestsHold, Pending, ToCreate, Rates
<1>3. rates' \in SUBSET rates => \A k \in Handlers : ToCreate(k) => at[k].new.id \notin Ids(rates')
  BY <1>2 DEF Ids
<1>4. ASSUME at' = at, rates' \in SUBSET rates PROVE Goal
  BY <1>1, <1>3, <1>4, RequestsSame
<1>5. ASSUME NEW h \in Handlers, at' = [at EXCEPT ![h] = Idle],
             \A k \in Handlers \ {h} : ToCreate(k) => at[k].new.id \notin Ids(rates')
      PROVE  Goal
  <2>1. Pending(Idle)' /\ Idle \in Requests /\ Idle.pc = "idle"
    BY IdleIsRequest DEF Idle, Pending
  <2> QED
    BY <1>1, <1>5, <2>1, RequestChanges
<1>6. ASSUME NEW h \in Handlers, NEW z \in zones, NEW patch \in ZonePatches, BeginUpdateZone(h, z, patch)
      PROVE  Goal
  <2>1. z \in Zones /\ z.id < edits /\ Merged(z, patch) \in Zones /\ Merged(z, patch).id = z.id
    BY ZonePatched DEF Good, GoodZones, Below
  <2>2. PICK q : q = [Idle EXCEPT !.pc = "zone", !.seen = z, !.new = Merged(z, patch)]
    OBVIOUS
  <2>3. /\ q \in [pc : {"zone"}, id : {None}, seen : Zones, new : Zones]
        /\ q.pc = "zone" /\ q.seen = z /\ q.new = Merged(z, patch)
    BY <2>1, <2>2 DEF Idle
  <2>6. q \in Requests /\ Pending(q)
    BY <2>1, <2>3 DEF Requests, Pending, SavesWhatItRead
  <2>4. at' = [at EXCEPT ![h] = q] /\ rates' = rates
    BY <1>6, <2>2 DEF BeginUpdateZone, Start, setup
  <2>5. Pending(q)'
    BY <1>1, <2>3, <2>6, PendingStays
  <2> QED
    BY <1>1, <1>3, <2>3, <2>4, <2>5, <2>6, RequestChanges
<1>7. ASSUME NEW h \in Handlers, NEW v \in vehicles, NEW patch \in VehiclePatches, BeginUpdateVehicle(h, v, patch)
      PROVE  Goal
  <2>1. v \in Vehicles /\ v.id < edits /\ Merged(v, patch) \in Vehicles /\ Merged(v, patch).id = v.id
    BY VehiclePatched DEF Good, GoodVehicles, Below
  <2>2. PICK q : q = [Idle EXCEPT !.pc = "vehicle", !.seen = v, !.new = Merged(v, patch)]
    OBVIOUS
  <2>3. /\ q \in [pc : {"vehicle"}, id : {None}, seen : Vehicles, new : Vehicles]
        /\ q.pc = "vehicle" /\ q.seen = v /\ q.new = Merged(v, patch)
    BY <2>1, <2>2 DEF Idle
  <2>6. q \in Requests /\ Pending(q)
    BY <2>1, <2>3 DEF Requests, Pending, SavesWhatItRead
  <2>4. at' = [at EXCEPT ![h] = q] /\ rates' = rates
    BY <1>7, <2>2 DEF BeginUpdateVehicle, Start, setup
  <2>5. Pending(q)'
    BY <1>1, <2>3, <2>6, PendingStays
  <2> QED
    BY <1>1, <1>3, <2>3, <2>4, <2>5, <2>6, RequestChanges
<1>8. ASSUME NEW h \in Handlers, NEW z \in zones, DeleteZone(h, z) PROVE Goal
  <2>1. z.id \in Nat
    BY DEF Good, GoodZones, Zones
  <2>2. PICK q : q = [Idle EXCEPT !.pc = "cascade", !.id = z.id]
    OBVIOUS
  <2>3. q \in [pc : {"cascade"}, id : Nat, seen : {None}, new : {None}] /\ q.pc = "cascade"
    BY <2>1, <2>2 DEF Idle
  <2>5. q \in Requests /\ Pending(q)'
    BY <2>3 DEF Requests, Pending
  <2>4. at' = [at EXCEPT ![h] = q] /\ rates' = rates
    BY <1>8, <2>2 DEF DeleteZone, Start
  <2> QED
    BY <1>1, <1>3, <2>3, <2>4, <2>5, RequestChanges
<1>9. ASSUME NEW h \in Handlers, NEW z \in zones, NEW t \in TiersPriced, NEW p \in Pricings,
             BeginUpsertRate(h, z, t, p)
      PROVE  Goal
  <2>1. PICK r \in Rates : r = Rate(edits, z.id, t, p) /\ r.id = edits
    BY InputAssumption, RateCreated DEF Good, GoodZones, Zones
  <2>2. PICK q : q = [Idle EXCEPT !.pc = "find", !.new = r]
    OBVIOUS
  <2>3. at' = [at EXCEPT ![h] = q] /\ rates' = rates /\ edits' = edits + 1
    BY <1>9, <2>1, <2>2 DEF BeginUpsertRate, Start, Edit, setup
  <2>4. q \in [pc : {"find", "create"}, id : {None}, seen : {None}, new : Rates] /\ q.pc = "find" /\ q.new = r
    BY <2>2 DEF Idle
  <2>5. q \in Requests /\ Pending(q)'
    BY <2>1, <2>3, <2>4, IdsFresh DEF Requests, Pending
  <2> QED
    BY <1>1, <1>3, <2>1, <2>3, <2>4, <2>5, RequestChanges
<1>10. ASSUME NEW h \in Handlers, FindRate(h) PROVE Goal
  <2>1. PICK new \in Rates : new = at[h].new /\ at[h].pc = "find" /\ at[h].id = None /\ at[h].seen = None
    BY <1>10 DEF FindRate, Requests
  <2>2. at[h] \in [pc : {"find", "create"}, id : {None}, seen : {None}, new : Rates]
    BY <2>1 DEF Requests
  <2>3. rates' = rates /\ edits' = edits
    BY <1>10 DEF FindRate, setup
  <2>4. CASE Cell(new.zone, new.tier) = {}
    <3>1. PICK q : q = [at[h] EXCEPT !.pc = "create"]
      OBVIOUS
    <3>2. at' = [at EXCEPT ![h] = q]
      BY <1>10, <2>1, <2>4, <3>1 DEF FindRate
    <3>3. q \in [pc : {"find", "create"}, id : {None}, seen : {None}, new : Rates] /\ q.pc = "create" /\ q.new = new
      BY <2>1, <2>2, <3>1
    <3>4. new.id < edits /\ new.id \notin Ids(rates)
      BY <1>2, <2>1 DEF ToCreate
    <3>5. q \in Requests /\ Pending(q)' /\ ToCreate(h) /\ q.new.id = at[h].new.id
      BY <2>1, <2>3, <3>3, <3>4 DEF Requests, Pending, ToCreate
    <3> QED
      BY <1>1, <1>3, <2>3, <3>2, <3>3, <3>5, RequestChanges
  <2>5. CASE Cell(new.zone, new.tier) # {}
    <3>1. PICK r \in Cell(new.zone, new.tier) : r = CHOOSE c \in Cell(new.zone, new.tier) : TRUE
      BY <2>5
    <3>2. r \in Rates /\ r.id \in Nat /\ r.id < edits
      BY <3>1 DEF Cell, Good, GoodRates, Below, Rates
    <3>3. PICK c \in Rates : c = Cleared(r, new) /\ c.id = r.id /\ c.zone = r.zone /\ c.tier = r.tier
      <4>1. Price(new) \in Prices
        BY <2>1, PriceIs
      <4> QED
        BY <3>2, <4>1, RateCreated DEF Cleared, Rates
    <3>4. PICK q : q = [at[h] EXCEPT !.pc = "rate", !.seen = r, !.new = c]
      OBVIOUS
    <3>5. at' = [at EXCEPT ![h] = q]
      <4>1. at' = [at EXCEPT ![h].pc = "rate", ![h].seen = r, ![h].new = c]
        BY <1>10, <2>1, <2>5, <3>1, <3>3 DEF FindRate
      <4> QED
        BY <3>4, <4>1
    <3>6. q \in [pc : {"rate"}, id : {None}, seen : Rates, new : Rates] /\ q.pc = "rate" /\ q.seen = r /\ q.new = c
      BY <2>1, <2>2, <3>2, <3>4
    <3>7. q \in Requests /\ Pending(q)'
      BY <2>3, <3>2, <3>3, <3>6 DEF Requests, Pending, SavesWhatItRead
    <3> QED
      BY <1>1, <1>3, <2>3, <3>5, <3>6, <3>7, RequestChanges
  <2> QED
    BY <2>4, <2>5
<1>11. ASSUME NEW h \in Handlers, SaveRate(h) PROVE Goal
  <2>1. /\ at[h] \in Requests /\ at[h].pc = "rate" /\ at[h].new.id = at[h].seen.id
        /\ at[h].new.zone = at[h].seen.zone /\ at[h].new.tier = at[h].seen.tier
        /\ at[h].seen \in Rates /\ at[h].new \in Rates
    BY <1>11, RequestKinds DEF SaveRate, RequestsHold, Pending, SavesWhatItRead
  <2>2. at' = [at EXCEPT ![h] = Idle] /\ rates' = Saved(rates, at[h].seen, at[h].new)
    BY <1>11 DEF SaveRate, Finish
  <2>3. Ids(rates') = Ids(rates)
    BY <2>1, <2>2, RatesSaved DEF Good
  <2> QED
    BY <1>2, <1>5, <2>2, <2>3
<1>12. ASSUME NEW h \in Handlers, CreateRate(h) PROVE Goal
  <2>1. /\ at' = [at EXCEPT ![h] = Idle] /\ ToCreate(h)
        /\ rates' = rates \/ rates' = rates \cup {at[h].new}
    BY <1>12 DEF CreateRate, Finish, ToCreate
  <2>2. ASSUME NEW k \in Handlers \ {h}, ToCreate(k) PROVE at[k].new.id \notin Ids(rates')
    <3>1. at[k].new.id # at[h].new.id /\ at[k].new.id \notin Ids(rates)
      BY <1>2, <2>1, <2>2 DEF RequestsHold
    <3> QED
      BY <2>1, <3>1 DEF Ids
  <2> QED
    BY <1>5, <2>1, <2>2
<1>13. CASE seedDefaultDeliverySetup
  <2>1. at' = at /\ (rates' = rates \/ \E r \in Rates : r.id = edits /\ rates' = rates \cup {r})
    <3>1. \A zone : Rate(edits, zone, "van", DefaultPrice).id = edits
      BY DEF Rate
    <3> QED
      BY <1>13, <3>1, SeedEffect
  <2>2. \A k \in Handlers : ToCreate(k) => at[k].new.id \notin Ids(rates')
    BY <1>2, <2>1 DEF Ids
  <2> QED
    BY <1>1, <2>1, <2>2, RequestsSame
<1>14. CASE Crash
  <2>1. /\ \A k \in Handlers : at'[k] = Idle
        /\ at' \in [Handlers -> Requests]
    BY <1>14, IdleIsRequest DEF Crash
  <2> QED
    BY <2>1 DEF RequestsHold, ToCreate, Pending, Idle
<1>15. ASSUME NEW h \in Handlers, SaveZone(h) \/ Cascade(h) \/ SaveVehicle(h) PROVE Goal
  <2>1. at' = [at EXCEPT ![h] = Idle] /\ rates' \in SUBSET rates
    BY <1>15 DEF SaveZone, Cascade, SaveVehicle, Finish
  <2> QED
    BY <1>3, <1>5, <2>1
<1>16. ASSUME NEW h \in Handlers, EditZones(h) PROVE Goal
  BY <1>4, <1>6, <1>8, <1>15, <1>16 DEF EditZones, CreateZone
<1>17. ASSUME NEW h \in Handlers, EditVehicles(h) PROVE Goal
  BY <1>4, <1>7, <1>15, <1>17 DEF EditVehicles, CreateVehicle, DeleteVehicle
<1>18. ASSUME NEW h \in Handlers, EditRates(h) PROVE Goal
  BY <1>4, <1>9, <1>10, <1>11, <1>12, <1>18 DEF EditRates, DeleteRate
<1>19. CASE Quote \/ UNCHANGED vars
  BY <1>4, <1>19
  DEF Quote, BeginQuote, ReadPolygons, ReadRings, ReadVehicles, ReadRates, EndQuote, vars, setup
<1> QED
  BY <1>13, <1>14, <1>16, <1>17, <1>18, <1>19 DEF Next

IInv == TypeOK /\ Numbered /\ RequestsHold

LEMMA IInvHolds == Spec => []IInv
<1>1. Init => IInv
  <2> SUFFICES ASSUME Init PROVE IInv
    OBVIOUS
  <2> USE DEF IInv
  <2>1. PICK s \in Setups : zones = s.zones /\ vehicles = s.vehicles /\ rates = s.rates
    BY DEF Init
  <2>2. /\ s.zones \subseteq Zones /\ s.vehicles \subseteq Vehicles /\ s.rates \subseteq Rates
        /\ \A coll \in {s.zones, s.vehicles, s.rates} : IdsUnique(coll) /\ \A d \in coll : d.id < FirstEdit
        /\ NamesUnique(s.zones) /\ TiersUnique(s.vehicles) /\ CellsUnique(s.rates)
    BY SetupAssumption
  <2>3. edits = FirstEdit /\ FirstEdit \in Nat
    BY DEF Init, FirstEdit
  <2>4. DocsTyped /\ Indexed /\ Numbered
    BY <2>1, <2>2, <2>3 DEF DocsTyped, Indexed, Numbered
  <2>5. \A h \in Handlers : at[h] = Idle
    BY DEF Init
  <2>6. at \in [Handlers -> Requests] /\ RequestsHold
    BY <2>5, IdleIsRequest DEF Init, RequestsHold, ToCreate, Pending, Idle
  <2>7. QuoteTyped
    BY DEF Init, QuoteTyped, NoQuote
  <2> QED
    BY <2>3, <2>4, <2>6, <2>7, TypeParts
<1>2. IInv /\ [Next]_vars => IInv'
  <2> SUFFICES ASSUME TypeOK, Numbered, RequestsHold, [Next]_vars PROVE IInv'
    BY DEF IInv
  <2> USE DEF IInv
  <2>1. Good /\ edits \in Nat /\ at \in [Handlers -> Requests] /\ DocsTyped /\ QuoteTyped
    BY TypeParts, GoodParts
  <2>2. Good' /\ edits' \in Nat
    BY <2>1, SetupStep
  <2>3. at' \in [Handlers -> Requests] /\ RequestsHold'
    BY <2>1, RequestsStep
  <2>4. QuoteTyped'
    BY <2>1, QuoteTypes
  <2>5. DocsTyped' /\ Indexed' /\ Numbered'
    BY <2>2 DEF Good, GoodZones, GoodVehicles, GoodRates, DocsTyped, Indexed, Numbered, Below
  <2>6. TypeOK'
    BY <2>2, <2>3, <2>4, <2>5 DEF TypeOK, DocsTyped, Indexed, QuoteTyped, Quotes
  <2> QED
    BY <2>3, <2>5, <2>6
<1> QED
  BY <1>1, <1>2, PTL DEF Spec

\* The set-up has the right type, its ids, names, tiers and cells are unique, and so
\* does what a request or a quote in progress holds, whatever edits overlap.
THEOREM TypeCorrect == Spec => []TypeOK
<1>1. IInv => TypeOK
  BY DEF IInv
<1> QED
  BY <1>1, IInvHolds, PTL

LEMMA IInvParts ==
  IInv => Good /\ edits \in Nat /\ at \in [Handlers -> Requests] /\ RequestsHold /\ QuoteTyped
BY TypeParts, GoodParts DEF IInv

(***************************************************************************)
(* The matrix.                                                             *)
(***************************************************************************)

\* What a request is to write into a cell has been asked for.
WritesAsked(q) == q.pc \in {"find", "rate", "create"} => Ask(q.new.zone, q.new.tier, Price(q.new)) \in asked

AsAsked == CellAsRequested /\ \A h \in Handlers : WritesAsked(at[h])

\* Nothing is written: cells may go, requests may end.
LEMMA AskedStays ==
  ASSUME AsAsked, rates' \in SUBSET rates, asked \subseteq asked', torn \subseteq torn',
         \A h \in Handlers : at'[h] = at[h] \/ at'[h].pc \notin {"find", "rate", "create"}
  PROVE  AsAsked'
BY DEF AsAsked, CellAsRequested, WritesAsked, Ask, Price

LEMMA AskedStep ==
  ASSUME IInv, AsAsked, [Next]_vars
  PROVE  AsAsked'
<1> USE IInvParts
<1>1. ASSUME NEW h \in Handlers, NEW z \in zones, NEW t \in TiersPriced, NEW p \in Pricings,
             BeginUpsertRate(h, z, t, p)
      PROVE  AsAsked'
  <2>1. PICK r \in Rates : r = Rate(edits, z.id, t, p) /\ r.zone = z.id /\ r.tier = t /\ Price(r) = p
    BY InputAssumption, RateCreated DEF Good, GoodZones, Zones
  <2>2. PICK q : q = [Idle EXCEPT !.pc = "find", !.new = r]
    OBVIOUS
  <2>3. q.pc = "find" /\ q.new = r
    BY <2>2 DEF Idle
  <2>4. /\ at' = [at EXCEPT ![h] = q] /\ rates' = rates /\ torn' = torn
        /\ asked' = asked \cup {Ask(r.zone, r.tier, Price(r))}
    BY <1>1, <2>1, <2>2 DEF BeginUpsertRate, Start, setup
  <2>5. ASSUME NEW k \in Handlers PROVE WritesAsked(at[k])'
    <3>1. CASE k = h
      <4>1. at'[k] = q
        BY <2>4, <3>1
      <4> QED
        BY <2>3, <2>4, <4>1 DEF WritesAsked, Ask, Price
    <3>2. CASE k # h
      BY <2>4, <3>2 DEF AsAsked, WritesAsked, Ask, Price
    <3> QED
      BY <3>1, <3>2
  <2> QED
    BY <2>4, <2>5 DEF AsAsked, CellAsRequested, Ask, Price
<1>2. ASSUME NEW h \in Handlers, FindRate(h) PROVE AsAsked'
  <2>1. PICK new \in Rates : new = at[h].new /\ at[h].pc = "find" /\ Ask(new.zone, new.tier, Price(new)) \in asked
    BY <1>2, RequestKinds DEF FindRate, AsAsked, WritesAsked
  <2>2. rates' = rates /\ asked' = asked /\ torn' = torn
    BY <1>2 DEF FindRate, setup, history
  <2>3. /\ \A k \in Handlers \ {h} : at'[k] = at[k]
        /\ at'[h].new = new \/ \E r \in Cell(new.zone, new.tier) : at'[h].new = Cleared(r, new)
    <3>1. at[h] \in [pc : {"find", "create"}, id : {None}, seen : {None}, new : Rates]
      BY <2>1 DEF Requests
    <3>2. CASE Cell(new.zone, new.tier) = {}
      BY <1>2, <2>1, <3>1, <3>2 DEF FindRate
    <3>3. CASE Cell(new.zone, new.tier) # {}
      <4>1. PICK r \in Cell(new.zone, new.tier) : r = CHOOSE c \in Cell(new.zone, new.tier) : TRUE
        BY <3>3
      <4>2. at' = [at EXCEPT ![h].pc = "rate", ![h].seen = r, ![h].new = Cleared(r, new)]
        BY <1>2, <2>1, <3>3, <4>1 DEF FindRate
      <4> QED
        BY <3>1, <4>2
    <3> QED
      BY <3>2, <3>3
  <2>4. \A r \in Cell(new.zone, new.tier) :
          Ask(Cleared(r, new).zone, Cleared(r, new).tier, Price(Cleared(r, new))) = Ask(new.zone, new.tier, Price(new))
    BY DEF Cell, Cleared, Rate, Price, Ask
  <2>5. ASSUME NEW k \in Handlers PROVE WritesAsked(at[k])'
    <3>1. CASE k = h
      BY <2>1, <2>2, <2>3, <2>4, <3>1 DEF WritesAsked, Ask, Price
    <3>2. CASE k # h
      BY <2>2, <2>3, <3>2 DEF AsAsked, WritesAsked, Ask, Price
    <3> QED
      BY <3>1, <3>2
  <2> QED
    BY <2>2, <2>5 DEF AsAsked, CellAsRequested, Ask, Price
<1>3. ASSUME NEW h \in Handlers, SaveRate(h) PROVE AsAsked'
  <2>1. PICK seen \in Rates, new \in Rates :
          /\ seen = at[h].seen /\ new = at[h].new /\ at[h].pc = "rate"
          /\ new.id = seen.id /\ new.zone = seen.zone /\ new.tier = seen.tier
          /\ Ask(new.zone, new.tier, Price(new)) \in asked
    BY <1>3, RequestKinds DEF SaveRate, RequestsHold, Pending, SavesWhatItRead, AsAsked, WritesAsked
  <2>2. /\ rates' = Saved(rates, seen, new) /\ asked' = asked
        /\ torn' = torn \cup {r.id : r \in {r \in rates : r.id = seen.id} \ {seen}}
        /\ at' = [at EXCEPT ![h] = Idle]
    BY <1>3, <2>1 DEF SaveRate, Finish
  <2>3. ASSUME NEW s \in rates', s.id \notin torn' PROVE Ask(s.zone, s.tier, Price(s)) \in asked'
    <3>1. PICK r \in rates : \/ r.id # seen.id /\ s = r
                             \/ r.id = seen.id /\ s = Overwritten(r, seen, new)
      BY <2>2, SavedFrom
    <3>2. CASE r.id # seen.id /\ s = r
      BY <2>2, <2>3, <3>2 DEF AsAsked, CellAsRequested
    <3>3. CASE r.id = seen.id /\ s = Overwritten(r, seen, new)
      <4>1. r \in Rates /\ s.id = r.id /\ (r = seen => s = new)
        BY <2>1, <3>3, RateOverwritten DEF Good, GoodRates
      <4>2. r = seen
        BY <2>2, <2>3, <3>3, <4>1
      <4> QED
        BY <2>1, <2>2, <4>1, <4>2
    <3> QED
      BY <3>1, <3>2, <3>3
  <2>4. ASSUME NEW k \in Handlers PROVE WritesAsked(at[k])'
    <3>1. at'[k] = at[k] \/ at'[k] = Idle
      BY <2>2
    <3> QED
      BY <2>2, <3>1 DEF AsAsked, WritesAsked, Idle, Ask, Price
  <2> QED
    BY <2>3, <2>4 DEF AsAsked, CellAsRequested, Ask, Price
<1>4. ASSUME NEW h \in Handlers, CreateRate(h) PROVE AsAsked'
  <2>1. /\ Ask(at[h].new.zone, at[h].new.tier, Price(at[h].new)) \in asked
        /\ rates' \subseteq rates \cup {at[h].new} /\ asked' = asked /\ torn' = torn
        /\ at' = [at EXCEPT ![h] = Idle]
    BY <1>4 DEF CreateRate, Finish, AsAsked, WritesAsked
  <2>2. CellAsRequested'
    BY <2>1 DEF AsAsked, CellAsRequested, Ask, Price
  <2>3. ASSUME NEW k \in Handlers PROVE WritesAsked(at[k])'
    <3>1. at'[k] = at[k] \/ at'[k] = Idle
      BY <2>1
    <3> QED
      BY <2>1, <3>1 DEF AsAsked, WritesAsked, Idle, Ask, Price
  <2> QED
    BY <2>2, <2>3 DEF AsAsked
<1>5. CASE seedDefaultDeliverySetup
  <2>1. torn' = torn /\ at' = at
    BY <1>5 DEF seedDefaultDeliverySetup
  <2>2. \/ rates' = rates /\ asked' = asked
        \/ \E r \in Rates : /\ rates' = rates \cup {r}
                            /\ asked' = asked \cup {Ask(r.zone, r.tier, Price(r))}
    BY <1>5, SeedEffect
  <2> QED
    BY <2>1, <2>2 DEF AsAsked, CellAsRequested, WritesAsked, Ask, Price
<1>6. ASSUME NEW h \in Handlers, NEW q, at' = [at EXCEPT ![h] = q], q.pc \notin {"find", "rate", "create"},
             rates' \in SUBSET rates, asked' = asked, torn' = torn
      PROVE  AsAsked'
  BY <1>6, AskedStays
<1>7. ASSUME at' = at, rates' \in SUBSET rates, asked' = asked, torn' = torn PROVE AsAsked'
  BY <1>7, AskedStays
<1>8. CASE Crash
  <2>1. \A k \in Handlers : at'[k].pc = "idle"
    BY <1>8 DEF Crash, Idle
  <2> QED
    BY <1>8, <2>1, AskedStays DEF Crash, setup
<1>9. ASSUME NEW h \in Handlers, EditZones(h) PROVE AsAsked'
  <2>1. ASSUME NEW z \in zones, NEW patch \in ZonePatches, BeginUpdateZone(h, z, patch) PROVE AsAsked'
    <3>1. PICK q : q = [Idle EXCEPT !.pc = "zone", !.seen = z, !.new = Merged(z, patch)]
      OBVIOUS
    <3>2. q.pc = "zone"
      BY <3>1 DEF Idle
    <3> QED
      BY <1>6, <3>2, <2>1, <3>1 DEF BeginUpdateZone, Start, setup, history
  <2>2. ASSUME NEW z \in zones, DeleteZone(h, z) PROVE AsAsked'
    <3>1. PICK q : q = [Idle EXCEPT !.pc = "cascade", !.id = z.id]
      OBVIOUS
    <3>2. q.pc = "cascade"
      BY <3>1 DEF Idle
    <3> QED
      BY <1>6, <3>2, <2>2, <3>1 DEF DeleteZone, Start, history
  <2>3. Idle.pc = "idle"
    BY DEF Idle
  <2> QED
    BY <1>6, <1>7, <1>9, <2>1, <2>2, <2>3 DEF EditZones, CreateZone, SaveZone, Cascade, Finish, history
<1>10. ASSUME NEW h \in Handlers, EditVehicles(h) PROVE AsAsked'
  <2>1. ASSUME NEW v \in vehicles, NEW patch \in VehiclePatches, BeginUpdateVehicle(h, v, patch) PROVE AsAsked'
    <3>1. PICK q : q = [Idle EXCEPT !.pc = "vehicle", !.seen = v, !.new = Merged(v, patch)]
      OBVIOUS
    <3>2. q.pc = "vehicle"
      BY <3>1 DEF Idle
    <3> QED
      BY <1>6, <3>2, <2>1, <3>1 DEF BeginUpdateVehicle, Start, setup, history
  <2>2. Idle.pc = "idle"
    BY DEF Idle
  <2> QED
    BY <1>6, <1>7, <1>10, <2>1, <2>2 DEF EditVehicles, CreateVehicle, DeleteVehicle, SaveVehicle, Finish, history
<1>11. ASSUME NEW h \in Handlers, EditRates(h) PROVE AsAsked'
  BY <1>1, <1>2, <1>3, <1>4, <1>7, <1>11 DEF EditRates, DeleteRate, history
<1>12. CASE Quote \/ UNCHANGED vars
  BY <1>7, <1>12
  DEF Quote, BeginQuote, ReadPolygons, ReadRings, ReadVehicles, ReadRates, EndQuote, vars, setup, history
<1> QED
  BY <1>5, <1>8, <1>9, <1>10, <1>11, <1>12 DEF Next

\* A cell holds one price that was asked for it, never a mixture of two, unless
\* requests for it overlapped.
THEOREM CellsHoldOnePrice == Spec => []CellAsRequested
<1>1. Init => AsAsked
  BY DEF Init, AsAsked, CellAsRequested, WritesAsked, Idle
<1>2. IInv /\ AsAsked /\ [Next]_vars => AsAsked'
  BY AskedStep
<1>3. AsAsked => CellAsRequested
  BY DEF AsAsked
<1> QED
  BY <1>1, <1>2, <1>3, IInvHolds, PTL DEF Spec

(***************************************************************************)
(* Cells of zones that are gone.                                           *)
(***************************************************************************)

\* No cell moves to another zone, and what explains a stray cell stays.
LEMMA NothingStrays ==
  ASSUME NoStrayCells,
         \A r \in rates' : \E s \in rates : s.id = r.id /\ s.zone = r.zone,
         Ids(zones) \subseteq Ids(zones'), cut \subseteq cut', late \subseteq late',
         \A h \in Handlers : at[h].pc = "cascade" => at'[h] = at[h]
  PROVE  NoStrayCells'
BY DEF NoStrayCells, Ids

LEMMA NoStrayStep ==
  ASSUME IInv, NoStrayCells, [Next]_vars
  PROVE  NoStrayCells'
<1> USE IInvParts
<1>1. ASSUME NEW h \in Handlers, NEW z \in zones, DeleteZone(h, z) PROVE NoStrayCells'
  <2>1. PICK q : q = [Idle EXCEPT !.pc = "cascade", !.id = z.id]
    OBVIOUS
  <2>2. q.pc = "cascade" /\ q.id = z.id
    BY <2>1 DEF Idle
  <2>3. /\ at[h].pc = "idle" /\ at' = [at EXCEPT ![h] = q]
        /\ zones' = zones \ {z} /\ rates' = rates /\ late' = late /\ cut' = cut
    BY <1>1, <2>1 DEF DeleteZone, Start, history
  <2>4. \A k \in Handlers : at[k].pc = "cascade" => at'[k] = at[k]
    BY <2>3
  <2>5. at'[h] = q /\ h \in Handlers
    BY <2>3
  <2>6. \A zone \in Ids(zones) : zone \in Ids(zones') \/ zone = z.id
    BY <2>3 DEF Ids
  <2> QED
    BY <2>2, <2>3, <2>4, <2>5, <2>6 DEF NoStrayCells, Ids
<1>2. ASSUME NEW h \in Handlers, Cascade(h) PROVE NoStrayCells'
  <2>1. /\ at' = [at EXCEPT ![h] = Idle] /\ rates' = {r \in rates : r.zone # at[h].id}
        /\ zones' = zones /\ late' = late /\ cut' = cut
    BY <1>2 DEF Cascade, Finish, history
  <2> QED
    BY <2>1 DEF NoStrayCells, Ids
<1>3. CASE Crash
  <2>1. /\ rates' = rates /\ zones' = zones /\ late' = late
        /\ cut' = cut \cup {at[h].id : h \in {h \in Handlers : at[h].pc = "cascade"}}
    BY <1>3 DEF Crash, setup
  <2> QED
    BY <2>1 DEF NoStrayCells, Ids
<1>4. ASSUME NEW h \in Handlers, SaveZone(h) PROVE NoStrayCells'
  <2>1. /\ at[h].pc = "zone" /\ at[h].new.id = at[h].seen.id /\ at[h].seen \in Zones /\ at[h].new \in Zones
    BY <1>4, RequestKinds DEF SaveZone, RequestsHold, Pending, SavesWhatItRead
  <2>2. /\ rates' = rates /\ late' = late /\ cut' = cut /\ at' = [at EXCEPT ![h] = Idle]
        /\ \/ zones' = zones
           \/ NamesUnique(zones') /\ zones' = Saved(zones, at[h].seen, at[h].new)
    BY <1>4 DEF SaveZone, Finish, history
  <2>3. Ids(zones') = Ids(zones)
    BY <2>1, <2>2, ZonesSaved DEF Good
  <2> QED
    BY <2>1, <2>2, <2>3, NothingStrays
<1>5. ASSUME NEW h \in Handlers, SaveRate(h) PROVE NoStrayCells'
  <2>1. PICK seen \in Rates, new \in Rates :
          /\ seen = at[h].seen /\ new = at[h].new /\ at[h].pc = "rate"
          /\ new.id = seen.id /\ new.zone = seen.zone /\ new.tier = seen.tier
    BY <1>5, RequestKinds DEF SaveRate, RequestsHold, Pending, SavesWhatItRead
  <2>2. /\ rates' = Saved(rates, seen, new) /\ zones' = zones /\ late' = late /\ cut' = cut
        /\ at' = [at EXCEPT ![h] = Idle]
    BY <1>5, <2>1 DEF SaveRate, Finish
  <2>3. \A r \in rates' : \E s \in rates : s.id = r.id /\ s.zone = r.zone
    BY <2>1, <2>2, SavedFrom, RateOverwritten DEF Good, GoodRates
  <2> QED
    BY <2>1, <2>2, <2>3, NothingStrays
<1>6. ASSUME NEW h \in Handlers, CreateRate(h) PROVE NoStrayCells'
  <2> DEFINE new == at[h].new
  <2>1. /\ at[h].pc = "create" /\ at' = [at EXCEPT ![h] = Idle] /\ zones' = zones /\ cut' = cut
        /\ late \subseteq late' /\ rates' \subseteq rates \cup {new}
        /\ new \in rates' => new \in rates \/ new.zone \in Ids(zones) \/ new.id \in late'
    BY <1>6 DEF CreateRate, Finish
  <2>2. \A k \in Handlers : at[k].pc = "cascade" => at'[k] = at[k]
    BY <2>1
  <2> HIDE DEF new
  <2> QED
    BY <2>1, <2>2 DEF NoStrayCells, Ids
<1>7. CASE seedDefaultDeliverySetup
  <2>1. late' = late /\ cut' = cut /\ at' = at
    BY <1>7 DEF seedDefaultDeliverySetup
  <2>2. PICK zone \in Zones :
          /\ zones' = zones \cup {zone}
          /\ rates' = rates \/ \E r \in Rates : r.zone = zone.id /\ rates' = rates \cup {r}
    <3>1. \A zone \in Zones : Rate(edits, zone.id, "van", DefaultPrice).zone = zone.id
      BY DEF Rate
    <3> QED
      BY <1>7, <3>1, SeedEffect
  <2>3. Ids(zones) \subseteq Ids(zones') /\ zone.id \in Ids(zones')
    BY <2>2 DEF Ids
  <2> QED
    BY <2>1, <2>2, <2>3 DEF NoStrayCells
<1>8. ASSUME rates' \in SUBSET rates, Ids(zones) \subseteq Ids(zones'), cut' = cut, late' = late,
             \A h \in Handlers : at[h].pc = "cascade" => at'[h] = at[h]
      PROVE  NoStrayCells'
  BY <1>8, NothingStrays
<1>9. ASSUME NEW h \in Handlers, EditZones(h) PROVE NoStrayCells'
  <2>1. ASSUME NEW z \in zones, NEW patch \in ZonePatches, BeginUpdateZone(h, z, patch) PROVE NoStrayCells'
    BY <1>8, <2>1 DEF BeginUpdateZone, Start, setup, history
  <2>2. ASSUME NEW input \in ZoneInputs, CreateZone(input) PROVE NoStrayCells'
    BY <1>8, <2>2 DEF CreateZone, history, Ids
  <2> QED
    BY <1>1, <1>2, <1>4, <1>9, <2>1, <2>2 DEF EditZones
<1>10. ASSUME NEW h \in Handlers, EditVehicles(h) PROVE NoStrayCells'
  BY <1>8, <1>10
  DEF EditVehicles, CreateVehicle, BeginUpdateVehicle, SaveVehicle, DeleteVehicle, Start, Finish, setup, history
<1>11. ASSUME NEW h \in Handlers, EditRates(h) PROVE NoStrayCells'
  <2>1. ASSUME NEW z \in zones, NEW t \in TiersPriced, NEW p \in Pricings, BeginUpsertRate(h, z, t, p)
        PROVE  NoStrayCells'
    BY <1>8, <2>1 DEF BeginUpsertRate, Start, setup
  <2>2. CASE FindRate(h)
    BY <1>8, <2>2 DEF FindRate, setup, history
  <2> QED
    BY <1>5, <1>6, <1>8, <1>11, <2>1, <2>2 DEF EditRates, DeleteRate, history
<1>12. CASE Quote \/ UNCHANGED vars
  BY <1>8, <1>12
  DEF Quote, BeginQuote, ReadPolygons, ReadRings, ReadVehicles, ReadRates, EndQuote, vars, setup, history
<1> QED
  BY <1>3, <1>7, <1>9, <1>10, <1>11, <1>12 DEF Next

\* Every cell of a zone that is gone is still to be removed by the cascade of its
\* deletion, or a crash has cut that off, or the cell was created after the deletion.
THEOREM CellsGoWithTheirZone == Spec => []NoStrayCells
<1>1. Init => NoStrayCells
  BY SetupAssumption DEF Init, NoStrayCells
<1>2. IInv /\ NoStrayCells /\ [Next]_vars => NoStrayCells'
  BY NoStrayStep
<1> QED
  BY <1>1, <1>2, IInvHolds, PTL DEF Spec

(***************************************************************************)
(* The matchers of the zones.                                              *)
(***************************************************************************)

\* z has every matcher that seen has.
HasAllOf(z, seen) == (z.ring = None => seen.ring = None) /\ (z.area = None => seen.area = None)

\* A patch of a zone leaves a matcher of its kind, and so does what it writes on top
\* of later changes, since a matcher that is there is never taken away.
MatchersHold ==
  /\ \A z \in zones : Matched(z)
  /\ \A h \in Handlers : at[h].pc = "zone" =>
       /\ Matched(at[h].new) /\ HasAllOf(at[h].new, at[h].seen)
       /\ \A z \in zones : z.id = at[h].seen.id => HasAllOf(z, at[h].seen)

LEMMA OverwrittenMatched ==
  ASSUME NEW z \in Zones, NEW seen \in Zones, NEW new \in Zones, new.id = seen.id,
         Matched(z), Matched(new), HasAllOf(new, seen), HasAllOf(z, seen)
  PROVE  /\ Matched(Overwritten(z, seen, new))
         /\ \A s \in Zones : HasAllOf(z, s) => HasAllOf(Overwritten(z, seen, new), s)
<1>1. PICK o \in Zones : /\ o = Overwritten(z, seen, new)
                         /\ o.kind = Written(seen.kind, new.kind, z.kind)
                         /\ o.ring = Written(seen.ring, new.ring, z.ring)
                         /\ o.area = Written(seen.area, new.area, z.area)
  BY ZoneOverwritten
<1>2. o.kind = new.kind \/ o.kind = z.kind
  BY <1>1 DEF Written
<1>3. (o.ring = None => z.ring = None /\ new.ring = None) /\ (o.area = None => z.area = None /\ new.area = None)
  BY <1>1 DEF Written, HasAllOf
<1> QED
  BY <1>1, <1>2, <1>3 DEF Matched, HasAllOf

\* Requests on vehicles and rates leave the zones and the requests on zones alone.
LEMMA NoZoneRequest ==
  ASSUME at \in [Handlers -> Requests], NEW h \in Handlers, EditVehicles(h) \/ EditRates(h)
  PROVE  zones' = zones /\ \A k \in Handlers : at'[k] = at[k] \/ at'[k].pc # "zone"
<1> DEFINE Goal == zones' = zones /\ \A k \in Handlers : at'[k] = at[k] \/ at'[k].pc # "zone"
<1>1. Idle.pc = "idle"
  BY DEF Idle
<1>2. ASSUME NEW v \in vehicles, NEW patch \in VehiclePatches, BeginUpdateVehicle(h, v, patch) PROVE Goal
  <2>1. PICK q : q = [Idle EXCEPT !.pc = "vehicle", !.seen = v, !.new = Merged(v, patch)]
    OBVIOUS
  <2>2. q.pc = "vehicle"
    BY <2>1 DEF Idle
  <2> QED
    BY <1>2, <2>1, <2>2 DEF BeginUpdateVehicle, Start, setup
<1>3. ASSUME NEW z \in zones, NEW t \in TiersPriced, NEW p \in Pricings, BeginUpsertRate(h, z, t, p) PROVE Goal
  <2>1. PICK q : q = [Idle EXCEPT !.pc = "find", !.new = Rate(edits, z.id, t, p)]
    OBVIOUS
  <2>2. q.pc = "find"
    BY <2>1 DEF Idle
  <2> QED
    BY <1>3, <2>1, <2>2 DEF BeginUpsertRate, Start, setup
<1>4. CASE FindRate(h)
  <2>1. at[h] \in [pc : {"find", "create"}, id : {None}, seen : {None}, new : Rates] /\ zones' = zones
    BY <1>4 DEF FindRate, setup, Requests
  <2> QED
    BY <1>4, <2>1 DEF FindRate
<1>5. CASE SaveVehicle(h) \/ SaveRate(h) \/ CreateRate(h)
  BY <1>1, <1>5 DEF SaveVehicle, SaveRate, CreateRate, Finish
<1> QED
  BY <1>2, <1>3, <1>4, <1>5 DEF EditVehicles, EditRates, CreateVehicle, DeleteVehicle, DeleteRate

LEMMA MatchersStep ==
  ASSUME IInv, MatchersHold, [Next]_vars
  PROVE  MatchersHold'
<1> USE IInvParts
\* The zones of before or new ones, and requests that end or do not touch a zone.
<1>1. ASSUME \A z \in zones' : z \in zones \/ (z.id = edits /\ Matched(z)),
             \A h \in Handlers : at'[h] = at[h] \/ at'[h].pc # "zone"
      PROVE  MatchersHold'
  <2>1. \A h \in Handlers : at[h].pc = "zone" => at[h].seen.id \in Nat /\ at[h].seen.id # edits
    BY RequestKinds DEF RequestsHold, Pending, SavesWhatItRead, Zones
  <2> QED
    BY <1>1, <2>1 DEF MatchersHold, Matched, HasAllOf
<1>2. ASSUME NEW input \in ZoneInputs, CreateZone(input) PROVE MatchersHold'
  <2>1. PICK z : z = WithId(edits, input)
    OBVIOUS
  <2>2. z.id = edits
    BY <2>1 DEF WithId
  <2>3. at' = at /\ zones' = zones \cup {z} /\ Matched(z)
    BY <1>2, <2>1 DEF CreateZone, ZoneValid, Matched
  <2> QED
    BY <1>1, <2>2, <2>3
<1>3. ASSUME NEW h \in Handlers, NEW z \in zones, NEW patch \in ZonePatches, BeginUpdateZone(h, z, patch)
      PROVE  MatchersHold'
  <2>1. PICK m \in Zones : /\ m = Merged(z, patch) /\ HasAllOf(m, z)
    BY ZonePatched DEF Good, GoodZones, HasAllOf
  <2>2. PICK q : q = [Idle EXCEPT !.pc = "zone", !.seen = z, !.new = m]
    OBVIOUS
  <2>3. q.seen = z /\ q.new = m
    BY <2>2 DEF Idle
  <2>4. at' = [at EXCEPT ![h] = q] /\ zones' = zones /\ Matched(m)
    BY <1>3, <2>1, <2>2 DEF BeginUpdateZone, Start, setup, ZoneValid, Matched
  <2>5. \A y \in zones : y.id = z.id => y = z
    BY DEF Good, GoodZones, IdsUnique
  <2>6. \A k \in Handlers : at'[k] = IF k = h THEN q ELSE at[k]
    BY <2>4
  <2> QED
    BY <2>1, <2>3, <2>4, <2>5, <2>6 DEF MatchersHold, HasAllOf
<1>4. ASSUME NEW h \in Handlers, SaveZone(h) PROVE MatchersHold'
  <2>1. PICK seen \in Zones, new \in Zones :
          /\ seen = at[h].seen /\ new = at[h].new /\ at[h].pc = "zone" /\ new.id = seen.id
          /\ Matched(new) /\ HasAllOf(new, seen) /\ \A z \in zones : z.id = seen.id => HasAllOf(z, seen)
    BY <1>4, RequestKinds DEF SaveZone, RequestsHold, Pending, SavesWhatItRead, MatchersHold
  <2>2. /\ at' = [at EXCEPT ![h] = Idle] /\ Idle.pc = "idle"
        /\ zones' = zones \/ zones' = Saved(zones, seen, new)
    BY <1>4, <2>1 DEF SaveZone, Finish, Idle
  <2>3. CASE zones' = zones
    BY <1>1, <2>2, <2>3
  <2>4. CASE zones' = Saved(zones, seen, new)
    <3>1. \A s \in zones' : \E z \in zones :
            /\ s.id = z.id /\ Matched(s) /\ \A other \in Zones : HasAllOf(z, other) => HasAllOf(s, other)
      <4>1. ASSUME NEW s \in Saved(zones, seen, new)
            PROVE  \E z \in zones : /\ s.id = z.id /\ Matched(s)
                                    /\ \A other \in Zones : HasAllOf(z, other) => HasAllOf(s, other)
        <5>1. PICK z \in zones : \/ z.id # seen.id /\ s = z
                                 \/ z.id = seen.id /\ s = Overwritten(z, seen, new)
          BY SavedFrom
        <5>2. z \in Zones /\ Matched(z)
          BY DEF Good, GoodZones, MatchersHold
        <5>3. CASE s = z
          BY <5>2, <5>3
        <5>4. CASE z.id = seen.id /\ s = Overwritten(z, seen, new)
          <6>1. /\ Matched(Overwritten(z, seen, new))
                /\ \A other \in Zones : HasAllOf(z, other) => HasAllOf(Overwritten(z, seen, new), other)
            BY <2>1, <5>2, <5>4, OverwrittenMatched
          <6>2. Overwritten(z, seen, new).id = z.id
            BY <2>1, <5>2, ZoneOverwritten
          <6> QED
            BY <5>4, <6>1, <6>2
        <5> QED
          BY <5>1, <5>3, <5>4
      <4> QED
        BY <2>4, <4>1
    <3>2. \A k \in Handlers : at'[k] = at[k] \/ at'[k].pc # "zone"
      BY <2>2
    <3>3. \A k \in Handlers : at[k].pc = "zone" => at[k].seen \in Zones
      BY RequestKinds
    <3> QED
      BY <3>1, <3>2, <3>3 DEF MatchersHold
  <2> QED
    BY <2>2, <2>3, <2>4
<1>5. CASE seedDefaultDeliverySetup
  <2>1. /\ at' = at
        /\ \E zone \in Zones : /\ zones' = zones \cup {zone}
                               /\ zone \in zones \/ (zone.id = edits /\ zone = WithId(edits, DefaultZone))
    BY <1>5, SeedEffect
  <2>2. Matched(WithId(edits, DefaultZone))
    <3>1. [min |-> 0, max |-> 50] \in Rings
      BY DEF Rings
    <3> QED
      BY <3>1, NoneAssumption DEF WithId, DefaultZone, Matched
  <2> QED
    BY <1>1, <2>1, <2>2
<1>6. ASSUME zones' \in SUBSET zones, NEW h \in Handlers, NEW q, at' = [at EXCEPT ![h] = q], q.pc # "zone"
      PROVE  MatchersHold'
  BY <1>1, <1>6
<1>7. ASSUME zones' \in SUBSET zones, at' = at PROVE MatchersHold'
  BY <1>1, <1>7
<1>8. CASE Crash
  <2>1. \A k \in Handlers : at'[k].pc = "idle"
    BY <1>8 DEF Crash, Idle
  <2> QED
    BY <1>1, <1>8, <2>1 DEF Crash, setup
<1>9. ASSUME NEW h \in Handlers, EditZones(h) PROVE MatchersHold'
  <2>1. ASSUME NEW z \in zones, DeleteZone(h, z) PROVE MatchersHold'
    <3>1. PICK q : q = [Idle EXCEPT !.pc = "cascade", !.id = z.id]
      OBVIOUS
    <3>2. q.pc = "cascade"
      BY <3>1 DEF Idle
    <3> QED
      BY <1>6, <2>1, <3>1, <3>2 DEF DeleteZone, Start
  <2>2. CASE Cascade(h)
    <3>1. Idle.pc = "idle"
      BY DEF Idle
    <3> QED
      BY <1>6, <2>2, <3>1 DEF Cascade, Finish
  <2> QED
    BY <1>2, <1>3, <1>4, <1>9, <2>1, <2>2 DEF EditZones
<1>10. ASSUME NEW h \in Handlers, EditVehicles(h) \/ EditRates(h) PROVE MatchersHold'
  <2>1. zones' = zones /\ \A k \in Handlers : at'[k] = at[k] \/ at'[k].pc # "zone"
    BY <1>10, NoZoneRequest
  <2> QED
    BY <1>1, <2>1
<1>11. CASE Quote \/ UNCHANGED vars
  BY <1>7, <1>11
  DEF Quote, BeginQuote, ReadPolygons, ReadRings, ReadVehicles, ReadRates, EndQuote, vars, setup
<1> QED
  BY <1>5, <1>8, <1>9, <1>10, <1>11 DEF Next

LEMMA MatchersThere == Spec => []MatchersHold
<1>1. Init => MatchersHold
  BY SetupAssumption DEF Init, MatchersHold, Matched, ZoneValid, Idle
<1>2. IInv /\ MatchersHold /\ [Next]_vars => MatchersHold'
  BY MatchersStep
<1> QED
  BY <1>1, <1>2, IInvHolds, PTL DEF Spec

\* What a patch makes of the zone it read is valid, and so is a zone no patch was
\* saved onto unseen.
ValidHold ==
  /\ \A z \in zones : z.id \notin crossed => ZoneValid(z)
  /\ \A h \in Handlers : at[h].pc = "zone" => ZoneValid(at[h].new)

LEMMA ValidStep ==
  ASSUME IInv, ValidHold, [Next]_vars
  PROVE  ValidHold'
<1> USE IInvParts
\* The zones of before or valid ones, and requests that end or bring a valid one.
<1>1. ASSUME \A z \in zones' : z \in zones \/ ZoneValid(z), crossed' = crossed,
             \A h \in Handlers : \/ at'[h] = at[h] \/ at'[h].pc # "zone"
                                \/ ZoneValid(at'[h].new)
      PROVE  ValidHold'
  BY <1>1 DEF ValidHold, ZoneValid
<1>2. ASSUME NEW input \in ZoneInputs, CreateZone(input) PROVE ValidHold'
  BY <1>1, <1>2 DEF CreateZone, history
<1>3. ASSUME NEW h \in Handlers, NEW z \in zones, NEW patch \in ZonePatches, BeginUpdateZone(h, z, patch)
      PROVE  ValidHold'
  <2>1. PICK m \in Zones : m = Merged(z, patch)
    BY ZonePatched DEF Good, GoodZones
  <2>2. PICK q : q = [Idle EXCEPT !.pc = "zone", !.seen = z, !.new = m]
    OBVIOUS
  <2>3. q.new = m
    BY <2>2 DEF Idle
  <2>4. at' = [at EXCEPT ![h] = q] /\ zones' = zones /\ crossed' = crossed /\ ZoneValid(m)
    BY <1>3, <2>1, <2>2 DEF BeginUpdateZone, Start, setup, history
  <2>5. \A k \in Handlers : at'[k] = at[k] \/ ZoneValid(at'[k].new)
    BY <2>3, <2>4
  <2> QED
    BY <1>1, <2>4, <2>5
<1>4. ASSUME NEW h \in Handlers, SaveZone(h) PROVE ValidHold'
  <2>1. PICK seen \in Zones, new \in Zones :
          seen = at[h].seen /\ new = at[h].new /\ new.id = seen.id /\ ZoneValid(new)
    BY <1>4, RequestKinds DEF SaveZone, RequestsHold, Pending, SavesWhatItRead, ValidHold
  <2>2. at' = [at EXCEPT ![h] = Idle] /\ Idle.pc = "idle"
    BY <1>4 DEF SaveZone, Finish, Idle
  <2>3. CASE zones' = zones /\ crossed' = crossed
    BY <1>1, <2>2, <2>3
  <2>4. CASE /\ zones' = Saved(zones, seen, new)
             /\ crossed' = crossed \cup {z.id : z \in {z \in zones : z.id = seen.id /\ z # seen}}
    <3>1. ASSUME NEW s \in Saved(zones, seen, new), s.id \notin crossed' PROVE ZoneValid(s)
      <4>1. PICK z \in zones : \/ z.id # seen.id /\ s = z
                               \/ z.id = seen.id /\ s = Overwritten(z, seen, new)
        BY SavedFrom
      <4>2. z \in Zones
        BY DEF Good, GoodZones
      <4>3. CASE s = z
        BY <2>4, <3>1, <4>3 DEF ValidHold
      <4>4. CASE z.id = seen.id /\ s = Overwritten(z, seen, new)
        <5>1. s.id = z.id /\ s.kind = Written(seen.kind, new.kind, z.kind)
              /\ s.ring = Written(seen.ring, new.ring, z.ring)
              /\ s.area = Written(seen.area, new.area, z.area)
          BY <2>1, <4>2, <4>4, ZoneOverwritten
        <5>2. z = seen
          BY <2>4, <3>1, <4>4, <5>1
        <5>3. s.kind = new.kind /\ s.ring = new.ring /\ s.area = new.area
          BY <5>1, <5>2 DEF Written
        <5> QED
          BY <2>1, <5>3 DEF ZoneValid
      <4> QED
        BY <4>1, <4>3, <4>4
    <3>2. \A k \in Handlers : at'[k] = at[k] \/ at'[k].pc # "zone"
      BY <2>2
    <3> QED
      BY <2>4, <3>1, <3>2 DEF ValidHold, ZoneValid
  <2> QED
    BY <1>4, <2>1, <2>3, <2>4 DEF SaveZone
<1>5. CASE seedDefaultDeliverySetup
  <2>1. /\ at' = at
        /\ \E zone \in Zones : zones' = zones \cup {zone} /\ (zone \in zones \/ zone = WithId(edits, DefaultZone))
    BY <1>5, SeedEffect
  <2>2. ZoneValid(WithId(edits, DefaultZone))
    <3>1. [min |-> 0, max |-> 50] \in Rings
      BY DEF Rings
    <3> QED
      BY <3>1, NoneAssumption DEF WithId, DefaultZone, ZoneValid
  <2>3. crossed' = crossed
    BY <1>5 DEF seedDefaultDeliverySetup
  <2> QED
    BY <1>1, <2>1, <2>2, <2>3
<1>6. ASSUME zones' \in SUBSET zones, crossed' = crossed,
             \A h \in Handlers : at'[h] = at[h] \/ at'[h].pc # "zone"
      PROVE  ValidHold'
  BY <1>1, <1>6
<1>7. ASSUME NEW h \in Handlers, NEW q, at' = [at EXCEPT ![h] = q], q.pc # "zone", zones' \in SUBSET zones,
             crossed' = crossed
      PROVE  ValidHold'
  BY <1>6, <1>7
<1>8. CASE Crash
  <2>1. \A k \in Handlers : at'[k].pc = "idle"
    BY <1>8 DEF Crash, Idle
  <2> QED
    BY <1>6, <1>8, <2>1 DEF Crash, setup
<1>9. ASSUME NEW h \in Handlers, EditZones(h) PROVE ValidHold'
  <2>1. ASSUME NEW z \in zones, DeleteZone(h, z) PROVE ValidHold'
    <3>1. PICK q : q = [Idle EXCEPT !.pc = "cascade", !.id = z.id]
      OBVIOUS
    <3>2. q.pc = "cascade"
      BY <3>1 DEF Idle
    <3> QED
      BY <1>7, <2>1, <3>1, <3>2 DEF DeleteZone, Start, history
  <2>2. CASE Cascade(h)
    <3>1. Idle.pc = "idle"
      BY DEF Idle
    <3> QED
      BY <1>7, <2>2, <3>1 DEF Cascade, Finish, history
  <2> QED
    BY <1>2, <1>3, <1>4, <1>9, <2>1, <2>2 DEF EditZones
<1>10. ASSUME NEW h \in Handlers, EditVehicles(h) \/ EditRates(h) PROVE ValidHold'
  <2>1. zones' = zones /\ \A k \in Handlers : at'[k] = at[k] \/ at'[k].pc # "zone"
    BY <1>10, NoZoneRequest
  <2>2. crossed' = crossed
    BY <1>10 DEF EditVehicles, EditRates, CreateVehicle, BeginUpdateVehicle, SaveVehicle, DeleteVehicle,
       BeginUpsertRate, FindRate, SaveRate, CreateRate, DeleteRate, history
  <2> QED
    BY <1>6, <2>1, <2>2
<1>11. CASE Quote \/ UNCHANGED vars
  BY <1>6, <1>11
  DEF Quote, BeginQuote, ReadPolygons, ReadRings, ReadVehicles, ReadRates, EndQuote, vars, setup, history
<1> QED
  BY <1>5, <1>8, <1>9, <1>10, <1>11 DEF Next

\* A zone has a matcher of its kind, however patches of it overlap, and is valid
\* altogether unless a patch was saved onto it unseen.
THEOREM ZonesKeepTheirMatcher == Spec => []ZoneHasMatcher
<1>1. Init => ValidHold
  BY SetupAssumption DEF Init, ValidHold, Idle
<1>2. IInv /\ ValidHold /\ [Next]_vars => ValidHold'
  BY ValidStep
<1>3. ValidHold /\ MatchersHold => ZoneHasMatcher
  BY DEF ValidHold, MatchersHold, ZoneHasMatcher
<1> QED
  BY <1>1, <1>2, <1>3, IInvHolds, MatchersThere, PTL DEF Spec

(***************************************************************************)
(* Sums over the lines of a cart.                                          *)
(***************************************************************************)

\* Among any sets of elements of a finite set, one has none of the others in it.
LEMMA SmallestSubset ==
  ASSUME NEW S, IsFiniteSet(S), NEW X \in SUBSET SUBSET S, X # {}
  PROVE  \E T \in X : \A U \in X : U \subseteq T => U = T
<1>1. IsWellFoundedOn(StrictSubsetOrdering(S), SUBSET S)
  BY FS_StrictSubsetOrderingWellFounded, FS_FiniteSubsetsOfFinite
<1>2. PICK T \in X : \A U \in X : <<U, T>> \notin StrictSubsetOrdering(S)
  BY <1>1, WFMin
<1> QED
  BY <1>2 DEF StrictSubsetOrdering

First(s) == CHOOSE x \in s : TRUE

\* g adds up the values of f over every subset of S.
AddsUp(g, f, S) == g = [s \in SUBSET S |-> IF s = {} THEN 0 ELSE f[First(s)] + g[s \ {First(s)}]]

LEMMA SumIs == ASSUME NEW f, NEW S PROVE SumFunctionOnSet(f, S) = (CHOOSE g : AddsUp(g, f, S))[S]
BY DEF SumFunctionOnSet, FoldFunctionOnSet, MapThenFoldSet, AddsUp, First

LEMMA AddsUpOnce ==
  ASSUME NEW S, IsFiniteSet(S), NEW f, NEW g, AddsUp(g, f, S), NEW h, AddsUp(h, f, S)
  PROVE  g = h
<1> DEFINE X == {s \in SUBSET S : g[s] # h[s]}
<1>1. ASSUME X # {} PROVE FALSE
  <2>1. PICK T \in X : \A U \in X : U \subseteq T => U = T
    <3>1. X \in SUBSET SUBSET S
      OBVIOUS
    <3> HIDE DEF X
    <3> QED
      BY <1>1, <3>1, SmallestSubset
  <2>2. CASE T = {}
    BY <2>1, <2>2 DEF AddsUp
  <2>3. CASE T # {}
    <3>1. First(T) \in T
      BY <2>3 DEF First
    <3>2. T \ {First(T)} \in SUBSET S /\ T \in SUBSET S
      BY <2>1
    <3>3. g[T \ {First(T)}] = h[T \ {First(T)}]
      BY <2>1, <3>1, <3>2
    <3>4. /\ g[T] = f[First(T)] + g[T \ {First(T)}]
          /\ h[T] = f[First(T)] + h[T \ {First(T)}]
      BY <2>3, <3>2 DEF AddsUp
    <3> QED
      BY <2>1, <3>3, <3>4
  <2> QED
    BY <2>2, <2>3
<1>2. \A s \in SUBSET S : g[s] = h[s]
  BY <1>1
<1>3. g = [s \in SUBSET S |-> g[s]] /\ h = [s \in SUBSET S |-> h[s]]
  BY DEF AddsUp
<1> QED
  BY <1>2, <1>3

\* The sum over a finite set is the value at one element and the sum over the others.
Unfolds(f, S) ==
  SumFunctionOnSet(f, S) = IF S = {} THEN 0 ELSE f[First(S)] + SumFunctionOnSet(f, S \ {First(S)})

LEMMA SumUnfolds ==
  ASSUME NEW S, IsFiniteSet(S), NEW f
  PROVE  Unfolds(f, S)
<1> DEFINE X == {s \in SUBSET S : ~Unfolds(f, s)}
<1>1. ASSUME X # {} PROVE FALSE
  <2>1. PICK T \in X : \A U \in X : U \subseteq T => U = T
    <3>1. X \in SUBSET SUBSET S
      OBVIOUS
    <3> HIDE DEF X
    <3> QED
      BY <1>1, <3>1, SmallestSubset
  <2>2. IsFiniteSet(T) /\ T \in SUBSET S
    BY <2>1, FS_Subset
  <2> DEFINE total == IF T = {} THEN 0 ELSE f[First(T)] + SumFunctionOnSet(f, T \ {First(T)})
             h == [s \in SUBSET T |-> IF s = T THEN total ELSE SumFunctionOnSet(f, s)]
  <2>3. \A s \in SUBSET T : s # {} => First(s) \in s /\ s \ {First(s)} # T /\ s \ {First(s)} \in SUBSET T
    BY DEF First
  <2>4. ASSUME NEW s \in SUBSET T
        PROVE  h[s] = IF s = {} THEN 0 ELSE f[First(s)] + h[s \ {First(s)}]
    <3>1. CASE s = T
      BY <2>3, <3>1
    <3>2. CASE s # T
      <4>1. Unfolds(f, s)
        BY <2>1, <2>2, <3>2
      <4> QED
        BY <2>3, <3>2, <4>1 DEF Unfolds
    <3> QED
      BY <3>1, <3>2
  <2>5. AddsUp(h, f, T)
    BY <2>4 DEF AddsUp
  <2> HIDE DEF h
  <2>6. AddsUp(CHOOSE g : AddsUp(g, f, T), f, T)
    BY <2>5
  <2>7. (CHOOSE g : AddsUp(g, f, T)) = h
    BY <2>2, <2>5, <2>6, AddsUpOnce
  <2>8. SumFunctionOnSet(f, T) = h[T]
    BY <2>7, SumIs
  <2>9. SumFunctionOnSet(f, T) = total
    BY <2>8 DEF h
  <2> QED
    BY <2>1, <2>9 DEF Unfolds
<1> QED
  BY <1>1

\* A sum of numbers is a number.
LEMMA SumIsNumber ==
  ASSUME NEW S, IsFiniteSet(S), NEW f \in [S -> Nat]
  PROVE  SumFunction(f) \in Nat
<1> DEFINE X == {s \in SUBSET S : SumFunctionOnSet(f, s) \notin Nat}
<1>1. ASSUME X # {} PROVE FALSE
  <2>1. PICK T \in X : \A U \in X : U \subseteq T => U = T
    <3>1. X \in SUBSET SUBSET S
      OBVIOUS
    <3> HIDE DEF X
    <3> QED
      BY <1>1, <3>1, SmallestSubset
  <2>2. IsFiniteSet(T) /\ T \in SUBSET S
    BY <2>1, FS_Subset
  <2>3. Unfolds(f, T)
    BY <2>2, SumUnfolds
  <2>4. CASE T = {}
    BY <2>1, <2>3, <2>4 DEF Unfolds
  <2>5. CASE T # {}
    <3>1. First(T) \in T
      BY <2>5 DEF First
    <3>2. SumFunctionOnSet(f, T \ {First(T)}) \in Nat
      BY <2>1, <2>2, <3>1
    <3>3. f[First(T)] \in Nat
      BY <2>2, <3>1
    <3> QED
      BY <2>1, <2>3, <2>5, <3>2, <3>3 DEF Unfolds
  <2> QED
    BY <2>4, <2>5
<1> QED
  BY <1>1 DEF SumFunction

(***************************************************************************)
(* Quotes.                                                                 *)
(***************************************************************************)
LEMMA RankIsNat == \A t \in DOMAIN RankOf : Rank(t) \in 0 .. 4
BY DEF Rank, RankOf

LEMMA LargestOf ==
  ASSUME NEW S \in SUBSET (0 .. 4), 0 \in S
  PROVE  Max(S) \in S /\ \A x \in S : Max(S) >= x
<1>1. \E m \in S : \A x \in S : m >= x
  <2>1. CASE 4 \in S
    BY <2>1
  <2>2. CASE 4 \notin S /\ 3 \in S
    BY <2>2
  <2>3. CASE 4 \notin S /\ 3 \notin S /\ 2 \in S
    BY <2>3
  <2>4. CASE 4 \notin S /\ 3 \notin S /\ 2 \notin S /\ 1 \in S
    BY <2>4
  <2>5. CASE 4 \notin S /\ 3 \notin S /\ 2 \notin S /\ 1 \notin S
    BY <2>5
  <2> QED
    BY <2>1, <2>2, <2>3, <2>4, <2>5
<1> QED
  BY <1>1 DEF Max

LEMMA LargerOf ==
  ASSUME NEW m \in Nat, NEW n \in Nat
  PROVE  /\ Max({m, n}) \in Nat
         /\ \A k \in Nat : k >= Max({m, n}) <=> m <= k /\ n <= k
<1>1. \E x \in {m, n} : \A y \in {m, n} : x >= y
  OBVIOUS
<1>2. Max({m, n}) \in {m, n} /\ \A y \in {m, n} : Max({m, n}) >= y
  BY <1>1 DEF Max
<1> QED
  BY <1>2

\* The requirement of a cart asks of a vehicle what its lines ask.
LEMMA FitsWhatItCarries ==
  ASSUME NEW v \in Vehicles, NEW cart \in Carts
  PROVE  Fits(v, computeVehicleRequirement(cart)) <=> Carries(v, cart)
<1> DEFINE lines == {l \in cart : l.quantity > 0}
           kg == [l \in lines |-> l.kg * l.quantity]
           bulk == [l \in lines |-> l.bulk * l.quantity]
           ranks == {0} \cup {Rank(l.tier) : l \in lines}
<1>1. IsFiniteSet(lines)
  BY CartAssumption, FS_Subset
<1>2. \A l \in lines : l.kg * l.quantity \in Nat /\ l.bulk * l.quantity \in Nat
  BY CartAssumption
<1>3. SumFunction(kg) \in Nat /\ SumFunction(bulk) \in Nat
  <2>1. kg \in [lines -> Nat] /\ bulk \in [lines -> Nat]
    BY <1>2
  <2> HIDE DEF lines, kg, bulk
  <2> QED
    BY <1>1, <2>1, SumIsNumber
<1>4. ranks \in SUBSET (0 .. 4)
  BY RankIsNat, CartAssumption
<1>5. v.max \in Nat /\ Rank(v.tier) \in 0 .. 4
  BY RankIsNat DEF Vehicles, Tiers
<1>6. Billed(cart) = lines /\ Weight(cart) = SumFunction(kg) /\ Bulk(cart) = SumFunction(bulk)
  BY DEF Billed, Weight, Bulk
<1>7. Fits(v, computeVehicleRequirement(cart)) <=>
        v.active /\ Rank(v.tier) >= Max(ranks) /\ v.max >= Max({SumFunction(kg), SumFunction(bulk)})
  BY <1>6 DEF Fits, computeVehicleRequirement
<1>8. v.max >= Max({SumFunction(kg), SumFunction(bulk)}) <=> SumFunction(kg) <= v.max /\ SumFunction(bulk) <= v.max
  <2> HIDE DEF kg, bulk
  <2> QED
    BY <1>3, <1>5, LargerOf
<1>9. Rank(v.tier) >= Max(ranks) <=> \A l \in lines : Rank(l.tier) <= Rank(v.tier)
  <2>1. \A l \in lines : Rank(l.tier) \in ranks
    OBVIOUS
  <2>2. \A n \in ranks : n = 0 \/ \E l \in lines : n = Rank(l.tier)
    OBVIOUS
  <2>3. 0 \in ranks
    OBVIOUS
  <2> HIDE DEF ranks, lines
  <2>4. Max(ranks) \in ranks /\ \A n \in ranks : Max(ranks) >= n /\ n \in 0 .. 4
    BY <1>4, <2>3, LargestOf
  <2> QED
    BY <1>5, <2>1, <2>2, <2>4
<1>10. Carries(v, cart) <=>
         /\ v.active /\ \A l \in lines : Rank(l.tier) <= Rank(v.tier)
         /\ SumFunction(kg) <= v.max /\ SumFunction(bulk) <= v.max
  BY DEF Carries
<1> HIDE DEF lines, kg, bulk, ranks
<1> QED
  BY <1>7, <1>8, <1>9, <1>10

\* A ring or a polygon found for a pin covers it.
LEMMA FoundCovers ==
  ASSUME NEW z \in Zones, Matched(z), NEW pin \in Pins, NEW origin \in BOOLEAN
  PROVE  Covers(z, pin, origin) <=> \/ z.kind = "polygon" /\ z.active /\ pin \in z.area
                                    \/ z.kind = "ring" /\ z.active /\ origin /\ InRing(z, pin)
<1>1. CASE z.kind = "polygon"
  BY <1>1 DEF Covers
<1>2. CASE z.kind = "ring"
  <2>1. z.ring \in Rings
    BY <1>2 DEF Matched, Zones
  <2>2. z.ring.min \in Nat /\ z.ring.max \in Nat /\ Distance[pin] \in Nat
    BY <2>1, DistanceAssumption DEF Rings
  <2>3. InRing(z, pin) <=> Distance[pin] \in z.ring.min .. z.ring.max - 1
    BY <2>2 DEF InRing
  <2> QED
    BY <1>2, <2>3 DEF Covers
<1> QED
  BY <1>1, <1>2 DEF Zones

Best(z) ==
  /\ z \in zones /\ Covers(z, quote.pin, quote.origin)
  /\ \A y \in zones : Covers(y, quote.pin, quote.origin) => z.priority <= y.priority

Able == {v \in vehicles : Carries(v, quote.cart)}

\* What a quote has found so far is so, while the set-up is as it was.
FoundSoFar ==
  quote.clean =>
    /\ quote.pc = "rings" => quote.found = {z \in zones : z.kind = "polygon" /\ z.active /\ quote.pin \in z.area}
    /\ quote.pc \in {"vehicles", "rates"} => Best(quote.zone)
    /\ quote.pc = "rates" => quote.fleet = Able /\ Able # {}

QuoteHolds == FoundSoFar /\ QuoteIsRight

LEMMA QuoteRings ==
  ASSUME IInv, MatchersHold, QuoteHolds, ReadRings
  PROVE  QuoteHolds'
<1> USE IInvParts
<1> DEFINE rings == {z \in zones : z.kind = "ring" /\ z.active /\ quote.origin /\ InRing(z, quote.pin)}
           polygons == {z \in zones : z.kind = "polygon" /\ z.active /\ quote.pin \in z.area}
           matches == quote.found \cup rings
<1>1. quote \in Quotes /\ quote.pc = "rings" /\ quote.pin \in Pins /\ quote.origin \in BOOLEAN
  BY DEF ReadRings, QuoteTyped, Quotes
<1>2. UNCHANGED <<zones, vehicles, rates>>
  BY DEF ReadRings, setup
<1>3. CASE ~quote.clean
  <2>1. ~quote'.clean
    BY <1>1, <1>3 DEF ReadRings, Refused, Quotes
  <2> QED
    BY <2>1 DEF QuoteHolds, FoundSoFar, QuoteIsRight
<1>4. CASE quote.clean
  <2>1. quote.found = polygons
    BY <1>1, <1>4 DEF QuoteHolds, FoundSoFar
  <2>2. \A z \in zones : z \in matches <=> Covers(z, quote.pin, quote.origin)
    <3>1. \A z \in zones : z \in Zones /\ Matched(z)
      BY DEF Good, GoodZones, MatchersHold
    <3> QED
      BY <1>1, <2>1, <3>1, FoundCovers
  <2>3. CASE matches = {} /\ Refused(None, "OUT_OF_AREA")
    <3>1. /\ quote'.pc = "quoted" /\ quote'.result.status = "OUT_OF_AREA"
          /\ quote'.pin = quote.pin /\ quote'.origin = quote.origin /\ quote'.cart = quote.cart
      BY <1>1, <2>3 DEF Refused, Quotes
    <3>2. \A y \in zones' : ~ Covers(y, quote'.pin, quote'.origin)
      BY <1>2, <2>2, <2>3, <3>1
    <3> QED
      BY <3>1, <3>2 DEF QuoteHolds, FoundSoFar, QuoteIsRight
  <2>4. ASSUME NEW z \in matches, \A y \in matches : z.priority <= y.priority,
               quote' = [quote EXCEPT !.pc = "vehicles", !.zone = z]
        PROVE  QuoteHolds'
    <3>1. /\ quote'.pc = "vehicles" /\ quote'.zone = z /\ quote'.pin = quote.pin /\ quote'.origin = quote.origin
      BY <1>1, <2>4 DEF Quotes
    <3>2. z \in zones
      BY <2>1
    <3>3. Best(z)
      BY <2>2, <2>4, <3>2 DEF Best
    <3>4. Best(quote.zone)'
      BY <1>2, <3>1, <3>3 DEF Best, Covers
    <3> QED
      BY <3>1, <3>4 DEF QuoteHolds, FoundSoFar, QuoteIsRight
  <2> HIDE DEF rings, polygons
  <2>5. \/ matches = {} /\ Refused(None, "OUT_OF_AREA")
        \/ \E z \in matches : /\ \A y \in matches : z.priority <= y.priority
                              /\ quote' = [quote EXCEPT !.pc = "vehicles", !.zone = z]
    BY DEF ReadRings, BestMatches, rings
  <2> QED
    BY <2>3, <2>4, <2>5
<1> QED
  BY <1>1, <1>3, <1>4 DEF Quotes

LEMMA QuoteVehicles ==
  ASSUME IInv, QuoteHolds, ReadVehicles
  PROVE  QuoteHolds'
<1> USE IInvParts
<1>1. quote \in Quotes /\ quote.pc = "vehicles" /\ quote.cart \in Carts
  BY DEF ReadVehicles, QuoteTyped, Quotes
<1>2. UNCHANGED <<zones, vehicles, rates>>
  BY DEF ReadVehicles, setup
<1>3. {v \in vehicles : Fits(v, computeVehicleRequirement(quote.cart))} = Able
  BY <1>1, FitsWhatItCarries DEF Able, Good, GoodVehicles
<1>4. CASE ~quote.clean
  <2>1. ~quote'.clean
    BY <1>1, <1>4 DEF ReadVehicles, Refused, Quotes
  <2> QED
    BY <2>1 DEF QuoteHolds, FoundSoFar, QuoteIsRight
<1>5. CASE quote.clean
  <2>1. Best(quote.zone)
    BY <1>1, <1>5 DEF QuoteHolds, FoundSoFar
  <2>2. CASE Able = {} /\ Refused(quote.zone, "NO_VEHICLE")
    <3>1. /\ quote'.pc = "quoted" /\ quote'.result.status = "NO_VEHICLE" /\ quote'.zone = quote.zone
          /\ quote'.pin = quote.pin /\ quote'.origin = quote.origin /\ quote'.cart = quote.cart
      BY <1>1, <2>2 DEF Refused, Quotes
    <3>2. {v \in vehicles' : Carries(v, quote'.cart)} = {}
      BY <1>2, <2>2, <3>1 DEF Able
    <3>3. /\ quote'.zone \in zones' /\ Covers(quote'.zone, quote'.pin, quote'.origin)
          /\ \A y \in zones' : Covers(y, quote'.pin, quote'.origin) => quote'.zone.priority <= y.priority
      BY <1>2, <2>1, <3>1 DEF Best
    <3> QED
      BY <3>1, <3>2, <3>3 DEF QuoteHolds, FoundSoFar, QuoteIsRight
  <2>3. CASE Able # {} /\ quote' = [quote EXCEPT !.pc = "rates", !.fleet = Able]
    <3>1. /\ quote'.pc = "rates" /\ quote'.zone = quote.zone /\ quote'.fleet = Able
          /\ quote'.pin = quote.pin /\ quote'.origin = quote.origin /\ quote'.cart = quote.cart
      BY <1>1, <2>3 DEF Quotes
    <3>2. Able' = Able /\ Best(quote.zone)'
      BY <1>2, <2>1, <3>1 DEF Able, Best
    <3> QED
      BY <2>3, <3>1, <3>2 DEF QuoteHolds, FoundSoFar, QuoteIsRight
  <2> QED
    BY <1>3, <2>2, <2>3 DEF ReadVehicles
<1> QED
  BY <1>1, <1>4, <1>5 DEF Quotes

LEMMA QuoteRates ==
  ASSUME IInv, QuoteHolds, ReadRates
  PROVE  QuoteHolds'
<1> USE IInvParts
<1> DEFINE cells(v) == {r \in rates : r.zone = quote.zone.id /\ r.tier = v.tier /\ Serves(r, quote.origin)}
           priced == {v \in quote.fleet : cells(v) # {}}
<1>1. quote \in Quotes /\ quote.pc = "rates"
  BY DEF ReadRates, QuoteTyped, Quotes
<1>2. UNCHANGED <<zones, vehicles, rates>>
  BY DEF ReadRates, setup
<1>3. CASE ~quote.clean
  <2>1. ~quote'.clean
    BY <1>1, <1>3 DEF ReadRates, Refused, Quoted, Quotes
  <2> QED
    BY <2>1 DEF QuoteHolds, FoundSoFar, QuoteIsRight
<1>4. CASE quote.clean
  <2>1. Best(quote.zone) /\ quote.fleet = Able /\ Able # {}
    BY <1>1, <1>4 DEF QuoteHolds, FoundSoFar
  <2>2. \A v : HasPrice(quote.zone, v, quote.origin) <=> cells(v) # {}
    BY DEF HasPrice, Cell
  <2>3. ASSUME quote'.pc = "quoted", quote'.zone = quote.zone, quote'.pin = quote.pin,
               quote'.origin = quote.origin, quote'.cart = quote.cart,
               quote'.result.status \in {"NOT_SERVED", "QUOTED", "ERROR"},
               quote'.result.status = "NOT_SERVED" =>
                 \A v \in Able : ~ HasPrice(quote.zone, v, quote.origin),
               quote'.result.status = "QUOTED" =>
                 \E v \in Able, r \in rates :
                   /\ v.tier = quote'.result.tier /\ r.zone = quote.zone.id /\ r.tier = quote'.result.tier
                   /\ quote'.result.fee = computeDeliveryFee(r, quote.pin)
                   /\ \A u \in Able : Rank(u.tier) < Rank(v.tier) => ~ HasPrice(quote.zone, u, quote.origin)
        PROVE  QuoteHolds'
    <3>1. {v \in vehicles' : Carries(v, quote'.cart)} = Able
      BY <1>2, <2>3 DEF Able
    <3>2. /\ quote'.zone \in zones' /\ Covers(quote'.zone, quote'.pin, quote'.origin)
          /\ \A y \in zones' : Covers(y, quote'.pin, quote'.origin) => quote'.zone.priority <= y.priority
      BY <1>2, <2>1, <2>3 DEF Best
    <3>3. FoundSoFar'
      BY <2>3 DEF FoundSoFar
    <3>4. \A v \in Able :
            (\E r \in {r \in rates' : r.zone = quote'.zone.id /\ r.tier = v.tier} : Serves(r, quote'.origin))
            <=> HasPrice(quote.zone, v, quote.origin)
      BY <1>2, <2>3 DEF HasPrice, Cell
    <3>5. QuoteIsRight'
      <4>1. CASE quote'.result.status = "NOT_SERVED"
        BY <2>1, <2>3, <3>1, <3>2, <3>4, <4>1 DEF QuoteIsRight, HasPrice, Cell
      <4>2. CASE quote'.result.status = "ERROR"
        BY <2>1, <2>3, <3>1, <3>2, <4>2 DEF QuoteIsRight
      <4>3. CASE quote'.result.status = "QUOTED"
        <5>1. \E v \in Able, r \in rates' :
                /\ v.tier = quote'.result.tier /\ r.zone = quote'.zone.id /\ r.tier = quote'.result.tier
                /\ quote'.result.fee = computeDeliveryFee(r, quote'.pin)
                /\ \A u \in Able : Rank(u.tier) < Rank(v.tier) =>
                     ~ \E s \in {s \in rates' : s.zone = quote'.zone.id /\ s.tier = u.tier} :
                          Serves(s, quote'.origin)
          BY <1>2, <2>3, <3>4, <4>3
        <5> QED
          BY <2>1, <3>1, <3>2, <4>3, <5>1 DEF QuoteIsRight, HasPrice, Cell
      <4> QED
        BY <2>3, <4>1, <4>2, <4>3
    <3> QED
      BY <3>3, <3>5 DEF QuoteHolds
  <2>4. CASE priced = {} /\ Refused(quote.zone, "NOT_SERVED")
    <3>1. /\ quote'.pc = "quoted" /\ quote'.result.status = "NOT_SERVED" /\ quote'.zone = quote.zone
          /\ quote'.pin = quote.pin /\ quote'.origin = quote.origin /\ quote'.cart = quote.cart
      BY <1>1, <2>4 DEF Refused, Quotes
    <3>2. \A v \in Able : ~ HasPrice(quote.zone, v, quote.origin)
      BY <2>1, <2>2, <2>4
    <3> QED
      BY <2>3, <3>1, <3>2
  <2>5. ASSUME NEW v \in priced, NEW r \in cells(v), \A u \in priced : Rank(v.tier) <= Rank(u.tier),
               \/ Refused(quote.zone, "ERROR")
               \/ Quoted(quote.zone, r.tier, computeDeliveryFee(r, quote.pin))
        PROVE  QuoteHolds'
    <3>1. CASE Refused(quote.zone, "ERROR")
      <4>1. /\ quote'.pc = "quoted" /\ quote'.result.status = "ERROR" /\ quote'.zone = quote.zone
            /\ quote'.pin = quote.pin /\ quote'.origin = quote.origin /\ quote'.cart = quote.cart
        BY <1>1, <3>1 DEF Refused, Quotes
      <4> QED
        BY <2>3, <4>1
    <3>2. CASE Quoted(quote.zone, r.tier, computeDeliveryFee(r, quote.pin))
      <4>1. /\ quote'.pc = "quoted" /\ quote'.result.status = "QUOTED" /\ quote'.zone = quote.zone
            /\ quote'.pin = quote.pin /\ quote'.origin = quote.origin /\ quote'.cart = quote.cart
            /\ quote'.result.tier = r.tier /\ quote'.result.fee = computeDeliveryFee(r, quote.pin)
        BY <1>1, <3>2 DEF Quoted, Quotes
      <4>2. v \in Able /\ r \in rates /\ v.tier = r.tier /\ r.zone = quote.zone.id
        BY <2>1, <2>5
      <4>3. ASSUME NEW u \in Able, Rank(u.tier) < Rank(v.tier) PROVE ~ HasPrice(quote.zone, u, quote.origin)
        <5>1. Rank(u.tier) \in 0 .. 4 /\ Rank(v.tier) \in 0 .. 4
          BY <4>2, RankIsNat DEF Able, Good, GoodVehicles, Vehicles, Tiers
        <5>2. u \notin priced
          BY <2>5, <4>3, <5>1
        <5> QED
          BY <2>1, <2>2, <5>2
      <4> QED
        BY <2>3, <4>1, <4>2, <4>3
    <3> QED
      BY <2>5, <3>1, <3>2
  <2> QED
    BY <2>4, <2>5 DEF ReadRates
<1> QED
  BY <1>1, <1>3, <1>4 DEF Quotes

LEMMA QuoteStep ==
  ASSUME IInv, MatchersHold, QuoteHolds, [Next]_vars
  PROVE  QuoteHolds'
<1> USE IInvParts
<1>1. CASE Write \/ quote' = NoQuote
  <2>1. ~quote'.clean
    <3>1. CASE quote' = NoQuote
      BY <3>1 DEF NoQuote
    <3>2. CASE Write
      <4>1. quote = NoQuote \/ quote \in Quotes
        BY DEF QuoteTyped
      <4>2. CASE quote = NoQuote
        BY <3>2, <4>2 DEF Write, NoQuote
      <4>3. CASE quote \in Quotes
        BY <3>2, <4>3 DEF Write, Quotes
      <4> QED
        BY <4>1, <4>2, <4>3
    <3> QED
      BY <1>1, <3>1, <3>2
  <2> QED
    BY <2>1 DEF QuoteHolds, FoundSoFar, QuoteIsRight
<1>2. CASE UNCHANGED <<setup, quote>>
  <2>1. zones' = zones /\ vehicles' = vehicles /\ rates' = rates /\ quote' = quote
    BY <1>2 DEF setup
  <2>2. FoundSoFar'
    BY <2>1 DEF QuoteHolds, FoundSoFar, Best, Able
  <2>3. QuoteIsRight'
    BY <2>1 DEF QuoteHolds, QuoteIsRight, HasPrice, Cell
  <2> QED
    BY <2>2, <2>3 DEF QuoteHolds
<1>3. ASSUME NEW pin \in Pins, NEW cart \in Carts, NEW origin \in BOOLEAN, BeginQuote(pin, cart, origin)
      PROVE  QuoteHolds'
  <2>1. quote'.pc = "polygons"
    BY <1>3 DEF BeginQuote, NoQuote
  <2> QED
    BY <2>1 DEF QuoteHolds, FoundSoFar, QuoteIsRight
<1>4. CASE ReadPolygons
  <2>1. /\ quote'.pc = "rings" /\ quote'.pin = quote.pin
        /\ quote'.found = {z \in zones : z.kind = "polygon" /\ z.active /\ quote.pin \in z.area}
        /\ zones' = zones
    BY <1>4 DEF ReadPolygons, QuoteTyped, Quotes, setup
  <2> QED
    BY <2>1 DEF QuoteHolds, FoundSoFar, QuoteIsRight
<1>5. ASSUME NEW h \in Handlers, EditZones(h) \/ EditVehicles(h) \/ EditRates(h) PROVE QuoteHolds'
  BY <1>1, <1>2, <1>5
  DEF EditZones, EditVehicles, EditRates, CreateZone, BeginUpdateZone, SaveZone, DeleteZone,
      Cascade, CreateVehicle, BeginUpdateVehicle, SaveVehicle, DeleteVehicle, BeginUpsertRate, FindRate,
      SaveRate, CreateRate, DeleteRate
<1>6. CASE seedDefaultDeliverySetup \/ Crash \/ EndQuote
  BY <1>1, <1>6 DEF seedDefaultDeliverySetup, Crash, EndQuote
<1>7. CASE UNCHANGED vars
  BY <1>2, <1>7 DEF vars
<1> QED
  BY <1>3, <1>4, <1>5, <1>6, <1>7, QuoteRings, QuoteVehicles, QuoteRates DEF Next, Quote

\* A quote made from a set-up nobody edits meanwhile names the zone that comes first,
\* the smallest vehicle with a price that carries the cart, and the price of its cell.
THEOREM QuotesAreRight == Spec => []QuoteIsRight
<1>1. Init => QuoteHolds
  BY DEF Init, NoQuote, QuoteHolds, FoundSoFar, QuoteIsRight
<1>2. IInv /\ MatchersHold /\ QuoteHolds /\ [Next]_vars => QuoteHolds'
  BY QuoteStep
<1>3. QuoteHolds => QuoteIsRight
  BY DEF QuoteHolds
<1> QED
  BY <1>1, <1>2, <1>3, IInvHolds, MatchersThere, PTL DEF Spec
==============================================================================
