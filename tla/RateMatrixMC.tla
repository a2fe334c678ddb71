----------------------------- MODULE RateMatrixMC -----------------------------
(* A shop with an inner zone and a ring around it, and a pin in each and on   *)
(* the ring's outer border.  The first set-ups differ in what the bike costs  *)
(* in the inner zone: nothing set, refused, flat, or per kilometre.           *)
EXTENDS RateMatrix, TLC

MCPins     == {"near", "far", "border"}
MCDistance == [p \in MCPins |-> CASE p = "near" -> 1 [] p = "far" -> 4 [] p = "border" -> 5]

Line(quantity, kg, bulk, tier) == [quantity |-> quantity, kg |-> kg, bulk |-> bulk, tier |-> tier]
MCCarts == {{Line(2, 1, 0, "none")}, {Line(1, 1, 3, "none")},
            {Line(1, 1, 1, "van"), Line(0, 9, 9, "truck")}}

Inner == [id |-> 1, name |-> "Inner", kind |-> "polygon", ring |-> None, area |-> {"near"},
          priority |-> 1, active |-> TRUE]
Outer == [id |-> 2, name |-> "Citywide", kind |-> "ring", ring |-> [min |-> 0, max |-> 5],
          area |-> None, priority |-> 5, active |-> TRUE]

Bike == [id |-> 1, tier |-> "bike", max |-> 2, active |-> TRUE]
Van  == [id |-> 2, tier |-> "van", max |-> 9, active |-> TRUE]

Flat(n)    == [kind |-> "flat", flat |-> n, base |-> None, perKm |-> None]
PerKm(b,k) == [kind |-> "base_per_km", flat |-> None, base |-> b, perKm |-> k]
NotServed  == [kind |-> "not_served", flat |-> None, base |-> None, perKm |-> None]
Stray      == [kind |-> "not_served", flat |-> 2, base |-> None, perKm |-> None]
MCPricings == {Flat(2), NotServed, PerKm(1, 1)}

Matrix(zone, bike, van) ==
  {Rate(2 * zone.id - 1, zone.id, "bike", p) : p \in bike} \cup
  {Rate(2 * zone.id, zone.id, "van", p) : p \in van}

BikePrices == {{}, {NotServed}, {Flat(3)}, {PerKm(1, 2)}}

\* A polygon zone that still has the ring it once had.
Leftover == [Inner EXCEPT !.ring = [min |-> 0, max |-> 5]]

MCSetups ==
  {[zones |-> {Inner, Outer}, vehicles |-> {Bike, Van},
    rates |-> Matrix(Inner, p[1], p[2]) \cup Matrix(Outer, {}, {Flat(4)})] :
     p \in (BikePrices \X {{Flat(3)}}) \cup {<<{NotServed}, {}>>, <<{NotServed}, {PerKm(1, 2)}>>}}
  \cup {[zones |-> {Leftover}, vehicles |-> {Bike}, rates |-> Matrix(Inner, {Flat(3)}, {})]}

\* One cell whose price was refused with an amount left in the body.
StraySetups == {[zones |-> {Outer}, vehicles |-> {Bike}, rates |-> Matrix(Outer, {Stray}, {})]}
StrayPricings == {Flat(2), NotServed}

MCZoneInputs     == {[name |-> "Edge", kind |-> "ring", ring |-> [min |-> 5, max |-> 9], area |-> None,
                      priority |-> 1, active |-> TRUE]}
\* The last of the rings is empty.
MCZonePatches    == {[kind |-> "polygon"], [kind |-> "ring"], [active |-> FALSE],
                     [ring |-> [min |-> 2, max |-> 4]], [ring |-> [min |-> 5, max |-> 2]]}
MCVehicleInputs  == {[tier |-> "truck", max |-> 9, active |-> TRUE]}
MCVehiclePatches == {[max |-> 1]}

\* The edits in progress have no order and no name.
Alike == Permutations(Handlers)
=============================================================================
