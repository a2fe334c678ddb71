-------------------------- MODULE Catalogue_proofs --------------------------
(***************************************************************************)
(* What Catalogue promises for any shops, requests, workbooks and faults.  *)
(***************************************************************************)
EXTENDS Catalogue, TLAPS

\* A product is a value of each field.
LEMMA ProductIs ==
  \A p : p \in Products <=> p = [f \in Fields |-> p[f]] /\ \A f \in Fields : p[f] \in Values[f]
BY DEF Products, Values, Fields

\* The inventory rule takes a product off sale when nothing is left, and does
\* nothing else to it.
LEMMA InventoryRule ==
  ASSUME NEW p \in Products
  PROVE  /\ applyInventoryState(p) \in Products /\ SoldOutIsOff(applyInventoryState(p))
         /\ applyInventoryState(p).availability \in {p.availability, "out_of_stock"}
         /\ applyInventoryState(p).status = p.status
BY DEF applyInventoryState, SoldOutIsOff, Products, Values

\* A patched product holds the patch's values where it has them.
LEMMA PatchedIs ==
  ASSUME NEW p \in Products, NEW patch \in Edits
  PROVE  /\ Patched(p, patch) \in Products
         /\ \A f \in Fields : Patched(p, patch)[f] = IF f \in DOMAIN patch THEN patch[f] ELSE p[f]
<1>1. \A f \in Fields \cap DOMAIN patch : patch[f] \in Values[f]
  <2>1. CASE patch \in Patches
    BY <2>1, PatchAssumption
  <2>2. CASE patch \in {Publish, Archive, MarkOutOfStock}
    BY <2>2 DEF Publish, Archive, MarkOutOfStock, Values, Fields
  <2> QED
    BY <2>1, <2>2 DEF Edits
<1>2. \A f \in Fields : Patched(p, patch)[f] = IF f \in DOMAIN patch THEN patch[f] ELSE p[f]
  BY DEF Patched
<1>3. Patched(p, patch) = [f \in Fields |-> Patched(p, patch)[f]]
  BY DEF Patched
<1> QED
  BY <1>1, <1>2, <1>3, ProductIs

\* A save over the document the request has seen writes what the rules made of
\* it; and no save puts a product on sale that was not, unless its patch says so.
LEMMA WrittenIs ==
  ASSUME NEW seen \in Products, NEW patch \in Edits, NEW stored \in Products
  PROVE  /\ Written(seen, patch, stored) \in Products
         /\ stored = seen =>
              Written(seen, patch, stored) = applyInventoryState(Patched(seen, patch))
         /\ Written(seen, patch, stored).availability = "in_stock" =>
              \/ stored.availability = "in_stock"
              \/ "availability" \in DOMAIN patch /\ patch.availability = "in_stock"
<1> DEFINE assigned == Patched(seen, patch)
           final    == applyInventoryState(assigned)
           written  == Written(seen, patch, stored)
           changed  == Modified(seen, patch)
<1>1. /\ assigned \in Products /\ final \in Products
      /\ final.availability \in {assigned.availability, "out_of_stock"}
      /\ \A f \in Fields : assigned[f] = IF f \in DOMAIN patch THEN patch[f] ELSE seen[f]
  BY InventoryRule, PatchedIs
<1>2. /\ changed = {f \in Fields : assigned[f] # seen[f] \/ final[f] # assigned[f]}
      /\ written = [f \in Fields |-> IF f \in changed THEN final[f] ELSE stored[f]]
  BY DEF Modified, Written
<1>3. "availability" \in Fields
  BY DEF Fields
<1> HIDE DEF assigned, final, written, changed
<1>4. written \in Products
  <2>1. written = [f \in Fields |-> written[f]] /\ \A f \in Fields : written[f] \in {final[f], stored[f]}
    BY <1>2
  <2> QED
    BY <1>1, <2>1, ProductIs
<1>5. ASSUME stored = seen PROVE written = final
  <2>1. \A f \in Fields : written[f] = final[f]
    BY <1>2, <1>5
  <2>2. written = [f \in Fields |-> written[f]] /\ final = [f \in Fields |-> final[f]]
    BY <1>1, <1>4, ProductIs
  <2> QED
    BY <2>1, <2>2
<1>6. ASSUME written.availability = "in_stock"
      PROVE  \/ stored.availability = "in_stock"
             \/ "availability" \in DOMAIN patch /\ patch.availability = "in_stock"
  <2>1. CASE "availability" \in changed
    <3>1. final.availability = "in_stock"
      BY <1>2, <1>3, <1>6, <2>1
    <3>2. assigned.availability = "in_stock" /\ assigned.availability # seen.availability
      BY <1>1, <1>2, <2>1, <3>1
    <3> QED
      BY <1>1, <1>3, <3>2
  <2>2. CASE "availability" \notin changed
    BY <1>2, <1>3, <1>6, <2>2
  <2> QED
    BY <2>1, <2>2
<1> QED
  BY <1>4, <1>5, <1>6 DEF assigned, final, written

(***************************************************************************)
(* Types.                                                                  *)
(***************************************************************************)

\* The types of what products, requests and the import leave behind.
ProductsTyped ==
  /\ products \in [Ids -> Products \cup {None}]
  /\ stale \in [Tenants -> SUBSET (Skus \cup Tenants)]
RequestsTyped ==
  /\ at = [h \in Staff |-> at[h]]
  /\ \A h \in Staff :
       \/ at[h].pc = "idle"
       \/ /\ at[h].pc = "save" /\ at[h].tenant \in Tenants /\ at[h].id \in Ids
          /\ at[h].seen \in Products /\ at[h].patch \in Edits /\ products[at[h].id] # None
ImportTyped ==
  /\ import \in [tenant : Tenants \cup {None}, sheet : Sheets \cup {<<>>}, next : Nat \ {0},
                 created : SUBSET Nat, failed : SUBSET Nat]
  /\ import.sheet # <<>> => import.tenant \in Tenants
  /\ origin \in [Ids -> Nat \cup {None}]
  /\ unheard \subseteq Nat
RestTyped ==
  /\ shop \in [Tenants -> {"trial", "active", "suspended"}]
  /\ fetch \in [Tenants -> BOOLEAN]
  /\ listed \in [Tenants -> SUBSET Skus]
  /\ requests \in Nat /\ faults \in Nat
  /\ raced \subseteq Ids

LEMMA TypeParts == TypeOK <=> ProductsTyped /\ RequestsTyped /\ ImportTyped /\ RestTyped
BY DEF TypeOK, ProductsTyped, RequestsTyped, ImportTyped, RestTyped

\* An id is a shop and a sku.
LEMMA IdsArePairs ==
  /\ \A id \in Ids : id = <<id[1], id[2]>> /\ id[1] \in Tenants /\ id[2] \in Skus
  /\ \A t \in Tenants, s \in Skus : <<t, s>> \in Ids
BY DEF Ids

\* A product is stored as it is given, and no other with it.
LEMMA StoreEffect ==
  ASSUME ProductsTyped, NEW id \in Ids, NEW p \in Products, Store(id, p)
  PROVE  /\ ProductsTyped'
         /\ products'[id] = p /\ p # None
         /\ \A other \in Ids \ {id} : products'[other] = products[other]
         /\ \A other \in Ids : products[other] # None => products'[other] # None
<1>1. products' = [products EXCEPT ![id] = p] /\ p # None
  BY NoneAssumption DEF Store
<1>2. stale' \in [Tenants -> SUBSET (Skus \cup Tenants)]
  BY IdsArePairs DEF ProductsTyped, Store, Outdate
<1> QED
  BY <1>1, <1>2 DEF ProductsTyped

\* The row an import has come to.
LEMMA RowOfSheet ==
  ASSUME ImportTyped, Importing
  PROVE  /\ import.next \in Nat \ {0} /\ Len(import.sheet) \in Nat
         /\ import.sheet \in Sheets /\ import.tenant \in Tenants
         /\ import.next \in 1 .. Len(import.sheet)
<1>1. /\ import.next \in Nat \ {0} /\ import.sheet \in Sheets \cup {<<>>}
      /\ import.next <= Len(import.sheet)
      /\ import.sheet # <<>> => import.tenant \in Tenants
  BY DEF ImportTyped, Importing
<1>2. import.sheet # <<>>
  <2>1. Len(<<>>) = 0
    OBVIOUS
  <2> QED
    BY <1>1, <2>1
<1>3. Len(import.sheet) \in Nat
  BY <1>1, <1>2, SheetAssumption
<1> QED
  BY <1>1, <1>2, <1>3

\* A row that is accepted becomes a product of the shop that imports it.
LEMMA RowIsProduct ==
  ASSUME ImportTyped, Importing, Accepted(import.tenant, import.sheet[import.next])
  PROVE  LET row == import.sheet[import.next] IN
         /\ <<import.tenant, row.sku>> \in Ids
         /\ products[<<import.tenant, row.sku>>] = None
         /\ applyInventoryState(mapFeedRowToInput(row)) \in Products
         /\ SoldOutIsOff(applyInventoryState(mapFeedRowToInput(row)))
<1> DEFINE row == import.sheet[import.next]
<1>1. /\ row.sku \in Skus \cup {None} /\ row.image \in Values.image
      /\ row.quantity \in Values.quantity \cup {Garbage}
      /\ row.availability \in Values.availability \cup {None}
      /\ import.tenant \in Tenants
  BY RowOfSheet, SheetAssumption
<1>2. row.sku # None /\ row.quantity # Garbage /\ products[<<import.tenant, row.sku>>] = None
  BY DEF Accepted, Readable
<1> HIDE DEF row
<1>3. mapFeedRowToInput(row) \in Products
  BY <1>1, <1>2 DEF mapFeedRowToInput, Products, Values
<1> QED
  BY <1>1, <1>2, <1>3, InventoryRule, IdsArePairs DEF row

\* A save stores what the rules made of the patch, or nothing.
LEMMA SaveEffect ==
  ASSUME TypeOK, NEW h \in Staff, SaveUpdate(h)
  PROVE  /\ at[h].pc = "save" /\ at[h].id \in Ids /\ at[h].seen \in Products /\ at[h].patch \in Edits
         /\ products[at[h].id] \in Products
         /\ at' = [at EXCEPT ![h] = Idle] /\ at'[h].pc = "idle"
         /\ \/ /\ Store(at[h].id, Written(at[h].seen, at[h].patch, products[at[h].id]))
               /\ Written(at[h].seen, at[h].patch, products[at[h].id]) \in Products
               /\ at[h].id[1] = at[h].tenant
               /\ raced' = IF products[at[h].id] = at[h].seen THEN raced ELSE raced \cup {at[h].id}
            \/ UNCHANGED <<products, stale, raced>>
<1>1. /\ at[h].pc = "save" /\ at[h].id \in Ids /\ at[h].seen \in Products /\ at[h].patch \in Edits
      /\ products[at[h].id] \in Products
      /\ at' = [at EXCEPT ![h] = Idle] /\ at'[h].pc = "idle"
  <2>1. /\ at[h].pc = "save" /\ at[h].id \in Ids /\ at[h].seen \in Products /\ at[h].patch \in Edits
        /\ products[at[h].id] # None
    BY DEF SaveUpdate, TypeOK
  <2>2. at' = [at EXCEPT ![h] = Idle] /\ at = [x \in Staff |-> at[x]]
    BY DEF SaveUpdate, Finish, TypeOK
  <2>3. products[at[h].id] \in Products
    BY <2>1 DEF TypeOK
  <2>4. at'[h].pc = "idle"
    BY <2>2 DEF Idle
  <2> QED
    BY <2>1, <2>2, <2>3, <2>4
<1>2. Written(at[h].seen, at[h].patch, products[at[h].id]) \in Products
  BY <1>1, WrittenIs
<1> QED
  BY <1>1, <1>2 DEF SaveUpdate, MaySave

\* A row is stored as a product of the shop that imports, or is counted as failed.
LEMMA ImportEffect ==
  ASSUME TypeOK, ImportRow
  PROVE  LET i == import.next  row == import.sheet[i]  id == <<import.tenant, row.sku>> IN
         /\ i \in Nat \ {0} /\ i \in 1 .. Len(import.sheet) /\ Len(import.sheet) \in Nat
         /\ \/ /\ id \in Ids /\ products[id] = None
               /\ applyInventoryState(mapFeedRowToInput(row)) \in Products
               /\ SoldOutIsOff(applyInventoryState(mapFeedRowToInput(row)))
               /\ Store(id, applyInventoryState(mapFeedRowToInput(row)))
               /\ origin' = [origin EXCEPT ![id] = i]
               /\ \/ Counted(i, TRUE) /\ unheard' = unheard
                  \/ Counted(i, FALSE) /\ unheard' = unheard \cup {i}
            \/ Counted(i, FALSE) /\ UNCHANGED <<products, stale, origin, unheard>>
<1>1. ImportTyped /\ Importing
  BY TypeParts DEF ImportRow
<1> QED
  BY <1>1, RowOfSheet, RowIsProduct DEF ImportRow

LEMMA CountedTypes ==
  ASSUME ImportTyped, NEW i \in Nat \ {0}, NEW ok \in BOOLEAN, Counted(i, ok)
  PROVE  /\ import' \in [tenant : Tenants \cup {None}, sheet : Sheets \cup {<<>>}, next : Nat \ {0},
                         created : SUBSET Nat, failed : SUBSET Nat]
         /\ import'.sheet = import.sheet /\ import'.tenant = import.tenant /\ import'.next = i + 1
         /\ import'.created = IF ok THEN import.created \cup {i} ELSE import.created
         /\ import'.failed = IF ok THEN import.failed ELSE import.failed \cup {i}
<1> DEFINE created == IF ok THEN import.created \cup {i} ELSE import.created
           failed  == IF ok THEN import.failed ELSE import.failed \cup {i}
<1>1. /\ import.tenant \in Tenants \cup {None} /\ import.sheet \in Sheets \cup {<<>>}
      /\ i + 1 \in Nat \ {0} /\ created \in SUBSET Nat /\ failed \in SUBSET Nat
  BY DEF ImportTyped
<1>2. import' = [tenant |-> import.tenant, sheet |-> import.sheet, next |-> i + 1,
                 created |-> created, failed |-> failed]
  BY DEF ImportTyped, Counted
<1> HIDE DEF created, failed
<1>3. /\ import'.sheet = import.sheet /\ import'.tenant = import.tenant /\ import'.next = i + 1
      /\ import'.created = created /\ import'.failed = failed
  BY <1>2
<1> QED
  BY <1>1, <1>2, <1>3 DEF created, failed

\* No step takes a product away; so requests keep the one they work on.
LEMMA RequestsKept ==
  ASSUME TypeOK, \A id \in Ids : products[id] # None => products'[id] # None, UNCHANGED at
  PROVE  RequestsTyped'
BY DEF TypeOK, RequestsTyped

\* Every step leaves only values the code knows, and no product is taken away.
LEMMA TypeStep ==
  ASSUME TypeOK, [Next]_vars
  PROVE  TypeOK' /\ \A id \in Ids : products[id] # None => products'[id] # None
<1> DEFINE Kept == \A id \in Ids : products[id] # None => products'[id] # None
<1> SUFFICES ProductsTyped' /\ RequestsTyped' /\ ImportTyped' /\ RestTyped' /\ Kept
  BY DEF TypeOK, ProductsTyped, RequestsTyped, ImportTyped, RestTyped
<1> USE TypeParts
<1>1. ASSUME NEW h \in Staff, NEW t \in Tenants, NEW s \in Skus, NEW body \in Bodies,
             CreateProduct(h, t, s, body)
      PROVE  ProductsTyped' /\ RequestsTyped' /\ ImportTyped' /\ RestTyped' /\ Kept
  <2>1. /\ <<t, s>> \in Ids /\ applyInventoryState(body) \in Products
        /\ Store(<<t, s>>, applyInventoryState(body))
    BY <1>1, BodyAssumption, InventoryRule, IdsArePairs DEF CreateProduct
  <2>2. ProductsTyped' /\ Kept
    BY <2>1, StoreEffect
  <2>3. RequestsTyped'
    BY <1>1, <2>2, RequestsKept DEF CreateProduct, actors
  <2> QED
    BY <1>1, <2>2, <2>3 DEF CreateProduct, actors, Request, ImportTyped, RestTyped
<1>2. ASSUME NEW h \in Staff, NEW t \in Tenants, NEW id \in Ids, NEW patch \in Edits,
             BeginUpdate(h, t, id, patch)
      PROVE  ProductsTyped' /\ RequestsTyped' /\ ImportTyped' /\ RestTyped' /\ Kept
  <2>1. /\ products[id] \in Products /\ products' = products /\ products[id] # None
        /\ at' = [at EXCEPT ![h] = [pc |-> "save", tenant |-> t, id |-> id,
                                    seen |-> products[id], patch |-> patch]]
    BY <1>2 DEF BeginUpdate, ProductsTyped
  <2>2. RequestsTyped'
    BY <2>1 DEF RequestsTyped
  <2> QED
    BY <1>2, <2>1, <2>2 DEF BeginUpdate, Request, history, ProductsTyped, ImportTyped, RestTyped
<1>3. ASSUME NEW h \in Staff, SaveUpdate(h)
      PROVE  ProductsTyped' /\ RequestsTyped' /\ ImportTyped' /\ RestTyped' /\ Kept
  <2>1. /\ at[h].id \in Ids /\ at' = [at EXCEPT ![h] = Idle]
        /\ \/ /\ Store(at[h].id, Written(at[h].seen, at[h].patch, products[at[h].id]))
              /\ Written(at[h].seen, at[h].patch, products[at[h].id]) \in Products
              /\ raced' = IF products[at[h].id] = at[h].seen THEN raced ELSE raced \cup {at[h].id}
           \/ UNCHANGED <<products, stale, raced>>
    BY <1>3, SaveEffect
  <2>2. ProductsTyped' /\ Kept
    BY <2>1, StoreEffect DEF ProductsTyped
  <2>3. RequestsTyped'
    BY <2>1, <2>2 DEF RequestsTyped, Idle
  <2> QED
    BY <1>3, <2>1, <2>2, <2>3 DEF SaveUpdate, ImportTyped, RestTyped
<1>4. ASSUME NEW t \in Tenants, NEW sheet \in Sheets, BeginImport(t, sheet)
      PROVE  ProductsTyped' /\ RequestsTyped' /\ ImportTyped' /\ RestTyped' /\ Kept
  <2>1. /\ import' = [tenant |-> t, sheet |-> sheet, next |-> 1, created |-> {}, failed |-> {}]
        /\ origin' = [id \in Ids |-> None] /\ unheard' = {}
    BY <1>4 DEF BeginImport, NoImport
  <2>2. ImportTyped'
    BY <2>1 DEF ImportTyped
  <2>3. Kept /\ UNCHANGED at
    BY <1>4 DEF BeginImport
  <2> QED
    BY <1>4, <2>2, <2>3, RequestsKept DEF BeginImport, Request, ProductsTyped, RestTyped
<1>5. ASSUME ImportRow
      PROVE  ProductsTyped' /\ RequestsTyped' /\ ImportTyped' /\ RestTyped' /\ Kept
  <2> DEFINE i == import.next
             id == <<import.tenant, import.sheet[i].sku>>
             p == applyInventoryState(mapFeedRowToInput(import.sheet[i]))
  <2>1. /\ i \in Nat \ {0}
        /\ \/ /\ id \in Ids /\ p \in Products /\ Store(id, p)
              /\ origin' = [origin EXCEPT ![id] = i]
              /\ \/ Counted(i, TRUE) /\ unheard' = unheard
                 \/ Counted(i, FALSE) /\ unheard' = unheard \cup {i}
           \/ Counted(i, FALSE) /\ UNCHANGED <<products, stale, origin, unheard>>
    BY <1>5, ImportEffect
  <2> HIDE DEF i, id, p
  <2>2. ProductsTyped' /\ Kept
    BY <2>1, StoreEffect DEF ProductsTyped
  <2>3. ImportTyped'
    <3>1. /\ import' \in [tenant : Tenants \cup {None}, sheet : Sheets \cup {<<>>}, next : Nat \ {0},
                          created : SUBSET Nat, failed : SUBSET Nat]
          /\ import'.sheet = import.sheet /\ import'.tenant = import.tenant
      BY <2>1, CountedTypes
    <3>2. origin' \in [Ids -> Nat \cup {None}] /\ unheard' \subseteq Nat
      BY <2>1 DEF ImportTyped
    <3> QED
      BY <3>1, <3>2 DEF ImportTyped
  <2>4. faults' \in {faults, faults + 1} /\ UNCHANGED <<shop, at, fetch, listed, requests, raced>>
    BY <1>5 DEF ImportRow
  <2>5. RestTyped'
    BY <2>4 DEF RestTyped
  <2> QED
    BY <2>2, <2>3, <2>4, <2>5, RequestsKept
<1>6. ASSUME NEW t \in Tenants, ResolveFeed(t) \/ ServeFeed(t)
      PROVE  ProductsTyped' /\ RequestsTyped' /\ ImportTyped' /\ RestTyped' /\ Kept
  <2>1. buildCatalogFeed(t) \subseteq Skus
    BY IdsArePairs DEF buildCatalogFeed, ActiveSkus, Pinned
  <2>2. /\ UNCHANGED <<products, shop, at, import, requests, raced, origin, unheard>>
        /\ fetch' \in [Tenants -> BOOLEAN] /\ faults' \in Nat
    <3>1. CASE ResolveFeed(t)
      BY <3>1 DEF ResolveFeed, RestTyped, history
    <3>2. CASE ServeFeed(t)
      BY <3>2 DEF ServeFeed, RestTyped
    <3> QED
      BY <1>6, <3>1, <3>2
  <2>4. listed' \in [Tenants -> SUBSET Skus]
    BY <1>6, <2>1 DEF ResolveFeed, ServeFeed, RestTyped
  <2>5. RestTyped'
    BY <2>2, <2>4 DEF RestTyped
  <2>3. stale' \in [Tenants -> SUBSET (Skus \cup Tenants)]
    BY <1>6 DEF ResolveFeed, ServeFeed, ProductsTyped, history
  <2> QED
    BY <2>2, <2>3, <2>5, RequestsKept DEF ProductsTyped, ImportTyped
<1>7. ASSUME NEW t \in Tenants, NEW status \in {"active", "suspended"}, SetStatus(t, status)
      PROVE  ProductsTyped' /\ RequestsTyped' /\ ImportTyped' /\ RestTyped' /\ Kept
  <2>1. UNCHANGED <<products, at, import, fetch, listed, requests, raced, origin, unheard>>
    BY <1>7 DEF SetStatus, actors
  <2> QED
    BY <1>7, <2>1, RequestsKept DEF SetStatus, ProductsTyped, ImportTyped, RestTyped
<1>8. ASSUME Crash PROVE ProductsTyped' /\ RequestsTyped' /\ ImportTyped' /\ RestTyped' /\ Kept
  BY <1>8 DEF Crash, ProductsTyped, RequestsTyped, ImportTyped, RestTyped, NoImport, Idle
<1>9. CASE UNCHANGED vars
  BY <1>9 DEF vars, actors, history, ProductsTyped, RequestsTyped, ImportTyped, RestTyped
<1> QED
  BY <1>1, <1>2, <1>3, <1>4, <1>5, <1>6, <1>7, <1>8, <1>9 DEF Next, ByStaff

\* The database, the requests and the import only hold values the code knows.
THEOREM TypeCorrect == Spec => []TypeOK
<1>1. Init => TypeOK
  BY StockAssumption DEF Init, TypeOK, Idle, NoImport
<1>2. TypeOK /\ [Next]_vars => TypeOK'
  BY TypeStep
<1> QED
  BY <1>1, <1>2, PTL DEF Spec

(***************************************************************************)
(* Stock.                                                                  *)
(***************************************************************************)

\* What a step does to the products: a new one enters under the inventory rule,
\* a save writes one, or nothing happens to any.
LEMMA ProductsMove ==
  ASSUME TypeOK, Next
  PROVE  \/ \E id \in Ids : /\ products[id] = None /\ SoldOutIsOff(products'[id])
                            /\ products'[id] # None
                            /\ \A other \in Ids \ {id} : products'[other] = products[other]
                            /\ raced' = raced
         \/ \E h \in Staff : SaveUpdate(h)
         \/ products' = products /\ raced' = raced
<1>1. ASSUME NEW h \in Staff, NEW t \in Tenants, NEW s \in Skus, NEW body \in Bodies,
             CreateProduct(h, t, s, body)
      PROVE  \E id \in Ids : /\ products[id] = None /\ SoldOutIsOff(products'[id])
                             /\ products'[id] # None
                             /\ \A other \in Ids \ {id} : products'[other] = products[other]
                             /\ raced' = raced
  <2>1. /\ <<t, s>> \in Ids /\ applyInventoryState(body) \in Products
        /\ SoldOutIsOff(applyInventoryState(body))
        /\ Store(<<t, s>>, applyInventoryState(body))
        /\ products[<<t, s>>] = None /\ raced' = raced
    BY <1>1, BodyAssumption, InventoryRule, IdsArePairs DEF CreateProduct
  <2>2. /\ products'[<<t, s>>] = applyInventoryState(body) /\ products'[<<t, s>>] # None
        /\ \A other \in Ids \ {<<t, s>>} : products'[other] = products[other]
    BY <2>1, StoreEffect, TypeParts
  <2> QED
    BY <2>1, <2>2
<1>2. ASSUME ImportRow
      PROVE  \/ \E id \in Ids : /\ products[id] = None /\ SoldOutIsOff(products'[id])
                                /\ products'[id] # None
                                /\ \A other \in Ids \ {id} : products'[other] = products[other]
                                /\ raced' = raced
             \/ products' = products /\ raced' = raced
  <2> DEFINE id == <<import.tenant, import.sheet[import.next].sku>>
             p == applyInventoryState(mapFeedRowToInput(import.sheet[import.next]))
  <2>1. \/ id \in Ids /\ products[id] = None /\ p \in Products /\ SoldOutIsOff(p) /\ Store(id, p)
        \/ products' = products
    BY <1>2, ImportEffect
  <2>2. raced' = raced
    BY <1>2 DEF ImportRow
  <2>3. CASE id \in Ids /\ products[id] = None /\ p \in Products /\ SoldOutIsOff(p) /\ Store(id, p)
    <3> HIDE DEF id, p
    <3>1. /\ products'[id] = p /\ p # None
          /\ \A other \in Ids \ {id} : products'[other] = products[other]
      BY <2>3, StoreEffect, TypeParts
    <3> QED
      BY <2>2, <2>3, <3>1
  <2> QED
    BY <2>1, <2>2, <2>3
<1> QED
  BY <1>1, <1>2
  DEF Next, ByStaff, BeginUpdate, BeginImport, ResolveFeed, ServeFeed, SetStatus, Crash, history

\* A sold-out product is on sale only where two of its saves overlapped.
THEOREM SoldOutIsNotOnSale == Spec => []StockAgrees
<1>1. Init => StockAgrees
  BY StockAssumption DEF Init, StockAgrees
<1>2. TypeOK /\ StockAgrees /\ [Next]_vars => StockAgrees'
  <2> SUFFICES ASSUME TypeOK, StockAgrees, Next,
                      NEW id \in Ids, id \notin raced', products'[id] # None
               PROVE  SoldOutIsOff(products'[id])
    BY DEF StockAgrees, SoldOutIsOff, vars, history
  <2>1. ASSUME products'[id] = products[id], raced \subseteq raced' PROVE SoldOutIsOff(products'[id])
    BY <2>1 DEF StockAgrees
  <2>2. ASSUME NEW h \in Staff, SaveUpdate(h) PROVE SoldOutIsOff(products'[id])
    <3> DEFINE written == Written(at[h].seen, at[h].patch, products[at[h].id])
    <3>1. /\ at[h].seen \in Products /\ at[h].patch \in Edits /\ at[h].id \in Ids
          /\ \/ /\ Store(at[h].id, written) /\ written \in Products
                /\ raced' = IF products[at[h].id] = at[h].seen THEN raced ELSE raced \cup {at[h].id}
             \/ products' = products /\ raced' = raced
      BY <2>2, SaveEffect
    <3>2. CASE products' = products /\ raced' = raced
      BY <2>1, <3>2
    <3>3. CASE /\ Store(at[h].id, written) /\ written \in Products
               /\ raced' = IF products[at[h].id] = at[h].seen THEN raced ELSE raced \cup {at[h].id}
      <4>1. /\ products'[at[h].id] = written
            /\ \A other \in Ids \ {at[h].id} : products'[other] = products[other]
        BY <3>1, <3>3, StoreEffect, TypeParts
      <4>2. CASE id # at[h].id
        BY <2>1, <3>3, <4>1, <4>2
      <4>3. CASE id = at[h].id
        <5>1. products[at[h].id] = at[h].seen
          BY <3>3, <4>3
        <5>2. Patched(at[h].seen, at[h].patch) \in Products
          BY <3>1, PatchedIs
        <5>3. written = applyInventoryState(Patched(at[h].seen, at[h].patch))
          BY <3>1, <5>1, WrittenIs
        <5> QED
          BY <4>1, <4>3, <5>2, <5>3, InventoryRule
      <4> QED
        BY <4>2, <4>3
    <3> QED
      BY <3>1, <3>2, <3>3
  <2> QED
    BY <2>1, <2>2, ProductsMove
<1> QED
  BY <1>1, <1>2, TypeCorrect, PTL DEF Spec

\* A product that was off sale comes back only by a save whose patch asks for it.
THEOREM RestocksAreAsked == Spec => RestockIsAsked
<1> DEFINE Asked == \A id \in Ids :
                      /\ products[id] # None /\ products[id].availability = "out_of_stock"
                      /\ products'[id].availability = "in_stock"
                      => \E h \in Staff : /\ at[h].pc = "save" /\ at[h].id = id /\ at'[h].pc = "idle"
                                          /\ "availability" \in DOMAIN at[h].patch
                                          /\ at[h].patch.availability = "in_stock"
<1>1. TypeOK /\ [Next]_vars => [Asked]_vars
  <2> SUFFICES ASSUME TypeOK, Next, NEW id \in Ids, products[id] # None,
                      products[id].availability = "out_of_stock",
                      products'[id].availability = "in_stock"
               PROVE  \E h \in Staff : /\ at[h].pc = "save" /\ at[h].id = id /\ at'[h].pc = "idle"
                                       /\ "availability" \in DOMAIN at[h].patch
                                       /\ at[h].patch.availability = "in_stock"
    OBVIOUS
  <2>1. products'[id] # products[id]
    OBVIOUS
  <2>2. PICK h \in Staff : SaveUpdate(h)
    BY <2>1, ProductsMove
  <2> DEFINE written == Written(at[h].seen, at[h].patch, products[at[h].id])
  <2>3. /\ at[h].pc = "save" /\ at'[h].pc = "idle" /\ at[h].id \in Ids
        /\ at[h].seen \in Products /\ at[h].patch \in Edits /\ products[at[h].id] \in Products
        /\ Store(at[h].id, written) /\ written \in Products
    BY <2>1, <2>2, SaveEffect
  <2>4. id = at[h].id /\ products'[id] = written
    BY <2>1, <2>3, StoreEffect, TypeParts
  <2>5. written.availability = "in_stock" =>
          \/ products[at[h].id].availability = "in_stock"
          \/ "availability" \in DOMAIN at[h].patch /\ at[h].patch.availability = "in_stock"
    BY <2>3, WrittenIs
  <2> QED
    BY <2>3, <2>4, <2>5
<1> QED
  BY <1>1, TypeCorrect, PTL DEF Spec, RestockIsAsked

(***************************************************************************)
(* Imports.                                                                *)
(***************************************************************************)

\* The rows before the next are counted once each, and a product an import has
\* created is there, so no later row creates it again.
RowsCounted ==
  /\ import.next - 1 <= Len(import.sheet)
  /\ import.created \cup import.failed = 1 .. import.next - 1
  /\ import.created \cap import.failed = {}
  /\ {origin[id] : id \in Ids} \ {None} = import.created \cup unheard
  /\ \A id \in Ids : origin[id] # None => products[id] # None

\* A row moves from the rows to come to those counted.
LEMMA CountedStep ==
  ASSUME TypeOK, RowsCounted, ImportRow
  PROVE  RowsCounted'
<1> DEFINE i == import.next
           id == <<import.tenant, import.sheet[i].sku>>
           p == applyInventoryState(mapFeedRowToInput(import.sheet[i]))
<1>1. /\ i \in Nat \ {0} /\ i \in 1 .. Len(import.sheet) /\ Len(import.sheet) \in Nat
      /\ \/ /\ id \in Ids /\ products[id] = None /\ p \in Products /\ Store(id, p)
            /\ origin' = [origin EXCEPT ![id] = i]
            /\ \/ Counted(i, TRUE) /\ unheard' = unheard
               \/ Counted(i, FALSE) /\ unheard' = unheard \cup {i}
         \/ Counted(i, FALSE) /\ UNCHANGED <<products, stale, origin, unheard>>
  BY ImportEffect
<1> HIDE DEF id, p
<1>2. PICK ok \in BOOLEAN : Counted(i, ok)
  BY <1>1
<1>3. /\ import'.sheet = import.sheet /\ import'.next = i + 1
      /\ \/ /\ import'.created = import.created \cup {i} /\ import'.failed = import.failed
            /\ id \in Ids /\ products[id] = None /\ p \in Products /\ Store(id, p)
            /\ origin' = [origin EXCEPT ![id] = i] /\ unheard' = unheard
         \/ /\ import'.created = import.created /\ import'.failed = import.failed \cup {i}
            /\ \/ /\ id \in Ids /\ products[id] = None /\ p \in Products /\ Store(id, p)
                  /\ origin' = [origin EXCEPT ![id] = i] /\ unheard' = unheard \cup {i}
               \/ UNCHANGED <<products, origin, unheard>>
  BY <1>1, CountedTypes, TypeParts
<1>4. /\ import.created \subseteq 1 .. i - 1 /\ import.failed \subseteq 1 .. i - 1
      /\ 1 .. (i + 1) - 1 = (1 .. i - 1) \cup {i} /\ i \notin 1 .. i - 1
  BY <1>1 DEF RowsCounted
<1>5. /\ import'.next - 1 <= Len(import'.sheet)
      /\ import'.created \cup import'.failed = 1 .. import'.next - 1
      /\ import'.created \cap import'.failed = {}
  <2>1. import'.created \cup import'.failed = (import.created \cup import.failed) \cup {i}
    BY <1>3
  <2>2. import.created \cup import.failed = 1 .. i - 1 /\ import.created \cap import.failed = {}
    BY DEF RowsCounted
  <2>3. import'.created \cap import'.failed = {}
    BY <1>3, <1>4, <2>2
  <2> QED
    BY <1>1, <1>3, <1>4, <2>1, <2>2, <2>3
<1>6. CASE UNCHANGED <<products, origin, unheard>> /\ import'.created = import.created
  BY <1>5, <1>6 DEF RowsCounted
<1>7. CASE /\ id \in Ids /\ products[id] = None /\ p \in Products /\ Store(id, p)
           /\ origin' = [origin EXCEPT ![id] = i]
           /\ import'.created \cup unheard' = (import.created \cup unheard) \cup {i}
  <2>1. i # None /\ origin \in [Ids -> Nat \cup {None}] /\ origin[id] = None
    BY <1>1, <1>7, NoneAssumption DEF RowsCounted, TypeOK
  <2>2. {origin'[x] : x \in Ids} \ {None} = ({origin[x] : x \in Ids} \ {None}) \cup {i}
    BY <1>7, <2>1
  <2>3. \A x \in Ids : origin'[x] # None => products'[x] # None
    <3>1. /\ products'[id] # None
          /\ \A other \in Ids \ {id} : products'[other] = products[other]
      BY <1>7, StoreEffect, TypeParts
    <3> QED
      BY <1>7, <2>1, <3>1 DEF RowsCounted
  <2>4. {origin[x] : x \in Ids} \ {None} = import.created \cup unheard
    BY DEF RowsCounted
  <2> QED
    BY <1>5, <1>7, <2>2, <2>3, <2>4 DEF RowsCounted
<1> QED
  BY <1>3, <1>6, <1>7

\* The answer to an import is true, however many of its rows repeat one another,
\* cannot be read, or are stored without the process hearing of it.
THEOREM ImportsAreReported == Spec => []ImportReported
<1>1. Init => RowsCounted
  BY DEF Init, RowsCounted, NoImport
<1>2. TypeOK /\ RowsCounted /\ [Next]_vars => RowsCounted'
  <2> SUFFICES ASSUME TypeOK, RowsCounted, [Next]_vars PROVE RowsCounted'
    OBVIOUS
  <2>1. \A id \in Ids : products[id] # None => products'[id] # None
    BY TypeStep
  <2>2. CASE UNCHANGED <<import, origin, unheard>>
    BY <2>1, <2>2 DEF RowsCounted
  <2>3. CASE ImportRow
    BY <2>3, CountedStep
  <2>4. ASSUME /\ import'.next = 1 /\ import'.created = {} /\ import'.failed = {}
               /\ Len(import'.sheet) \in Nat
               /\ origin' = [id \in Ids |-> None] /\ unheard' = {}
        PROVE  RowsCounted'
    BY <2>4 DEF RowsCounted
  <2>5. ASSUME NEW t \in Tenants, NEW sheet \in Sheets, BeginImport(t, sheet) PROVE RowsCounted'
    BY <2>4, <2>5, SheetAssumption DEF BeginImport, NoImport
  <2>6. CASE Crash
    BY <2>4, <2>6 DEF Crash, NoImport
  <2> QED
    BY <2>2, <2>3, <2>5, <2>6
    DEF Next, ByStaff, CreateProduct, BeginUpdate, SaveUpdate, ResolveFeed, ServeFeed, SetStatus,
        vars, actors, history
<1>3. TypeOK /\ RowsCounted => ImportReported
  <2> SUFFICES ASSUME TypeOK, RowsCounted, import.sheet # <<>>, ~Importing
               PROVE  DOMAIN import.sheet = 1 .. import.next - 1
    BY DEF RowsCounted, ImportReported
  <2>1. import.sheet \in Sheets /\ import.next \in Nat
    BY DEF TypeOK
  <2> QED
    BY <2>1, SheetAssumption DEF RowsCounted, Importing
<1> QED
  BY <1>1, <1>2, <1>3, TypeCorrect, PTL DEF Spec

(***************************************************************************)
(* Listings.                                                               *)
(***************************************************************************)

\* A listing leads to its page also after a product is stored: where the product's
\* status changes, the listing is outdated.
LEMMA StoredPagesStay ==
  ASSUME TypeOK, ListedHasPage, NEW id \in Ids, NEW p \in Products, Store(id, p),
         UNCHANGED <<shop, listed>>
  PROVE  ListedHasPage'
<1> SUFFICES ASSUME NEW t \in Tenants, NEW s \in listed[t], s \notin stale'[t], t \notin stale'[t]
             PROVE  publicProduct(t, s)'
  BY DEF ListedHasPage
<1>1. stale[t] \subseteq stale'[t]
  BY DEF TypeOK, Store, Outdate
<1>2. s \in Skus /\ <<t, s>> \in Ids
  BY IdsArePairs DEF TypeOK
<1>3. publicProduct(t, s)
  BY <1>1 DEF ListedHasPage
<1>4. /\ products'[id] = p /\ p # None
      /\ \A other \in Ids \ {id} : products'[other] = products[other]
  BY StoreEffect, TypeParts
<1>5. CASE id = <<t, s>>
  <2>1. ~ Outdate(id)
    BY <1>5 DEF Outdate, TypeOK
  <2>2. products[id] # None /\ p.status = products[id].status
    BY <2>1 DEF Store
  <2> QED
    BY <1>3, <1>4, <1>5, <2>2 DEF publicProduct, PageTenant, IsFeedTenant
<1>6. CASE id # <<t, s>>
  BY <1>2, <1>3, <1>4, <1>6 DEF publicProduct, PageTenant, IsFeedTenant
<1> QED
  BY <1>5, <1>6

\* A listing Meta has fetched leads to a page while neither the product's status nor
\* the shop's has changed since.
THEOREM ListingsHavePages == Spec => []ListedHasPage
<1>1. Init => ListedHasPage
  BY DEF Init, ListedHasPage
<1>2. TypeOK /\ ListedHasPage /\ [Next]_vars => ListedHasPage'
  <2> SUFFICES ASSUME TypeOK, ListedHasPage, [Next]_vars PROVE ListedHasPage'
    OBVIOUS
  <2>1. ASSUME UNCHANGED <<products, shop, listed, stale>> PROVE ListedHasPage'
    BY <2>1 DEF ListedHasPage, publicProduct, PageTenant, IsFeedTenant
  <2>2. ASSUME NEW h \in Staff, NEW t \in Tenants, NEW s \in Skus, NEW body \in Bodies,
               CreateProduct(h, t, s, body)
        PROVE  ListedHasPage'
    <3>1. /\ <<t, s>> \in Ids /\ applyInventoryState(body) \in Products
          /\ Store(<<t, s>>, applyInventoryState(body)) /\ UNCHANGED <<shop, listed>>
      BY <2>2, BodyAssumption, InventoryRule, IdsArePairs DEF CreateProduct
    <3> QED
      BY <3>1, StoredPagesStay
  <2>3. ASSUME NEW h \in Staff, SaveUpdate(h) PROVE ListedHasPage'
    <3>1. UNCHANGED <<shop, listed>>
      BY <2>3 DEF SaveUpdate
    <3>2. \/ /\ Store(at[h].id, Written(at[h].seen, at[h].patch, products[at[h].id]))
             /\ Written(at[h].seen, at[h].patch, products[at[h].id]) \in Products
             /\ at[h].id \in Ids
          \/ UNCHANGED <<products, stale>>
      BY <2>3, SaveEffect
    <3> QED
      BY <2>1, <3>1, <3>2, StoredPagesStay
  <2>4. ASSUME ImportRow PROVE ListedHasPage'
    <3> DEFINE id == <<import.tenant, import.sheet[import.next].sku>>
               p == applyInventoryState(mapFeedRowToInput(import.sheet[import.next]))
    <3>1. UNCHANGED <<shop, listed>>
      BY <2>4 DEF ImportRow
    <3>2. \/ id \in Ids /\ p \in Products /\ Store(id, p)
          \/ UNCHANGED <<products, stale>>
      BY <2>4, ImportEffect
    <3> HIDE DEF id, p
    <3> QED
      BY <2>1, <3>1, <3>2, StoredPagesStay
  <2>5. ASSUME NEW t \in Tenants, ServeFeed(t), faults' = faults PROVE ListedHasPage'
    <3>1. /\ listed' = [listed EXCEPT ![t] = buildCatalogFeed(t)]
          /\ stale' = [stale EXCEPT ![t] = IF IsFeedTenant(t) THEN {} ELSE {t}]
          /\ products' = products /\ shop' = shop
      BY <2>5 DEF ServeFeed, TypeOK
    <3> SUFFICES ASSUME NEW u \in Tenants, NEW s \in listed'[u], s \notin stale'[u], u \notin stale'[u]
                 PROVE  publicProduct(u, s)'
      BY DEF ListedHasPage
    <3>2. CASE u = t
      <4>1. s \in buildCatalogFeed(t) /\ IsFeedTenant(t)
        BY <3>1, <3>2 DEF TypeOK
      <4>2. PICK id \in Pinned(t, Ids) : products[id] # None /\ products[id].status = "active" /\ s = id[2]
        BY <4>1 DEF buildCatalogFeed, ActiveSkus
      <4>3. id = <<t, s>>
        BY <4>2, IdsArePairs DEF Pinned
      <4> QED
        BY <3>1, <3>2, <4>1, <4>2, <4>3 DEF publicProduct, PageTenant, IsFeedTenant
    <3>3. CASE u # t
      <4>1. s \in listed[u] /\ stale'[u] = stale[u]
        BY <3>1, <3>3 DEF TypeOK
      <4> QED
        BY <3>1, <4>1 DEF ListedHasPage, publicProduct, PageTenant, IsFeedTenant
    <3> QED
      BY <3>2, <3>3
  <2>6. ASSUME NEW t \in Tenants, NEW status \in {"active", "suspended"}, SetStatus(t, status)
        PROVE  ListedHasPage'
    <3>1. /\ shop' = [shop EXCEPT ![t] = status] /\ stale' = [stale EXCEPT ![t] = @ \cup {t}]
          /\ UNCHANGED <<products, listed>>
      BY <2>6 DEF SetStatus
    <3> SUFFICES ASSUME NEW u \in Tenants, NEW s \in listed[u], s \notin stale'[u], u \notin stale'[u]
                 PROVE  publicProduct(u, s)'
      BY <3>1 DEF ListedHasPage
    <3>2. u # t
      BY <3>1 DEF TypeOK
    <3>3. stale'[u] = stale[u] /\ shop'[u] = shop[u]
      BY <3>1, <3>2 DEF TypeOK
    <3> QED
      BY <3>1, <3>3 DEF ListedHasPage, publicProduct, PageTenant, IsFeedTenant
  <2>7. ASSUME NEW t \in Tenants, ServeFeed(t) PROVE ListedHasPage'
    BY <2>1, <2>5, <2>7 DEF ServeFeed
  <2> QED
    BY <2>1, <2>2, <2>3, <2>4, <2>6, <2>7
    DEF Next, ByStaff, BeginUpdate, BeginImport, ResolveFeed, Crash, vars, history
<1> QED
  BY <1>1, <1>2, TypeCorrect, PTL DEF Spec
==============================================================================
