------------------------------- MODULE Catalogue -------------------------------
(***************************************************************************)
(* The products of the shops and what Meta lists of them.  Staff create    *)
(* and edit products (controllers/catalog/product.{controller,service}.ts);*)
(* an import of a workbook creates them row by row (catalogImport.ts);     *)
(* Meta fetches the complete feed of a shop from time to time              *)
(* (catalogFeed.controller.ts, utils/catalogFeed.ts) and replaces its      *)
(* listing by it; a shopper follows a listing's link to the product page.  *)
(*                                                                         *)
(* A product is its id <<tenant, sku>>: the pair is unique and neither     *)
(* part can be changed.  Of its fields the model keeps the four the code   *)
(* decides on; every other field is carried along with "image".            *)
(***************************************************************************)
EXTENDS Naturals, Sequences

CONSTANTS
  Tenants, Skus,
  Staff,        \* dashboard requests in progress at a time
  None,         \* no document, or a field that is not set
  Garbage,      \* a quantity that is no number
  Bodies,       \* bodies of POST /dashboard/products
  Images,       \* links to a picture
  Patches,      \* bodies of PATCH /dashboard/products/:id
  Sheets,       \* workbooks: sequences of rows
  Legacy,       \* product documents older than the readiness check
  Stocks,       \* what the shops may have at first
  MaxRequests,  \* bound on dashboard requests
  MaxFaults     \* bound on crashes, lost answers and changes of a shop's status

Ids    == Tenants \X Skus
Fields == {"status", "availability", "quantity", "image"}

\* What the fields of a product hold (enums and types of models/Product.ts).
Values ==
  [status |-> {"draft", "active", "archived"},
   availability |-> {"in_stock", "out_of_stock", "preorder", "available_for_order", "discontinued"},
   quantity |-> Nat \cup {None}, image |-> Images \cup {None}]
Products == [status : Values.status, availability : Values.availability,
             quantity : Values.quantity, image : Values.image]

SoldOutIsOff(p) == p.quantity = 0 => p.availability = "out_of_stock"

ASSUME NoneAssumption  == None \notin Products /\ None \notin Nat
ASSUME BodyAssumption  == Bodies \subseteq Products
\* A patch names only the fields it sets.
ASSUME PatchAssumption == \A p \in Patches : \A f \in DOMAIN p : f \in Fields /\ p[f] \in Values[f]
ASSUME SheetAssumption ==
  \A sheet \in Sheets : Len(sheet) \in Nat /\ DOMAIN sheet = 1 .. Len(sheet) /\ \A i \in 1 .. Len(sheet) :
    /\ sheet[i].sku \in Skus \cup {None} /\ sheet[i].image \in Values.image
    /\ sheet[i].quantity \in Values.quantity \cup {Garbage}
    /\ sheet[i].availability \in Values.availability \cup {None}
\* What is on record at first was written under the rule of a product's stock.
ASSUME StockAssumption ==
  \A first \in Stocks :
    /\ first = [id \in Ids |-> first[id]]
    /\ \A id \in Ids : first[id] # None => first[id] \in Products /\ SoldOutIsOff(first[id])

VARIABLES
  products,  \* products[id]: the document, or None
  shop,      \* shop[t]: the tenant's status
  at,        \* at[h]: the request h works on
  import,    \* the import in progress or last answered
  fetch,     \* fetch[t]: whether Meta's request has found its shop
  listed,    \* listed[t]: the skus Meta shows
  requests, faults,
  raced,     \* products saved over a change the request had not seen
  origin,    \* origin[id]: the import row that created the product, or None
  unheard,   \* import rows that were stored and reported as failed
  stale      \* stale[t]: skus and shops changed since Meta's last fetch

actors  == <<at, import, fetch>>
history == <<raced, origin, unheard, stale>>
vars    == <<products, shop, actors, listed, requests, faults, history>>

Idle     == [pc |-> "idle", tenant |-> None, id |-> None, seen |-> None, patch |-> None]
NoImport == [tenant |-> None, sheet |-> <<>>, next |-> 1, created |-> {}, failed |-> {}]

Init ==
  /\ products \in Stocks
  /\ shop = [t \in Tenants |-> "trial"]
  /\ at = [h \in Staff |-> Idle]
  /\ import = NoImport
  /\ fetch = [t \in Tenants |-> FALSE]
  /\ listed = [t \in Tenants |-> {}]
  /\ requests = 0 /\ faults = 0
  /\ raced = {} /\ unheard = {}
  /\ origin = [id \in Ids |-> None]
  /\ stale = [t \in Tenants |-> {}]

-----------------------------------------------------------------------------
(* The scope of a tenant: a request runs in the context of the session's   *)
(* tenant whatever id its path has; every query is pinned to the context's *)
(* tenant, and a document is saved only under its own.                     *)

Pinned(t, ids) == {id \in ids : id[1] = t}
MaySave(t, id) == id[1] = t

-----------------------------------------------------------------------------
(* The rules of a product                                                  *)

Ready(p) == p.image # None

\* Mutant: only an item on sale is taken off sale.
applyInventoryStateLate(p) ==
  IF p.quantity = 0 /\ p.status # "active" THEN [p EXCEPT !.availability = "out_of_stock"] ELSE p

applyInventoryState(p) ==
  IF p.quantity = 0 THEN [p EXCEPT !.availability = "out_of_stock"] ELSE p

Publishable(p) == p.status = "active" => Ready(p)

Patched(p, patch) == [f \in Fields |-> IF f \in DOMAIN patch THEN patch[f] ELSE p[f]]

\* save() writes the paths that an assignment changed: by the patch, or by the
\* inventory rule after it.
Modified(seen, patch) ==
  LET assigned == Patched(seen, patch) final == applyInventoryState(assigned)
  IN  {f \in Fields : assigned[f] # seen[f] \/ final[f] # assigned[f]}

\* Mutant: the document is written whole.
WrittenWhole(seen, patch, stored) == applyInventoryState(Patched(seen, patch))

Written(seen, patch, stored) ==
  LET final == applyInventoryState(Patched(seen, patch))
  IN  [f \in Fields |-> IF f \in Modified(seen, patch) THEN final[f] ELSE stored[f]]

Outdate(id) == stale' = [stale EXCEPT ![id[1]] = @ \cup {id[2]}]

Store(id, p) ==
  /\ products' = [products EXCEPT ![id] = p]
  /\ IF products[id] = None \/ p.status # products[id].status
     THEN Outdate(id) ELSE UNCHANGED stale

-----------------------------------------------------------------------------
(* Staff requests.                                                         *)

Request    == requests < MaxRequests /\ requests' = requests + 1
Finish(h)  == at' = [at EXCEPT ![h] = Idle]

\* POST /dashboard/products: the unique index on (tenantId, sku) refuses a second.
CreateProduct(h, t, s, body) ==
  LET id == <<t, s>> IN
  /\ at[h].pc = "idle" /\ Request
  /\ Publishable(body) /\ products[id] = None
  /\ Store(id, applyInventoryState(body))
  /\ UNCHANGED <<actors, shop, listed, faults, raced, origin, unheard>>

Publish        == [status |-> "active"]
Archive        == [status |-> "archived"]
MarkOutOfStock == [availability |-> "out_of_stock", quantity |-> 0]
Edits          == Patches \cup {Publish, Archive, MarkOutOfStock}

\* PATCH, publish, archive and out-of-stock load the product by the id of the
\* path, in the scope of the session's tenant, and validate the patched copy.  A
\* request that is refused changes nothing and is no step.
BeginUpdate(h, t, id, patch) ==
  /\ at[h].pc = "idle" /\ Request
  /\ id \in Pinned(t, Ids) /\ products[id] # None
  /\ Publishable(Patched(products[id], patch))
  /\ at' = [at EXCEPT ![h] = [pc |-> "save", tenant |-> t, id |-> id,
                              seen |-> products[id], patch |-> patch]]
  /\ UNCHANGED <<products, shop, import, fetch, listed, faults, history>>

SaveUpdate(h) ==
  LET r == at[h] IN
  /\ r.pc = "save"
  /\ IF MaySave(r.tenant, r.id)
     THEN /\ Store(r.id, Written(r.seen, r.patch, products[r.id]))
          /\ raced' = IF products[r.id] = r.seen THEN raced ELSE raced \cup {r.id}
     ELSE UNCHANGED <<products, stale, raced>>
  /\ Finish(h)
  /\ UNCHANGED <<shop, import, fetch, listed, requests, faults, origin, unheard>>

-----------------------------------------------------------------------------
(* An import: each row is created on its own, and its failure only noted.  *)

Importing == import.next <= Len(import.sheet)

BeginImport(t, sheet) ==
  /\ ~Importing /\ Request
  /\ import' = [NoImport EXCEPT !.tenant = t, !.sheet = sheet]
  /\ origin' = [id \in Ids |-> None]
  /\ unheard' = {}
  /\ UNCHANGED <<products, shop, at, fetch, listed, faults, raced, stale>>

\* A row without its required columns, or with a quantity that is no number, is
\* refused; an empty availability is the schema's default.
Readable(row) == row.sku # None /\ row.quantity # Garbage
mapFeedRowToInput(row) ==
  [status |-> "active", quantity |-> row.quantity, image |-> row.image,
   availability |-> IF row.availability = None THEN "in_stock" ELSE row.availability]

\* Mutant: a row is created although the sku is there.
AcceptedAgain(t, row) == Readable(row) /\ Publishable(mapFeedRowToInput(row))

\* Mutant: a row is created as active before it can be shown.
AcceptedUnready(t, row) == Readable(row) /\ products[<<t, row.sku>>] = None

Accepted(t, row) ==
  /\ Readable(row)
  /\ Publishable(mapFeedRowToInput(row))
  /\ products[<<t, row.sku>>] = None

Counted(i, ok) ==
  import' = [import EXCEPT !.next = i + 1,
                           !.created = IF ok THEN @ \cup {i} ELSE @,
                           !.failed  = IF ok THEN @ ELSE @ \cup {i}]

ImportRow ==
  LET i == import.next row == import.sheet[i] id == <<import.tenant, row.sku>> IN
  /\ Importing
  /\ \/ /\ Accepted(import.tenant, row)
        /\ Store(id, applyInventoryState(mapFeedRowToInput(row)))
        /\ origin' = [origin EXCEPT ![id] = i]
        /\ \/ Counted(i, TRUE) /\ UNCHANGED <<faults, unheard>>
           \/ /\ faults < MaxFaults /\ faults' = faults + 1   \* the answer is lost
              /\ unheard' = unheard \cup {i}
              /\ Counted(i, FALSE)
     \/ /\ ~Accepted(import.tenant, row)
        /\ Counted(i, FALSE)
        /\ UNCHANGED <<products, stale, origin, faults, unheard>>
  /\ UNCHANGED <<shop, at, fetch, listed, requests, raced>>

-----------------------------------------------------------------------------
(* The public feed and the product page                                    *)

IsFeedTenant(t) == shop[t] \in {"active", "trial"}

\* Meta's request resolves the shop first, and then reads its products.
ResolveFeed(t) ==
  /\ ~fetch[t] /\ IsFeedTenant(t)
  /\ fetch' = [fetch EXCEPT ![t] = TRUE]
  /\ UNCHANGED <<products, shop, at, import, listed, requests, faults, history>>

ActiveSkus(t) ==
  {id[2] : id \in {i \in Pinned(t, Ids) : products[i] # None /\ products[i].status = "active"}}

buildCatalogFeed(t) == {s \in ActiveSkus(t) : Ready(products[<<t, s>>])}

ServeFeed(t) ==
  /\ fetch[t]
  /\ fetch' = [fetch EXCEPT ![t] = FALSE]
  /\ \/ /\ listed' = [listed EXCEPT ![t] = buildCatalogFeed(t)]
        /\ stale' = [stale EXCEPT ![t] = IF IsFeedTenant(t) THEN {} ELSE {t}]
        /\ UNCHANGED faults
     \/ /\ faults < MaxFaults /\ faults' = faults + 1   \* the answer is lost
        /\ UNCHANGED <<listed, stale>>
  /\ UNCHANGED <<products, shop, at, import, requests, raced, origin, unheard>>

\* The page a listing links to.
PageTenant(t) == IsFeedTenant(t)
publicProduct(t, s) ==
  LET id == <<t, s>> IN
  PageTenant(t) /\ id \in Pinned(t, Ids) /\ products[id] # None /\ products[id].status = "active"

-----------------------------------------------------------------------------
(* The environment                                                         *)

\* A shop is activated (module TenantLifecycle), or suspended and reinstated by
\* hand in the database: the code has the status and no handler that sets it.
SetStatus(t, status) ==
  /\ faults < MaxFaults /\ faults' = faults + 1
  /\ status # shop[t]
  /\ shop' = [shop EXCEPT ![t] = status]
  /\ stale' = [stale EXCEPT ![t] = @ \cup {t}]
  /\ UNCHANGED <<products, actors, listed, requests, raced, origin, unheard>>

\* The process dies: requests, the import and the fetches it served are gone.
Crash ==
  /\ faults < MaxFaults /\ faults' = faults + 1
  /\ at' = [h \in Staff |-> Idle]
  /\ import' = NoImport
  /\ origin' = [id \in Ids |-> None]
  /\ unheard' = {}
  /\ fetch' = [t \in Tenants |-> FALSE]
  /\ UNCHANGED <<products, shop, listed, requests, raced, stale>>

ByStaff(h) ==
  \/ \E t \in Tenants, s \in Skus, body \in Bodies : CreateProduct(h, t, s, body)
  \/ \E t \in Tenants, id \in Ids, patch \in Edits :
       BeginUpdate(h, t, id, patch)
  \/ SaveUpdate(h)

Next ==
  \/ \E h \in Staff : ByStaff(h)
  \/ \E t \in Tenants, sheet \in Sheets : BeginImport(t, sheet)
  \/ ImportRow
  \/ \E t \in Tenants : ResolveFeed(t) \/ ServeFeed(t)
  \/ \E t \in Tenants, status \in {"active", "suspended"} : SetStatus(t, status)
  \/ Crash

Spec == Init /\ [][Next]_vars

\* Meta fetches on a schedule, and the process answers what it was asked.
FairSpec == Spec /\ \A t \in Tenants : WF_vars(ResolveFeed(t)) /\ WF_vars(ServeFeed(t))

-----------------------------------------------------------------------------
(* Properties                                                              *)

\* Types.
TypeOK ==
  /\ products \in [Ids -> Products \cup {None}]
  /\ shop \in [Tenants -> {"trial", "active", "suspended"}]
  /\ at = [h \in Staff |-> at[h]]
  /\ \A h \in Staff :
       \/ at[h].pc = "idle"
       \/ /\ at[h].pc = "save" /\ at[h].tenant \in Tenants /\ at[h].id \in Ids
          /\ at[h].seen \in Products /\ at[h].patch \in Edits /\ products[at[h].id] # None
  /\ import \in [tenant : Tenants \cup {None}, sheet : Sheets \cup {<<>>}, next : Nat \ {0},
                 created : SUBSET Nat, failed : SUBSET Nat]
  /\ import.sheet # <<>> => import.tenant \in Tenants
  /\ fetch \in [Tenants -> BOOLEAN]
  /\ listed \in [Tenants -> SUBSET Skus]
  /\ requests \in Nat /\ faults \in Nat
  /\ raced \subseteq Ids /\ unheard \subseteq Nat
  /\ origin \in [Ids -> Nat \cup {None}]
  /\ stale \in [Tenants -> SUBSET (Skus \cup Tenants)]

\* What has sold out is not on sale: a quantity of zero goes with "out of stock",
\* whatever edits, publications and imports led there, unless two saves of the
\* product overlapped (product.service.ts:43-49, docs/whatsapp-catalog-feed.md:68).
StockAgrees ==
  \A id \in Ids \ raced : products[id] # None => SoldOutIsOff(products[id])

\* A product comes back on sale only by a request that says so, also when other
\* saves of it overlap (docs/whatsapp-catalog-feed.md:68-70, product.service.ts:44).
RestockIsAsked ==
  [][\A id \in Ids :
       /\ products[id] # None /\ products[id].availability = "out_of_stock"
       /\ products'[id].availability = "in_stock"
       => \E h \in Staff : /\ at[h].pc = "save" /\ at[h].id = id /\ at'[h].pc = "idle"
                           /\ "availability" \in DOMAIN at[h].patch
                           /\ at[h].patch.availability = "in_stock"]_vars

\* The answer to an import is true: every row is either created or failed, a row
\* created is the one its product came from, and a row that failed left nothing,
\* unless the database's answer to it was lost (catalogImport.ts:165-191).
ImportReported ==
  import.sheet # <<>> /\ ~Importing =>
    /\ import.created \cup import.failed = DOMAIN import.sheet
    /\ import.created \cap import.failed = {}
    /\ {origin[id] : id \in Ids} \ {None} = import.created \cup unheard

\* A link of a listing leads to the product's page, unless the product or the
\* shop has changed since Meta fetched it (catalogFeed.controller.ts:85-103).
ListedHasPage ==
  \A t \in Tenants : \A s \in listed[t] \ stale[t] :
    t \notin stale[t] => publicProduct(t, s)

\* Meta's listing follows the shop's products: what is published appears and what
\* is archived goes, unless it changes again or the shop is closed
\* (docs/whatsapp-catalog-feed.md:60-66).  Products that were active without an
\* image before the check was written are left out (catalogFeed.ts:80-82).
OnSale(t, s) == <<t, s>> \in Ids /\ products[<<t, s>>] # None /\ products[<<t, s>>].status = "active"
ListingFollows ==
  \A t \in Tenants, s \in Skus :
    /\ OnSale(t, s) ~> (s \in listed[t] \/ ~OnSale(t, s) \/ ~IsFeedTenant(t)
                          \/ products[<<t, s>>] \in Legacy)
    /\ (s \in listed[t] /\ ~OnSale(t, s)) ~> (s \notin listed[t] \/ OnSale(t, s) \/ ~IsFeedTenant(t))
=============================================================================
