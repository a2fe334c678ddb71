----------------------------- MODULE CatalogueMC -----------------------------
(* Two shops with one sku in common; a workbook that names it twice, and one *)
(* with a row that has no image and a row that cannot be read.               *)
EXTENDS Catalogue

Product(status, availability, quantity, image) ==
  [status |-> status, availability |-> availability, quantity |-> quantity, image |-> image]

MCLegacy  == {Product("active", "in_stock", None, None)}
MCStocks  ==
  LET t == CHOOSE t \in Tenants : TRUE IN
  {[id \in Ids |-> IF id[1] = t THEN p ELSE None] :
     p \in {None, Product("active", "out_of_stock", 1, "url")} \cup MCLegacy}
MCBodies  == {Product("draft", "in_stock", 0, "url")}
MCPatches == {[image |-> "url", quantity |-> 1], [availability |-> "in_stock"]}

Row(sku, availability, quantity, image) ==
  [sku |-> sku, availability |-> availability, quantity |-> quantity, image |-> image]
MCSheets ==
  LET s == CHOOSE s \in Skus : TRUE IN
  {<<Row(s, None, 0, "url"), Row(s, None, 1, "url")>>,
   <<Row(s, "out_of_stock", 1, None), Row(None, "in_stock", Garbage, "url")>>}
=============================================================================
