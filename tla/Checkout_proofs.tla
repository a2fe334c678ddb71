---------------------------- MODULE Checkout_proofs ----------------------------
(***************************************************************************)
(* What Checkout promises for any carts, any order numbers, any number of  *)
(* messages in progress and any number of forms, failures and crashes.     *)
(***************************************************************************)
EXTENDS Checkout, FiniteSetTheorems, WellFoundedInduction, TLAPS

Labels == {"idle", "commit", "session", "form", "order", "user", "existing", "address", "save", "job",
           "prompt", "pay", "pin", "gps"}

\* The documents and the work in progress.
Orders    == [cart : Carts \cup {Nothing}, lines : SUBSET Nat, total : Nat,
              filledBy : Carts \cup {Nothing}, user : BOOLEAN]
Jobs      == [method : Methods, address : Nat \cup {Nothing}]
Addresses == [id : Nat, n : Numbers, pin : BOOLEAN]
Sessions  == [number : Numbers \cup {Nothing}, awaiting : BOOLEAN, expires : BOOLEAN]
AtWork    == [pc : Labels, n : Numbers \cup {Nothing}, c : Carts \cup {Nothing}, lines : SUBSET Nat,
              total : Nat, method : Methods, address : Nat \cup {Nothing}]

DocumentsTyped ==
  /\ sent \subseteq Carts /\ forms \subseteq Carts
  /\ told \subseteq Numbers /\ due \subseteq Numbers \X Methods
  /\ orders \in [Numbers -> Orders]
  /\ jobs \in [Numbers -> Jobs]
  /\ users \in {0, 1}
  /\ session \in Sessions
  /\ addresses \in SUBSET Addresses /\ IsFiniteSet(addresses)

WellTyped == DocumentsTyped /\ at \in [Workers -> AtWork]

\* The address was made for the order.
MadeFor(id, n) == \E a \in addresses : a.id = id /\ a.n = n

\* What a message in progress relies on.
Knows(w) ==
  LET r == at[w]
      InForm == {"order", "user", "existing", "address", "save", "job", "prompt", "pay"}
  IN
  /\ r.pc # "idle" => r.n \in Numbers
  /\ r.pc = "commit" => /\ r.c \in Carts /\ r.lines \subseteq Lines[r.c]
                        /\ r.total = SumSet(r.lines)
  /\ r.pc = "session" => Has(r.n)
  /\ r.pc \in {"session", "form"} => r.c \in Carts
  /\ r.pc \in InForm => r.c \in Carts /\ r.method \in Methods /\ Has(r.n)
  /\ r.pc \in {"user", "existing", "address", "prompt"} => Door(w)
  /\ r.pc \in InForm \ {"order", "user"} /\ Door(w) => users = 1
  /\ r.pc = "address" => r.address = Nothing \/ MadeFor(r.address, r.n)
  /\ r.pc \in {"save", "job"} /\ Door(w) => r.address # Nothing /\ MadeFor(r.address, r.n)
  /\ r.pc \in {"job", "prompt", "pay"} => /\ orders[r.n].filledBy # Nothing
                                          /\ Door(w) => orders[r.n].user
  /\ r.pc \in {"prompt", "gps"} => jobs[r.n].address # Nothing
  /\ r.pc = "gps" => MadeFor(r.address, r.n)
  /\ r.pc = "job" => r.method \in DeliveryMethods
  /\ r.pc = "pay" /\ r.method \in DeliveryMethods => jobs[r.n].method # "none"

\* What holds of an order and its job.
OrderOK(n) ==
  /\ Has(n) => /\ orders[n].cart \in Carts
               /\ orders[n].lines = Lines[orders[n].cart]
               /\ orders[n].total = SumSet(orders[n].lines)
  /\ jobs[n].address # Nothing => /\ users = 1 /\ orders[n].user
                                  /\ MadeFor(jobs[n].address, n)
  /\ \A m \in Methods : <<n, m>> \in due =>
       orders[n].filledBy # Nothing /\ (m \in DeliveryMethods => jobs[n].method # "none")
  /\ n \in told => /\ jobs[n].address # Nothing
                   /\ \E a \in addresses : a.n = n /\ a.pin

SessionOK ==
  /\ session.number # Nothing => Has(session.number)
  /\ session.awaiting => \E n \in Numbers : jobs[n].address # Nothing

\* The addresses are numbered in the order they were made.
AddressOK ==
  /\ \A a \in addresses : a.id \in 1 .. Cardinality(addresses)
  /\ \A a, b \in addresses : a.id = b.id => a = b

CheckoutInv ==
  /\ \A w \in Workers : Knows(w)
  /\ \A n \in Numbers : OrderOK(n)
  /\ SessionOK
  /\ AddressOK

(***************************************************************************)
(* Sums.  A proof by induction over finite sets takes a smallest set that  *)
(* is a counterexample.                                                    *)
(***************************************************************************)

\* Among any sets of elements of a finite set, one has none of the others in it.
LEMMA SmallestSubset ==
  ASSUME NEW S, IsFiniteSet(S), NEW X \in SUBSET SUBSET S, X # {}
  PROVE  \E T \in X : \A U \in X : U \subseteq T => U = T
<1>1. IsWellFoundedOn(StrictSubsetOrdering(S), SUBSET S)
  BY FS_StrictSubsetOrderingWellFounded, FS_FiniteSubsetsOfFinite
<1>2. PICK T \in X : \A U \in X : <<U, T>> \notin StrictSubsetOrdering(S)
  BY <1>1, WFMin
<1> QED
  BY <1>2 DEF StrictSubsetOrdering

Pick(s) == CHOOSE x \in s : TRUE

\* f adds up every subset of S.
AddsUp(f, S) == f = [s \in SUBSET S |-> IF s = {} THEN 0 ELSE Pick(s) + f[s \ {Pick(s)}]]

\* SumSet, as the library defines it.
LEMMA SumSetIs == ASSUME NEW S PROVE SumSet(S) = (CHOOSE f : AddsUp(f, S))[S]
BY DEF SumSet, FoldSet, MapThenFoldSet, AddsUp, Pick

\* There is one way to add up the subsets of a finite set.
LEMMA AddsUpOnce ==
  ASSUME NEW S, IsFiniteSet(S), NEW f, AddsUp(f, S), NEW g, AddsUp(g, S)
  PROVE  f = g
<1> DEFINE X == {s \in SUBSET S : f[s] # g[s]}
<1>1. ASSUME X # {} PROVE FALSE
  <2>1. PICK T \in X : \A U \in X : U \subseteq T => U = T
    <3>1. X \in SUBSET SUBSET S
      OBVIOUS
    <3> HIDE DEF X
    <3> QED
      BY <1>1, <3>1, SmallestSubset
  <2>2. CASE T = {}
    BY <2>1, <2>2 DEF AddsUp
  <2>3. CASE T # {}
    <3>1. Pick(T) \in T
      BY <2>3 DEF Pick
    <3>2. T \ {Pick(T)} \in SUBSET S /\ T \in SUBSET S
      BY <2>1
    <3>3. f[T \ {Pick(T)}] = g[T \ {Pick(T)}]
      BY <2>1, <3>1, <3>2
    <3>4. /\ f[T] = Pick(T) + f[T \ {Pick(T)}]
          /\ g[T] = Pick(T) + g[T \ {Pick(T)}]
      BY <2>3, <3>2 DEF AddsUp
    <3> QED
      BY <2>1, <3>3, <3>4
  <2> QED
    BY <2>2, <2>3
<1>2. \A s \in SUBSET S : f[s] = g[s]
  BY <1>1
<1>3. f = [s \in SUBSET S |-> f[s]] /\ g = [s \in SUBSET S |-> g[s]]
  BY DEF AddsUp
<1> QED
  BY <1>2, <1>3

\* The sum of a finite set is one element and the sum of the others.
Unfolds(S) == SumSet(S) = IF S = {} THEN 0 ELSE Pick(S) + SumSet(S \ {Pick(S)})

\* One step of the sum of a finite set: the element CHOOSE takes, and the rest.
LEMMA SumUnfolds ==
  ASSUME NEW S, IsFiniteSet(S)
  PROVE  Unfolds(S)
<1> DEFINE X == {s \in SUBSET S : ~Unfolds(s)}
<1>1. ASSUME X # {} PROVE FALSE
  <2>1. PICK T \in X : \A U \in X : U \subseteq T => U = T
    <3>1. X \in SUBSET SUBSET S
      OBVIOUS
    <3> HIDE DEF X
    <3> QED
      BY <1>1, <3>1, SmallestSubset
  <2>2. IsFiniteSet(T) /\ T \in SUBSET S
    BY <2>1, FS_Subset
  <2> DEFINE total == IF T = {} THEN 0 ELSE Pick(T) + SumSet(T \ {Pick(T)})
             h == [s \in SUBSET T |-> IF s = T THEN total ELSE SumSet(s)]
  <2>3. \A s \in SUBSET T : s # {} => Pick(s) \in s /\ s \ {Pick(s)} # T /\ s \ {Pick(s)} \in SUBSET T
    BY DEF Pick
  <2>4. ASSUME NEW s \in SUBSET T
        PROVE  h[s] = IF s = {} THEN 0 ELSE Pick(s) + h[s \ {Pick(s)}]
    <3>1. CASE s = T
      BY <2>3, <3>1
    <3>2. CASE s # T
      <4>1. Unfolds(s)
        BY <2>1, <2>2, <3>2
      <4> QED
        BY <2>3, <3>2, <4>1 DEF Unfolds
    <3> QED
      BY <3>1, <3>2
  <2>5. AddsUp(h, T)
    BY <2>4 DEF AddsUp
  <2> HIDE DEF h
  <2>6. AddsUp(CHOOSE f : AddsUp(f, T), T)
    BY <2>5
  <2>7. (CHOOSE f : AddsUp(f, T)) = h
    BY <2>2, <2>5, <2>6, AddsUpOnce
  <2>8. SumSet(T) = h[T]
    BY <2>7, SumSetIs
  <2>9. SumSet(T) = total
    BY <2>8 DEF h
  <2> QED
    BY <2>1, <2>9 DEF Unfolds
<1> QED
  BY <1>1

\* The sum of numbers is one of them, whichever, and the sum of the others.
Splits(S) == SumSet(S) \in Nat /\ \A x \in S : SumSet(S) = x + SumSet(S \ {x})

\* Whichever element is taken first, the sum of a finite set of numbers is the same.
LEMMA SumSplits ==
  ASSUME NEW S, IsFiniteSet(S), \A x \in S : x \in Nat
  PROVE  Splits(S)
<1> DEFINE X == {s \in SUBSET S : ~Splits(s)}
<1>1. ASSUME X # {} PROVE FALSE
  <2>1. PICK T \in X : \A U \in X : U \subseteq T => U = T
    <3>1. X \in SUBSET SUBSET S
      OBVIOUS
    <3> HIDE DEF X
    <3> QED
      BY <1>1, <3>1, SmallestSubset
  <2>2. T \in SUBSET S /\ \A U \in SUBSET T : IsFiniteSet(U) /\ Unfolds(U) /\ (U # T => Splits(U))
    BY <2>1, FS_Subset, SumUnfolds
  <2>3. CASE T = {}
    <3>1. Unfolds(T)
      BY <2>2
    <3> QED
      BY <2>1, <2>3, <3>1 DEF Unfolds, Splits
  <2>4. CASE T # {}
    <3> DEFINE c == Pick(T)
    <3>1. c \in T /\ c \in Nat /\ SumSet(T) = c + SumSet(T \ {c})
      BY <2>2, <2>4 DEF Unfolds, Pick
    <3> HIDE DEF c
    <3>2. Splits(T \ {c})
      BY <2>2, <3>1
    <3>3. ASSUME NEW x \in T, x # c PROVE SumSet(T) = x + SumSet(T \ {x})
      <4>1. Splits(T \ {x}) /\ Splits((T \ {c}) \ {x})
        BY <2>2, <3>1
      <4>2. (T \ {x}) \ {c} = (T \ {c}) \ {x}
        OBVIOUS
      <4>3. /\ SumSet(T \ {c}) = x + SumSet((T \ {c}) \ {x})
            /\ SumSet(T \ {x}) = c + SumSet((T \ {c}) \ {x})
            /\ SumSet((T \ {c}) \ {x}) \in Nat
        BY <3>1, <3>2, <3>3, <4>1, <4>2 DEF Splits
      <4>4. x \in Nat
        BY <2>2
      <4> QED
        BY <3>1, <4>3, <4>4
    <3>4. SumSet(T) \in Nat
      BY <3>1, <3>2 DEF Splits
    <3> QED
      BY <2>1, <3>1, <3>3, <3>4 DEF Splits
  <2> QED
    BY <2>3, <2>4
<1> QED
  BY <1>1

\* The empty sum is nothing, and a new number adds itself.
LEMMA SumAdds ==
  /\ SumSet({}) = 0
  /\ \A S \in SUBSET Nat : \A x \in Nat \ S :
       IsFiniteSet(S) => SumSet(S) \in Nat /\ SumSet(S \cup {x}) = SumSet(S) + x
<1>1. SumSet({}) = 0
  BY FS_EmptySet, SumUnfolds DEF Unfolds
<1>2. ASSUME NEW S \in SUBSET Nat, NEW x \in Nat \ S, IsFiniteSet(S)
      PROVE  SumSet(S) \in Nat /\ SumSet(S \cup {x}) = SumSet(S) + x
  <2>1. IsFiniteSet(S \cup {x}) /\ S \cup {x} \in SUBSET Nat /\ (S \cup {x}) \ {x} = S
    BY <1>2, FS_AddElement
  <2>2. Splits(S) /\ Splits(S \cup {x})
    BY <1>2, <2>1, SumSplits
  <2> QED
    BY <2>1, <2>2 DEF Splits
<1> QED
  BY <1>1, <1>2

(***************************************************************************)
(* Types.                                                                  *)
(***************************************************************************)

\* Every step is one of a worker, the end of the session, or a crash.
Works(w) ==
  \/ \E c \in Carts, n \in Numbers : BeginCart(w, c, n)
  \/ at[w].pc = "commit" /\ \E line \in Lines[at[w].c] : SaveLine(w, line)
  \/ CommitOrder(w) \/ RememberOrder(w) \/ SendForm(w)
  \/ \E f \in Carts, m \in Methods : BeginForm(w, f, m)
  \/ LoadOrder(w) \/ resolveUserByPhone(w) \/ ReadJobAddress(w) \/ resolveDeliveryAddress(w)
  \/ SaveOrder(w) \/ ensureOrderDelivery(w) \/ promptForLocation(w) \/ Pay(w)
  \/ BeginPin(w) \/ LoadAddress(w) \/ SavePin(w)

\* Every step is one of a worker, the end of the session, a crash or a stutter.
LEMMA Steps ==
  [Next]_vars => (\E w \in Workers : Works(w)) \/ Expire \/ Crash \/ UNCHANGED vars
BY DEF Next, Works, Cart, Form, Pin

\* The fields of a message in progress other than where it stands.
Same(x, y) == /\ x.n = y.n /\ x.c = y.c /\ x.lines = y.lines /\ x.total = y.total
              /\ x.method = y.method /\ x.address = y.address

\* Going on with a message keeps what is known of it, and finishing forgets it.
LEMMA Moves ==
  ASSUME WellTyped, NEW w \in Workers
  PROVE  /\ \A label \in Labels : Goto(w, label) =>
              \E x \in AtWork : at' = [at EXCEPT ![w] = x] /\ x.pc = label /\ Same(x, at[w])
         /\ Finish(w) => \E x \in AtWork : at' = [at EXCEPT ![w] = x] /\ x.pc = "idle"
<1>1. Idle \in AtWork /\ Idle.pc = "idle"
  BY DEF Idle, AtWork, Labels, Methods
<1>2. ASSUME NEW label \in Labels
      PROVE  LET x == [at[w] EXCEPT !.pc = label] IN x \in AtWork /\ x.pc = label /\ Same(x, at[w])
  BY DEF WellTyped, AtWork, Same
<1>3. ASSUME NEW label \in Labels, Goto(w, label)
      PROVE  \E x \in AtWork : at' = [at EXCEPT ![w] = x] /\ x.pc = label /\ Same(x, at[w])
  <2>1. at' = [at EXCEPT ![w] = [at[w] EXCEPT !.pc = label]]
    BY <1>3 DEF Goto
  <2> QED
    BY <1>2, <2>1
<1> QED
  BY <1>1, <1>3 DEF Finish

(***************************************************************************)
(* What no step takes back, and what it need not touch.                    *)
(***************************************************************************)

Documents == <<orders, jobs, users, addresses, due, told>>

\* Orders, what they were given, users, addresses and pins stay.
Grows ==
  /\ \A n \in Numbers : /\ Has(n) => Has(n)'
                        /\ orders[n].filledBy # Nothing => orders'[n].filledBy # Nothing
                        /\ orders[n].user => orders'[n].user
                        /\ jobs[n].address # Nothing => jobs'[n].address # Nothing
                        /\ jobs[n].method # "none" => jobs'[n].method # "none"
  /\ users = 1 => users' = 1
  /\ \A a \in addresses : \E b \in addresses' : b.id = a.id /\ b.n = a.n /\ (a.pin => b.pin)

\* A message nobody works on at this step knows what it knew.
LEMMA KnowsFrame ==
  ASSUME WellTyped, Grows, NEW v \in Workers, Knows(v), at'[v] = at[v]
  PROVE  Knows(v)'
<1>1. /\ \A id, n : MadeFor(id, n) => MadeFor(id, n)'
      /\ Door(v)' = Door(v)
  BY DEF Grows, MadeFor, Door
<1>2. at[v].n \in Numbers \/ at[v].pc = "idle"
  BY DEF Knows
<1> QED
  BY <1>1, <1>2 DEF Knows, Grows

\* A worker with no message relies on nothing.
LEMMA IdleKnows ==
  ASSUME NEW w \in Workers, at'[w].pc = "idle"
  PROVE  Knows(w)'
BY DEF Knows

\* A step that leaves the documents alone.
LEMMA DocumentsFrame ==
  ASSUME CheckoutInv, UNCHANGED Documents
  PROVE  /\ Grows /\ (\A n \in Numbers : OrderOK(n)') /\ AddressOK'
         /\ (session' = session => SessionOK')
<1>1. Grows
  BY DEF Documents, Grows, Has
<1>2. ASSUME NEW n \in Numbers PROVE OrderOK(n)'
  BY <1>2 DEF CheckoutInv, Documents, OrderOK, Has, MadeFor
<1>3. AddressOK'
  BY DEF CheckoutInv, Documents, AddressOK
<1>4. session' = session => SessionOK'
  BY DEF CheckoutInv, Documents, SessionOK, Has
<1> QED
  BY <1>1, <1>2, <1>3, <1>4

\* A step of one worker keeps everything when it keeps its own part.
LEMMA OneWorker ==
  ASSUME WellTyped, CheckoutInv, NEW w \in Workers,
         NEW x \in AtWork, at' = [at EXCEPT ![w] = x],
         DocumentsTyped', Grows, Knows(w)', \A n \in Numbers : OrderOK(n)', SessionOK', AddressOK'
  PROVE  WellTyped' /\ CheckoutInv'
<1>1. at' \in [Workers -> AtWork] /\ \A v \in Workers : v # w => at'[v] = at[v]
  BY DEF WellTyped
<1>2. \A v \in Workers : Knows(v)'
  BY <1>1, KnowsFrame DEF CheckoutInv
<1> QED
  BY <1>1, <1>2 DEF WellTyped, CheckoutInv

\* The same, when the step only moves its message on.
LEMMA OnlyMoves ==
  ASSUME WellTyped, CheckoutInv, NEW w \in Workers,
         NEW x \in AtWork, at' = [at EXCEPT ![w] = x],
         UNCHANGED Documents, session' = session, sent' \subseteq Carts, forms' \subseteq Carts, Knows(w)'
  PROVE  WellTyped' /\ CheckoutInv'
<1>1. DocumentsTyped'
  BY DEF WellTyped, DocumentsTyped, Documents
<1> QED
  BY <1>1, DocumentsFrame, OneWorker

(***************************************************************************)
(* The cart.                                                               *)
(***************************************************************************)

\* What a message begins with, but for what it brings.
LEMMA IdleIs ==
  Idle = [pc |-> "idle", n |-> Nothing, c |-> Nothing, lines |-> {}, total |-> 0,
          method |-> "none", address |-> Nothing]
BY DEF Idle

\* A cart begins with no line saved, and no line adds up to nothing.
LEMMA BeginCartStep ==
  ASSUME WellTyped, CheckoutInv, NEW w \in Workers, NEW c \in Carts, NEW n \in Numbers, BeginCart(w, c, n)
  PROVE  WellTyped' /\ CheckoutInv'
<1> DEFINE x == [Idle EXCEPT !.pc = "commit", !.c = c, !.n = n]
<1>1. x \in AtWork /\ x.pc = "commit" /\ x.c = c /\ x.n = n /\ x.lines = {} /\ x.total = 0
  BY IdleIs DEF AtWork, Labels, Methods
<1>2. at' = [at EXCEPT ![w] = x]
  BY DEF BeginCart
<1> HIDE DEF x
<1>3. at'[w] = x
  BY <1>2 DEF WellTyped
<1>4. Knows(w)'
  BY <1>1, <1>3, SumAdds DEF Knows
<1> QED
  BY <1>1, <1>2, <1>4, OnlyMoves DEF BeginCart, Documents, WellTyped, DocumentsTyped

\* A line not saved before adds itself to the saved lines and to their total.
LEMMA SaveLineStep ==
  ASSUME WellTyped, CheckoutInv, NEW w \in Workers, NEW line \in Lines[at[w].c], SaveLine(w, line)
  PROVE  WellTyped' /\ CheckoutInv'
<1> DEFINE r == at[w]
           more == r.lines \cup {line}
           sum == r.total + line
           x == [r EXCEPT !.lines = more, !.total = sum]
<1>1. /\ r \in AtWork /\ r.pc = "commit" /\ r.n \in Numbers /\ r.c \in Carts
      /\ r.lines \subseteq Lines[r.c] /\ r.total = SumSet(r.lines)
  BY DEF WellTyped, CheckoutInv, Knows, SaveLine
<1>2. line \in Nat \ r.lines /\ IsFiniteSet(r.lines) /\ r.lines \in SUBSET Nat
  BY <1>1, LineAssumption, FS_Subset DEF SaveLine
<1>3. sum = SumSet(more) /\ sum \in Nat /\ more \in SUBSET Nat /\ more \subseteq Lines[r.c]
  BY <1>1, <1>2, SumAdds DEF AtWork
<1>4. at' = [at EXCEPT ![w] = x]
  BY DEF SaveLine
<1> HIDE DEF more, sum
<1>5. x \in AtWork /\ x.pc = "commit" /\ x.n = r.n /\ x.c = r.c /\ x.lines = more /\ x.total = sum
  BY <1>1, <1>3 DEF AtWork
<1> HIDE DEF x
<1>6. at'[w] = x
  BY <1>4 DEF WellTyped
<1>7. Knows(w)'
  BY <1>1, <1>3, <1>5, <1>6 DEF Knows
<1> QED
  BY <1>4, <1>5, <1>7, OnlyMoves DEF SaveLine, Documents, WellTyped, DocumentsTyped

\* The order is committed with all its lines and their total, under a number no order has.
LEMMA CommitStep ==
  ASSUME WellTyped, CheckoutInv, NEW w \in Workers, CommitOrder(w)
  PROVE  WellTyped' /\ CheckoutInv'
<1> DEFINE r == at[w]
<1>1. /\ r \in AtWork /\ r.pc = "commit" /\ r.n \in Numbers /\ r.c \in Carts
      /\ r.lines \subseteq Lines[r.c] /\ r.total = SumSet(r.lines)
  BY DEF WellTyped, CheckoutInv, Knows, CommitOrder
<1>2. CASE Finish(w) /\ orders' = orders
  <2>1. PICK x \in AtWork : at' = [at EXCEPT ![w] = x] /\ x.pc = "idle"
    BY <1>2, Moves
  <2>2. Knows(w)'
    BY <2>1, IdleKnows DEF WellTyped
  <2> QED
    BY <1>2, <2>1, <2>2, OnlyMoves DEF CommitOrder, Documents, WellTyped, DocumentsTyped
<1>3. CASE /\ AllLinesSaved(w) /\ ~Has(r.n) /\ Goto(w, "session")
           /\ orders' = [orders EXCEPT ![r.n] = [NoOrder EXCEPT !.cart = r.c, !.lines = r.lines,
                                                               !.total = r.total]]
  <2>1. PICK x \in AtWork : at' = [at EXCEPT ![w] = x] /\ x.pc = "session" /\ Same(x, r)
    BY <1>3, Moves DEF Labels
  <2> DEFINE o == [NoOrder EXCEPT !.cart = r.c, !.lines = r.lines, !.total = r.total]
  <2>2. /\ o \in Orders /\ o.cart = r.c /\ o.lines = r.lines /\ o.total = r.total
        /\ o.filledBy = Nothing /\ o.user = FALSE
    BY <1>1 DEF NoOrder, Orders, AtWork
  <2>3. o # NoOrder
    BY <1>1, <2>2, NothingAssumption DEF NoOrder
  <2>4. orders' = [orders EXCEPT ![r.n] = o]
    BY <1>3
  <2> HIDE DEF o
  <2>5. /\ orders' \in [Numbers -> Orders] /\ orders'[r.n] = o
        /\ \A n \in Numbers : n # r.n => orders'[n] = orders[n]
    BY <1>1, <2>2, <2>4 DEF WellTyped, DocumentsTyped
  <2>6. /\ jobs' = jobs /\ users' = users /\ addresses' = addresses /\ due' = due /\ told' = told
        /\ session' = session /\ sent' = sent /\ forms' = forms
    BY DEF CommitOrder
  <2>7. DocumentsTyped'
    BY <2>5, <2>6 DEF WellTyped, DocumentsTyped
  <2>8. orders[r.n] = NoOrder /\ NoOrder.filledBy = Nothing /\ NoOrder.user = FALSE
    BY <1>3 DEF Has, NoOrder
  <2>9. Grows
    BY <1>1, <2>5, <2>6, <2>8 DEF Grows, Has
  <2>10. Knows(w)'
    BY <1>1, <2>1, <2>3, <2>5 DEF Knows, WellTyped, Has, Same
  <2>11. ASSUME NEW n \in Numbers PROVE OrderOK(n)'
    <3>1. OrderOK(n)
      BY DEF CheckoutInv
    <3>2. CASE n = r.n
      BY <1>1, <1>3, <2>2, <2>5, <2>6, <2>8, <3>1, <3>2 DEF OrderOK, Has, AllLinesSaved, MadeFor
    <3>3. CASE n # r.n
      BY <2>5, <2>6, <3>1, <3>3 DEF OrderOK, Has, MadeFor
    <3> QED
      BY <3>2, <3>3
  <2>12. SessionOK'
    BY <1>1, <2>5, <2>6, <2>9 DEF CheckoutInv, SessionOK, Grows, WellTyped, DocumentsTyped, Sessions
  <2>13. AddressOK'
    BY <2>6 DEF CheckoutInv, AddressOK
  <2> QED
    BY <2>1, <2>7, <2>9, <2>10, <2>11, <2>12, <2>13, OneWorker
<1> QED
  BY <1>2, <1>3 DEF CommitOrder, Fail

\* The session is given the number of an order that is already committed.
LEMMA RememberOrderStep ==
  ASSUME WellTyped, CheckoutInv, NEW w \in Workers, RememberOrder(w)
  PROVE  WellTyped' /\ CheckoutInv'
<1> DEFINE r == at[w]
<1>1. r \in AtWork /\ r.pc = "session" /\ r.n \in Numbers /\ r.c \in Carts /\ Has(r.n)
  BY DEF WellTyped, CheckoutInv, Knows, RememberOrder
<1>2. PICK x \in AtWork : at' = [at EXCEPT ![w] = x] /\ x.pc = "form" /\ Same(x, r)
  BY Moves DEF RememberOrder, Remember, Labels
<1>3. UNCHANGED Documents /\ sent' = sent /\ forms' = forms
  BY DEF RememberOrder, Documents
<1>4. /\ session' \in Sessions /\ session'.number \in {session.number, r.n}
      /\ session'.awaiting = session.awaiting
  BY <1>1 DEF RememberOrder, Remember, WellTyped, DocumentsTyped, Sessions
<1>5. SessionOK'
  BY <1>1, <1>3, <1>4 DEF CheckoutInv, SessionOK, Documents, Has
<1>6. Knows(w)'
  BY <1>1, <1>2 DEF Knows, WellTyped, Same
<1>7. DocumentsTyped'
  BY <1>3, <1>4 DEF WellTyped, DocumentsTyped, Documents
<1> QED
  BY <1>2, <1>3, <1>5, <1>6, <1>7, DocumentsFrame, OneWorker

\* The form is sent, and the message is done.
LEMMA SendFormStep ==
  ASSUME WellTyped, CheckoutInv, NEW w \in Workers, SendForm(w)
  PROVE  WellTyped' /\ CheckoutInv'
<1>1. at[w].c \in Carts
  BY DEF CheckoutInv, Knows, SendForm
<1>2. PICK x \in AtWork : at' = [at EXCEPT ![w] = x] /\ x.pc = "idle"
  BY Moves DEF SendForm
<1>3. Knows(w)'
  BY <1>2, IdleKnows DEF WellTyped
<1> QED
  BY <1>1, <1>2, <1>3, OnlyMoves DEF SendForm, Documents, WellTyped, DocumentsTyped

(***************************************************************************)
(* The form.                                                               *)
(***************************************************************************)

\* A form finds an order behind the number in the session.
LEMMA BeginFormStep ==
  ASSUME WellTyped, CheckoutInv, NEW w \in Workers, NEW f \in Carts, NEW m \in Methods,
         BeginForm(w, f, m)
  PROVE  WellTyped' /\ CheckoutInv'
<1>1. PICK n \in Numbers : n = session.number /\ Has(n)
  BY DEF BeginForm, WellTyped, DocumentsTyped, Sessions, CheckoutInv, SessionOK
<1> DEFINE x == [Idle EXCEPT !.pc = "order", !.n = n, !.c = f, !.method = m]
<1>2. x \in AtWork /\ x.pc = "order" /\ x.n = n /\ x.c = f /\ x.method = m
  BY IdleIs DEF AtWork, Labels, Methods
<1>3. at' = [at EXCEPT ![w] = x] /\ orders' = orders
  BY <1>1 DEF BeginForm
<1> HIDE DEF x
<1>4. at'[w] = x
  BY <1>3 DEF WellTyped
<1>5. Knows(w)'
  BY <1>1, <1>2, <1>3, <1>4 DEF Knows, Has
<1> QED
  BY <1>2, <1>3, <1>5, OnlyMoves DEF BeginForm, Documents, WellTyped, DocumentsTyped

\* A form for the door goes on to the user, or past it when there is one.
LEMMA LoadOrderStep ==
  ASSUME WellTyped, CheckoutInv, NEW w \in Workers, LoadOrder(w)
  PROVE  WellTyped' /\ CheckoutInv'
<1> DEFINE r == at[w]
<1>1. /\ r \in AtWork /\ r.pc = "order" /\ r.n \in Numbers /\ r.c \in Carts
      /\ r.method \in Methods /\ Has(r.n) /\ users \in {0, 1}
  BY DEF WellTyped, DocumentsTyped, CheckoutInv, Knows, LoadOrder
<1> DEFINE next == IF ~Door(w) THEN "save" ELSE IF users = 0 THEN "user" ELSE "existing"
<1>2. PICK x \in AtWork : at' = [at EXCEPT ![w] = x] /\ x.pc = next /\ Same(x, r)
  <2>1. Goto(w, next)
    BY <1>1 DEF LoadOrder
  <2>2. next \in Labels
    BY DEF Labels
  <2> HIDE DEF next
  <2> QED
    BY <2>1, <2>2, Moves
<1>3. at'[w] = x /\ UNCHANGED Documents
  BY <1>2 DEF WellTyped, LoadOrder, Documents
<1>4. Knows(w)'
  <2>1. CASE ~Door(w)
    BY <1>1, <1>2, <1>3, <2>1 DEF Knows, Same, Door, Has, Documents
  <2>2. CASE Door(w)
    BY <1>1, <1>2, <1>3, <2>2 DEF Knows, Same, Door, Has, Documents
  <2> QED
    BY <2>1, <2>2
<1> QED
  BY <1>2, <1>3, <1>4, OnlyMoves DEF LoadOrder, WellTyped, DocumentsTyped

\* The first form saves the user; the index refuses another's.
LEMMA UserStep ==
  ASSUME WellTyped, CheckoutInv, NEW w \in Workers, resolveUserByPhone(w)
  PROVE  WellTyped' /\ CheckoutInv'
<1> DEFINE r == at[w]
<1>1. /\ r \in AtWork /\ r.pc = "user" /\ r.n \in Numbers /\ r.c \in Carts
      /\ r.method \in Methods /\ Has(r.n) /\ Door(w) /\ users \in {0, 1}
  BY DEF WellTyped, DocumentsTyped, CheckoutInv, Knows, resolveUserByPhone
<1>2. CASE Finish(w) /\ users' = users
  <2>1. PICK x \in AtWork : at' = [at EXCEPT ![w] = x] /\ x.pc = "idle"
    BY <1>2, Moves
  <2>2. Knows(w)'
    BY <2>1, IdleKnows DEF WellTyped
  <2> QED
    BY <1>2, <2>1, <2>2, OnlyMoves DEF resolveUserByPhone, Documents, WellTyped, DocumentsTyped
<1>3. CASE Goto(w, "existing") /\ users = 0 /\ users' = 1
  <2>1. PICK x \in AtWork : at' = [at EXCEPT ![w] = x] /\ x.pc = "existing" /\ Same(x, r)
    BY <1>3, Moves DEF Labels
  <2>2. at'[w] = x
    BY <2>1 DEF WellTyped
  <2>3. UNCHANGED <<orders, addresses, jobs, session, due, told, sent, forms>>
    BY DEF resolveUserByPhone
  <2>4. DocumentsTyped'
    BY <1>3, <2>3 DEF WellTyped, DocumentsTyped
  <2>5. Grows
    BY <1>3, <2>3 DEF Grows, Has
  <2>6. Knows(w)'
    BY <1>1, <1>3, <2>1, <2>2, <2>3 DEF Knows, Same, Door, Has
  <2>7. ASSUME NEW n \in Numbers PROVE OrderOK(n)'
    BY <1>3, <2>3 DEF CheckoutInv, OrderOK, Has, MadeFor
  <2>8. SessionOK' /\ AddressOK'
    BY <2>3 DEF CheckoutInv, SessionOK, AddressOK, Has
  <2> QED
    BY <2>1, <2>4, <2>5, <2>6, <2>7, <2>8, OneWorker
<1> QED
  BY <1>1, <1>2, <1>3 DEF resolveUserByPhone, SaveUser

\* The address a form reads from the job was made for the form's order.
LEMMA ReadJobStep ==
  ASSUME WellTyped, CheckoutInv, NEW w \in Workers, ReadJobAddress(w)
  PROVE  WellTyped' /\ CheckoutInv'
<1> DEFINE r == at[w]
<1>1. /\ r \in AtWork /\ r.pc = "existing" /\ r.n \in Numbers /\ r.c \in Carts
      /\ r.method \in Methods /\ Has(r.n) /\ Door(w) /\ users = 1
  BY DEF WellTyped, CheckoutInv, Knows, ReadJobAddress
<1>2. PICK id \in Nat \cup {Nothing} : id = jobs[r.n].address
  BY <1>1 DEF WellTyped, DocumentsTyped, Jobs
<1>3. id = Nothing \/ MadeFor(id, r.n)
  BY <1>1, <1>2 DEF CheckoutInv, OrderOK
<1> DEFINE x == [r EXCEPT !.pc = "address", !.address = id]
<1>4. x \in AtWork /\ x.pc = "address" /\ x.address = id /\ x.n = r.n /\ x.c = r.c /\ x.method = r.method
  BY <1>1 DEF AtWork, Labels
<1>5. at' = [at EXCEPT ![w] = x]
  BY <1>2 DEF ReadJobAddress
<1> HIDE DEF x
<1>6. at'[w] = x /\ UNCHANGED Documents
  BY <1>5 DEF WellTyped, ReadJobAddress, Documents
<1>7. Knows(w)'
  BY <1>1, <1>3, <1>4, <1>6 DEF Knows, Door, Has, MadeFor, Documents
<1> QED
  BY <1>4, <1>5, <1>6, <1>7, OnlyMoves DEF ReadJobAddress, WellTyped, DocumentsTyped

\* An address is made, or kept as it is.
LEMMA AddressEffect ==
  ASSUME WellTyped, CheckoutInv, NEW id,
         NEW n \in Numbers,
         id = Cardinality(addresses) + 1 \/ MadeFor(id, n),
         addresses' = (addresses \ {a \in addresses : a.id = id}) \cup
             (IF {a \in addresses : a.id = id} = {} THEN {[id |-> id, n |-> n, pin |-> FALSE]}
              ELSE {Typed(a) : a \in {b \in addresses : b.id = id}})
  PROVE  /\ id \in Nat /\ MadeFor(id, n)'
         /\ addresses' \in SUBSET Addresses /\ IsFiniteSet(addresses')
         /\ addresses \subseteq addresses'
         /\ AddressOK'
<1>1. Cardinality(addresses) \in Nat /\ IsFiniteSet(addresses) /\ addresses \in SUBSET Addresses
  BY FS_CardinalityType DEF WellTyped, DocumentsTyped
<1>2. CASE \E a \in addresses : a.id = id
  <2>1. addresses' = addresses
    BY <1>2 DEF Typed
  <2>2. id # Cardinality(addresses) + 1
    BY <1>1, <1>2 DEF CheckoutInv, AddressOK
  <2> QED
    BY <1>1, <2>1, <2>2 DEF CheckoutInv, AddressOK, MadeFor, Addresses
<1>3. CASE ~ \E a \in addresses : a.id = id
  <2> DEFINE new == [id |-> id, n |-> n, pin |-> FALSE]
  <2>1. addresses' = addresses \cup {new} /\ id = Cardinality(addresses) + 1
    BY <1>3 DEF MadeFor
  <2>2. new \in Addresses /\ new.id = id /\ new.n = n /\ new \notin addresses
    BY <1>1, <1>3, <2>1 DEF Addresses
  <2> HIDE DEF new
  <2>3. IsFiniteSet(addresses') /\ Cardinality(addresses') = Cardinality(addresses) + 1
    <3>1. IsFiniteSet(addresses) /\ new \notin addresses /\ addresses' = addresses \cup {new}
      BY <1>1, <2>1, <2>2
    <3>2. IsFiniteSet(addresses \cup {new}) /\ Cardinality(addresses \cup {new}) = Cardinality(addresses) + 1
      BY <3>1, FS_AddElement
    <3> QED
      BY <3>1, <3>2
  <2>4. \A a \in addresses' : a.id \in 1 .. Cardinality(addresses')
    BY <1>1, <2>1, <2>2, <2>3 DEF CheckoutInv, AddressOK
  <2>5. \A a, b \in addresses' : a.id = b.id => a = b
    BY <1>3, <2>1, <2>2 DEF CheckoutInv, AddressOK
  <2> QED
    BY <1>1, <2>1, <2>2, <2>3, <2>4, <2>5 DEF AddressOK, MadeFor
<1> QED
  BY <1>2, <1>3

\* A step that only ends the work on a message.
LEMMA OnlyFinishes ==
  ASSUME WellTyped, CheckoutInv, NEW w \in Workers, Finish(w),
         UNCHANGED Documents, session' = session, sent' = sent, forms' = forms
  PROVE  WellTyped' /\ CheckoutInv'
<1>1. PICK x \in AtWork : at' = [at EXCEPT ![w] = x] /\ x.pc = "idle"
  BY Moves
<1>2. Knows(w)'
  BY <1>1, IdleKnows DEF WellTyped
<1> QED
  BY <1>1, <1>2, OnlyMoves DEF WellTyped, DocumentsTyped

\* A form for the door has an address made for its order when it leaves.
LEMMA AddressStep ==
  ASSUME WellTyped, CheckoutInv, NEW w \in Workers, resolveDeliveryAddress(w)
  PROVE  WellTyped' /\ CheckoutInv'
<1> DEFINE r == at[w]
<1>1. /\ r \in AtWork /\ r.pc = "address" /\ r.n \in Numbers /\ r.c \in Carts
      /\ r.method \in Methods /\ Has(r.n) /\ Door(w) /\ users = 1
      /\ r.address = Nothing \/ MadeFor(r.address, r.n)
  BY DEF WellTyped, CheckoutInv, Knows, resolveDeliveryAddress
<1>2. CASE Finish(w) /\ addresses' = addresses
  BY <1>2, OnlyFinishes DEF resolveDeliveryAddress, Documents
<1>3. CASE ~(Finish(w) /\ addresses' = addresses)
  <2>1. PICK n \in Numbers : n = r.n
    BY <1>1
  <2>2. PICK id : id = IF r.address # Nothing THEN r.address ELSE Cardinality(addresses) + 1
    OBVIOUS
  <2>3. /\ addresses' = (addresses \ {a \in addresses : a.id = id}) \cup
             (IF {a \in addresses : a.id = id} = {} THEN {[id |-> id, n |-> n, pin |-> FALSE]}
              ELSE {Typed(a) : a \in {b \in addresses : b.id = id}})
        /\ at' = [at EXCEPT ![w] = [r EXCEPT !.pc = "save", !.address = id]]
    BY <1>3, <2>1, <2>2 DEF resolveDeliveryAddress, Fail
  <2>4. id = Cardinality(addresses) + 1 \/ MadeFor(id, n)
    BY <1>1, <2>1, <2>2
  <2>5. /\ id \in Nat /\ MadeFor(id, n)'
        /\ addresses' \in SUBSET Addresses /\ IsFiniteSet(addresses')
        /\ addresses \subseteq addresses'
        /\ AddressOK'
    BY <2>3, <2>4, AddressEffect
  <2> DEFINE x == [r EXCEPT !.pc = "save", !.address = id]
  <2>6. x \in AtWork /\ x.pc = "save" /\ x.address = id /\ x.n = n /\ x.c = r.c /\ x.method = r.method
    BY <1>1, <2>1, <2>5 DEF AtWork, Labels
  <2>7. at' = [at EXCEPT ![w] = x]
    BY <2>3
  <2> HIDE DEF x
  <2>8. at'[w] = x
    BY <2>7 DEF WellTyped
  <2>9. UNCHANGED <<orders, users, jobs, session, due, told, sent, forms>>
    BY DEF resolveDeliveryAddress
  <2>10. DocumentsTyped'
    BY <2>5, <2>9 DEF WellTyped, DocumentsTyped
  <2>11. Grows
    BY <2>5, <2>9 DEF Grows, Has
  <2>12. Knows(w)'
    BY <1>1, <2>1, <2>5, <2>6, <2>8, <2>9, NothingAssumption DEF Knows, Door, Has
  <2>13. ASSUME NEW k \in Numbers PROVE OrderOK(k)'
    BY <2>5, <2>9 DEF CheckoutInv, OrderOK, Has, MadeFor
  <2>14. SessionOK'
    BY <2>9 DEF CheckoutInv, SessionOK, Has
  <2> QED
    BY <2>5, <2>6, <2>7, <2>10, <2>11, <2>12, <2>13, <2>14, OneWorker
<1> QED
  BY <1>2, <1>3

\* The order is filled in, and given its user when it goes to the door.
LEMMA SaveOrderStep ==
  ASSUME WellTyped, CheckoutInv, NEW w \in Workers, SaveOrder(w)
  PROVE  WellTyped' /\ CheckoutInv'
<1> DEFINE r == at[w]
<1>1. /\ r \in AtWork /\ r.pc = "save" /\ r.n \in Numbers /\ r.c \in Carts
      /\ r.method \in Methods /\ Has(r.n)
      /\ Door(w) => users = 1 /\ r.address # Nothing /\ MadeFor(r.address, r.n)
  BY DEF WellTyped, CheckoutInv, Knows, SaveOrder
<1>2. CASE Finish(w) /\ orders' = orders
  BY <1>2, OnlyFinishes DEF SaveOrder, Documents
<1>3. CASE /\ orders' = [orders EXCEPT ![r.n].filledBy = r.c, ![r.n].user = @ \/ Door(w)]
           /\ Goto(w, IF r.method \in DeliveryMethods THEN "job" ELSE "pay")
  <2> DEFINE next == IF r.method \in DeliveryMethods THEN "job" ELSE "pay"
  <2>1. PICK x \in AtWork : at' = [at EXCEPT ![w] = x] /\ x.pc = next /\ Same(x, r)
    <3>1. next \in Labels /\ Goto(w, next)
      BY <1>3 DEF Labels
    <3> HIDE DEF next
    <3> QED
      BY <3>1, Moves
  <2>2. at'[w] = x
    BY <2>1 DEF WellTyped
  <2>3. UNCHANGED <<addresses, users, jobs, session, due, told, sent, forms>>
    BY DEF SaveOrder
  <2>4. orders[r.n] \in Orders /\ orders[r.n].cart \in Carts /\ orders[r.n].user \in BOOLEAN
    BY <1>1 DEF WellTyped, DocumentsTyped, Orders, CheckoutInv, OrderOK
  <2>5. /\ orders' \in [Numbers -> Orders]
        /\ \A n \in Numbers : n # r.n => orders'[n] = orders[n]
        /\ orders'[r.n].cart = orders[r.n].cart /\ orders'[r.n].lines = orders[r.n].lines
        /\ orders'[r.n].total = orders[r.n].total /\ orders'[r.n].filledBy = r.c
        /\ orders[r.n].user \/ Door(w) => orders'[r.n].user
    <3> DEFINE o == [orders[r.n] EXCEPT !.filledBy = r.c, !.user = orders[r.n].user \/ Door(w)]
    <3>1. orders' = [orders EXCEPT ![r.n] = o]
      BY <1>1, <1>3 DEF WellTyped, DocumentsTyped, Orders
    <3>2. o \in Orders
      BY <1>1, <2>4 DEF Orders
    <3>3. /\ o.cart = orders[r.n].cart /\ o.lines = orders[r.n].lines /\ o.total = orders[r.n].total
          /\ o.filledBy = r.c /\ o.user = (orders[r.n].user \/ Door(w))
      BY <2>4 DEF Orders
    <3> HIDE DEF o
    <3> QED
      BY <1>1, <3>1, <3>2, <3>3 DEF WellTyped, DocumentsTyped
  <2>6. PICK k \in Numbers : k = r.n
    BY <1>1
  <2>7. Has(k)'
    BY <2>4, <2>5, <2>6, NothingAssumption DEF Has, NoOrder
  <2>8. DocumentsTyped'
    BY <2>3, <2>5 DEF WellTyped, DocumentsTyped
  <2>9. Grows
    BY <1>1, <2>3, <2>5, <2>6, <2>7, NothingAssumption DEF Grows, Has
  <2>10. Knows(w)'
    BY <1>1, <2>1, <2>2, <2>3, <2>5, <2>6, <2>7, NothingAssumption DEF Knows, Same, Door, MadeFor
  <2>11. ASSUME NEW n \in Numbers PROVE OrderOK(n)'
    <3>1. OrderOK(n)
      BY DEF CheckoutInv
    <3>2. CASE n = r.n
      BY <1>1, <2>3, <2>4, <2>5, <3>1, <3>2, NothingAssumption DEF OrderOK, MadeFor
    <3>3. CASE n # r.n
      BY <2>3, <2>5, <3>1, <3>3 DEF OrderOK, Has, MadeFor
    <3> QED
      BY <3>2, <3>3
  <2>12. SessionOK'
    BY <2>3, <2>9 DEF CheckoutInv, SessionOK, Grows, WellTyped, DocumentsTyped, Sessions
  <2>13. AddressOK'
    BY <2>3 DEF CheckoutInv, AddressOK
  <2> QED
    BY <2>1, <2>8, <2>9, <2>10, <2>11, <2>12, <2>13, OneWorker
<1> QED
  BY <1>2, <1>3 DEF SaveOrder, Fail

\* The job is saved after the order, with the address made for it.
LEMMA JobStep ==
  ASSUME WellTyped, CheckoutInv, NEW w \in Workers, ensureOrderDelivery(w)
  PROVE  WellTyped' /\ CheckoutInv'
<1> DEFINE r == at[w]
<1>1. /\ r \in AtWork /\ r.pc = "job" /\ r.n \in Numbers /\ r.c \in Carts
      /\ r.method \in DeliveryMethods /\ Has(r.n) /\ orders[r.n].filledBy # Nothing
      /\ Door(w) => /\ users = 1 /\ r.address # Nothing /\ MadeFor(r.address, r.n)
                    /\ orders[r.n].user
  BY DEF WellTyped, CheckoutInv, Knows, ensureOrderDelivery
<1>2. CASE Finish(w) /\ jobs' = jobs
  BY <1>2, OnlyFinishes DEF ensureOrderDelivery, Documents
<1>3. CASE /\ jobs' = [jobs EXCEPT ![r.n].method = r.method,
                                   ![r.n].address = IF Door(w) THEN r.address ELSE @]
           /\ Goto(w, IF Door(w) THEN "prompt" ELSE "pay")
  <2> DEFINE next == IF Door(w) THEN "prompt" ELSE "pay"
  <2>1. PICK x \in AtWork : at' = [at EXCEPT ![w] = x] /\ x.pc = next /\ Same(x, r)
    <3>1. next \in Labels /\ Goto(w, next)
      BY <1>3 DEF Labels
    <3> HIDE DEF next
    <3> QED
      BY <3>1, Moves
  <2>2. at'[w] = x
    BY <2>1 DEF WellTyped
  <2>3. UNCHANGED <<addresses, users, orders, session, due, told, sent, forms>>
    BY DEF ensureOrderDelivery
  <2>4. PICK k \in Numbers : k = r.n
    BY <1>1
  <2> DEFINE j == [jobs[k] EXCEPT !.method = r.method,
                                  !.address = IF Door(w) THEN r.address ELSE jobs[k].address]
  <2>5. jobs[k] \in Jobs
    BY DEF WellTyped, DocumentsTyped
  <2>6. /\ j \in Jobs /\ j.method = r.method
        /\ j.address = IF Door(w) THEN r.address ELSE jobs[k].address
    BY <1>1, <2>5 DEF Jobs, AtWork, Methods
  <2>7. jobs' = [jobs EXCEPT ![k] = j]
    BY <1>3, <2>4, <2>5 DEF WellTyped, DocumentsTyped, Jobs
  <2> HIDE DEF j
  <2>8. /\ jobs' \in [Numbers -> Jobs] /\ jobs'[k] = j
        /\ \A n \in Numbers : n # k => jobs'[n] = jobs[n]
    BY <2>6, <2>7 DEF WellTyped, DocumentsTyped
  <2>9. DocumentsTyped'
    BY <2>3, <2>8 DEF WellTyped, DocumentsTyped
  <2>10. r.method # "none" /\ (jobs[k].address # Nothing \/ Door(w) => j.address # Nothing)
    BY <1>1, <2>6 DEF DeliveryMethods
  <2>11. Grows
    BY <2>3, <2>6, <2>8, <2>10 DEF Grows, Has
  <2>12. Knows(w)'
    <3>1. CASE Door(w)
      BY <1>1, <2>1, <2>2, <2>3, <2>4, <2>8, <2>10, <3>1 DEF Knows, Same, Door, MadeFor, Has, Methods
    <3>2. CASE ~Door(w)
      BY <1>1, <2>1, <2>2, <2>3, <2>4, <2>6, <2>8, <2>10, <3>2 DEF Knows, Same, Door, MadeFor, Has, Methods
    <3> QED
      BY <3>1, <3>2
  <2>13. ASSUME NEW n \in Numbers PROVE OrderOK(n)'
    <3>1. OrderOK(n)
      BY DEF CheckoutInv
    <3>2. CASE n = k
      BY <1>1, <2>3, <2>4, <2>6, <2>8, <2>10, <3>1, <3>2 DEF OrderOK, MadeFor, Has
    <3>3. CASE n # k
      BY <2>3, <2>8, <3>1, <3>3 DEF OrderOK, Has, MadeFor
    <3> QED
      BY <3>2, <3>3
  <2>14. SessionOK'
    BY <2>3, <2>11 DEF CheckoutInv, SessionOK, Grows, WellTyped, DocumentsTyped, Sessions, Has
  <2>15. AddressOK'
    BY <2>3 DEF CheckoutInv, AddressOK
  <2> QED
    BY <2>1, <2>9, <2>11, <2>12, <2>13, <2>14, <2>15, OneWorker
<1> QED
  BY <1>2, <1>3 DEF ensureOrderDelivery, Fail

\* A pin is awaited only after the job has its address.
LEMMA PromptStep ==
  ASSUME WellTyped, CheckoutInv, NEW w \in Workers, promptForLocation(w)
  PROVE  WellTyped' /\ CheckoutInv'
<1> DEFINE r == at[w]
<1>1. r \in AtWork /\ r.pc = "prompt" /\ r.n \in Numbers /\ jobs[r.n].address # Nothing
  BY DEF WellTyped, CheckoutInv, Knows, promptForLocation
<1>2. PICK x \in AtWork : at' = [at EXCEPT ![w] = x] /\ x.pc = "idle"
  <2>1. Goto(w, "idle") \/ Finish(w)
    BY DEF promptForLocation, Remember, Fail
  <2>2. "idle" \in Labels
    BY DEF Labels
  <2> QED
    BY <2>1, <2>2, Moves
<1>3. UNCHANGED Documents /\ sent' = sent /\ forms' = forms
  BY DEF promptForLocation, Documents
<1>4. session' \in Sessions /\ session'.number = session.number
  BY DEF promptForLocation, Remember, Fail, WellTyped, DocumentsTyped, Sessions
<1>5. SessionOK'
  BY <1>1, <1>3, <1>4 DEF CheckoutInv, SessionOK, Documents, Has
<1>6. Knows(w)'
  BY <1>2, IdleKnows DEF WellTyped
<1>7. DocumentsTyped'
  BY <1>3, <1>4 DEF WellTyped, DocumentsTyped, Documents
<1> QED
  BY <1>2, <1>3, <1>5, <1>6, <1>7, DocumentsFrame, OneWorker

\* The payment is handed an order whose form is saved, and its job where there is one to save.
LEMMA PayStep ==
  ASSUME WellTyped, CheckoutInv, NEW w \in Workers, Pay(w)
  PROVE  WellTyped' /\ CheckoutInv'
<1> DEFINE r == at[w]
<1>1. /\ r.n \in Numbers /\ r.method \in Methods /\ orders[r.n].filledBy # Nothing
      /\ r.method \in DeliveryMethods => jobs[r.n].method # "none"
  BY DEF CheckoutInv, Knows, Pay
<1>2. PICK x \in AtWork : at' = [at EXCEPT ![w] = x] /\ x.pc = "idle"
  BY Moves DEF Pay
<1>3. UNCHANGED <<orders, jobs, users, addresses, told, session, sent, forms>> /\ due' = due \cup {<<r.n, r.method>>}
  BY DEF Pay
<1>4. DocumentsTyped'
  BY <1>1, <1>3 DEF WellTyped, DocumentsTyped
<1>5. Grows
  BY <1>3 DEF Grows, Has
<1>6. Knows(w)'
  BY <1>2, IdleKnows DEF WellTyped
<1>7. ASSUME NEW n \in Numbers PROVE OrderOK(n)'
  BY <1>1, <1>3 DEF CheckoutInv, OrderOK, Has, MadeFor
<1>8. SessionOK' /\ AddressOK'
  BY <1>3 DEF CheckoutInv, SessionOK, AddressOK, Has
<1> QED
  BY <1>2, <1>4, <1>5, <1>6, <1>7, <1>8, OneWorker

(***************************************************************************)
(* The pin, and what comes from outside.                                   *)
(***************************************************************************)

\* A pin is about the order in the session.
LEMMA BeginPinStep ==
  ASSUME WellTyped, CheckoutInv, NEW w \in Workers, BeginPin(w)
  PROVE  WellTyped' /\ CheckoutInv'
<1>1. PICK n \in Numbers : n = session.number
  BY DEF BeginPin, WellTyped, DocumentsTyped, Sessions
<1> DEFINE x == [Idle EXCEPT !.pc = "pin", !.n = n]
<1>2. x \in AtWork /\ x.pc = "pin" /\ x.n = n
  BY IdleIs DEF AtWork, Labels, Methods
<1>3. at' = [at EXCEPT ![w] = x]
  BY <1>1 DEF BeginPin
<1> HIDE DEF x
<1>4. at'[w] = x
  BY <1>3 DEF WellTyped
<1>5. Knows(w)'
  BY <1>2, <1>4 DEF Knows
<1> QED
  BY <1>2, <1>3, <1>5, OnlyMoves DEF BeginPin, Documents, WellTyped, DocumentsTyped

\* A pin goes into the address of the job, and that one was made for the order.
LEMMA LoadAddressStep ==
  ASSUME WellTyped, CheckoutInv, NEW w \in Workers, LoadAddress(w)
  PROVE  WellTyped' /\ CheckoutInv'
<1> DEFINE r == at[w]
<1>1. r \in AtWork /\ r.pc = "pin" /\ r.n \in Numbers
  BY DEF WellTyped, CheckoutInv, Knows, LoadAddress
<1>2. CASE jobs[r.n].address = Nothing
  BY <1>2, OnlyFinishes DEF LoadAddress, Documents
<1>3. CASE jobs[r.n].address # Nothing
  <2>1. PICK id \in Nat : id = jobs[r.n].address
    BY <1>1, <1>3 DEF WellTyped, DocumentsTyped, Jobs
  <2>2. MadeFor(id, r.n)
    BY <1>1, <1>3, <2>1 DEF CheckoutInv, OrderOK
  <2> DEFINE x == [r EXCEPT !.pc = "gps", !.address = id]
  <2>3. x \in AtWork /\ x.pc = "gps" /\ x.address = id /\ x.n = r.n
    BY <1>1 DEF AtWork, Labels
  <2>4. at' = [at EXCEPT ![w] = x]
    BY <1>3, <2>1 DEF LoadAddress
  <2> HIDE DEF x
  <2>5. at'[w] = x /\ UNCHANGED Documents
    BY <2>4 DEF WellTyped, LoadAddress, Documents
  <2>6. Knows(w)'
    BY <1>1, <1>3, <2>2, <2>3, <2>5 DEF Knows, Has, MadeFor, Documents
  <2> QED
    BY <2>3, <2>4, <2>5, <2>6, OnlyMoves DEF LoadAddress, WellTyped, DocumentsTyped
<1> QED
  BY <1>2, <1>3

\* A pin is put in one address, and no other field of any changes.
LEMMA PinEffect ==
  ASSUME WellTyped, CheckoutInv, NEW id,
         addresses' = {IF a.id = id THEN [a EXCEPT !.pin = TRUE] ELSE a : a \in addresses}
  PROVE  /\ addresses' \in SUBSET Addresses /\ IsFiniteSet(addresses')
         /\ \A a \in addresses : \E b \in addresses' : /\ b.id = a.id /\ b.n = a.n /\ (a.pin => b.pin)
                                                       /\ a.id = id => b.pin
         /\ AddressOK'
<1> DEFINE pinned(a) == IF a.id = id THEN [a EXCEPT !.pin = TRUE] ELSE a
           f == [a \in addresses |-> pinned(a)]
<1>1. addresses \in SUBSET Addresses /\ IsFiniteSet(addresses)
  BY DEF WellTyped, DocumentsTyped
<1>2. \A a \in addresses : /\ pinned(a) \in Addresses /\ pinned(a).id = a.id /\ pinned(a).n = a.n
                           /\ (a.pin => pinned(a).pin) /\ (a.id = id => pinned(a).pin)
  BY <1>1 DEF Addresses
<1>3. addresses' = {pinned(a) : a \in addresses}
  OBVIOUS
<1> HIDE DEF pinned
<1>4. \A a, b \in addresses : pinned(a) = pinned(b) => a = b
  BY <1>2 DEF CheckoutInv, AddressOK
<1>5. f \in Bijection(addresses, addresses')
  <2>1. f \in [addresses -> addresses']
    BY <1>3
  <2>2. \A a, b \in addresses : f[a] = f[b] => a = b
    BY <1>4
  <2>3. \A b \in addresses' : \E a \in addresses : f[a] = b
    BY <1>3
  <2>4. DOMAIN f = addresses
    OBVIOUS
  <2> HIDE DEF f
  <2> QED
    BY <2>1, <2>2, <2>3, <2>4, Zenon DEF Bijection, Injection, Surjection, IsInjective
<1>6. IsFiniteSet(addresses') /\ Cardinality(addresses') = Cardinality(addresses)
  <2>1. ExistsBijection(addresses, addresses')
    BY <1>5 DEF ExistsBijection
  <2> HIDE DEF f
  <2> QED
    BY <1>1, <2>1, FS_Bijection
<1>7. AddressOK'
  <2>1. \A b \in addresses' : b.id \in 1 .. Cardinality(addresses')
    BY <1>2, <1>3, <1>6 DEF CheckoutInv, AddressOK
  <2>2. \A a, b \in addresses' : a.id = b.id => a = b
    BY <1>2, <1>3 DEF CheckoutInv, AddressOK
  <2> QED
    BY <2>1, <2>2 DEF AddressOK
<1> QED
  BY <1>2, <1>3, <1>6, <1>7

\* The pin is saved in an address of the order before the customer is told; a failure only
\* has the session wait for another pin.
LEMMA SavePinStep ==
  ASSUME WellTyped, CheckoutInv, NEW w \in Workers, SavePin(w)
  PROVE  WellTyped' /\ CheckoutInv'
<1> DEFINE r == at[w]
<1>1. /\ r.n \in Numbers /\ MadeFor(r.address, r.n) /\ jobs[r.n].address # Nothing
  BY DEF CheckoutInv, Knows, SavePin
<1>2. PICK x \in AtWork : at' = [at EXCEPT ![w] = x] /\ x.pc = "idle"
  BY Moves DEF SavePin
<1>3. Knows(w)'
  BY <1>2, IdleKnows DEF WellTyped
<1>4. UNCHANGED <<orders, jobs, users, due, sent, forms>>
  BY DEF SavePin
<1>5. CASE /\ addresses' = {IF a.id = r.address THEN [a EXCEPT !.pin = TRUE] ELSE a : a \in addresses}
           /\ told' = told \cup {r.n}
           /\ session' = session
  <2>1. /\ addresses' \in SUBSET Addresses /\ IsFiniteSet(addresses')
        /\ \A a \in addresses : \E b \in addresses' : /\ b.id = a.id /\ b.n = a.n /\ (a.pin => b.pin)
                                                      /\ a.id = r.address => b.pin
        /\ AddressOK'
    BY <1>5, PinEffect
  <2>2. DocumentsTyped'
    BY <1>1, <1>4, <1>5, <2>1 DEF WellTyped, DocumentsTyped
  <2>3. Grows
    BY <1>4, <2>1 DEF Grows, Has
  <2>4. ASSUME NEW n \in Numbers PROVE OrderOK(n)'
    <3>1. OrderOK(n)
      BY DEF CheckoutInv
    <3>2. MadeFor(jobs[n].address, n) => MadeFor(jobs[n].address, n)'
      BY <1>4, <2>1 DEF MadeFor
    <3>3. n \in told' => jobs[n].address # Nothing /\ \E a \in addresses' : a.n = n /\ a.pin
      <4>1. CASE n \in told
        BY <2>1, <3>1, <4>1 DEF OrderOK
      <4>2. CASE n = r.n
        BY <1>1, <2>1, <4>2 DEF MadeFor
      <4> QED
        BY <1>5, <4>1, <4>2
    <3> QED
      BY <1>4, <3>1, <3>2, <3>3 DEF OrderOK, Has
  <2>5. SessionOK'
    BY <1>4, <1>5 DEF CheckoutInv, SessionOK, Has
  <2> QED
    BY <1>2, <1>3, <2>1, <2>2, <2>3, <2>4, <2>5, OneWorker
<1>6. CASE /\ addresses' = addresses /\ told' = told
           /\ session' = [session EXCEPT !.awaiting = TRUE, !.expires = TRUE]
  <2>1. UNCHANGED Documents
    BY <1>4, <1>6 DEF Documents
  <2>2. session' \in Sessions /\ session'.number = session.number
    BY <1>6 DEF WellTyped, DocumentsTyped, Sessions
  <2>3. DocumentsTyped'
    BY <1>4, <1>6, <2>2 DEF WellTyped, DocumentsTyped
  <2>4. SessionOK'
    BY <1>1, <1>4, <2>2 DEF CheckoutInv, SessionOK, Has
  <2> QED
    BY <1>2, <1>3, <2>1, <2>3, <2>4, DocumentsFrame, OneWorker
<1> QED
  BY <1>5, <1>6 DEF SavePin

\* The session ends, and a process that dies forgets its messages.
LEMMA OutsideStep ==
  ASSUME WellTyped, CheckoutInv, Expire \/ Crash \/ UNCHANGED vars
  PROVE  WellTyped' /\ CheckoutInv'
<1>1. UNCHANGED Documents /\ sent' = sent /\ forms' = forms
  BY DEF Expire, Crash, vars, Documents
<1>2. Grows /\ (\A n \in Numbers : OrderOK(n)') /\ AddressOK'
  BY <1>1, DocumentsFrame
<1>3. session' \in Sessions /\ SessionOK'
  <2>1. CASE session' = session
    BY <1>1, <2>1, DocumentsFrame DEF WellTyped, DocumentsTyped
  <2>2. CASE session' = NoSession
    BY <2>2 DEF NoSession, Sessions, SessionOK
  <2> QED
    BY <2>1, <2>2 DEF Expire, Crash, vars
<1>4. DocumentsTyped'
  BY <1>1, <1>3 DEF WellTyped, DocumentsTyped, Documents
<1>5. Idle \in AtWork /\ Idle.pc = "idle"
  BY DEF Idle, AtWork, Labels, Methods
<1>6. at' \in [Workers -> AtWork] /\ \A v \in Workers : at'[v] = at[v] \/ at'[v].pc = "idle"
  BY <1>5 DEF Expire, Crash, vars, WellTyped
<1>7. \A v \in Workers : Knows(v)'
  BY <1>2, <1>6, KnowsFrame, IdleKnows DEF CheckoutInv
<1> QED
  BY <1>2, <1>3, <1>4, <1>6, <1>7 DEF WellTyped, CheckoutInv

(***************************************************************************)
(* The theorems.                                                           *)
(***************************************************************************)

\* At first there is no order, no job, no address and no message in progress.
LEMMA CheckoutInit == Init => WellTyped /\ CheckoutInv
<1> SUFFICES ASSUME Init PROVE WellTyped /\ CheckoutInv
  OBVIOUS
<1>1. NoOrder \in Orders /\ NoJob \in Jobs /\ NoSession \in Sessions /\ Idle \in AtWork
  BY DEF NoOrder, Orders, NoJob, Jobs, NoSession, Sessions, Idle, AtWork, Labels, Methods
<1>2. WellTyped
  BY <1>1, FS_EmptySet DEF Init, WellTyped, DocumentsTyped
<1>3. NoOrder.filledBy = Nothing /\ NoJob.address = Nothing /\ NoSession.number = Nothing
      /\ ~NoSession.awaiting /\ Idle.pc = "idle"
  BY DEF NoOrder, NoJob, NoSession, Idle
<1>4. CheckoutInv
  BY <1>3 DEF Init, CheckoutInv, Knows, OrderOK, Has, SessionOK, AddressOK
<1> QED
  BY <1>2, <1>4

\* Every step keeps the types and the invariant.
LEMMA CheckoutStep == WellTyped /\ CheckoutInv /\ [Next]_vars => WellTyped' /\ CheckoutInv'
<1> SUFFICES ASSUME WellTyped, CheckoutInv, [Next]_vars PROVE WellTyped' /\ CheckoutInv'
  OBVIOUS
<1>1. ASSUME NEW w \in Workers, Works(w) PROVE WellTyped' /\ CheckoutInv'
  BY <1>1, BeginCartStep, SaveLineStep, CommitStep, RememberOrderStep, SendFormStep, BeginFormStep,
     LoadOrderStep, UserStep, ReadJobStep, AddressStep, SaveOrderStep, JobStep, PromptStep, PayStep,
     BeginPinStep, LoadAddressStep, SavePinStep DEF Works
<1> QED
  BY <1>1, Steps, OutsideStep

\* So they hold in every state of every behaviour.
LEMMA CheckoutHolds == Spec => [](WellTyped /\ CheckoutInv)
BY CheckoutInit, CheckoutStep, PTL DEF Spec

\* The documents, the session and what was told have their types.
THEOREM TypeCorrect == Spec => []TypeOK
<1>1. WellTyped => TypeOK
  BY DEF WellTyped, DocumentsTyped, TypeOK, Orders, Jobs, Methods, DeliveryMethods, Sessions
<1> QED
  BY <1>1, CheckoutHolds, PTL

\* However many carts are submitted at once, and wherever their handlers fail or die, an order
\* on record has every line of its cart and their sum.
THEOREM OrdersAreWhole == Spec => []OrderIsWhole
<1>1. CheckoutInv => OrderIsWhole
  BY DEF CheckoutInv, OrderOK, OrderIsWhole
<1> QED
  BY <1>1, CheckoutHolds, PTL

\* The session only names orders that are there, a pin is awaited only when some job has an
\* address, and the payment is handed only orders whose form is saved and, where the form
\* chose a method, whose job is.
THEOREM NobodyStepsAhead == Spec => []NoStepAhead
<1>1. WellTyped /\ CheckoutInv => NoStepAhead
  BY DEF WellTyped, DocumentsTyped, CheckoutInv, OrderOK, SessionOK, NoStepAhead
<1> QED
  BY <1>1, CheckoutHolds, PTL

\* Forms handled side by side never make a second user, and a job with an address belongs to
\* an order with its user.
THEOREM PhonesHaveOneUser == Spec => []OneUserPerPhone
<1>1. WellTyped /\ CheckoutInv => OneUserPerPhone
  BY DEF WellTyped, DocumentsTyped, CheckoutInv, OrderOK, OneUserPerPhone
<1> QED
  BY <1>1, CheckoutHolds, PTL

\* A pin the customer was told is saved stays in the address of the job, unless two forms at
\* once gave the order two addresses.
THEOREM PinsAreKept == Spec => []PinKept
<1>1. ASSUME WellTyped, CheckoutInv, NEW n \in told, Cardinality({a \in addresses : a.n = n}) = 1
      PROVE  \E a \in addresses : a.n = n /\ a.id = jobs[n].address /\ a.pin
  <2> DEFINE A == {a \in addresses : a.n = n}
  <2>1. IsFiniteSet(A)
    <3>1. IsFiniteSet(addresses) /\ A \subseteq addresses
      BY <1>1 DEF WellTyped, DocumentsTyped
    <3> HIDE DEF A
    <3> QED
      BY <3>1, FS_Subset
  <2>2. \E a \in A : A = {a}
    <3> HIDE DEF A
    <3> QED
      BY <1>1, <2>1, FS_Singleton DEF A
  <2>3. n \in Numbers /\ jobs[n].address # Nothing
    BY <1>1 DEF WellTyped, DocumentsTyped, CheckoutInv, OrderOK
  <2>4. PICK a \in addresses : a.id = jobs[n].address /\ a.n = n
    BY <1>1, <2>3 DEF CheckoutInv, OrderOK, MadeFor
  <2>5. PICK b \in addresses : b.n = n /\ b.pin
    BY <1>1, <2>3 DEF CheckoutInv, OrderOK
  <2> QED
    BY <2>2, <2>4, <2>5
<1>2. WellTyped /\ CheckoutInv => PinKept
  BY <1>1 DEF PinKept
<1> QED
  BY <1>2, CheckoutHolds, PTL

=============================================================================
