-------------------------- MODULE ReservationsProofs --------------------------
(***************************************************************************)
(* What the plans of Allocation guarantee for every recipe, every location *)
(* order and every stock level (they never take a unit that is not         *)
(* available), and on it ReservedWithinOnHand for every number of items,   *)
(* locations, lines and concurrent callers, with work on one line          *)
(* serialized or not.                                                      *)
(*                                                                         *)
(* The invariant is inductive together with StateTypes and one fact about  *)
(* a caller between its read and its posting: the entry it is about to     *)
(* reverse is in the ledger, which only grows.                             *)
(*                                                                         *)
(* On the same plans: an order whose balances are all locked is accepted   *)
(* and leaves the safety stock.  Then the sums over the ledger and over    *)
(* the open lines, by the lemmas of Sums: on hand is what the entries add  *)
(* up to, and, where the order handlers of a line take turns, reserved is  *)
(* what its open reservations hold and a line moves its units once, off    *)
(* the lines that a switch of the mode and a handler had read at once.     *)
(***************************************************************************)
EXTENDS MCReservations, Sums

-------------------------------------------------------------------------------
(* Plans.                                                                    *)

(* A non-empty set of natural numbers has a least element, and Min is it.    *)
LEMMA NatMin ==
  ASSUME NEW S \in SUBSET Nat, S # {}
  PROVE  Min(S) \in S /\ \A y \in S : Min(S) <= y
<1> DEFINE R == {ss \in Nat \X Nat : ss[1] < ss[2]}
<1>1. OpToRel(<, Nat) = R
  BY Zenon DEF OpToRel
<1>2. IsWellFoundedOn(R, Nat)
  BY <1>1, NatLessThanWellFounded, Zenon
<1>3. PICK x \in S : \A y \in S : ~ (<<y, x>> \in R)
  <2> HIDE DEF R
  <2> QED BY <1>2, WFMin
<1>4. ASSUME NEW y \in S PROVE x <= y
  <2>1. <<y, x>> \in R <=> y < x
    BY SMT
  <2>2. ~ (<<y, x>> \in R)
    BY <1>3, Zenon
  <2>3. x \in Nat /\ y \in Nat
    OBVIOUS
  <2>4. QED
    BY <2>1, <2>2, <2>3
<1>5. QED
  BY <1>4 DEF Min

(* Rounding down: as many times as the units go into the stock, and no more. *)
LEMMA FloorTimes ==
  ASSUME NEW a \in Nat, NEW b \in Nat \ {0}
  PROVE  a \div b \in Nat /\ \A m \in Nat : m <= a \div b => m * b <= a
<1>1. a \div b \in Nat /\ (a \div b) * b <= a
  BY SMT
<1>2. ASSUME NEW m \in Nat, m <= a \div b PROVE m * b <= a
  <2>1. m * b <= (a \div b) * b
    BY <1>1, <1>2, SMT
  <2>2. QED
    BY <1>1, <2>1
<1>3. QED
  BY <1>1, <1>2

(* What capacityAt needs of a recipe: components, each in positive units.    *)
ProperRecipe(recipe) ==
  DOMAIN recipe # {} /\ \A c \in DOMAIN recipe : recipe[c] \in Nat \ {0}

(* A location that holds capacityAt units of a kit holds the components of   *)
(* each of them.                                                             *)
LEMMA CapacityIsThere ==
  ASSUME NEW recipe, ProperRecipe(recipe), NEW available, NEW l,
         \A c \in DOMAIN recipe : available[<<c, l>>] \in Nat
  PROVE  /\ capacityAt(recipe, available, l) \in Nat
         /\ \A c \in DOMAIN recipe : \A m \in Nat :
              m <= capacityAt(recipe, available, l) => m * recipe[c] <= available[<<c, l>>]
<1> DEFINE S == {available[<<c, l>>] \div recipe[c] : c \in DOMAIN recipe}
<1>1. \A c \in DOMAIN recipe : available[<<c, l>>] \div recipe[c] \in Nat
  BY FloorTimes DEF ProperRecipe
<1>2. S \in SUBSET Nat /\ S # {}
  BY <1>1 DEF ProperRecipe
<1>3. Min(S) \in S /\ \A y \in S : Min(S) <= y
  <2> HIDE DEF S
  <2> QED BY <1>2, NatMin
<1>4. Min(S) \in Nat
  BY <1>2, <1>3
<1>5. ASSUME NEW c \in DOMAIN recipe, NEW m \in Nat, m <= Min(S)
      PROVE  m * recipe[c] <= available[<<c, l>>]
  <2>1. Min(S) <= available[<<c, l>>] \div recipe[c]
    BY <1>3
  <2>2. m <= available[<<c, l>>] \div recipe[c]
    <3> HIDE DEF S
    <3> QED BY <2>1, <1>1, <1>4, <1>5
  <2>3. QED
    BY <2>2, FloorTimes DEF ProperRecipe
<1>6. QED
  BY <1>4, <1>5 DEF capacityAt

(* A non-empty set of naturals below a bound has a greatest element.         *)
LEMMA NatMaxBelow ==
  ASSUME NEW S \in SUBSET Nat, S # {}, NEW q \in Nat, \A x \in S : x < q
  PROVE  \E x \in S : \A y \in S : y <= x
<1> DEFINE D == {d \in Nat : q - d \in S}
<1>1. D \in SUBSET Nat /\ D # {}
  <2>1. PICK x \in S : TRUE
    OBVIOUS
  <2>2. q - x \in D
    <3>1. q - x \in Nat /\ q - (q - x) = x
      BY <2>1
    <3>2. QED
      BY <3>1
  <2>3. QED
    BY <2>2
<1>2. Min(D) \in D /\ \A d \in D : Min(D) <= d
  <2> HIDE DEF D
  <2> QED BY <1>1, NatMin
<1>3. ASSUME NEW y \in S PROVE y <= q - Min(D)
  <2>1. q - y \in Nat /\ q - (q - y) = y
    OBVIOUS
  <2>2. q - y \in D
    BY <2>1
  <2>3. Min(D) <= q - y /\ Min(D) \in Nat
    BY <1>2, <2>2
  <2>4. QED
    <3> HIDE DEF D
    <3> QED BY <2>3
<1>4. q - Min(D) \in S
  BY <1>2
<1>5. QED
  BY <1>3, <1>4

(* The plan that a location order and its capacities lead to: every location *)
(* supplies at most its capacity, and the shortage is a count.               *)
Supplies(plan, order, capacity) ==
  /\ plan.shortage \in Nat
  /\ plan.from \in [Range(order) -> Nat]
  /\ \A l \in Range(order) : plan.from[l] <= capacity[l]

LEMMA SingleLocationSupplies ==
  ASSUME NEW quantity \in Nat, NEW L, NEW order \in Seq(L),
         NEW capacity \in [Range(order) -> Nat]
  PROVE  Supplies(singleLocationPlan(quantity, order, capacity), order, capacity)
<1> DEFINE places == DOMAIN order
           whole  == {i \in places : capacity[order[i]] >= quantity}
           most   == {i \in places : \A j \in places : capacity[order[j]] <= capacity[order[i]]}
           chosen == IF whole # {} THEN Min(whole) ELSE Min(most)
           units  == IF places = {} THEN 0 ELSE Least(quantity, capacity[order[chosen]])
           from   == [l \in Range(order) |-> IF l = order[chosen] THEN units ELSE 0]
<1>1. places \in SUBSET Nat /\ \A i \in places : order[i] \in Range(order)
  BY DEF Range
<1>2. \A i \in places : capacity[order[i]] \in Nat
  BY <1>1
<1>3. ASSUME places # {} PROVE chosen \in places
  <2>1. CASE whole # {}
    <3>1. whole \in SUBSET Nat
      BY <1>1
    <3>2. Min(whole) \in whole
      <4> HIDE DEF whole
      <4> QED BY <3>1, <2>1, NatMin
    <3>3. QED
      BY <3>2, <2>1
  <2>2. CASE whole = {}
    <3> DEFINE C == {capacity[order[i]] : i \in places}
    <3>1. C \in SUBSET Nat /\ C # {} /\ \A x \in C : x < quantity
      BY <1>2, <1>3, <2>2
    <3>2. PICK x \in C : \A y \in C : y <= x
      <4> HIDE DEF C
      <4> QED BY <3>1, NatMaxBelow
    <3>3. most \in SUBSET Nat /\ most # {}
      BY <3>2, <1>1
    <3>4. Min(most) \in most
      <4> HIDE DEF most
      <4> QED BY <3>3, NatMin
    <3>5. QED
      BY <3>4, <2>2
  <2>3. QED
    BY <2>1, <2>2
<1>4. units \in Nat /\ units <= quantity /\ (places # {} => units <= capacity[order[chosen]])
  <2>1. places # {} => capacity[order[chosen]] \in Nat
    <3> HIDE DEF chosen, places
    <3> QED BY <1>2, <1>3
  <2> HIDE DEF chosen, places
  <2>2. QED
    BY <2>1 DEF Least
<1>5. ASSUME NEW l \in Range(order) PROVE from[l] \in Nat /\ from[l] <= capacity[l]
  <2>1. places # {}
    BY DEF Range
  <2>2. QED
    <3> HIDE DEF chosen, units, places
    <3> QED BY <1>4, <2>1
<1>6. quantity - units \in Nat
  <2> HIDE DEF units
  <2> QED BY <1>4
<1>7. from \in [Range(order) -> Nat] /\ \A l \in Range(order) : from[l] <= capacity[l]
  BY <1>5
<1>8. QED
  <2>1. singleLocationPlan(quantity, order, capacity).shortage = quantity - units
    BY DEF singleLocationPlan
  <2>2. singleLocationPlan(quantity, order, capacity).from = from
    BY DEF singleLocationPlan
  <2> HIDE DEF units, from
  <2>3. QED
    BY <2>1, <2>2, <1>6, <1>7 DEF Supplies

(* The recursion of remainingAfter has a solution, so what it defines obeys  *)
(* it: start with the quantity, and take from each place what it can give.   *)
LEMMA RemainingAfterRecursion ==
  ASSUME NEW quantity \in Nat, NEW L, NEW order \in Seq(L),
         NEW capacity \in [Range(order) -> Nat]
  PROVE  LET rem == remainingAfter(quantity, order, capacity)
         IN  /\ rem \in [0..Len(order) -> Nat]
             /\ rem[0] = quantity
             /\ \A i \in 1..Len(order) :
                  rem[i] = rem[i-1] - Least(rem[i-1], capacity[order[i]])
<1> DEFINE n == Len(order)
           Step(f, i) == f[i-1] - Least(f[i-1], capacity[order[i]])
           Upto(f, m) == /\ f \in [0..m -> Nat]
                         /\ f[0] = quantity
                         /\ \A i \in 1..m : f[i] = Step(f, i)
           Bad == {m \in Nat : m <= n /\ ~ \E f \in [0..m -> Nat] : Upto(f, m)}
<1>1. n \in Nat /\ \A i \in 1..n : capacity[order[i]] \in Nat
  BY DEF Range
<1>2. Bad = {}
  <2>1. SUFFICES ASSUME Bad # {} PROVE FALSE
    OBVIOUS
  <2>2. Bad \in SUBSET Nat
    OBVIOUS
  <2> DEFINE m == Min(Bad)
  <2>3. m \in Bad /\ \A k \in Bad : m <= k
    <3> HIDE DEF Bad
    <3> QED BY <2>1, <2>2, NatMin
  <2>4. m \in Nat /\ m <= n /\ ~ \E f \in [0..m -> Nat] : Upto(f, m)
    BY <2>3
  <2> HIDE DEF m
  <2>5. m # 0
    <3>1. [i \in 0..0 |-> quantity] \in [0..0 -> Nat]
      OBVIOUS
    <3>2. Upto([i \in 0..0 |-> quantity], 0)
      BY <3>1, <1>1
    <3>3. QED
      BY <3>1, <3>2, <2>4
  <2>6. m - 1 \in Nat /\ m - 1 <= n /\ m - 1 \notin Bad
    <3>1. m - 1 \in Nat /\ m - 1 <= n /\ ~ (m <= m - 1)
      BY <2>4, <2>5, <1>1
    <3>2. QED
      BY <3>1, <2>3
  <2>7. PICK f \in [0..(m-1) -> Nat] : Upto(f, m-1)
    BY <2>6
  <2> DEFINE g == [i \in 0..m |-> IF i = m THEN Step(f, m) ELSE f[i]]
  <2>8. Step(f, m) \in Nat
    BY <2>4, <2>5, <1>1 DEF Least
  <2>9. Upto(g, m)
    <3>1. g \in [0..m -> Nat]
      BY <2>8, <2>4
    <3>2. g[0] = quantity
      BY <2>7, <2>5, <2>4
    <3>3. ASSUME NEW i \in 1..m PROVE g[i] = Step(g, i)
      <4>1. i - 1 \in 0..m /\ i - 1 # m /\ g[i-1] = f[i-1]
        BY <2>4
      <4>2. Step(g, i) = Step(f, i)
        BY <4>1
      <4>3. CASE i = m
        BY <4>2, <4>3
      <4>4. CASE i # m
        <5>1. i \in 1..(m-1) /\ g[i] = f[i]
          BY <4>4, <2>4
        <5>2. QED
          BY <5>1, <4>2, <2>7
      <4>5. QED
        BY <4>3, <4>4
    <3>4. QED
      BY <3>1, <3>2, <3>3
  <2>10. QED
    BY <2>4, <2>9
<1>3. PICK f \in [0..n -> Nat] : Upto(f, n)
  BY <1>1, <1>2
<1>4. f = [i \in 0..n |-> IF i = 0 THEN quantity ELSE Step(f, i)]
  BY <1>3, <1>1
<1> DEFINE rem == remainingAfter(quantity, order, capacity)
<1>5. rem = [i \in 0..n |-> IF i = 0 THEN quantity ELSE Step(rem, i)]
  BY <1>4 DEF remainingAfter
<1> HIDE DEF rem
<1>6. rem = f
  <2> DEFINE Differ == {i \in 0..n : rem[i] # f[i]}
  <2>1. SUFFICES ASSUME Differ # {} PROVE FALSE
    <3>1. f = [i \in 0..n |-> f[i]] /\ rem = [i \in 0..n |-> rem[i]]
      BY <1>3, <1>5
    <3>2. Differ = {} => \A i \in 0..n : rem[i] = f[i]
      OBVIOUS
    <3>3. QED
      BY <3>1, <3>2
  <2>2. Differ \in SUBSET Nat
    BY <1>1
  <2> DEFINE m == Min(Differ)
  <2>3. m \in Differ /\ \A k \in Differ : m <= k
    <3> HIDE DEF Differ
    <3> QED BY <2>1, <2>2, NatMin
  <2> HIDE DEF m
  <2>4. m \in 0..n /\ rem[m] # f[m]
    BY <2>3
  <2>5. m # 0
    BY <2>4, <1>4, <1>5
  <2>6. m - 1 \in 0..n /\ ~ (m <= m - 1)
    BY <2>4, <2>5, <1>1
  <2>7. rem[m-1] = f[m-1]
    BY <2>6, <2>3
  <2>8. rem[m] = Step(rem, m) /\ f[m] = Step(f, m)
    BY <2>4, <2>5, <1>4, <1>5
  <2>9. QED
    BY <2>4, <2>7, <2>8
<1>7. QED
  BY <1>3, <1>6 DEF rem

(* Splitting in priority order supplies at most each location's capacity.    *)
LEMMA SplitSupplies ==
  ASSUME NEW quantity \in Nat, NEW L, NEW order \in Seq(L),
         NEW capacity \in [Range(order) -> Nat]
  PROVE  Supplies(splitPlan(quantity, order, capacity), order, capacity)
<1> DEFINE rem == remainingAfter(quantity, order, capacity)
           place(l) == CHOOSE i \in DOMAIN order : order[i] = l
           from == [l \in Range(order) |-> rem[place(l)-1] - rem[place(l)]]
<1>1. /\ rem \in [0..Len(order) -> Nat]
      /\ \A i \in 1..Len(order) : rem[i] = rem[i-1] - Least(rem[i-1], capacity[order[i]])
  BY RemainingAfterRecursion
<1> HIDE DEF rem
<1>2. ASSUME NEW l \in Range(order) PROVE from[l] \in Nat /\ from[l] <= capacity[l]
  <2>1. place(l) \in DOMAIN order /\ order[place(l)] = l
    BY DEF Range
  <2> DEFINE i == place(l)
  <2>2. i \in 1..Len(order) /\ i - 1 \in 0..Len(order) /\ i \in 0..Len(order)
    BY <2>1
  <2> HIDE DEF i
  <2>3. rem[i] = rem[i-1] - Least(rem[i-1], capacity[order[i]])
    BY <2>2, <1>1
  <2>4. rem[i-1] \in Nat /\ capacity[l] \in Nat /\ order[i] = l
    BY <2>1, <2>2, <1>1 DEF i
  <2>5. rem[i-1] - rem[i] = Least(rem[i-1], capacity[l])
    BY <2>3, <2>4 DEF Least
  <2>6. QED
    BY <2>4, <2>5 DEF Least, i
<1>3. from \in [Range(order) -> Nat] /\ \A l \in Range(order) : from[l] <= capacity[l]
  BY <1>2
<1>4. rem[Len(order)] \in Nat
  BY <1>1
<1>5. QED
  <2>1. splitPlan(quantity, order, capacity).shortage = rem[Len(order)]
    BY DEF splitPlan, rem
  <2>2. splitPlan(quantity, order, capacity).from = from
    BY DEF splitPlan, rem
  <2> HIDE DEF from
  <2>3. QED
    BY <2>1, <2>2, <1>3, <1>4 DEF Supplies

(* A plan never takes a unit that is not available: for every recipe, every  *)
(* order of locations, every stock level and either split setting, what      *)
(* planAllocation takes from an item at a location is there, in the units    *)
(* its recipe asks for.                                                      *)
THEOREM TakesAreAvailable ==
  ASSUME NEW quantity \in Nat, NEW recipe, ProperRecipe(recipe),
         NEW I, NEW L, NEW order \in Seq(L), DOMAIN recipe \subseteq I,
         NEW available \in [I \X Range(order) -> Nat], NEW split \in BOOLEAN
  PROVE  LET plan  == planAllocation(quantity, recipe, order, available, split)
             takes == takesFor(recipe, plan, I \X Range(order))
         IN  /\ plan.shortage \in Nat
             /\ takes \in [I \X Range(order) -> Nat]
             /\ \A k \in I \X Range(order) : takes[k] <= available[k]
<1> DEFINE keys == I \X Range(order)
           plan == planAllocation(quantity, recipe, order, available, split)
           takes == takesFor(recipe, plan, keys)
           capacity == [l \in Range(order) |-> capacityAt(recipe, available, l)]
<1>1. \A l \in Range(order), c \in DOMAIN recipe : available[<<c, l>>] \in Nat
  OBVIOUS
<1>2. ASSUME NEW l \in Range(order)
      PROVE  /\ capacity[l] \in Nat
             /\ \A c \in DOMAIN recipe : \A m \in Nat :
                  m <= capacity[l] => m * recipe[c] <= available[<<c, l>>]
  BY <1>1, CapacityIsThere
<1>3. capacity \in [Range(order) -> Nat]
  BY <1>2
<1>4. Supplies(plan, order, capacity)
  <2> HIDE DEF capacity
  <2>1. split => Supplies(splitPlan(quantity, order, capacity), order, capacity)
    BY <1>3, SplitSupplies
  <2>2. ~ split => Supplies(singleLocationPlan(quantity, order, capacity), order, capacity)
    BY <1>3, SingleLocationSupplies
  <2>3. plan = IF split THEN splitPlan(quantity, order, capacity)
               ELSE singleLocationPlan(quantity, order, capacity)
    BY DEF planAllocation, capacity
  <2>4. QED
    BY <2>1, <2>2, <2>3
<1> HIDE DEF plan, capacity
<1>5. ASSUME NEW k \in keys PROVE takes[k] \in Nat /\ takes[k] <= available[k]
  <2>1. PICK c \in I, l \in Range(order) : k = <<c, l>>
    OBVIOUS
  <2>2. plan.from[l] \in Nat /\ plan.from[l] <= capacity[l] /\ l \in DOMAIN plan.from
    BY <1>4 DEF Supplies
  <2>3. takes[k] = IF c \in DOMAIN recipe THEN plan.from[l] * recipe[c] ELSE 0
    BY <2>1, <2>2 DEF takesFor
  <2>4. CASE c \in DOMAIN recipe
    <3>1. plan.from[l] * recipe[c] <= available[<<c, l>>]
      BY <1>2, <2>2, <2>4
    <3>2. recipe[c] \in Nat
      BY <2>4 DEF ProperRecipe
    <3>3. plan.from[l] * recipe[c] \in Nat
      BY <3>2, <2>2
    <3>4. QED
      BY <3>1, <3>3, <2>1, <2>3, <2>4
  <2>5. CASE c \notin DOMAIN recipe
    BY <2>3, <2>5
  <2>6. QED
    BY <2>4, <2>5
<1>6. takes \in [keys -> Nat]
  <2>1. takes = [k \in keys |-> takes[k]]
    BY DEF takesFor
  <2> HIDE DEF takes
  <2>2. QED
    BY <1>5, <2>1
<1>7. plan.shortage \in Nat
  BY <1>4 DEF Supplies
<1>8. QED
  BY <1>5, <1>6, <1>7 DEF plan

-------------------------------------------------------------------------------
(* Stock and reservations.                                                   *)

ReversedEntryExists ==
  \A c \in Callers : task[c].pc = "reversing" => task[c].entry \in DOMAIN ledger

Inv == StateTypes /\ ReservedWithinOnHand /\ ReversedEntryExists

(* Init establishes the invariant: the opening stock is one posting, and     *)
(* nothing is reserved.                                                      *)
LEMMA InitInv == Init => Inv
<1> SUFFICES ASSUME Init PROVE Inv
  OBVIOUS
<1>1. Opening \in [Keys -> Nat]
  BY ReservationConstants
<1>2. Zero \in [Keys -> Nat]
  BY DEF Zero
<1>3. ledger \in Seq(Postings)
  <2>1. [kind |-> "adjustment", delta |-> Opening, reverses |-> NoEntry, line |-> NoLine] \in Postings
    BY <1>1 DEF Postings, NoEntry
  <2>2. QED
    BY <2>1 DEF Init
<1>4. NotRecorded \in ReservationRows
  BY <1>2 DEF NotRecorded, ReservationRows, Statuses, Modes, NoEntry
<1>5. StateTypes
  BY <1>1, <1>2, <1>3, <1>4 DEF Init, StateTypes, Tasks
<1>6. ReservedWithinOnHand
  BY <1>1 DEF Init, ReservedWithinOnHand, Zero
<1>7. ReversedEntryExists
  BY DEF Init, ReversedEntryExists, Idle
<1>8. QED
  BY <1>5, <1>6, <1>7 DEF Inv

(* What an accepted posting leaves: entries appended, balances moved by      *)
(* exactly the deltas.                                                       *)
LEMMA PostingTypes ==
  ASSUME Inv, NEW kind \in {"adjustment", "transfer", "shipment", "reversal"},
         NEW delta \in [Keys -> Int], NEW reverses \in Nat, NEW line \in Lines \cup {NoLine},
         \A k \in Keys : onHand[k] + delta[k] >= 0,
         postMovements(kind, delta, reverses, line)
  PROVE  /\ ledger' \in Seq(Postings)
         /\ DOMAIN ledger \subseteq DOMAIN ledger'
         /\ rows' \subseteq Keys
         /\ onHand' \in [Keys -> Nat]
         /\ \A k \in Keys : onHand'[k] = onHand[k] + delta[k]
<1>1. ledger \in Seq(Postings) /\ rows \subseteq Keys /\ onHand \in [Keys -> Nat]
  BY DEF Inv, StateTypes
<1>2. [kind |-> kind, delta |-> delta, reverses |-> reverses, line |-> line] \in Postings
  BY DEF Postings
<1>3. ledger' \in Seq(Postings) /\ DOMAIN ledger \subseteq DOMAIN ledger'
  BY <1>1, <1>2 DEF postMovements
<1>4. rows' \subseteq Keys
  BY <1>1 DEF postMovements, Touched
<1>5. QED
  BY <1>1, <1>3, <1>4 DEF postMovements

(* A posting that Postable accepts keeps every balance above what is         *)
(* reserved there.                                                           *)
LEMMA PostableIsSafe ==
  ASSUME Inv, NEW delta \in [Keys -> Int], Postable(delta)
  PROVE  \A k \in Keys : onHand[k] + delta[k] >= reserved[k] /\ onHand[k] + delta[k] >= 0
<1> SUFFICES ASSUME NEW k \in Keys
             PROVE  onHand[k] + delta[k] >= reserved[k] /\ onHand[k] + delta[k] >= 0
  OBVIOUS
<1>1. onHand[k] \in Nat /\ reserved[k] \in Nat /\ reserved[k] <= onHand[k] /\ delta[k] \in Int
  BY DEF Inv, StateTypes, ReservedWithinOnHand
<1>2. delta[k] # 0 => onHand[k] + delta[k] >= reserved[k]
  BY DEF Postable, Touched
<1>3. QED
  BY <1>1, <1>2

(* Opposite movements and single movements are movements.                    *)
LEMMA DeltaTypes ==
  /\ \A takes \in [Keys -> Nat] : Negated(takes) \in [Keys -> Int]
                               /\ \A k \in Keys : Negated(takes)[k] = -takes[k]
  /\ \A k \in Keys, n \in Int : OnlyAt(k, n) \in [Keys -> Int]
  BY DEF Negated, OnlyAt, Zero

LEMMA SingleMovement ==
  ASSUME NEW k \in Keys, NEW n, n \in Int
  PROVE  OnlyAt(k, n) \in [Keys -> Int]
  BY Zenon, DeltaTypes

(* A step that only moves a caller along keeps the invariant, when the       *)
(* caller is not left reversing an entry.                                    *)
LEMMA CallerStep ==
  ASSUME Inv, NEW c \in Callers, NEW t \in Tasks,
         t.pc = "reversing" => t.entry \in DOMAIN ledger,
         task' = [task EXCEPT ![c] = t],
         UNCHANGED <<stock, reservation>>, mode' \in Modes
  PROVE  Inv'
<1>1. StateTypes'
  BY DEF Inv, StateTypes, stock
<1>2. ReservedWithinOnHand'
  BY DEF Inv, ReservedWithinOnHand, stock
<1>3. ReversedEntryExists'
  BY DEF Inv, StateTypes, ReversedEntryExists, stock
<1>4. QED
  BY <1>1, <1>2, <1>3 DEF Inv

(* A posting step of a caller that ends idle or going on with a switch.      *)
LEMMA StockStep ==
  ASSUME Inv, NEW c \in Callers, NEW t \in Tasks, t.pc # "reversing",
         task' = [task EXCEPT ![c] = t] \/ UNCHANGED task,
         ledger' \in Seq(Postings), DOMAIN ledger \subseteq DOMAIN ledger',
         rows' \subseteq Keys, onHand' \in [Keys -> Nat], reserved' \in [Keys -> Nat],
         reservation' \in [Lines -> ReservationRows], mode' \in Modes,
         \A k \in Keys : reserved'[k] <= onHand'[k]
  PROVE  Inv'
<1>1. StateTypes'
  BY DEF Inv, StateTypes
<1>2. ReservedWithinOnHand'
  BY DEF ReservedWithinOnHand
<1>3. ReversedEntryExists'
  BY DEF Inv, StateTypes, ReversedEntryExists
<1>4. QED
  BY <1>1, <1>2, <1>3 DEF Inv

LEMMA IdleIsATask == Idle \in Tasks /\ Idle.pc = "idle"
  BY DEF Idle, Tasks

(* Adjustments, transfers and reversals: what they post is Postable, and     *)
(* nothing that is reserved changes.                                         *)
LEMMA OperatorPosting ==
  ASSUME Inv, NEW c \in Callers, NEW t \in Tasks, t.pc # "reversing",
         task' = [task EXCEPT ![c] = t] \/ UNCHANGED task,
         NEW kind \in {"adjustment", "transfer", "shipment", "reversal"},
         NEW delta \in [Keys -> Int], NEW reverses \in Nat, NEW line \in Lines \cup {NoLine},
         Postable(delta), postMovements(kind, delta, reverses, line),
         UNCHANGED <<reserved, reservation, mode>>
  PROVE  Inv'
<1>1. \A k \in Keys : onHand[k] + delta[k] >= reserved[k] /\ onHand[k] + delta[k] >= 0
  BY PostableIsSafe
<1>2. /\ ledger' \in Seq(Postings) /\ DOMAIN ledger \subseteq DOMAIN ledger'
      /\ rows' \subseteq Keys /\ onHand' \in [Keys -> Nat]
      /\ \A k \in Keys : onHand'[k] = onHand[k] + delta[k]
  BY <1>1, PostingTypes
<1>3. reserved' \in [Keys -> Nat] /\ reservation' \in [Lines -> ReservationRows] /\ mode' \in Modes
  BY DEF Inv, StateTypes
<1>4. \A k \in Keys : reserved'[k] <= onHand'[k]
  BY <1>1, <1>2, <1>3
<1>5. QED
  BY <1>2, <1>3, <1>4, StockStep

LEMMA AdjustInv ==
  ASSUME Inv, NEW c \in Callers, NEW k \in Keys, NEW change \in Changes,
         applyAdjustment(c, k, change) \/ AdjustAbsentRow(c, k, change)
  PROVE  Inv'
<1>1. \A n \in Int : deltaFor(change, n) \in Int
  BY ReservationConstants DEF deltaFor
<1>2. CASE applyAdjustment(c, k, change)
  <2> DEFINE delta == OnlyAt(k, deltaFor(change, onHand[k]))
  <2>1. delta \in [Keys -> Int]
    <3>1. onHand[k] \in Int
      BY DEF Inv, StateTypes
    <3>2. deltaFor(change, onHand[k]) \in Int
      BY <1>1, <3>1
    <3>3. QED
      BY <3>2, SingleMovement
  <2>2. Postable(delta) /\ postMovements("adjustment", delta, NoEntry, NoLine)
        /\ UNCHANGED <<reserved, reservation, mode>> /\ UNCHANGED task
    BY <1>2 DEF applyAdjustment
  <2> HIDE DEF delta
  <2>3. QED
    BY <2>1, <2>2, OperatorPosting, IdleIsATask DEF NoEntry
<1>3. CASE AdjustAbsentRow(c, k, change)
  <2> DEFINE t == [pc |-> "adjusting", key |-> k, change |-> change]
  <2>1. t \in Tasks /\ t.pc # "reversing"
    BY DEF Tasks
  <2>2. task' = [task EXCEPT ![c] = t] /\ UNCHANGED <<stock, reservation>> /\ mode' \in Modes
    BY <1>3 DEF AdjustAbsentRow, Inv, StateTypes
  <2> HIDE DEF t
  <2>3. QED
    BY <2>1, <2>2, CallerStep
<1>4. QED
  BY <1>2, <1>3

(* A caller between two steps is in the shape its pc says.                   *)
LEMMA TaskShapes ==
  ASSUME Inv, NEW c \in Callers
  PROVE  /\ task[c] \in Tasks
         /\ task[c].pc = "reserving" => task[c].line \in Lines /\ task[c].mode \in Modes
         /\ task[c].pc = "rows_locked" =>
              task[c].line \in Lines /\ task[c].mode \in Modes /\ task[c].locked \in SUBSET Keys
         /\ task[c].pc = "planned" =>
              /\ task[c].line \in Lines /\ task[c].mode \in Modes
              /\ task[c].takes \in [Keys -> Nat] /\ task[c].shortage \in Nat
         /\ task[c].pc \in {"row_read", "allocations_read"} =>
              /\ task[c] \in [pc : {"row_read", "allocations_read"},
                              op : {"fulfill", "release", "migrate"},
                              line : Lines, status : Statuses, mode : Modes, entry : Nat,
                              to : Modes, todo : SUBSET Lines]
              /\ task[c].line \in Lines /\ task[c].mode \in Modes /\ task[c].entry \in Nat
              /\ task[c].to \in Modes /\ task[c].todo \in SUBSET Lines
              /\ reservation[task[c].line] \in ReservationRows
              /\ reservation[task[c].line].takes \in [Keys -> Nat]
         /\ task[c].pc \in {"switch_previewed", "switching"} =>
              /\ task[c] \in [pc : {"switch_previewed", "switching"}, to : Modes, todo : SUBSET Lines]
              /\ task[c].to \in Modes /\ task[c].todo \in SUBSET Lines
         /\ task[c].pc = "adjusting" => task[c].key \in Keys /\ task[c].change \in Changes
         /\ task[c].pc = "reversing" => task[c].entry \in Nat /\ task[c].key \in Keys
<1>1. task[c] \in Tasks
  BY DEF Inv, StateTypes
<1>2. QED
  BY <1>1 DEF Inv, StateTypes, Tasks, Idle, ReservationRows

LEMMA PostAbsentRowInv ==
  ASSUME Inv, NEW c \in Callers, PostAbsentRow(c)
  PROVE  Inv'
<1> DEFINE k == task[c].key
           delta == OnlyAt(k, deltaFor(task[c].change, 0))
<1>1. k \in Keys /\ task[c].change \in Changes
  BY TaskShapes DEF PostAbsentRow
<1>2. delta \in [Keys -> Int]
  <2>1. deltaFor(task[c].change, 0) \in Int
    <3>1. \A change \in [how : {"absolute"}, amount : Nat] \cup [how : {"delta"}, amount : Int] :
            change.amount \in Int
      OBVIOUS
    <3>2. task[c].change.amount \in Int
      BY <1>1, <3>1, ReservationConstants, Zenon
    <3> DEFINE n == task[c].change.amount
    <3>3. n \in Int => n - 0 \in Int
      <4> HIDE DEF n
      <4> QED OBVIOUS
    <3>4. QED
      BY <3>2, <3>3, Zenon DEF deltaFor
  <2>2. QED
    BY Zenon, <1>1, <2>1, SingleMovement
<1>3. /\ \/ Postable(delta) /\ postMovements("adjustment", delta, NoEntry, NoLine)
         \/ UNCHANGED <<onHand, rows, ledger>>
      /\ task' = [task EXCEPT ![c] = Idle] /\ UNCHANGED <<reserved, reservation, mode>>
  BY DEF PostAbsentRow
<1> HIDE DEF delta
<1>4. CASE Postable(delta) /\ postMovements("adjustment", delta, NoEntry, NoLine)
  BY <1>2, <1>3, <1>4, OperatorPosting, IdleIsATask DEF NoEntry
<1>5. CASE UNCHANGED <<onHand, rows, ledger>>
  BY <1>3, <1>5, CallerStep, IdleIsATask DEF stock, Inv, StateTypes
<1>6. QED
  BY <1>3, <1>4, <1>5

LEMMA TransferInv ==
  ASSUME Inv, NEW c \in Callers, NEW item \in Items, NEW from \in Locations,
         NEW to \in Locations, NEW n \in TransferQuantities, transferStock(c, item, from, to, n)
  PROVE  Inv'
<1> DEFINE delta == [Zero EXCEPT ![<<item, from>>] = -n, ![<<item, to>>] = n]
<1>1. delta \in [Keys -> Int]
  <2>1. n \in Int /\ -n \in Int
    BY ReservationConstants
  <2>2. Zero \in [Keys -> Int]
    BY DEF Zero
  <2>3. QED
    BY <2>1, <2>2
<1>2. /\ Postable(delta) /\ postMovements("transfer", delta, NoEntry, NoLine)
      /\ UNCHANGED <<reserved, reservation, mode>> /\ UNCHANGED task
  BY DEF transferStock
<1> HIDE DEF delta
<1>3. QED
  BY <1>1, <1>2, OperatorPosting, IdleIsATask DEF NoEntry

LEMMA ReverseInv ==
  ASSUME Inv, NEW c \in Callers, NEW i \in DOMAIN ledger, NEW k \in Keys, reverseEntry(c, i, k)
  PROVE  Inv'
<1> DEFINE t == [pc |-> "reversing", entry |-> i, key |-> k]
<1>1. i \in Nat
  BY DEF Inv, StateTypes
<1>2. t \in Tasks /\ t.entry \in DOMAIN ledger
  BY <1>1 DEF Tasks
<1>3. task' = [task EXCEPT ![c] = t] /\ UNCHANGED <<stock, reservation>> /\ mode' \in Modes
  BY DEF reverseEntry, Inv, StateTypes
<1> HIDE DEF t
<1>4. QED
  BY <1>2, <1>3, CallerStep

LEMMA PostReversalInv ==
  ASSUME Inv, NEW c \in Callers, PostReversal(c)
  PROVE  Inv'
<1> DEFINE i == task[c].entry
           k == task[c].key
           delta == OnlyAt(k, -ledger[i].delta[k])
<1>1. i \in Nat /\ k \in Keys /\ i \in DOMAIN ledger
  BY TaskShapes DEF PostReversal, Inv, ReversedEntryExists
<1>2. ledger[i] \in Postings
  BY <1>1 DEF Inv, StateTypes
<1>3. ledger[i].delta[k] \in Int /\ ledger[i].line \in Lines \cup {NoLine}
  BY <1>1, <1>2 DEF Postings
<1>4. delta \in [Keys -> Int]
  <2>1. -ledger[i].delta[k] \in Int
    BY <1>3
  <2>2. QED
    BY Zenon, <1>1, <2>1, SingleMovement
<1>5. /\ \/ Postable(delta) /\ postMovements("reversal", delta, i, ledger[i].line)
         \/ UNCHANGED <<onHand, rows, ledger>>
      /\ task' = [task EXCEPT ![c] = Idle] /\ UNCHANGED <<reserved, reservation, mode>>
  BY DEF PostReversal
<1> HIDE DEF delta, i
<1>6. CASE Postable(delta) /\ postMovements("reversal", delta, i, ledger[i].line)
  BY <1>1, <1>3, <1>4, <1>5, <1>6, OperatorPosting, IdleIsATask
<1>7. CASE UNCHANGED <<onHand, rows, ledger>>
  BY <1>5, <1>7, CallerStep, IdleIsATask DEF stock, Inv, StateTypes
<1>8. QED
  BY <1>5, <1>6, <1>7

(* Recording and freeing reserved units keeps their type.                    *)
LEMMA ReservedTypes ==
  ASSUME Inv, NEW takes \in [Keys -> Nat]
  PROVE  /\ addReserved(takes) =>
              /\ reserved' \in [Keys -> Nat]
              /\ \A k \in Keys : reserved'[k] = reserved[k] + takes[k]
         /\ releaseReserved(takes) =>
              /\ reserved' \in [Keys -> Nat]
              /\ \A k \in Keys : reserved'[k] <= reserved[k]
<1>1. reserved \in [Keys -> Nat]
  BY DEF Inv, StateTypes
<1>2. \A k \in Keys : reserved[k] \in Nat /\ takes[k] \in Nat
  BY <1>1
<1>3. \A k \in Keys : /\ reserved[k] + takes[k] \in Nat
                      /\ NonNegative(reserved[k] - takes[k]) \in Nat
                      /\ NonNegative(reserved[k] - takes[k]) <= reserved[k]
  BY <1>2 DEF NonNegative
<1>4. QED
  BY <1>3 DEF addReserved, releaseReserved

(* Safety stock is a count of units, whichever level sets it.                *)
LEMMA SafetyStockType ==
  ASSUME NEW k \in Keys
  PROVE  SafetyStock(k) \in Nat
<1>1. k[1] \in Items
  BY DEF Keys
<1>2. /\ DefaultSafetyStock \in Nat /\ ItemOverride[k[1]] \in Nat \cup {Unset}
      /\ LocationOverride[k] \in Nat \cup {Unset}
  BY <1>1, ReservationConstants
<1>3. QED
  BY <1>2 DEF SafetyStock, effectiveSafetyStock

(* What may be sold at a key is on hand there and not reserved.              *)
LEMMA AvailableIsUnreserved ==
  ASSUME Inv
  PROVE  /\ availableByItem \in [Keys -> Nat]
         /\ \A k \in Keys : availableByItem[k] <= onHand[k] - reserved[k]
<1> SUFFICES ASSUME NEW k \in Keys
             PROVE  /\ availableToSellAtLocation(onHand[k], reserved[k], SafetyStock(k)) \in Nat
                    /\ availableToSellAtLocation(onHand[k], reserved[k], SafetyStock(k))
                         <= onHand[k] - reserved[k]
  BY DEF availableByItem
<1>1. SafetyStock(k) \in Nat
  BY SafetyStockType
<1>2. onHand[k] \in Nat /\ reserved[k] \in Nat /\ reserved[k] <= onHand[k]
  BY DEF Inv, StateTypes, ReservedWithinOnHand
<1>3. QED
  BY <1>1, <1>2 DEF availableToSellAtLocation, NonNegative

(* The plan of a line takes only unreserved units.                           *)
LEMMA PlanIsCovered ==
  ASSUME Inv, NEW l \in Lines, NEW split \in SplitSettings
  PROVE  LET takes == takesFor(Recipe[l], Plan(l, split), Keys)
         IN  /\ Plan(l, split).shortage \in Nat
             /\ takes \in [Keys -> Nat]
             /\ \A k \in Keys : takes[k] <= availableByItem[k]
             /\ \A k \in Keys : takes[k] <= onHand[k] - reserved[k]
<1> DEFINE takes == takesFor(Recipe[l], Plan(l, split), Keys)
<1>1. /\ Quantity[l] \in Nat /\ Order \in Seq(Locations) /\ split \in BOOLEAN
      /\ DOMAIN Recipe[l] \subseteq Items
  BY ReservationConstants
<1>2. ProperRecipe(Recipe[l])
  BY ReservationConstants DEF ProperRecipe
<1>3. availableByItem \in [Items \X Range(Order) -> Nat]
  BY AvailableIsUnreserved DEF Keys, Locations
<1>4. /\ Plan(l, split).shortage \in Nat /\ takes \in [Keys -> Nat]
      /\ \A k \in Keys : takes[k] <= availableByItem[k]
  BY <1>1, <1>2, <1>3, TakesAreAvailable DEF Keys, Locations, Plan
<1> HIDE DEF takes
<1>5. \A k \in Keys : takes[k] <= onHand[k] - reserved[k]
  <2> SUFFICES ASSUME NEW k \in Keys PROVE takes[k] <= onHand[k] - reserved[k]
    OBVIOUS
  <2>1. /\ takes[k] \in Nat /\ availableByItem[k] \in Nat /\ takes[k] <= availableByItem[k]
        /\ availableByItem[k] <= onHand[k] - reserved[k]
        /\ onHand[k] \in Nat /\ reserved[k] \in Nat
    BY <1>4, AvailableIsUnreserved DEF Inv, StateTypes
  <2>2. QED
    BY <2>1
<1>6. QED
  BY <1>4, <1>5 DEF takes

LEMMA RecordedTypes ==
  ASSUME Inv, NEW m \in Modes, NEW takes \in [Keys -> Nat], NEW shortage \in Nat
  PROVE  /\ Recorded(m, takes, shortage) \in ReservationRows
         /\ Recorded(m, takes, shortage).mode = m
         /\ Recorded(m, takes, shortage).takes = takes
<1>1. Len(ledger) + 1 \in Nat
  BY DEF Inv, StateTypes
<1>2. QED
  BY <1>1 DEF Recorded, ReservationRows, Statuses, NoEntry

(* Writing a reservation that is accepted consumes unreserved units or holds *)
(* units that are on hand.                                                   *)
LEMMA RecordInv ==
  ASSUME Inv, NEW c \in Callers, NEW l \in Lines, NEW row \in ReservationRows,
         Record(l, row), task' = [task EXCEPT ![c] = Idle], UNCHANGED mode
  PROVE  Inv'
<1>1. row.takes \in [Keys -> Nat] /\ row.mode \in Modes
  BY DEF ReservationRows
<1>2. StateTypes /\ \A k \in Keys : onHand[k] \in Nat /\ reserved[k] \in Nat /\ reserved[k] <= onHand[k]
                                /\ row.takes[k] \in Nat
  BY <1>1 DEF Inv, StateTypes, ReservedWithinOnHand
<1>3. mode' \in Modes
  BY <1>2 DEF StateTypes
<1>4. CASE UNCHANGED <<stock, reservation>>
  BY <1>3, <1>4, CallerStep, IdleIsATask
<1>5. CASE ~ UNCHANGED <<stock, reservation>>
  <2>1. /\ Accepted(row) /\ reservation' = [reservation EXCEPT ![l] = row]
        /\ IF row.entry # NoEntry
           THEN /\ postMovements("shipment", Negated(row.takes), NoEntry, l)
                /\ UNCHANGED reserved
           ELSE /\ IF row.mode = "consume_immediately" THEN UNCHANGED reserved
                   ELSE addReserved(row.takes)
                /\ UNCHANGED <<onHand, rows, ledger>>
    BY <1>5 DEF Record
  <2>2. reservation' \in [Lines -> ReservationRows]
    BY <1>2, <2>1 DEF StateTypes
  <2>3. CASE row.entry # NoEntry
    <3>1. Negated(row.takes) \in [Keys -> Int] /\ Postable(Negated(row.takes))
      BY <1>1, <2>1, <2>3, DeltaTypes DEF Accepted
    <3>2. \A k \in Keys : /\ onHand[k] + Negated(row.takes)[k] >= reserved[k]
                          /\ onHand[k] + Negated(row.takes)[k] >= 0
      BY <3>1, PostableIsSafe
    <3>3. /\ ledger' \in Seq(Postings) /\ DOMAIN ledger \subseteq DOMAIN ledger'
          /\ rows' \subseteq Keys /\ onHand' \in [Keys -> Nat]
          /\ \A k \in Keys : onHand'[k] = onHand[k] + Negated(row.takes)[k]
      BY <2>1, <2>3, <3>1, <3>2, PostingTypes DEF NoEntry
    <3>4. reserved' \in [Keys -> Nat] /\ \A k \in Keys : reserved'[k] <= onHand'[k]
      BY <1>2, <2>1, <2>3, <3>1, <3>2, <3>3 DEF StateTypes
    <3>5. QED
      BY <1>3, <2>2, <3>3, <3>4, StockStep, IdleIsATask
  <2>4. CASE row.entry = NoEntry
    <3>1. /\ ledger' \in Seq(Postings) /\ DOMAIN ledger \subseteq DOMAIN ledger'
          /\ rows' \subseteq Keys /\ onHand' \in [Keys -> Nat]
      BY <1>2, <2>1, <2>4 DEF StateTypes
    <3>2. reserved' \in [Keys -> Nat] /\ \A k \in Keys : reserved'[k] <= onHand'[k]
      <4>1. CASE row.mode = "consume_immediately"
        BY <1>2, <2>1, <2>4, <4>1 DEF StateTypes
      <4>2. CASE row.mode # "consume_immediately"
        <5>1. reserved' \in [Keys -> Nat] /\ \A k \in Keys : reserved'[k] = reserved[k] + row.takes[k]
          BY <1>1, <2>1, <2>4, <4>2, ReservedTypes
        <5>2. \A k \in Keys : reserved[k] + row.takes[k] <= onHand[k]
          BY <1>1, <2>1, <2>4, <4>2 DEF Accepted, Modes
        <5>3. QED
          BY <2>1, <2>4, <5>1, <5>2
      <4>3. QED
        BY <4>1, <4>2
    <3>3. QED
      BY <1>3, <2>2, <3>1, <3>2, StockStep, IdleIsATask
  <2>5. QED
    BY <2>3, <2>4
<1>6. QED
  BY <1>4, <1>5

LEMMA CommitReserveInv ==
  ASSUME Inv, NEW c \in Callers, NEW split \in SplitSettings, CommitReserve(c, split)
  PROVE  Inv'
<1> DEFINE l    == task[c].line
           takes == takesFor(Recipe[l], Plan(l, split), Keys)
           row   == Recorded(task[c].mode, takes, Plan(l, split).shortage)
<1>1. l \in Lines /\ task[c].mode \in Modes
  BY TaskShapes DEF CommitReserve
<1>2. takes \in [Keys -> Nat] /\ Plan(l, split).shortage \in Nat
  BY <1>1, PlanIsCovered
<1>3. row \in ReservationRows
  <2> HIDE DEF takes
  <2>1. QED
    BY <1>1, <1>2, RecordedTypes
<1>4. Record(l, row) /\ task' = [task EXCEPT ![c] = Idle] /\ UNCHANGED mode
  BY DEF CommitReserve
<1> HIDE DEF row, l
<1>5. QED
  BY <1>1, <1>3, <1>4, RecordInv

LEMMA CommitPlanInv ==
  ASSUME Inv, NEW c \in Callers, CommitPlan(c)
  PROVE  Inv'
<1> DEFINE row == Recorded(task[c].mode, task[c].takes, task[c].shortage)
<1>1. /\ task[c].line \in Lines /\ task[c].mode \in Modes
      /\ task[c].takes \in [Keys -> Nat] /\ task[c].shortage \in Nat
  BY TaskShapes DEF CommitPlan
<1>2. row \in ReservationRows
  BY <1>1, RecordedTypes
<1>3. Record(task[c].line, row) /\ task' = [task EXCEPT ![c] = Idle] /\ UNCHANGED mode
  BY DEF CommitPlan
<1> HIDE DEF row
<1>4. QED
  BY <1>1, <1>2, <1>3, RecordInv

LEMMA LockExistingRowsInv ==
  ASSUME Inv, NEW c \in Callers, LockExistingRows(c)
  PROVE  Inv'
<1> DEFINE t == [pc |-> "rows_locked", line |-> task[c].line, mode |-> task[c].mode,
                 locked |-> RowsOf(task[c].line) \cap rows]
<1>1. task[c].line \in Lines /\ task[c].mode \in Modes
  BY TaskShapes DEF LockExistingRows
<1>2. t \in Tasks /\ t.pc # "reversing"
  BY <1>1 DEF Tasks, RowsOf
<1>3. task' = [task EXCEPT ![c] = t] /\ UNCHANGED <<stock, reservation>> /\ mode' \in Modes
  BY DEF LockExistingRows, Inv, StateTypes
<1> HIDE DEF t
<1>4. QED
  BY <1>2, <1>3, CallerStep

LEMMA PlanUnlockedInv ==
  ASSUME Inv, NEW c \in Callers, NEW split \in SplitSettings, PlanUnlocked(c, split)
  PROVE  Inv'
<1> DEFINE l == task[c].line
           takes == takesFor(Recipe[l], Plan(l, split), Keys)
           shortage == Plan(l, split).shortage
           t == [pc |-> "planned", line |-> l, mode |-> task[c].mode, locked |-> task[c].locked,
                 takes |-> takes, shortage |-> shortage]
<1>1. l \in Lines /\ task[c].mode \in Modes /\ task[c].locked \in SUBSET Keys
  BY TaskShapes DEF PlanUnlocked
<1>2. takes \in [Keys -> Nat] /\ shortage \in Nat
  BY <1>1, PlanIsCovered
<1>3. t \in Tasks /\ t.pc # "reversing"
  <2> HIDE DEF takes, shortage, l
  <2>1. QED
    BY <1>1, <1>2 DEF Tasks
<1>4. task' = [task EXCEPT ![c] = t] /\ UNCHANGED <<stock, reservation>> /\ mode' \in Modes
  BY DEF PlanUnlocked, Inv, StateTypes
<1> HIDE DEF t
<1>5. QED
  BY <1>3, <1>4, CallerStep

(* What a caller that resolves a reservation leaves behind: its next task.   *)
LEMMA FinishedTask ==
  ASSUME Inv, NEW c \in Callers, task[c].pc = "allocations_read", Finished(c)
  PROVE  \E t \in Tasks : t.pc # "reversing" /\ task' = [task EXCEPT ![c] = t]
<1> DEFINE t == IF task[c].op = "migrate"
                THEN [pc |-> "switching", to |-> task[c].to, todo |-> task[c].todo]
                ELSE Idle
<1>1. task[c].to \in Modes /\ task[c].todo \in SUBSET Lines
  BY TaskShapes
<1>2. t \in Tasks /\ t.pc # "reversing"
  BY <1>1 DEF Tasks, Idle
<1>3. task' = [task EXCEPT ![c] = t]
  BY DEF Finished
<1>4. QED
  BY <1>2, <1>3

(* The rollbacks keep the invariant.                                         *)
LEMMA AbandonInv ==
  ASSUME Inv, NEW c \in Callers, task[c].pc = "allocations_read", Abandon(c)
  PROVE  Inv'
<1>1. PICK t \in Tasks : t.pc # "reversing" /\ task' = [task EXCEPT ![c] = t]
  BY FinishedTask DEF Abandon
<1>2. UNCHANGED <<stock, reservation>> /\ mode' \in Modes
  BY DEF Abandon, Inv, StateTypes
<1>3. QED
  BY <1>1, <1>2, CallerStep

(* A resolution writes the status or the mode and entry of one row.          *)
LEMMA RowUpdates ==
  ASSUME Inv, NEW c \in Callers, task[c].pc = "allocations_read"
  PROVE  /\ \A s \in Statuses : SetStatus(c, s) => reservation' \in [Lines -> ReservationRows]
         /\ \A e \in Nat : SetMode(c, e) => reservation' \in [Lines -> ReservationRows]
<1> DEFINE l == task[c].line
<1>1. l \in Lines /\ task[c].to \in Modes /\ reservation[l] \in ReservationRows
  BY TaskShapes
<1>2. reservation \in [Lines -> ReservationRows]
  BY DEF Inv, StateTypes
<1>3. ASSUME NEW s \in Statuses, SetStatus(c, s) PROVE reservation' \in [Lines -> ReservationRows]
  <2>1. [reservation[l] EXCEPT !.status = s] \in ReservationRows
    BY <1>1 DEF ReservationRows
  <2>2. reservation' = [reservation EXCEPT ![l] = [reservation[l] EXCEPT !.status = s]]
    BY <1>3 DEF SetStatus
  <2>3. QED
    BY <1>2, <2>1, <2>2
<1>4. ASSUME NEW e \in Nat, SetMode(c, e) PROVE reservation' \in [Lines -> ReservationRows]
  <2>1. [reservation[l] EXCEPT !.mode = task[c].to, !.entry = e] \in ReservationRows
    BY <1>1 DEF ReservationRows
  <2>2. reservation' = [reservation EXCEPT ![l] = [reservation[l] EXCEPT !.mode = task[c].to, !.entry = e]]
    BY <1>1, <1>2, <1>4 DEF SetMode
  <2>3. QED
    BY <1>2, <2>1, <2>2
<1>5. QED
  BY <1>3, <1>4

(* Shipping: an accepted posting of the units, then their release.           *)
LEMMA ShipmentInv ==
  ASSUME Inv, NEW c \in Callers, task[c].pc = "allocations_read",
         Postable(Negated(Takes(c))),
         postMovements("shipment", Negated(Takes(c)), NoEntry, task[c].line),
         releaseReserved(Takes(c)), reservation' \in [Lines -> ReservationRows],
         Finished(c), UNCHANGED mode
  PROVE  Inv'
<1> DEFINE takes == Takes(c)
           delta == Negated(takes)
<1>1. takes \in [Keys -> Nat] /\ task[c].line \in Lines
  BY TaskShapes DEF Takes
<1>2. delta \in [Keys -> Int]
  <2> HIDE DEF takes
  <2>1. QED
    BY <1>1, DeltaTypes
<1>3. reserved' \in [Keys -> Nat] /\ \A k \in Keys : reserved'[k] <= reserved[k]
  BY <1>1, ReservedTypes
<1>4. Postable(delta) /\ postMovements("shipment", delta, NoEntry, task[c].line)
  OBVIOUS
<1> HIDE DEF delta
<1>5. \A k \in Keys : onHand[k] + delta[k] >= reserved[k] /\ onHand[k] + delta[k] >= 0
  BY <1>2, <1>4, PostableIsSafe
<1>6. /\ ledger' \in Seq(Postings) /\ DOMAIN ledger \subseteq DOMAIN ledger'
      /\ rows' \subseteq Keys /\ onHand' \in [Keys -> Nat]
      /\ \A k \in Keys : onHand'[k] = onHand[k] + delta[k]
  BY <1>1, <1>2, <1>4, <1>5, PostingTypes DEF NoEntry
<1>7. \A k \in Keys : reserved'[k] <= onHand'[k]
  <2>1. reserved \in [Keys -> Nat]
    BY DEF Inv, StateTypes
  <2>2. QED
    BY <1>3, <1>5, <1>6, <2>1
<1>8. PICK t \in Tasks : t.pc # "reversing" /\ task' = [task EXCEPT ![c] = t]
  BY FinishedTask
<1>9. mode' \in Modes
  BY DEF Inv, StateTypes
<1>10. QED
  BY <1>3, <1>6, <1>7, <1>8, <1>9, StockStep

LEMMA CommitFulfillInv ==
  ASSUME Inv, NEW c \in Callers, CommitFulfill(c)
  PROVE  Inv'
<1>1. task[c].pc = "allocations_read"
  BY DEF CommitFulfill, Resolving
<1>2. CASE Abandon(c)
  BY <1>1, <1>2, AbandonInv
<1>3. CASE /\ Postable(Negated(Takes(c)))
           /\ postMovements("shipment", Negated(Takes(c)), NoEntry, task[c].line)
           /\ releaseReserved(Takes(c)) /\ SetStatus(c, "consumed")
           /\ Finished(c) /\ UNCHANGED mode
  <2>1. reservation' \in [Lines -> ReservationRows]
    BY <1>1, <1>3, RowUpdates DEF Statuses
  <2>2. QED
    BY <1>1, <1>3, <2>1, ShipmentInv
<1>4. CASE SetStatus(c, "consumed") /\ Finished(c) /\ UNCHANGED <<stock, mode>>
  <2>1. reservation' \in [Lines -> ReservationRows]
    BY <1>1, <1>4, RowUpdates DEF Statuses
  <2>2. PICK t \in Tasks : t.pc # "reversing" /\ task' = [task EXCEPT ![c] = t]
    BY <1>1, <1>4, FinishedTask
  <2>3. /\ ledger' \in Seq(Postings) /\ DOMAIN ledger \subseteq DOMAIN ledger'
        /\ rows' \subseteq Keys /\ onHand' \in [Keys -> Nat] /\ reserved' \in [Keys -> Nat]
        /\ mode' \in Modes /\ \A k \in Keys : reserved'[k] <= onHand'[k]
    BY <1>4 DEF Inv, StateTypes, ReservedWithinOnHand, stock
  <2>4. QED
    BY <2>1, <2>2, <2>3, StockStep
<1>5. QED
  BY <1>2, <1>3, <1>4 DEF CommitFulfill

(* A reversal only adds: units come back, and what may be reserved meanwhile *)
(* is bounded by what is on hand afterwards.                                 *)
LEMMA ReturnInv ==
  ASSUME Inv, NEW c \in Callers, task[c].pc = "allocations_read",
         \/ postMovements("reversal", Takes(c), task[c].entry, task[c].line)
         \/ UNCHANGED <<onHand, rows, ledger>>,
         reserved' \in [Keys -> Nat], \A k \in Keys : reserved'[k] <= onHand'[k],
         reservation' \in [Lines -> ReservationRows],
         Finished(c), UNCHANGED mode
  PROVE  Inv'
<1>1. Takes(c) \in [Keys -> Nat] /\ task[c].line \in Lines /\ task[c].entry \in Nat
  BY TaskShapes DEF Takes
<1>2. \A k \in Keys : onHand[k] + Takes(c)[k] >= 0
  BY <1>1 DEF Inv, StateTypes
<1>3. /\ ledger' \in Seq(Postings) /\ DOMAIN ledger \subseteq DOMAIN ledger'
      /\ rows' \subseteq Keys /\ onHand' \in [Keys -> Nat]
  <2>1. CASE postMovements("reversal", Takes(c), task[c].entry, task[c].line)
    <3>1. Takes(c) \in [Keys -> Int]
      BY <1>1
    <3>2. QED
      BY <1>1, <1>2, <2>1, <3>1, PostingTypes
  <2>2. CASE UNCHANGED <<onHand, rows, ledger>>
    BY <2>2 DEF Inv, StateTypes
  <2>3. QED
    BY <2>1, <2>2
<1>4. PICK t \in Tasks : t.pc # "reversing" /\ task' = [task EXCEPT ![c] = t]
  BY FinishedTask
<1>5. mode' \in Modes
  BY DEF Inv, StateTypes
<1>6. QED
  BY <1>3, <1>4, <1>5, StockStep

(* What the units that come back leave on hand.                              *)
LEMMA ReturnedUnits ==
  ASSUME Inv, NEW c \in Callers, task[c].pc = "allocations_read",
         \/ postMovements("reversal", Takes(c), task[c].entry, task[c].line)
         \/ UNCHANGED <<onHand, rows, ledger>>
  PROVE  \A k \in Keys : onHand'[k] \in Nat /\ onHand'[k] >= onHand[k]
<1>1. Takes(c) \in [Keys -> Nat] /\ onHand \in [Keys -> Nat]
  BY TaskShapes DEF Takes, Inv, StateTypes
<1>2. \A k \in Keys : Takes(c)[k] \in Nat /\ onHand[k] \in Nat
  BY <1>1
<1>3. QED
  BY <1>2 DEF postMovements

LEMMA CommitReleaseInv ==
  ASSUME Inv, NEW c \in Callers, CommitRelease(c)
  PROVE  Inv'
<1>1. task[c].pc = "allocations_read"
  BY DEF CommitRelease, Resolving
<1>2. CASE Abandon(c)
  BY <1>1, <1>2, AbandonInv
<1>3. CASE ~ Abandon(c)
  <2>1. /\ \/ postMovements("reversal", Takes(c), task[c].entry, task[c].line)
           \/ UNCHANGED <<onHand, rows, ledger>>
        /\ UNCHANGED reserved \/ releaseReserved(Takes(c))
        /\ SetStatus(c, "released") /\ Finished(c) /\ UNCHANGED mode
    BY <1>3 DEF CommitRelease
  <2>2. reservation' \in [Lines -> ReservationRows]
    BY <1>1, <2>1, RowUpdates DEF Statuses
  <2>3. \A k \in Keys : onHand'[k] \in Nat /\ onHand'[k] >= onHand[k]
    BY <1>1, <2>1, ReturnedUnits
  <2>4. reserved' \in [Keys -> Nat] /\ \A k \in Keys : reserved'[k] <= reserved[k]
    <3>1. CASE UNCHANGED reserved
      BY <3>1 DEF Inv, StateTypes
    <3>2. CASE releaseReserved(Takes(c))
      <4>1. Takes(c) \in [Keys -> Nat]
        BY <1>1, TaskShapes DEF Takes
      <4>2. QED
        BY <3>2, <4>1, ReservedTypes
    <3>3. QED
      BY <2>1, <3>1, <3>2
  <2>5. \A k \in Keys : reserved'[k] <= onHand'[k]
    <3>1. \A k \in Keys : onHand[k] \in Nat /\ reserved[k] \in Nat /\ reserved[k] <= onHand[k]
      BY DEF Inv, StateTypes, ReservedWithinOnHand
    <3>2. QED
      BY <2>3, <2>4, <3>1
  <2>6. QED
    BY <1>1, <2>1, <2>2, <2>4, <2>5, ReturnInv
<1>4. QED
  BY <1>2, <1>3

(* Moving a reservation to the other mode: to consumed, a shipment; back to  *)
(* reserved, a return whose units the balance check admits.                  *)
LEMMA CommitMigrateInv ==
  ASSUME Inv, NEW c \in Callers, CommitMigrate(c)
  PROVE  Inv'
<1> DEFINE takes == Takes(c)
           back == IF task[c].entry # NoEntry THEN takes ELSE Zero
           Admitted == \A k \in Keys : reserved[k] + takes[k] <= onHand[k] + back[k]
           Empty == SetMode(c, reservation[task[c].line].entry) /\ Finished(c) /\ UNCHANGED <<stock, mode>>
           Consume == /\ Postable(Negated(takes))
                      /\ postMovements("shipment", Negated(takes), NoEntry, task[c].line)
                      /\ releaseReserved(takes)
                      /\ SetMode(c, Len(ledger) + 1)
                      /\ Finished(c) /\ UNCHANGED mode
           Return == IF task[c].entry # NoEntry
                     THEN postMovements("reversal", takes, task[c].entry, task[c].line)
                     ELSE UNCHANGED <<onHand, rows, ledger>>
           Reserve == /\ Admitted /\ Return /\ addReserved(takes) /\ SetMode(c, NoEntry)
                      /\ Finished(c) /\ UNCHANGED mode
           Error == task' = [task EXCEPT ![c] = Idle] /\ UNCHANGED <<stock, reservation, mode>>
<1>1. task[c].pc = "allocations_read"
  BY DEF CommitMigrate, Resolving
<1>2. Abandon(c) \/ Empty \/ Consume \/ Reserve \/ Error
  BY DEF CommitMigrate
<1>3. takes \in [Keys -> Nat] /\ Len(ledger) + 1 \in Nat /\ reservation[task[c].line].entry \in Nat
  BY <1>1, TaskShapes DEF Takes, Inv, StateTypes, ReservationRows
<1>4. CASE Abandon(c)
  BY <1>1, <1>4, AbandonInv
<1>5. CASE Empty
  <2>1. reservation' \in [Lines -> ReservationRows]
    BY <1>1, <1>3, <1>5, RowUpdates
  <2>2. PICK t \in Tasks : t.pc # "reversing" /\ task' = [task EXCEPT ![c] = t]
    BY <1>1, <1>5, FinishedTask
  <2>3. /\ ledger' \in Seq(Postings) /\ DOMAIN ledger \subseteq DOMAIN ledger'
        /\ rows' \subseteq Keys /\ onHand' \in [Keys -> Nat] /\ reserved' \in [Keys -> Nat]
        /\ mode' \in Modes /\ \A k \in Keys : reserved'[k] <= onHand'[k]
    BY <1>5 DEF Inv, StateTypes, ReservedWithinOnHand, stock
  <2>4. QED
    BY <2>1, <2>2, <2>3, StockStep
<1>6. CASE Consume
  <2>1. reservation' \in [Lines -> ReservationRows]
    BY <1>1, <1>3, <1>6, RowUpdates
  <2>2. QED
    BY <1>1, <1>6, <2>1, ShipmentInv
<1>7. CASE Reserve
  <2>1. reservation' \in [Lines -> ReservationRows]
    BY <1>1, <1>7, RowUpdates DEF NoEntry
  <2>2. reserved' \in [Keys -> Nat] /\ \A k \in Keys : reserved'[k] = reserved[k] + takes[k]
    BY <1>3, <1>7, ReservedTypes
  <2>3. \A k \in Keys : onHand'[k] = onHand[k] + back[k]
    <3>1. CASE task[c].entry # NoEntry
      BY <1>7, <3>1 DEF postMovements
    <3>2. CASE task[c].entry = NoEntry
      <4>1. UNCHANGED onHand /\ back = Zero
        BY <1>7, <3>2
      <4>2. \A k \in Keys : back[k] = 0 /\ onHand[k] \in Nat
        BY <4>1 DEF Zero, Inv, StateTypes
      <4> HIDE DEF back
      <4>3. QED
        BY <4>1, <4>2
    <3>3. QED
      BY <3>1, <3>2
  <2>4. \A k \in Keys : reserved'[k] <= onHand'[k]
    <3>1. Admitted
      BY <1>7
    <3>2. QED
      BY <2>2, <2>3, <3>1
  <2>5. Return /\ Finished(c) /\ UNCHANGED mode
    BY <1>7
  <2>6. QED
    BY <1>1, <2>1, <2>2, <2>4, <2>5, ReturnInv
<1>8. CASE Error
  <2>1. UNCHANGED <<stock, reservation>> /\ mode' \in Modes /\ task' = [task EXCEPT ![c] = Idle]
    BY <1>8 DEF Inv, StateTypes
  <2>2. QED
    BY <2>1, CallerStep, IdleIsATask
<1>9. QED
  BY <1>2, <1>4, <1>5, <1>6, <1>7, <1>8

(* The reads and the settings: a caller goes on with what it has read.       *)
LEMMA ReadRowInv ==
  ASSUME Inv, NEW c \in Callers, NEW op \in {"fulfill", "release", "migrate"}, NEW l \in Lines,
         NEW to \in Modes, NEW todo \in SUBSET Lines, ReadRow(c, op, l, to, todo)
  PROVE  Inv'
<1> DEFINE t == [pc |-> "row_read", op |-> op, line |-> l,
                 status |-> reservation[l].status, mode |-> reservation[l].mode,
                 entry |-> NoEntry, to |-> to, todo |-> todo]
<1>1. reservation[l].status \in Statuses /\ reservation[l].mode \in Modes
  BY DEF Inv, StateTypes, ReservationRows
<1>2. t \in Tasks /\ t.pc # "reversing"
  BY <1>1 DEF Tasks, NoEntry
<1>3. task' = [task EXCEPT ![c] = t] /\ UNCHANGED <<stock, reservation>> /\ mode' \in Modes
  BY DEF ReadRow, Inv, StateTypes
<1> HIDE DEF t
<1>4. QED
  BY <1>2, <1>3, CallerStep

LEMMA ReserveInv ==
  ASSUME Inv, NEW c \in Callers, NEW l \in Lines, reserve(c, l)
  PROVE  Inv'
<1> DEFINE t == [pc |-> "reserving", line |-> l, mode |-> mode]
<1>1. t \in Tasks /\ t.pc # "reversing"
  BY DEF Tasks, Inv, StateTypes
<1>2. task' = [task EXCEPT ![c] = t] /\ UNCHANGED <<stock, reservation>> /\ mode' \in Modes
  BY DEF reserve, Inv, StateTypes
<1> HIDE DEF t
<1>3. QED
  BY <1>1, <1>2, CallerStep

LEMMA ReadAllocationsInv ==
  ASSUME Inv, NEW c \in Callers, ReadAllocations(c)
  PROVE  Inv'
<1> DEFINE t == [task[c] EXCEPT !.pc = "allocations_read",
                                !.entry = reservation[task[c].line].entry]
<1>1. /\ task[c] \in [pc : {"row_read", "allocations_read"},
                      op : {"fulfill", "release", "migrate"},
                      line : Lines, status : Statuses, mode : Modes, entry : Nat,
                      to : Modes, todo : SUBSET Lines]
      /\ reservation[task[c].line].entry \in Nat
  BY TaskShapes DEF ReadAllocations, ReservationRows
<1>2. t \in Tasks /\ t.pc # "reversing"
  BY <1>1 DEF Tasks
<1>3. task \in [Callers -> Tasks]
  BY DEF Inv, StateTypes
<1>4. task' = [task EXCEPT ![c] = t] /\ UNCHANGED <<stock, reservation>> /\ mode' \in Modes
  BY <1>1, <1>3 DEF ReadAllocations, Inv, StateTypes
<1> HIDE DEF t
<1>5. QED
  BY <1>2, <1>4, CallerStep

LEMMA SwitchInv ==
  ASSUME Inv, NEW c \in Callers
  PROVE  /\ \A to \in Modes, confirmed \in BOOLEAN : switchConsumptionMode(c, to, confirmed) => Inv'
         /\ ListOpen(c) => Inv'
         /\ SaveMode(c) => Inv'
<1>1. ASSUME NEW to \in Modes, NEW confirmed \in BOOLEAN, switchConsumptionMode(c, to, confirmed)
      PROVE  Inv'
  <2> DEFINE t == [pc |-> "switch_previewed", to |-> to, todo |-> {}]
  <2>1. t \in Tasks /\ t.pc # "reversing"
    BY DEF Tasks
  <2>2. task' = [task EXCEPT ![c] = t] /\ UNCHANGED <<stock, reservation>> /\ mode' \in Modes
    BY <1>1 DEF switchConsumptionMode, Inv, StateTypes
  <2> HIDE DEF t
  <2>3. QED
    BY <2>1, <2>2, CallerStep
<1>2. ASSUME ListOpen(c) PROVE Inv'
  <2> DEFINE t == [task[c] EXCEPT !.pc = "switching", !.todo = OpenLines]
  <2>1. task[c] \in [pc : {"switch_previewed", "switching"}, to : Modes, todo : SUBSET Lines]
    BY <1>2, TaskShapes DEF ListOpen
  <2>2. t \in Tasks /\ t.pc # "reversing"
    BY <2>1 DEF Tasks, OpenLines
  <2>3. task \in [Callers -> Tasks]
    BY DEF Inv, StateTypes
  <2>4. task' = [task EXCEPT ![c] = t] /\ UNCHANGED <<stock, reservation>> /\ mode' \in Modes
    BY <1>2, <2>1, <2>3 DEF ListOpen, Inv, StateTypes
  <2> HIDE DEF t
  <2>5. QED
    BY <2>2, <2>4, CallerStep
<1>3. ASSUME SaveMode(c) PROVE Inv'
  <2>1. task[c].to \in Modes
    BY <1>3, TaskShapes DEF SaveMode
  <2>2. task' = [task EXCEPT ![c] = Idle] /\ UNCHANGED <<stock, reservation>> /\ mode' \in Modes
    BY <1>3, <2>1 DEF SaveMode
  <2>3. QED
    BY <2>2, CallerStep, IdleIsATask
<1>4. QED
  BY <1>1, <1>2, <1>3

LEMMA StutterInv == Inv /\ UNCHANGED vars => Inv'
  BY DEF vars, stock, Inv, StateTypes, ReservedWithinOnHand, ReversedEntryExists

(* Every step of every caller preserves the invariant.                       *)
LEMMA NextInv == Inv /\ [Next]_vars => Inv'
<1> SUFFICES ASSUME Inv, Next PROVE Inv'
  BY StutterInv
<1>1. PICK c \in Callers : Begin(c) \/ Continue(c)
  BY DEF Next
<1>2. mode \in Modes
  BY DEF Inv, StateTypes
<1>3. CASE Begin(c)
  <2>1. CASE \E k \in Keys, change \in Changes :
               applyAdjustment(c, k, change) \/ AdjustAbsentRow(c, k, change)
    BY <2>1, AdjustInv
  <2>2. CASE \E item \in Items, from, to \in Locations, n \in TransferQuantities :
               transferStock(c, item, from, to, n)
    BY <2>2, TransferInv
  <2>3. CASE \E i \in DOMAIN ledger, k \in Keys : reverseEntry(c, i, k)
    BY <2>3, ReverseInv
  <2>4. CASE \E l \in Lines : reserve(c, l) \/ fulfillReservation(c, l) \/ releaseReservation(c, l)
    <3>1. PICK l \in Lines : reserve(c, l) \/ fulfillReservation(c, l) \/ releaseReservation(c, l)
      BY <2>4
    <3>2. CASE reserve(c, l)
      BY <3>2, ReserveInv
    <3>3. CASE ReadRow(c, "fulfill", l, mode, {}) \/ ReadRow(c, "release", l, mode, {})
      <4>1. {} \in SUBSET Lines
        OBVIOUS
      <4>2. QED
        BY <1>2, <3>3, <4>1, ReadRowInv
    <3>4. QED
      BY <3>1, <3>2, <3>3 DEF fulfillReservation, releaseReservation
  <2>5. CASE \E to \in Modes, confirmed \in BOOLEAN : switchConsumptionMode(c, to, confirmed)
    BY <2>5, SwitchInv
  <2>6. QED
    BY <1>3, <2>1, <2>2, <2>3, <2>4, <2>5 DEF Begin
<1>4. CASE Continue(c)
  <2>1. CASE \E l \in Lines : migrateReservation(c, l)
    <3>1. PICK l \in Lines : migrateReservation(c, l)
      BY <2>1
    <3>2. task[c].to \in Modes /\ task[c].todo \ {l} \in SUBSET Lines
      BY <3>1, TaskShapes DEF migrateReservation
    <3>3. ReadRow(c, "migrate", l, task[c].to, task[c].todo \ {l})
      BY <3>1 DEF migrateReservation
    <3>4. QED
      BY <3>2, <3>3, ReadRowInv
  <2>2. CASE \E split \in SplitSettings : CommitReserve(c, split) \/ PlanUnlocked(c, split)
    BY <2>2, CommitReserveInv, PlanUnlockedInv
  <2>3. QED
    BY <1>4, <2>1, <2>2, PostAbsentRowInv, PostReversalInv, LockExistingRowsInv, CommitPlanInv,
       ReadAllocationsInv, CommitFulfillInv, CommitReleaseInv, CommitMigrateInv, SwitchInv DEF Continue
<1>5. QED
  BY <1>1, <1>3, <1>4

(* The invariant holds in every reachable state.                             *)
THEOREM Invariance == Spec => []Inv
<1>1. Init => Inv
  BY InitInv
<1>2. Inv /\ [Next]_vars => Inv'
  BY NextInv
<1>3. QED
  BY <1>1, <1>2, PTL DEF Spec

(* Type correctness of stock, ledger, reservations and callers, whatever     *)
(* the business's items, locations, orders, settings and concurrency.        *)
THEOREM TypeCorrect == Spec => []TypeOK
<1>1. Init => crossed \subseteq Lines
  BY DEF Init
<1>2. crossed \subseteq Lines /\ [Next]_vars => (crossed \subseteq Lines)'
  BY DEF Next, Crossing, vars
<1>3. Inv /\ crossed \subseteq Lines => TypeOK
  BY DEF Inv, TypeOK
<1>4. QED
  BY <1>1, <1>2, <1>3, Invariance, PTL DEF Spec

(* No oversell: no unit is reserved that is not on hand and no balance is    *)
(* negative, for every number of concurrent callers, with or without the     *)
(* job queue's per-order serialization.                                      *)
THEOREM NoOversell == Spec => []ReservedWithinOnHand
<1>1. Inv => ReservedWithinOnHand
  BY DEF Inv
<1>2. QED
  BY <1>1, Invariance, PTL

(* Takes within what is unreserved are accepted.                             *)
LEMMA CoveredIsAccepted ==
  ASSUME Inv, NEW m \in Modes, NEW takes \in [Keys -> Nat], NEW shortage \in Nat,
         \A k \in Keys : takes[k] <= onHand[k] - reserved[k]
  PROVE  Accepted(Recorded(m, takes, shortage))
<1> DEFINE row == Recorded(m, takes, shortage)
<1>1. row.takes = takes /\ row.mode = m
  BY RecordedTypes
<1>2. row.entry # NoEntry => Touched(takes) # {}
  BY DEF Recorded
<1>3. \A k \in Keys : onHand[k] \in Nat /\ reserved[k] \in Nat /\ takes[k] \in Nat
  BY DEF Inv, StateTypes
<1>4. /\ Negated(takes) \in [Keys -> Int]
      /\ \A k \in Keys : Negated(takes)[k] = -takes[k]
  BY DeltaTypes
<1>5. Touched(takes) # {} => Touched(Negated(takes)) # {}
  BY <1>3, <1>4 DEF Touched
<1>6. \A k \in Touched(Negated(takes)) : onHand[k] + Negated(takes)[k] >= reserved[k]
  BY <1>3, <1>4 DEF Touched
<1>7. \A k \in Keys : reserved[k] + takes[k] <= onHand[k]
  BY <1>3
<1> HIDE DEF row
<1>8. Accepted(row)
  BY <1>1, <1>2, <1>5, <1>6, <1>7 DEF Accepted, Postable
<1>9. QED
  BY <1>8 DEF row

(* A step of one caller leaves the other callers where they are, and only    *)
(* the commit of a reserve takes a caller from "reserving" to idle.          *)
LEMMA OthersWait ==
  ASSUME Inv, NEW c \in Callers, NEW d \in Callers, c # d, Begin(d) \/ Continue(d)
  PROVE  task'[c] = task[c]
<1>1. task \in [Callers -> Tasks]
  BY DEF Inv, StateTypes
<1>2. CASE Begin(d)
  BY <1>1, <1>2 DEF Begin, applyAdjustment, AdjustAbsentRow, transferStock, reverseEntry, reserve,
     fulfillReservation, releaseReservation, ReadRow, switchConsumptionMode
<1>3. CASE Continue(d)
  <2>1. CASE PostAbsentRow(d) \/ PostReversal(d) \/ LockExistingRows(d) \/ CommitPlan(d)
             \/ \E split \in SplitSettings : CommitReserve(d, split) \/ PlanUnlocked(d, split)
    BY <1>1, <2>1 DEF PostAbsentRow, PostReversal, LockExistingRows, CommitPlan, CommitReserve, PlanUnlocked
  <2>2. CASE ReadAllocations(d) \/ ListOpen(d) \/ SaveMode(d) \/ \E l \in Lines : migrateReservation(d, l)
    BY <1>1, <2>2 DEF ReadAllocations, ListOpen, SaveMode, migrateReservation, ReadRow
  <2>3. CASE CommitFulfill(d) \/ CommitRelease(d) \/ CommitMigrate(d)
    BY <1>1, <2>3 DEF CommitFulfill, CommitRelease, CommitMigrate, Abandon, Finished
  <2>4. QED
    BY <1>3, <2>1, <2>2, <2>3 DEF Continue
<1>4. QED
  BY <1>2, <1>3

LEMMA ReservingStep ==
  ASSUME Inv, NEW c \in Callers, task[c].pc = "reserving", task'[c] = Idle, Begin(c) \/ Continue(c)
  PROVE  \E split \in SplitSettings : CommitReserve(c, split)
<1>1. task \in [Callers -> Tasks] /\ task[c] # Idle
  BY DEF Inv, StateTypes, Idle
<1>2. ~ Begin(c)
  BY <1>1 DEF Begin, Starts, applyAdjustment, AdjustAbsentRow, transferStock, reverseEntry, reserve,
     fulfillReservation, releaseReservation, switchConsumptionMode
<1>3. ~ LockExistingRows(c)
  BY <1>1 DEF LockExistingRows, Idle
<1>4. QED
  BY <1>2, <1>3 DEF Continue, PostAbsentRow, PostReversal, PlanUnlocked, CommitPlan, ReadAllocations,
     CommitFulfill, CommitRelease, CommitMigrate, Resolving, ListOpen, migrateReservation, SaveMode

(* Two orders for the last unit: an order planned under the locks is always  *)
(* recorded, with its shortage, and is never refused by the posting or by    *)
(* the database.                                                             *)
THEOREM LockedPlansAreAccepted == Spec => LockedPlanIsAccepted
<1> DEFINE Good == \A c \in Callers : task[c].pc = "reserving" /\ task'[c] = Idle =>
                      reservation'[task[c].line].status # "none"
<1>1. ASSUME Inv, Next PROVE Good
  <2> SUFFICES ASSUME NEW c \in Callers, task[c].pc = "reserving", task'[c] = Idle
               PROVE  reservation'[task[c].line].status # "none"
    OBVIOUS
  <2>1. PICK d \in Callers : Begin(d) \/ Continue(d)
    BY <1>1 DEF Next
  <2>2. d = c
    <3>1. task'[c] # task[c]
      BY DEF Idle
    <3>2. QED
      BY <1>1, <2>1, <3>1, OthersWait
  <2>3. PICK split \in SplitSettings : CommitReserve(c, split)
    BY <1>1, <2>1, <2>2, ReservingStep
  <2> DEFINE l     == task[c].line
             takes == takesFor(Recipe[l], Plan(l, split), Keys)
             row   == Recorded(task[c].mode, takes, Plan(l, split).shortage)
  <2>4. l \in Lines /\ task[c].mode \in Modes /\ reservation \in [Lines -> ReservationRows]
    BY <1>1, TaskShapes DEF Inv, StateTypes
  <2>5. /\ takes \in [Keys -> Nat] /\ Plan(l, split).shortage \in Nat
        /\ \A k \in Keys : takes[k] <= onHand[k] - reserved[k]
    BY <1>1, <2>4, PlanIsCovered
  <2>6. Accepted(row)
    <3> HIDE DEF takes
    <3>1. QED
      BY <1>1, <2>4, <2>5, CoveredIsAccepted
  <2>7. row.status = "open"
    BY DEF Recorded
  <2>8. Record(l, row)
    BY <2>3 DEF CommitReserve
  <2> HIDE DEF row, l
  <2>9. reservation'[l].status # "none"
    BY <2>4, <2>6, <2>7, <2>8 DEF Record, LineTaken
  <2>10. QED
    BY <2>9 DEF l
<1>2. Inv /\ [Next]_vars => [Good]_vars
  BY <1>1
<1> HIDE DEF Good
<1>3. Spec => [][Good]_vars
  BY <1>2, Invariance, PTL DEF Spec
<1>4. QED
  BY <1>3 DEF LockedPlanIsAccepted, Good

(* Taking an order never sells a protected unit: where an order whose        *)
(* balances are all locked took something, the safety stock is still         *)
(* unreserved on hand, for every setting of the three levels.                *)
THEOREM SafetyStockIsLeft == Spec => OrdersLeaveSafetyStock
<1> DEFINE Good == \A c \in Callers, k \in Keys :
                     /\ task[c].pc = "reserving" /\ task'[c] = Idle
                     /\ reservation[task[c].line].status = "none"
                     /\ reservation'[task[c].line].takes[k] > 0
                     => onHand'[k] - reserved'[k] >= SafetyStock(k)
<1>1. ASSUME Inv, Next PROVE Good
  <2> SUFFICES ASSUME NEW c \in Callers, NEW k \in Keys,
                      task[c].pc = "reserving", task'[c] = Idle,
                      reservation[task[c].line].status = "none",
                      reservation'[task[c].line].takes[k] > 0
               PROVE  onHand'[k] - reserved'[k] >= SafetyStock(k)
    OBVIOUS
  <2>1. PICK d \in Callers : Begin(d) \/ Continue(d)
    BY <1>1 DEF Next
  <2>2. d = c
    <3>1. task'[c] # task[c]
      BY DEF Idle
    <3>2. QED
      BY <1>1, <2>1, <3>1, OthersWait
  <2>3. PICK split \in SplitSettings : CommitReserve(c, split)
    BY <1>1, <2>1, <2>2, ReservingStep
  <2> DEFINE l     == task[c].line
             takes == takesFor(Recipe[l], Plan(l, split), Keys)
             row   == Recorded(task[c].mode, takes, Plan(l, split).shortage)
  <2>4. l \in Lines /\ task[c].mode \in Modes /\ reservation \in [Lines -> ReservationRows]
    BY <1>1, TaskShapes DEF Inv, StateTypes
  <2>5. /\ takes \in [Keys -> Nat] /\ Plan(l, split).shortage \in Nat
        /\ \A j \in Keys : takes[j] <= onHand[j] - reserved[j]
        /\ takes[k] <= availableByItem[k]
    BY <1>1, <2>4, PlanIsCovered
  <2>6. Record(l, row)
    BY <2>3 DEF CommitReserve
  <2> HIDE DEF takes
  <2>7. Accepted(row) /\ row.takes = takes /\ row.mode = task[c].mode
    BY <1>1, <2>4, <2>5, CoveredIsAccepted, RecordedTypes
  <2>8. row.entry # NoEntry <=> (row.mode = "consume_immediately" /\ Touched(takes) # {})
    BY <1>1 DEF Recorded, NoEntry, Inv, StateTypes
  <2> HIDE DEF row, l
  <2>9. /\ reservation'[l].takes = takes
        /\ IF row.entry # NoEntry
           THEN /\ postMovements("shipment", Negated(takes), NoEntry, l)
                /\ UNCHANGED reserved
           ELSE /\ IF row.mode = "consume_immediately" THEN UNCHANGED reserved
                   ELSE addReserved(takes)
                /\ UNCHANGED <<onHand, rows, ledger>>
    BY <2>4, <2>6, <2>7 DEF Record, LineTaken, l
  <2>10. takes[k] > 0 /\ Touched(takes) # {}
    BY <2>5, <2>9 DEF Touched, l
  <2>11. /\ onHand[k] \in Nat /\ reserved[k] \in Nat /\ takes[k] \in Nat
         /\ SafetyStock(k) \in Nat
    BY <1>1, <2>5, SafetyStockType DEF Inv, StateTypes
  <2>12. takes[k] <= onHand[k] - reserved[k] - SafetyStock(k)
    BY <2>5, <2>10, <2>11 DEF availableByItem, availableToSellAtLocation, NonNegative
  <2>13. onHand'[k] - reserved'[k] = onHand[k] - reserved[k] - takes[k]
    <3>1. CASE row.entry # NoEntry
      <4>1. onHand'[k] = onHand[k] + Negated(takes)[k] /\ reserved'[k] = reserved[k]
        BY <2>9, <3>1 DEF postMovements
      <4>2. Negated(takes)[k] = -takes[k]
        BY DEF Negated
      <4>3. QED
        BY <2>11, <4>1, <4>2
    <3>2. CASE row.entry = NoEntry
      <4>1. addReserved(takes) /\ onHand' = onHand
        BY <2>8, <2>9, <2>10, <3>2
      <4>2. reserved'[k] = reserved[k] + takes[k]
        BY <4>1 DEF addReserved
      <4>3. QED
        BY <2>11, <4>1, <4>2
    <3>3. QED
      BY <3>1, <3>2
  <2>14. QED
    BY <2>11, <2>12, <2>13, SafetyStockType
<1>2. Inv /\ [Next]_vars => [Good]_vars
  BY <1>1
<1> HIDE DEF Good
<1>3. Spec => [][Good]_vars
  BY <1>2, Invariance, PTL DEF Spec
<1>4. QED
  BY <1>3 DEF OrdersLeaveSafetyStock, Good

-------------------------------------------------------------------------------
(* The ledger.                                                               *)

\* What the postings of a ledger move, entry by entry.
Terms(book, k, L) ==
  [i \in DOMAIN book |-> IF book[i].line \in L THEN book[i].delta[k] ELSE 0]

(* A posting adds its own movement to what the ledger explains.              *)
LEMMA AppendMoves ==
  ASSUME NEW book \in Seq(Postings), NEW e \in Postings, NEW k \in Keys, NEW L
  PROVE  /\ SumFunction(Terms(book, k, L)) \in Int
         /\ SumFunction(Terms(Append(book, e), k, L)) =
              SumFunction(Terms(book, k, L)) + (IF e.line \in L THEN e.delta[k] ELSE 0)
<1> DEFINE n == Len(book)
           f == Terms(book, k, L)
           g == Terms(Append(book, e), k, L)
<1>1. n \in Nat /\ DOMAIN book = 1..n /\ DOMAIN Append(book, e) = 1..(n + 1)
  OBVIOUS
<1>2. /\ \A i \in 1..n : Append(book, e)[i] = book[i]
      /\ Append(book, e)[n + 1] = e
  OBVIOUS
<1>3. \A p \in Postings : p.delta[k] \in Int
  BY DEF Postings
<1>4. DOMAIN f = 1..n /\ \A i \in 1..n : f[i] \in Int
  BY <1>1, <1>3 DEF Terms
<1>5. /\ DOMAIN g = 1..(n + 1)
      /\ g[n + 1] = IF e.line \in L THEN e.delta[k] ELSE 0
      /\ \A i \in 1..n : g[i] = f[i]
  BY <1>1, <1>2 DEF Terms
<1>6. g[n + 1] \in Int
  BY <1>3, <1>5
<1> HIDE DEF f, g, n
<1>7. \A i \in 1..(n + 1) : g[i] \in Int
  BY <1>1, <1>4, <1>5, <1>6
<1>8. /\ IsFiniteSet(1..n) /\ IsFiniteSet(1..(n + 1))
      /\ n + 1 \in 1..(n + 1) /\ (1..(n + 1)) \ {n + 1} = 1..n
  <2>1. IsFiniteSet(1..n) /\ IsFiniteSet(1..(n + 1))
    <3>1. 1 \in Int /\ n \in Int /\ n + 1 \in Int
      BY <1>1
    <3>2. QED
      BY <3>1, FS_Interval
  <2>2. n + 1 \in 1..(n + 1) /\ (1..(n + 1)) \ {n + 1} = 1..n
    BY <1>1
  <2>3. QED
    BY <2>1, <2>2
<1>9. SumFunctionOnSet(g, 1..(n + 1)) = g[n + 1] + SumFunctionOnSet(g, 1..n)
  <2> DEFINE S == 1..(n + 1)
  <2>1. SumFunctionOnSet(g, S) = g[n + 1] + SumFunctionOnSet(g, S \ {n + 1})
    <3>1. IsFiniteSet(S) /\ n + 1 \in S /\ \A i \in S : g[i] \in Int
      BY <1>7, <1>8
    <3> HIDE DEF S
    <3>2. QED
      BY <3>1, SumTakeOut
  <2>2. QED
    BY <1>8, <2>1, Zenon
<1>10. SumFunctionOnSet(g, 1..n) = SumFunctionOnSet(f, 1..n)
  BY <1>5, <1>8, SumAgrees
<1>11. SumFunctionOnSet(f, 1..n) \in Int
  BY <1>4, <1>8, SumType
<1>12. SumFunction(f) = SumFunctionOnSet(f, 1..n) /\ SumFunction(g) = SumFunctionOnSet(g, 1..(n + 1))
  BY <1>4, <1>5 DEF SumFunction
<1>13. QED
  BY <1>5, <1>6, <1>9, <1>10, <1>11, <1>12 DEF f, g

\* A step writes at most one posting, and the balances move by what it says.
Posts(kind, delta, reverses, line) ==
  /\ ledger' = Append(ledger, [kind |-> kind, delta |-> delta, reverses |-> reverses, line |-> line])
  /\ onHand' = [k \in Keys |-> onHand[k] + delta[k]]

LEMMA PostingOfAStep ==
  ASSUME Inv, NEW c \in Callers, Begin(c) \/ Continue(c)
  PROVE  \/ UNCHANGED <<onHand, ledger>>
         \/ \E kind, delta, reverses, line : Posts(kind, delta, reverses, line)
<1>1. ASSUME NEW kind, NEW delta, NEW reverses, NEW line, postMovements(kind, delta, reverses, line)
      PROVE  Posts(kind, delta, reverses, line)
  BY <1>1 DEF postMovements, Posts
<1>2. CASE Begin(c)
  <2>1. CASE \E k \in Keys, change \in Changes : applyAdjustment(c, k, change)
    BY <1>1, <2>1, Zenon DEF applyAdjustment
  <2>2. CASE \E item \in Items, from, to \in Locations, n \in TransferQuantities :
               transferStock(c, item, from, to, n)
    BY <1>1, <2>2, Zenon DEF transferStock
  <2>3. QED
    BY <1>2, <2>1, <2>2, Zenon DEF Begin, AdjustAbsentRow, reverseEntry, reserve, fulfillReservation,
       releaseReservation, ReadRow, switchConsumptionMode, stock
<1>3. CASE Continue(c)
  <2>1. CASE PostAbsentRow(c)
    BY <1>1, <2>1, Zenon DEF PostAbsentRow
  <2>2. CASE PostReversal(c)
    BY <1>1, <2>2, Zenon DEF PostReversal
  <2>3. ASSUME NEW l, NEW row, Record(l, row)
        PROVE  UNCHANGED <<onHand, ledger>> \/ \E kind, delta, reverses, line : Posts(kind, delta, reverses, line)
    BY <1>1, <2>3, Zenon DEF Record, stock
  <2>4. CASE CommitPlan(c) \/ \E split \in SplitSettings : CommitReserve(c, split)
    BY <2>3, <2>4, Zenon DEF CommitPlan, CommitReserve
  <2>5. CASE CommitFulfill(c)
    BY <1>1, <2>5, Zenon DEF CommitFulfill, Abandon, stock
  <2>6. CASE CommitRelease(c)
    BY <1>1, <2>6, Zenon DEF CommitRelease, Abandon, stock
  <2>7. CASE CommitMigrate(c)
    BY <1>1, <2>7, Zenon DEF CommitMigrate, Abandon, stock
  <2>8. QED
    BY <1>3, <2>1, <2>2, <2>4, <2>5, <2>6, <2>7, Zenon DEF Continue, PlanUnlocked, LockExistingRows,
       ReadAllocations, ListOpen, migrateReservation, ReadRow, SaveMode, stock
<1>4. QED
  BY <1>2, <1>3

(* A posting that is written has the type of the ledger's postings.          *)
LEMMA PostedIsTyped ==
  ASSUME ledger \in Seq(Postings), ledger' \in Seq(Postings), NEW e, ledger' = Append(ledger, e)
  PROVE  e \in Postings
<1>1. Len(ledger) \in Nat /\ Len(ledger) + 1 \in DOMAIN ledger' /\ ledger'[Len(ledger) + 1] = e
  OBVIOUS
<1>2. QED
  BY <1>1

(* The balance is what replaying the ledger gives, for every history of      *)
(* every number of callers: no transaction changes one without the other.    *)
THEOREM LedgerExplains == Spec => []LedgerExplainsOnHand
<1> DEFINE L == Lines \cup {NoLine}
<1>1. Inv /\ Init => LedgerExplainsOnHand
  <2> SUFFICES ASSUME Inv, Init, NEW k \in Keys PROVE onHand[k] = Moved(k, L)
    BY DEF LedgerExplainsOnHand
  <2> DEFINE e == [kind |-> "adjustment", delta |-> Opening, reverses |-> NoEntry, line |-> NoLine]
  <2>1. ledger = Append(<<>>, e) /\ <<>> \in Seq(Postings)
    BY DEF Init
  <2>2. e \in Postings
    BY <2>1, PostedIsTyped, ReservationConstants DEF Postings, NoEntry
  <2>3. SumFunction(Terms(<<>>, k, L)) = 0
    <3>1. DOMAIN Terms(<<>>, k, L) = {}
      BY DEF Terms
    <3>2. QED
      BY <3>1, SumEmpty DEF SumFunction
  <2>4. e.line \in L /\ e.delta[k] = onHand[k] /\ onHand[k] \in Nat
    BY DEF Init, Inv, StateTypes
  <2>5. SumFunction(Terms(ledger, k, L)) = 0 + e.delta[k]
    <3> HIDE DEF e
    <3>1. QED
      BY <2>1, <2>2, <2>3, <2>4, AppendMoves
  <2>6. Moved(k, L) = SumFunction(Terms(ledger, k, L))
    BY DEF Moved, Terms
  <2>7. QED
    BY <2>4, <2>5, <2>6
<1>2. Inv /\ Inv' /\ LedgerExplainsOnHand /\ [Next]_vars => LedgerExplainsOnHand'
  <2> SUFFICES ASSUME Inv, Inv', LedgerExplainsOnHand, [Next]_vars, NEW k \in Keys
               PROVE  onHand'[k] = Moved(k, L)'
    BY DEF LedgerExplainsOnHand
  <2>1. onHand[k] = SumFunction(Terms(ledger, k, L)) /\ Moved(k, L)' = SumFunction(Terms(ledger', k, L))
    BY DEF LedgerExplainsOnHand, Moved, Terms
  <2>2. \/ UNCHANGED <<onHand, ledger>>
        \/ \E kind, delta, reverses, line : Posts(kind, delta, reverses, line)
    BY PostingOfAStep DEF Next, vars, stock
  <2>3. CASE UNCHANGED <<onHand, ledger>>
    BY <2>1, <2>3
  <2>4. ASSUME NEW kind, NEW delta, NEW reverses, NEW line, Posts(kind, delta, reverses, line)
        PROVE  onHand'[k] = Moved(k, L)'
    <3> DEFINE e == [kind |-> kind, delta |-> delta, reverses |-> reverses, line |-> line]
    <3>1. ledger' = Append(ledger, e) /\ onHand'[k] = onHand[k] + e.delta[k]
      BY <2>4 DEF Posts
    <3> HIDE DEF e
    <3>2. e \in Postings
      BY <3>1, PostedIsTyped DEF Inv, StateTypes
    <3>3. e.line \in L
      BY <3>2 DEF Postings
    <3>4. SumFunction(Terms(ledger', k, L)) = SumFunction(Terms(ledger, k, L)) + e.delta[k]
      BY <3>1, <3>2, <3>3, AppendMoves DEF Inv, StateTypes
    <3>5. QED
      BY <2>1, <3>1, <3>4
  <2>5. QED
    BY <2>2, <2>3, <2>4
<1>3. QED
  BY <1>1, <1>2, InitInv, Invariance, PTL DEF Spec

-------------------------------------------------------------------------------
(* One caller at a time on a line.                                           *)

Working(c) == task[c].pc \in {"reserving", "rows_locked", "planned", "row_read", "allocations_read"}

\* What a caller has read of its line is what the line's row says now.
Current(c) ==
  LET row == reservation[task[c].line]
  IN  /\ task[c].pc \in {"reserving", "rows_locked", "planned"} => row.status = "none"
      /\ task[c].pc \in {"row_read", "allocations_read"} =>
           task[c].status = row.status /\ task[c].mode = row.mode
      /\ task[c].pc = "allocations_read" => task[c].entry = row.entry

\* Units consumed at once have the entry that consumed them.
HasEntry(row) ==
  row.status = "open" /\ row.mode = "consume_immediately" /\ row.entry = NoEntry =>
    Touched(row.takes) = {}

Known(l) == reservation[l].status # "none"

\* A line that was read has a reservation, and so has one that was crossed.
RowsRead ==
  \A c \in Callers : task[c].pc \in {"row_read", "allocations_read"} => Known(task[c].line)
CrossedAreKnown == \A l \in crossed : l \in Lines /\ Known(l)

\* Off the crossed lines, one caller works on a line and has read what is there.
OneCallerPerLine ==
  \A c, d \in Callers :
    c # d /\ Working(c) /\ Working(d) /\ task[c].line = task[d].line => task[c].line \in crossed
ReadIsCurrent == \A c \in Callers : Working(c) => Current(c) \/ task[c].line \in crossed
ConsumedHasEntry == \A l \in Lines \ crossed : HasEntry(reservation[l])

TurnInv ==
  /\ Inv /\ RowsRead /\ CrossedAreKnown
  /\ OneCallerPerLine /\ ReadIsCurrent /\ ConsumedHasEntry /\ ReservedIsCommitted

\* The step of a caller that rewrites the row of its line: reserved follows what the row
\* holds, and the ledger what has gone for it.
Rewrite(c, row) ==
  LET l   == task[c].line
      old == reservation[l]
  IN  /\ Working(c) /\ l \notin crossed
      /\ row \in ReservationRows /\ row.status # "none" /\ HasEntry(row)
      /\ reservation' = [reservation EXCEPT ![l] = row]
      /\ \A k \in Undisturbed : reserved'[k] = reserved[k] + (HeldBy(row, k) - HeldBy(old, k))
      /\ \/ ledger' = ledger /\ \A k \in Keys : GoneFor(row, k) = GoneFor(old, k)
         \/ \E e : /\ ledger' = Append(ledger, e) /\ e.line = l
                   /\ \A k \in Keys : e.delta[k] = GoneFor(old, k) - GoneFor(row, k)

\* The step of a caller whose line was crossed: whatever it goes by, it stays off the units
\* of other lines.
Stray(c) ==
  LET l == task[c].line
  IN  /\ Working(c) /\ l \in crossed
      /\ \E row \in ReservationRows : /\ row.takes = reservation[l].takes /\ row.status # "none"
                                      /\ reservation' = [reservation EXCEPT ![l] = row]
      /\ \A k \in Keys : reservation[l].takes[k] = 0 => reserved'[k] = reserved[k]
      /\ ledger' = ledger \/ \E e : ledger' = Append(ledger, e) /\ e.line = l

\* Every other step leaves the rows and the ledger of the lines alone.
Quiet ==
  /\ UNCHANGED <<reserved, reservation>>
  /\ ledger' = ledger \/ \E e : ledger' = Append(ledger, e) /\ e.line \notin Lines

LEMMA RowTypes ==
  ASSUME NEW row \in ReservationRows, NEW k \in Keys
  PROVE  /\ row.takes[k] \in Nat /\ HeldBy(row, k) \in Nat /\ GoneFor(row, k) \in Nat
         /\ row.mode \in Modes /\ row.status \in Statuses
         /\ HeldBy(row, k) <= row.takes[k]
         /\ Touched(row.takes) = {} => row.takes[k] = 0
<1>1. row.takes[k] \in Nat /\ row.mode \in Modes /\ row.status \in Statuses
  BY DEF ReservationRows
<1>2. Touched(row.takes) = {} => row.takes[k] = 0
  BY <1>1 DEF Touched
<1>3. QED
  BY <1>1, <1>2 DEF HeldBy, GoneFor

(* What is held for one line is among what is reserved.                      *)
LEMMA HeldIsReserved ==
  ASSUME TurnInv, NEW l \in Lines, NEW k \in Undisturbed
  PROVE  HeldBy(reservation[l], k) <= reserved[k]
<1> DEFINE f == [m \in Lines |-> HeldBy(reservation[m], k)]
<1>1. \A m \in Lines : reservation[m] \in ReservationRows
  BY DEF TurnInv, Inv, StateTypes
<1>2. \A m \in Lines : f[m] \in Nat
  BY <1>1, RowTypes DEF Undisturbed
<1>3. IsFiniteSet(Lines)
  BY ReservationConstants
<1>4. DOMAIN f = Lines /\ f[l] = HeldBy(reservation[l], k) /\ reserved[k] = SumFunction(f)
  BY DEF TurnInv, ReservedIsCommitted
<1> HIDE DEF f
<1>5. f[l] <= SumFunctionOnSet(f, Lines)
  BY <1>2, <1>3, SumOfNaturals
<1>6. QED
  BY <1>4, <1>5 DEF SumFunction

(* Recording a line: it had no units before.                                 *)
LEMMA RecordStep ==
  ASSUME TurnInv, NEW c \in Callers, task[c].pc \in {"reserving", "planned"}, NEW m \in Modes,
         task[c].line \notin crossed,
         NEW takes \in [Keys -> Nat], NEW shortage \in Nat,
         Record(task[c].line, Recorded(m, takes, shortage))
  PROVE  UNCHANGED <<stock, reservation>> \/ Rewrite(c, Recorded(m, takes, shortage))
<1> DEFINE l   == task[c].line
           old == reservation[l]
           row == Recorded(m, takes, shortage)
<1>1. Inv /\ l \in Lines /\ old \in ReservationRows /\ old.status = "none"
  BY TaskShapes DEF TurnInv, ReadIsCurrent, Current, Working, Inv, StateTypes
<1>2. row \in ReservationRows /\ row.takes = takes /\ row.mode = m /\ row.status = "open"
  BY <1>1, RecordedTypes DEF Recorded
<1>3. row.entry # NoEntry <=> (m = "consume_immediately" /\ Touched(takes) # {})
  BY <1>1 DEF Recorded, NoEntry, Inv, StateTypes
<1> HIDE DEF row
<1>4. HasEntry(row) /\ row.status # "none" /\ Working(c)
  BY <1>2, <1>3 DEF HasEntry, Working
<1>5. \A k \in Keys : /\ HeldBy(old, k) = 0 /\ GoneFor(old, k) = 0
                      /\ reserved[k] \in Nat /\ takes[k] \in Nat
  BY <1>1 DEF HeldBy, GoneFor, Inv, StateTypes
<1> Undisturbed \subseteq Keys
  BY DEF Undisturbed
<1>6. ASSUME ~ UNCHANGED <<stock, reservation>> PROVE Rewrite(c, row)
  <2>1. /\ reservation' = [reservation EXCEPT ![l] = row]
        /\ IF row.entry # NoEntry
           THEN /\ postMovements("shipment", Negated(row.takes), NoEntry, l)
                /\ UNCHANGED reserved
           ELSE /\ IF row.mode = "consume_immediately" THEN UNCHANGED reserved
                   ELSE addReserved(row.takes)
                /\ UNCHANGED <<onHand, rows, ledger>>
    BY <1>6 DEF Record, row
  <2>2. CASE m = "consume_immediately"
    <3>1. UNCHANGED reserved /\ \A k \in Keys : HeldBy(row, k) = 0 /\ GoneFor(row, k) = takes[k]
      BY <1>2, <2>1, <2>2 DEF HeldBy, GoneFor
    <3>2. \A k \in Undisturbed : reserved'[k] = reserved[k] + (HeldBy(row, k) - HeldBy(old, k))
      BY <1>5, <3>1
    <3>3. CASE row.entry # NoEntry
      <4> DEFINE e == [kind |-> "shipment", delta |-> Negated(takes), reverses |-> NoEntry, line |-> l]
      <4>1. ledger' = Append(ledger, e)
        BY <1>2, <2>1, <3>3 DEF postMovements
      <4>2. e.line = l /\ \A k \in Keys : e.delta[k] = GoneFor(old, k) - GoneFor(row, k)
        BY <1>5, <3>1 DEF Negated
      <4> HIDE DEF e
      <4>3. QED
        BY <1>2, <1>4, <2>1, <3>2, <4>1, <4>2 DEF Rewrite
    <3>4. CASE row.entry = NoEntry
      <4>1. ledger' = ledger /\ Touched(takes) = {}
        BY <1>3, <2>1, <2>2, <3>4
      <4>2. \A k \in Keys : GoneFor(row, k) = GoneFor(old, k)
        BY <1>5, <3>1, <4>1 DEF Touched
      <4>3. QED
        BY <1>2, <1>4, <2>1, <3>2, <4>1, <4>2 DEF Rewrite
    <3>5. QED
      BY <3>3, <3>4
  <2>3. CASE m = "reserve_until_fulfilled"
    <3>1. \A k \in Keys : HeldBy(row, k) = takes[k] /\ GoneFor(row, k) = 0
      BY <1>2, <2>3 DEF HeldBy, GoneFor
    <3>2. row.entry = NoEntry
      BY <1>3, <2>3
    <3>3. addReserved(takes) /\ ledger' = ledger
      BY <1>2, <2>1, <2>3, <3>2
    <3>4. \A k \in Undisturbed : reserved'[k] = reserved[k] + (HeldBy(row, k) - HeldBy(old, k))
      BY <1>5, <3>1, <3>3 DEF addReserved
    <3>5. \A k \in Keys : GoneFor(row, k) = GoneFor(old, k)
      BY <1>5, <3>1
    <3>6. QED
      BY <1>2, <1>4, <2>1, <3>3, <3>4, <3>5 DEF Rewrite
  <2>4. QED
    BY <2>2, <2>3 DEF Modes
<1>7. QED
  BY <1>6 DEF row

(* What a caller under its locks goes by is what the row of its line says.   *)
LEMMA ResolvingShapes ==
  ASSUME TurnInv, NEW c \in Callers, task[c].pc = "allocations_read", FoundOpen(c),
         task[c].line \notin crossed
  PROVE  LET old == reservation[task[c].line]
         IN  /\ Working(c) /\ task[c].line \in Lines /\ task[c].to \in Modes
             /\ old \in ReservationRows /\ old.status = "open"
             /\ old.mode = task[c].mode /\ old.entry = task[c].entry
             /\ HasEntry(old) /\ Takes(c) = old.takes
<1>1. task[c].line \in Lines /\ task[c].to \in Modes /\ reservation[task[c].line] \in ReservationRows
  BY TaskShapes DEF TurnInv
<1>2. Current(c) /\ HasEntry(reservation[task[c].line])
  BY <1>1 DEF TurnInv, ReadIsCurrent, ConsumedHasEntry, Working
<1>3. QED
  BY <1>1, <1>2 DEF Current, FoundOpen, Working, Takes

\* The two ways to rewrite a row.
WithStatus(old, s) == [old EXCEPT !.status = s]
WithMode(old, m, e) == [old EXCEPT !.mode = m, !.entry = e]

LEMMA RewrittenRows ==
  ASSUME TurnInv, NEW c \in Callers, task[c].pc = "allocations_read"
  PROVE  LET l == task[c].line
             old == reservation[l]
         IN  /\ \A s \in Statuses :
                  /\ WithStatus(old, s) \in ReservationRows
                  /\ WithStatus(old, s).status = s /\ WithStatus(old, s).mode = old.mode
                  /\ WithStatus(old, s).takes = old.takes
                  /\ SetStatus(c, s) => reservation' = [reservation EXCEPT ![l] = WithStatus(old, s)]
             /\ \A m \in Modes, e \in Nat :
                  /\ WithMode(old, m, e) \in ReservationRows
                  /\ WithMode(old, m, e).status = old.status /\ WithMode(old, m, e).mode = m
                  /\ WithMode(old, m, e).takes = old.takes /\ WithMode(old, m, e).entry = e
             /\ \A e \in Nat : SetMode(c, e) =>
                  reservation' = [reservation EXCEPT ![l] = WithMode(old, task[c].to, e)]
<1>1. task[c].line \in Lines /\ reservation[task[c].line] \in ReservationRows
  BY TaskShapes DEF TurnInv
<1>2. reservation \in [Lines -> ReservationRows]
  BY DEF TurnInv, Inv, StateTypes
<1>3. QED
  BY <1>1, <1>2 DEF WithStatus, WithMode, SetStatus, SetMode, ReservationRows

(* Freeing what a line holds takes exactly that off what is reserved.        *)
LEMMA ReleaseIsExact ==
  ASSUME TurnInv, NEW l \in Lines, reservation[l].status = "open",
         reservation[l].mode = "reserve_until_fulfilled", releaseReserved(reservation[l].takes)
  PROVE  \A k \in Undisturbed : reserved'[k] = reserved[k] - reservation[l].takes[k]
<1> SUFFICES ASSUME NEW k \in Undisturbed PROVE reserved'[k] = reserved[k] - reservation[l].takes[k]
  OBVIOUS
<1>0. k \in Keys
  BY DEF Undisturbed
<1>1. reservation[l] \in ReservationRows /\ reserved[k] \in Nat
  BY <1>0 DEF TurnInv, Inv, StateTypes
<1>2. reservation[l].takes[k] \in Nat /\ HeldBy(reservation[l], k) = reservation[l].takes[k]
  BY <1>0, <1>1, RowTypes DEF HeldBy
<1>3. reservation[l].takes[k] <= reserved[k]
  BY <1>2, HeldIsReserved
<1>4. QED
  BY <1>0, <1>1, <1>2, <1>3 DEF releaseReserved, NonNegative

\* What an accepted movement for a line leaves in the ledger.
LEMMA LinePosting ==
  ASSUME NEW kind, NEW delta, NEW reverses, NEW l, postMovements(kind, delta, reverses, l)
  PROVE  \E e : ledger' = Append(ledger, e) /\ e.line = l /\ e.delta = delta
<1> DEFINE e == [kind |-> kind, delta |-> delta, reverses |-> reverses, line |-> l]
<1>1. ledger' = Append(ledger, e) /\ e.line = l /\ e.delta = delta
  BY DEF postMovements
<1>2. QED
  BY <1>1

(* Shipping: held units leave, consumed ones have left.                      *)
LEMMA FulfillStep ==
  ASSUME TurnInv, NEW c \in Callers, CommitFulfill(c), task[c].line \notin crossed
  PROVE  UNCHANGED <<stock, reservation>> \/ \E row \in ReservationRows : Rewrite(c, row)
<1> Undisturbed \subseteq Keys
  BY DEF Undisturbed
<1> DEFINE l   == task[c].line
           old == reservation[l]
           row == WithStatus(old, "consumed")
<1>1. task[c].pc = "allocations_read"
  BY DEF CommitFulfill, Resolving
<1>2. CASE ~ FoundOpen(c)
  BY <1>2 DEF CommitFulfill, Abandon
<1>3. CASE FoundOpen(c)
  <2>1. /\ Working(c) /\ l \in Lines /\ old \in ReservationRows /\ old.status = "open"
        /\ old.mode = task[c].mode /\ Takes(c) = old.takes
    BY <1>1, <1>3, ResolvingShapes
  <2>2. /\ row \in ReservationRows /\ row.status = "consumed" /\ row.takes = old.takes
        /\ SetStatus(c, "consumed") => reservation' = [reservation EXCEPT ![l] = row]
    BY <1>1, RewrittenRows DEF Statuses
  <2>3. \A k \in Keys : old.takes[k] \in Nat /\ reserved[k] \in Nat
    BY <2>1, RowTypes DEF TurnInv, Inv, StateTypes
  <2> HIDE DEF row
  <2>4. HasEntry(row) /\ \A k \in Keys : HeldBy(row, k) = 0 /\ GoneFor(row, k) = old.takes[k]
    BY <2>2 DEF HasEntry, HeldBy, GoneFor
  <2>5. CASE Abandon(c)
    BY <2>5 DEF Abandon
  <2>6. CASE /\ old.mode = "reserve_until_fulfilled"
             /\ postMovements("shipment", Negated(old.takes), NoEntry, l)
             /\ releaseReserved(old.takes) /\ SetStatus(c, "consumed")
    <3>1. \A k \in Keys : HeldBy(old, k) = old.takes[k] /\ GoneFor(old, k) = 0
      BY <2>1, <2>6 DEF HeldBy, GoneFor
    <3>2. \A k \in Undisturbed : reserved'[k] = reserved[k] + (HeldBy(row, k) - HeldBy(old, k))
      BY <2>1, <2>3, <2>4, <2>6, <3>1, ReleaseIsExact
    <3>3. PICK e : ledger' = Append(ledger, e) /\ e.line = l /\ e.delta = Negated(old.takes)
      BY <2>6, LinePosting
    <3>4. \A k \in Keys : e.delta[k] = GoneFor(old, k) - GoneFor(row, k)
      BY <2>3, <2>4, <3>1, <3>3 DEF Negated
    <3>5. QED
      BY <2>1, <2>2, <2>4, <2>6, <3>2, <3>3, <3>4 DEF Rewrite
  <2>7. CASE /\ old.mode # "reserve_until_fulfilled" \/ Touched(old.takes) = {}
             /\ SetStatus(c, "consumed") /\ UNCHANGED stock
    <3>1. \A k \in Keys : HeldBy(old, k) = 0 /\ GoneFor(old, k) = old.takes[k]
      BY <2>1, <2>3, <2>7 DEF HeldBy, GoneFor, Touched, Modes, ReservationRows
    <3>2. \A k \in Undisturbed : reserved'[k] = reserved[k] + (HeldBy(row, k) - HeldBy(old, k))
      BY <2>3, <2>4, <2>7, <3>1 DEF stock
    <3>3. ledger' = ledger /\ \A k \in Keys : GoneFor(row, k) = GoneFor(old, k)
      BY <2>4, <2>7, <3>1 DEF stock
    <3>4. QED
      BY <2>1, <2>2, <2>4, <2>7, <3>2, <3>3 DEF Rewrite
  <2>8. QED
    BY <1>3, <2>1, <2>5, <2>6, <2>7 DEF CommitFulfill
<1>4. QED
  BY <1>2, <1>3

(* Cancelling: what has left comes back, or what is held is freed.           *)
LEMMA ReleaseStep ==
  ASSUME TurnInv, NEW c \in Callers, CommitRelease(c), task[c].line \notin crossed
  PROVE  UNCHANGED <<stock, reservation>> \/ \E row \in ReservationRows : Rewrite(c, row)
<1> Undisturbed \subseteq Keys
  BY DEF Undisturbed
<1> DEFINE l   == task[c].line
           old == reservation[l]
           row == WithStatus(old, "released")
<1>1. task[c].pc = "allocations_read"
  BY DEF CommitRelease, Resolving
<1>2. CASE ~ FoundOpen(c)
  BY <1>2 DEF CommitRelease, Abandon
<1>3. CASE FoundOpen(c)
  <2>1. /\ Working(c) /\ l \in Lines /\ old \in ReservationRows /\ old.status = "open"
        /\ old.mode = task[c].mode /\ old.entry = task[c].entry /\ HasEntry(old) /\ Takes(c) = old.takes
    BY <1>1, <1>3, ResolvingShapes
  <2>2. /\ row \in ReservationRows /\ row.status = "released" /\ row.takes = old.takes
        /\ SetStatus(c, "released") => reservation' = [reservation EXCEPT ![l] = row]
    BY <1>1, RewrittenRows DEF Statuses
  <2>3. \A k \in Keys : old.takes[k] \in Nat /\ reserved[k] \in Nat
    BY <2>1, RowTypes DEF TurnInv, Inv, StateTypes
  <2> HIDE DEF row
  <2>4. HasEntry(row) /\ \A k \in Keys : HeldBy(row, k) = 0 /\ GoneFor(row, k) = 0
    BY <2>2 DEF HasEntry, HeldBy, GoneFor
  <2>5. /\ SetStatus(c, "released")
        /\ \/ /\ old.mode = "consume_immediately" /\ UNCHANGED reserved
              /\ \/ old.entry # NoEntry /\ postMovements("reversal", old.takes, old.entry, l)
                 \/ old.entry = NoEntry /\ UNCHANGED <<onHand, rows, ledger>>
           \/ /\ old.mode # "consume_immediately" /\ releaseReserved(old.takes)
              /\ UNCHANGED <<onHand, rows, ledger>>
    BY <1>3, <2>1 DEF CommitRelease
  <2>6. CASE old.mode = "consume_immediately"
    <3>1. \A k \in Keys : HeldBy(old, k) = 0 /\ GoneFor(old, k) = old.takes[k]
      BY <2>1, <2>6 DEF HeldBy, GoneFor
    <3>2. \A k \in Undisturbed : reserved'[k] = reserved[k] + (HeldBy(row, k) - HeldBy(old, k))
      BY <2>3, <2>4, <2>5, <2>6, <3>1
    <3>3. CASE old.entry # NoEntry
      <4>1. PICK e : ledger' = Append(ledger, e) /\ e.line = l /\ e.delta = old.takes
        BY <2>5, <2>6, <3>3, LinePosting
      <4>2. \A k \in Keys : e.delta[k] = GoneFor(old, k) - GoneFor(row, k)
        BY <2>3, <2>4, <3>1, <4>1
      <4>3. QED
        BY <2>1, <2>2, <2>4, <2>5, <3>2, <4>1, <4>2 DEF Rewrite
    <3>4. CASE old.entry = NoEntry
      <4>1. ledger' = ledger /\ Touched(old.takes) = {}
        BY <2>1, <2>5, <2>6, <3>4 DEF HasEntry
      <4>2. \A k \in Keys : GoneFor(row, k) = GoneFor(old, k)
        BY <2>3, <2>4, <3>1, <4>1 DEF Touched
      <4>3. QED
        BY <2>1, <2>2, <2>4, <2>5, <3>2, <4>1, <4>2 DEF Rewrite
    <3>5. QED
      BY <3>3, <3>4
  <2>7. CASE old.mode = "reserve_until_fulfilled"
    <3>1. \A k \in Keys : HeldBy(old, k) = old.takes[k] /\ GoneFor(old, k) = 0
      BY <2>1, <2>7 DEF HeldBy, GoneFor
    <3>2. \A k \in Undisturbed : reserved'[k] = reserved[k] + (HeldBy(row, k) - HeldBy(old, k))
      BY <2>1, <2>3, <2>4, <2>5, <2>7, <3>1, ReleaseIsExact
    <3>3. ledger' = ledger /\ \A k \in Keys : GoneFor(row, k) = GoneFor(old, k)
      BY <2>4, <2>5, <2>7, <3>1
    <3>4. QED
      BY <2>1, <2>2, <2>4, <2>5, <3>2, <3>3 DEF Rewrite
  <2>8. QED
    BY <2>1, <2>6, <2>7 DEF ReservationRows, Modes
<1>4. QED
  BY <1>2, <1>3

(* Moving to the other mode: held units become gone, or gone ones held.      *)
LEMMA MigrateStep ==
  ASSUME TurnInv, NEW c \in Callers, CommitMigrate(c), task[c].line \notin crossed
  PROVE  UNCHANGED <<stock, reservation>> \/ \E row \in ReservationRows : Rewrite(c, row)
<1> Undisturbed \subseteq Keys
  BY DEF Undisturbed
<1> DEFINE l   == task[c].line
           old == reservation[l]
           row(e) == WithMode(old, task[c].to, e)
<1>1. task[c].pc = "allocations_read"
  BY DEF CommitMigrate, Resolving
<1>2. CASE ~ FoundOpen(c)
  BY <1>2 DEF CommitMigrate, Abandon
<1>3. CASE FoundOpen(c)
  <2>1. /\ Working(c) /\ l \in Lines /\ old \in ReservationRows /\ old.status = "open"
        /\ old.mode = task[c].mode /\ old.entry = task[c].entry /\ HasEntry(old) /\ Takes(c) = old.takes
        /\ task[c].to \in Modes
    BY <1>1, <1>3, ResolvingShapes
  <2>2. \A e \in Nat : /\ row(e) \in ReservationRows /\ row(e).status = "open"
                       /\ row(e).takes = old.takes /\ row(e).mode = task[c].to /\ row(e).entry = e
                       /\ SetMode(c, e) => reservation' = [reservation EXCEPT ![l] = row(e)]
    BY <1>1, <2>1, RewrittenRows
  <2>3. \A k \in Keys : old.takes[k] \in Nat /\ reserved[k] \in Nat
    BY <2>1, RowTypes DEF TurnInv, Inv, StateTypes
  <2>4. Len(ledger) + 1 \in Nat \ {0} /\ old.entry \in Nat /\ old.mode \in Modes
    BY <2>1 DEF TurnInv, Inv, StateTypes, ReservationRows
  <2> DEFINE Empty == Touched(old.takes) = {} /\ SetMode(c, old.entry) /\ UNCHANGED stock
             Consume == /\ old.mode # task[c].to /\ task[c].to = "consume_immediately"
                        /\ postMovements("shipment", Negated(old.takes), NoEntry, l)
                        /\ releaseReserved(old.takes) /\ SetMode(c, Len(ledger) + 1)
             Return == IF old.entry # NoEntry
                       THEN postMovements("reversal", old.takes, old.entry, l)
                       ELSE UNCHANGED <<onHand, rows, ledger>>
             Hold == /\ old.mode # task[c].to /\ task[c].to # "consume_immediately"
                     /\ Return /\ addReserved(old.takes) /\ SetMode(c, NoEntry)
  <2>5. UNCHANGED <<stock, reservation>> \/ Empty \/ Consume \/ Hold
    BY <2>1 DEF CommitMigrate, Abandon
  <2> HIDE DEF row
  <2>6. CASE Empty
    <3> DEFINE new == row(old.entry)
    <3>1. /\ new \in ReservationRows /\ new.status = "open" /\ new.takes = old.takes
          /\ reservation' = [reservation EXCEPT ![l] = new] /\ ledger' = ledger /\ reserved' = reserved
      BY <2>2, <2>4, <2>6 DEF stock
    <3> HIDE DEF new
    <3>2. HasEntry(new) /\ \A k \in Keys : /\ HeldBy(new, k) = 0 /\ HeldBy(old, k) = 0
                                           /\ GoneFor(new, k) = 0 /\ GoneFor(old, k) = 0
      BY <2>3, <2>6, <3>1 DEF HasEntry, HeldBy, GoneFor, Touched
    <3>3. \A k \in Undisturbed : reserved'[k] = reserved[k] + (HeldBy(new, k) - HeldBy(old, k))
      BY <2>3, <3>1, <3>2
    <3>4. QED
      BY <2>1, <3>1, <3>2, <3>3, ZenonT(60) DEF Rewrite
  <2>7. CASE Consume
    <3> DEFINE new == row(Len(ledger) + 1)
    <3>1. /\ new \in ReservationRows /\ new.status = "open" /\ new.takes = old.takes
          /\ new.mode = "consume_immediately" /\ new.entry # NoEntry
          /\ reservation' = [reservation EXCEPT ![l] = new]
          /\ old.mode = "reserve_until_fulfilled"
      BY <2>2, <2>4, <2>7 DEF NoEntry, Modes
    <3> HIDE DEF new
    <3>2. HasEntry(new) /\ \A k \in Keys : /\ HeldBy(new, k) = 0 /\ HeldBy(old, k) = old.takes[k]
                                           /\ GoneFor(new, k) = old.takes[k] /\ GoneFor(old, k) = 0
      BY <2>1, <3>1 DEF HasEntry, HeldBy, GoneFor
    <3>3. \A k \in Undisturbed : reserved'[k] = reserved[k] + (HeldBy(new, k) - HeldBy(old, k))
      BY <2>1, <2>3, <2>7, <3>1, <3>2, ReleaseIsExact
    <3>4. PICK e : ledger' = Append(ledger, e) /\ e.line = l /\ e.delta = Negated(old.takes)
      BY <2>7, LinePosting
    <3>5. \A k \in Keys : e.delta[k] = GoneFor(old, k) - GoneFor(new, k)
      BY <2>3, <3>2, <3>4 DEF Negated
    <3>6. QED
      BY <2>1, <3>1, <3>2, <3>3, <3>4, <3>5 DEF Rewrite
  <2>8. CASE Hold
    <3> DEFINE new == row(NoEntry)
    <3>1. /\ new \in ReservationRows /\ new.status = "open" /\ new.takes = old.takes
          /\ new.mode = "reserve_until_fulfilled"
          /\ reservation' = [reservation EXCEPT ![l] = new]
          /\ old.mode = "consume_immediately"
      BY <2>1, <2>2, <2>4, <2>8 DEF NoEntry, Modes
    <3> HIDE DEF new
    <3>2. HasEntry(new) /\ \A k \in Keys : /\ HeldBy(new, k) = old.takes[k] /\ HeldBy(old, k) = 0
                                           /\ GoneFor(new, k) = 0 /\ GoneFor(old, k) = old.takes[k]
      BY <2>1, <3>1 DEF HasEntry, HeldBy, GoneFor
    <3>3. \A k \in Undisturbed : reserved'[k] = reserved[k] + (HeldBy(new, k) - HeldBy(old, k))
      BY <2>3, <2>8, <3>2 DEF addReserved
    <3>4. CASE old.entry # NoEntry
      <4>1. PICK e : ledger' = Append(ledger, e) /\ e.line = l /\ e.delta = old.takes
        BY <2>8, <3>4, LinePosting
      <4>2. \A k \in Keys : e.delta[k] = GoneFor(old, k) - GoneFor(new, k)
        BY <2>3, <3>2, <4>1
      <4>3. QED
        BY <2>1, <3>1, <3>2, <3>3, <4>1, <4>2 DEF Rewrite
    <3>5. CASE old.entry = NoEntry
      <4>1. ledger' = ledger /\ Touched(old.takes) = {}
        BY <2>1, <2>8, <3>1, <3>5 DEF HasEntry
      <4>2. \A k \in Keys : GoneFor(new, k) = GoneFor(old, k)
        BY <2>3, <3>2, <4>1 DEF Touched
      <4>3. QED
        BY <2>1, <3>1, <3>2, <3>3, <4>1, <4>2 DEF Rewrite
    <3>6. QED
      BY <3>4, <3>5
  <2>9. QED
    BY <2>5, <2>6, <2>7, <2>8
<1>4. QED
  BY <1>2, <1>3

(* A caller on a crossed line may go by a row that is gone, but the units it *)
(* moves are those its line took.                                            *)
LEMMA StrayStep ==
  ASSUME TurnInv, NEW c \in Callers, task[c].line \in crossed,
         CommitFulfill(c) \/ CommitRelease(c) \/ CommitMigrate(c)
  PROVE  UNCHANGED <<stock, reservation>> \/ Stray(c)
<1> DEFINE l    == task[c].line
           old  == reservation[l]
           Frees == \/ UNCHANGED reserved \/ releaseReserved(old.takes) \/ addReserved(old.takes)
           Moves(kind, delta, reverses) == postMovements(kind, delta, reverses, l)
<1>1. task[c].pc = "allocations_read" /\ Working(c) /\ Takes(c) = old.takes
  BY DEF CommitFulfill, CommitRelease, CommitMigrate, Resolving, Working, Takes
<1>2. /\ l \in Lines /\ old \in ReservationRows /\ old.status # "none" /\ task[c].to \in Modes
      /\ task[c].entry \in Nat /\ old.entry \in Nat /\ Len(ledger) + 1 \in Nat /\ NoEntry \in Nat
  BY <1>1, TaskShapes DEF TurnInv, CrossedAreKnown, Known, Inv, StateTypes, ReservationRows, NoEntry
<1>3. ASSUME NEW row \in ReservationRows, row.takes = old.takes, row.status # "none",
             reservation' = [reservation EXCEPT ![l] = row], Frees,
             \/ ledger' = ledger
             \/ \E kind, delta, reverses : Moves(kind, delta, reverses)
      PROVE  Stray(c)
  <2>1. \A k \in Keys : old.takes[k] \in Nat /\ reserved[k] \in Nat
    BY <1>2, RowTypes DEF TurnInv, Inv, StateTypes
  <2>2. ASSUME NEW k \in Keys, old.takes[k] = 0 PROVE reserved'[k] = reserved[k]
    BY <1>3, <2>1, <2>2 DEF releaseReserved, addReserved, NonNegative
  <2>3. ledger' = ledger \/ \E e : ledger' = Append(ledger, e) /\ e.line = l
    BY <1>3, LinePosting
  <2>4. QED
    BY <1>1, <1>3, <2>2, <2>3 DEF Stray
<1>4. ASSUME NEW s \in {"consumed", "released"}, SetStatus(c, s), Frees,
             ledger' = ledger \/ \E kind, delta, reverses : Moves(kind, delta, reverses)
      PROVE  Stray(c)
  <2>1. /\ WithStatus(old, s) \in ReservationRows /\ WithStatus(old, s).status = s
        /\ WithStatus(old, s).takes = old.takes
        /\ reservation' = [reservation EXCEPT ![l] = WithStatus(old, s)]
    BY <1>1, <1>4, RewrittenRows DEF Statuses
  <2>2. QED
    BY <1>3, <1>4, <2>1
<1>5. ASSUME NEW e \in Nat, SetMode(c, e), Frees,
             ledger' = ledger \/ \E kind, delta, reverses : Moves(kind, delta, reverses)
      PROVE  Stray(c)
  <2>1. /\ WithMode(old, task[c].to, e) \in ReservationRows
        /\ WithMode(old, task[c].to, e).status = old.status
        /\ WithMode(old, task[c].to, e).takes = old.takes
        /\ reservation' = [reservation EXCEPT ![l] = WithMode(old, task[c].to, e)]
    BY <1>1, <1>2, <1>5, RewrittenRows
  <2>2. QED
    BY <1>2, <1>3, <1>5, <2>1
<1>6. CASE CommitFulfill(c)
  <2>1. \/ UNCHANGED <<stock, reservation>>
        \/ /\ SetStatus(c, "consumed") /\ Frees
           /\ ledger' = ledger \/ Moves("shipment", Negated(old.takes), NoEntry)
    BY <1>1, <1>6 DEF CommitFulfill, Abandon, stock
  <2>2. QED
    BY <1>4, <2>1
<1>7. CASE CommitRelease(c)
  <2>1. \/ UNCHANGED <<stock, reservation>>
        \/ /\ SetStatus(c, "released") /\ Frees
           /\ ledger' = ledger \/ Moves("reversal", old.takes, task[c].entry)
    BY <1>1, <1>7 DEF CommitRelease, Abandon, stock
  <2>2. QED
    BY <1>4, <2>1
<1>8. CASE CommitMigrate(c)
  <2>1. \/ UNCHANGED <<stock, reservation>>
        \/ /\ SetMode(c, old.entry) \/ SetMode(c, Len(ledger) + 1) \/ SetMode(c, NoEntry)
           /\ Frees
           /\ \/ ledger' = ledger
              \/ Moves("shipment", Negated(old.takes), NoEntry)
              \/ Moves("reversal", old.takes, task[c].entry)
    BY <1>1, <1>8 DEF CommitMigrate, Abandon, stock
  <2>2. ledger' = ledger \/ \E kind, delta, reverses : Moves(kind, delta, reverses)
        \/ UNCHANGED <<stock, reservation>>
    BY <2>1
  <2>3. QED
    BY <1>2, <1>5, <2>1, <2>2
<1>9. QED
  BY <1>6, <1>7, <1>8

(* Every step is quiet, reverses an entry, or rewrites the row of the line   *)
(* its caller works on, astray when that line was crossed.                   *)
LEMMA StepShape ==
  ASSUME TurnInv, NEW c \in Callers, Begin(c) \/ Continue(c)
  PROVE  \/ Quiet
         \/ PostReversal(c)
         \/ Stray(c)
         \/ \E row \in ReservationRows : Rewrite(c, row)
<1>1. NoLine \notin Lines /\ Inv
  BY ReservationConstants DEF TurnInv
<1>2. ASSUME NEW kind, NEW delta, NEW reverses, postMovements(kind, delta, reverses, NoLine)
      PROVE  \E e : ledger' = Append(ledger, e) /\ e.line \notin Lines
  BY <1>1, <1>2, LinePosting
<1>3. UNCHANGED <<stock, reservation>> => Quiet
  BY DEF Quiet, stock
<1>0. ASSUME task[c].line \in crossed, NEW row, Record(task[c].line, row) PROVE Quiet
  BY <1>0, <1>3 DEF Record, LineTaken, TurnInv, CrossedAreKnown, Known
<1>4. CASE Begin(c)
  <2>1. CASE \E k \in Keys, change \in Changes : applyAdjustment(c, k, change)
    BY <1>2, <2>1, Zenon DEF applyAdjustment, Quiet
  <2>2. CASE \E item \in Items, from, to \in Locations, n \in TransferQuantities :
               transferStock(c, item, from, to, n)
    BY <1>2, <2>2, Zenon DEF transferStock, Quiet
  <2>3. QED
    BY <1>3, <1>4, <2>1, <2>2, Zenon DEF Begin, AdjustAbsentRow, reverseEntry, reserve,
       fulfillReservation, releaseReservation, ReadRow, switchConsumptionMode
<1>5. CASE Continue(c)
  <2>1. CASE PostAbsentRow(c)
    BY <1>2, <2>1, Zenon DEF PostAbsentRow, Quiet
  <2>2. CASE CommitPlan(c)
    <3>1. /\ task[c].pc = "planned" /\ task[c].mode \in Modes
          /\ task[c].takes \in [Keys -> Nat] /\ task[c].shortage \in Nat
          /\ Record(task[c].line, Recorded(task[c].mode, task[c].takes, task[c].shortage))
      BY <1>1, <2>2, TaskShapes DEF CommitPlan
    <3>2. Recorded(task[c].mode, task[c].takes, task[c].shortage) \in ReservationRows
      BY <1>1, <3>1, RecordedTypes
    <3>3. QED
      BY <1>0, <1>3, <3>1, <3>2, RecordStep
  <2>3. ASSUME NEW split \in SplitSettings, CommitReserve(c, split)
        PROVE  Quiet \/ \E row \in ReservationRows : Rewrite(c, row)
    <3> DEFINE l     == task[c].line
               takes == takesFor(Recipe[l], Plan(l, split), Keys)
               short == Plan(l, split).shortage
               row   == Recorded(task[c].mode, takes, short)
    <3>1. task[c].pc = "reserving" /\ l \in Lines /\ task[c].mode \in Modes
      BY <1>1, <2>3, TaskShapes DEF CommitReserve
    <3>2. takes \in [Keys -> Nat] /\ short \in Nat
      BY <1>1, <3>1, PlanIsCovered
    <3>3. Record(l, row)
      BY <2>3 DEF CommitReserve
    <3> HIDE DEF takes, short
    <3>4. row \in ReservationRows
      BY <1>1, <3>1, <3>2, RecordedTypes
    <3>5. UNCHANGED <<stock, reservation>> \/ Rewrite(c, row) \/ task[c].line \in crossed
      BY <3>1, <3>2, <3>3, RecordStep
    <3>6. QED
      BY <1>0, <1>3, <3>3, <3>4, <3>5
  <2>4. CASE CommitFulfill(c) \/ CommitRelease(c) \/ CommitMigrate(c)
    BY <1>3, <2>4, FulfillStep, ReleaseStep, MigrateStep, StrayStep
  <2>5. QED
    BY <1>3, <1>5, <2>1, <2>2, <2>3, <2>4, Zenon DEF Continue, PlanUnlocked, LockExistingRows,
       ReadAllocations, ListOpen, migrateReservation, ReadRow, SaveMode
<1>6. QED
  BY <1>4, <1>5

\* A caller whose step makes it work on a line it did not have, and one that goes on.
StartsWork(c) ==
  /\ Current(c)'
  /\ \A d \in Callers \ {c} : Working(d) /\ task[d].line = task'[c].line => task[d].line \in crossed'
  /\ task'[c].line \in Lines
  /\ task'[c].pc \in {"row_read", "allocations_read"} => reservation[task'[c].line].status # "none"
GoesOn(c) ==
  /\ Working(c) /\ task'[c].line = task[c].line /\ (Current(c) => Current(c)')
  /\ task'[c].pc # "row_read"
  /\ task'[c].pc \in {"row_read", "allocations_read"} => reservation[task'[c].line].status # "none"

(* A caller that starts on a line has what it read, and nobody else is there *)
(* unless the line is crossed by that; a caller that wrote has finished.     *)
LEMMA OwnTask ==
  ASSUME SerializedByLine = TRUE, TurnInv, NEW c \in Callers, Begin(c) \/ Continue(c),
         crossed' = crossed \cup Crossing(c)
  PROVE  Working(c)' => UNCHANGED reservation /\ (StartsWork(c) \/ GoesOn(c))
<1>1. task \in [Callers -> Tasks]
  BY DEF TurnInv, Inv, StateTypes
<1>2. ASSUME NEW t, task' = [task EXCEPT ![c] = t] PROVE task'[c] = t
  BY <1>1, <1>2
<1>3. ASSUME task'[c].pc \in {"idle", "adjusting", "reversing", "switch_previewed", "switching"}
      PROVE  ~ Working(c)'
  BY <1>3 DEF Working
<1>4. ASSUME NEW op, NEW l \in Lines, NEW to, NEW todo, ReadRow(c, op, l, to, todo),
             LineFree(c, l) \/ op = "migrate"
      PROVE  UNCHANGED reservation /\ StartsWork(c)
  <2> DEFINE t == [pc |-> "row_read", op |-> op, line |-> l,
                   status |-> reservation[l].status, mode |-> reservation[l].mode,
                   entry |-> NoEntry, to |-> to, todo |-> todo]
  <2>1. task'[c] = t /\ UNCHANGED reservation /\ Known(l)
    BY <1>2, <1>4 DEF ReadRow, Known
  <2>2. /\ task'[c].pc = "row_read" /\ task'[c].line = l /\ task'[c].op = op
        /\ task'[c].status = reservation'[l].status /\ task'[c].mode = reservation'[l].mode
    BY <2>1
  <2>3. ASSUME NEW d \in Callers \ {c}, Working(d), task[d].line = l PROVE l \in crossed'
    <3>1. WorksOn(d, l)
      BY <2>3 DEF WorksOn, Working
    <3>2. op = "migrate" \/ Migrating(d)
      BY <1>4, <3>1 DEF LineFree
    <3>3. QED
      BY <2>2, <3>1, <3>2 DEF Crossing
  <2>4. QED
    BY <2>1, <2>2, <2>3 DEF Current, StartsWork, Known
<1>5. CASE Begin(c)
  <2>1. CASE \/ \E k \in Keys, change \in Changes : applyAdjustment(c, k, change)
             \/ \E item \in Items, from, to \in Locations, n \in TransferQuantities :
                  transferStock(c, item, from, to, n)
    <3>1. task'[c] = Idle
      BY <2>1 DEF applyAdjustment, transferStock, Starts
    <3>2. QED
      BY <1>3, <3>1 DEF Idle
  <2>2. CASE \/ \E k \in Keys, change \in Changes : AdjustAbsentRow(c, k, change)
             \/ \E i \in DOMAIN ledger, k \in Keys : reverseEntry(c, i, k)
             \/ \E to \in Modes, confirmed \in BOOLEAN : switchConsumptionMode(c, to, confirmed)
    <3>1. task'[c].pc \in {"adjusting", "reversing", "switch_previewed"}
      BY <1>1, <2>2 DEF AdjustAbsentRow, reverseEntry, switchConsumptionMode
    <3>2. QED
      BY <1>3, <3>1
  <2>3. ASSUME NEW l \in Lines, reserve(c, l)
        PROVE  UNCHANGED reservation /\ StartsWork(c)
    <3>1. /\ task'[c] = [pc |-> "reserving", line |-> l, mode |-> mode]
          /\ LineFree(c, l) /\ UNCHANGED reservation /\ reservation[l].status = "none"
      BY <1>2, <2>3 DEF reserve
    <3>2. task'[c].pc = "reserving" /\ task'[c].line = l /\ reservation'[l].status = "none"
      BY <3>1
    <3>3. ASSUME NEW d \in Callers \ {c} PROVE ~ (Working(d) /\ task[d].line = l)
      BY <3>1 DEF LineFree, WorksOn, Working, Migrating, TurnInv, RowsRead, Known
    <3>4. QED
      BY <3>1, <3>2, <3>3 DEF Current, StartsWork
  <2>4. QED
    BY <1>4, <1>5, <2>1, <2>2, <2>3 DEF Begin, fulfillReservation, releaseReservation
<1>6. CASE Continue(c)
  <2>1. CASE \/ PostAbsentRow(c) \/ PostReversal(c) \/ CommitPlan(c) \/ SaveMode(c)
             \/ \E split \in SplitSettings : CommitReserve(c, split)
    <3>1. task'[c].pc = "idle"
      BY <1>1, <2>1 DEF PostAbsentRow, PostReversal, CommitPlan, SaveMode, CommitReserve, Idle
    <3>2. QED
      BY <1>3, <3>1
  <2>2. CASE CommitFulfill(c) \/ CommitRelease(c) \/ CommitMigrate(c)
    <3>1. Finished(c) \/ task' = [task EXCEPT ![c] = Idle]
      BY <2>2 DEF CommitFulfill, CommitRelease, CommitMigrate, Abandon
    <3>2. task'[c].pc \in {"idle", "switching"}
      BY <1>1, <3>1 DEF Finished, Idle
    <3>3. QED
      BY <1>3, <3>2
  <2>3. CASE ListOpen(c)
    <3>1. task[c] \in [pc : {"switch_previewed", "switching"}, to : Modes, todo : SUBSET Lines]
      BY <2>3, TaskShapes DEF ListOpen, TurnInv
    <3>2. task'[c].pc = "switching"
      BY <1>1, <2>3, <3>1 DEF ListOpen
    <3>3. QED
      BY <1>3, <3>2
  <2>4. CASE LockExistingRows(c)
    <3>1. /\ task'[c].pc = "rows_locked" /\ task'[c].line = task[c].line
          /\ task[c].pc = "reserving" /\ UNCHANGED reservation
      BY <1>1, <2>4 DEF LockExistingRows
    <3>2. QED
      BY <1>1, <3>1 DEF Current, Working, GoesOn
  <2>5. ASSUME NEW split \in SplitSettings, PlanUnlocked(c, split)
        PROVE  UNCHANGED reservation /\ GoesOn(c)
    <3>1. /\ task'[c].pc = "planned" /\ task'[c].line = task[c].line
          /\ task[c].pc = "rows_locked" /\ UNCHANGED reservation
      BY <1>1, <2>5 DEF PlanUnlocked
    <3>2. QED
      BY <1>1, <3>1 DEF Current, Working, GoesOn
  <2>6. CASE ReadAllocations(c)
    <3>1. task[c] \in [pc : {"row_read", "allocations_read"},
                       op : {"fulfill", "release", "migrate"},
                       line : Lines, status : Statuses, mode : Modes, entry : Nat,
                       to : Modes, todo : SUBSET Lines]
      BY <2>6, TaskShapes DEF ReadAllocations, TurnInv
    <3>2. /\ task'[c] = [task[c] EXCEPT !.pc = "allocations_read",
                                        !.entry = reservation[task[c].line].entry]
          /\ task[c].pc = "row_read" /\ UNCHANGED reservation
      BY <1>1, <2>6 DEF ReadAllocations
    <3>3. /\ task'[c].pc = "allocations_read" /\ task'[c].line = task[c].line
          /\ task'[c].status = task[c].status /\ task'[c].mode = task[c].mode
          /\ task'[c].entry = reservation[task[c].line].entry
      BY <3>1, <3>2
    <3>4. Known(task[c].line) /\ Working(c)
      BY <3>2 DEF TurnInv, RowsRead, Working
    <3>5. QED
      BY <1>1, <3>2, <3>3, <3>4 DEF Current, GoesOn, Known
  <2>7. CASE \E l \in Lines : migrateReservation(c, l)
    BY <1>4, <2>7 DEF migrateReservation
  <2>8. QED
    BY <1>6, <2>1, <2>2, <2>3, <2>4, <2>5, <2>6, <2>7 DEF Continue
<1>7. QED
  BY <1>5, <1>6

LEMMA InitTurn == Init /\ Inv => TurnInv
<1> SUFFICES ASSUME Init, Inv PROVE TurnInv
  OBVIOUS
<1>1. \A c \in Callers : task[c] = Idle /\ ~ Working(c)
  BY DEF Init, Working, Idle
<1>2. OneCallerPerLine
  BY <1>1 DEF OneCallerPerLine
<1>3. ReadIsCurrent /\ RowsRead /\ CrossedAreKnown
  BY <1>1 DEF ReadIsCurrent, RowsRead, CrossedAreKnown, Idle, Init
<1>4. \A l \in Lines : reservation[l].status = "none"
  BY DEF Init, NotRecorded
<1>5. ConsumedHasEntry
  BY <1>4 DEF ConsumedHasEntry, HasEntry
<1>6. ReservedIsCommitted
  <2> SUFFICES ASSUME NEW k \in Keys
               PROVE  reserved[k] = SumFunction([l \in Lines |-> HeldBy(reservation[l], k)])
    BY DEF ReservedIsCommitted, Undisturbed
  <2> DEFINE f == [l \in Lines |-> HeldBy(reservation[l], k)]
  <2>1. DOMAIN f = Lines /\ \A l \in Lines : f[l] = 0
    BY <1>4 DEF HeldBy
  <2> HIDE DEF f
  <2>2. SumFunctionOnSet(f, Lines) = 0
    BY <2>1, SumOfZeros, ReservationConstants
  <2>3. reserved[k] = 0
    BY DEF Init, Zero
  <2>4. QED
    BY <2>1, <2>2, <2>3 DEF SumFunction, f
<1>7. QED
  BY <1>2, <1>3, <1>5, <1>6 DEF TurnInv

(* A row that is there stays, and so do the units of a line that was crossed. *)
LEMMA RowsStay ==
  ASSUME TurnInv, NEW c \in Callers, Begin(c) \/ Continue(c)
  PROVE  /\ \A l \in Lines : Known(l) => Known(l)'
         /\ \A l \in crossed : reservation'[l].takes = reservation[l].takes
<1>1. reservation \in [Lines -> ReservationRows] /\ \A l \in crossed : l \in Lines
  BY DEF TurnInv, CrossedAreKnown, Inv, StateTypes
<1>2. CASE Quiet \/ PostReversal(c)
  BY <1>1, <1>2 DEF Quiet, PostReversal, Known
<1>3. CASE Stray(c)
  BY <1>1, <1>3 DEF Stray, Known
<1>4. CASE \E row \in ReservationRows : Rewrite(c, row)
  BY <1>1, <1>4 DEF Rewrite, Known
<1>5. QED
  BY <1>2, <1>3, <1>4, StepShape

(* While one order handler at a time works on a line, every step keeps what  *)
(* is reserved equal to what the open reservations took, off crossed lines.  *)
LEMMA NextTurn ==
  ASSUME SerializedByLine = TRUE, TurnInv, [Next]_vars
  PROVE  TurnInv'
<1>1. Inv'
  BY NextInv DEF TurnInv
<1>2. CASE UNCHANGED vars
  BY <1>1, <1>2 DEF vars, stock, TurnInv, OneCallerPerLine, Working, ReadIsCurrent, Current, RowsRead,
     Known, CrossedAreKnown, ConsumedHasEntry, ReservedIsCommitted, Undisturbed
<1>3. CASE Next
  <2>1. PICK c \in Callers : (Begin(c) \/ Continue(c)) /\ crossed' = crossed \cup Crossing(c)
    BY <1>3 DEF Next
  <2>2. \A d \in Callers \ {c} : task'[d] = task[d] /\ (Working(d)' <=> Working(d))
    BY <2>1, OthersWait DEF TurnInv, Working
  <2>3. Working(c)' => UNCHANGED reservation /\ (StartsWork(c) \/ GoesOn(c))
    BY <2>1, OwnTask
  <2>4. /\ \A l \in Lines : Known(l) => Known(l)'
        /\ \A l \in crossed : reservation'[l].takes = reservation[l].takes
    BY <2>1, RowsStay
  <2>5. OneCallerPerLine'
    <3> SUFFICES ASSUME NEW d \in Callers, NEW e \in Callers, d # e, Working(d)', Working(e)',
                        task'[d].line = task'[e].line
                 PROVE  task'[d].line \in crossed'
      BY DEF OneCallerPerLine
    <3>1. CASE d # c /\ e # c
      BY <2>1, <2>2, <3>1 DEF TurnInv, OneCallerPerLine
    <3>2. CASE d = c
      BY <2>1, <2>2, <2>3, <3>2 DEF StartsWork, GoesOn, TurnInv, OneCallerPerLine
    <3>3. CASE e = c
      BY <2>1, <2>2, <2>3, <3>3 DEF StartsWork, GoesOn, TurnInv, OneCallerPerLine
    <3>4. QED
      BY <3>1, <3>2, <3>3
  <2>6. RowsRead'
    <3> SUFFICES ASSUME NEW d \in Callers, task'[d].pc \in {"row_read", "allocations_read"}
                 PROVE  Known(task[d].line)'
      BY DEF RowsRead, Known
    <3>1. CASE d = c
      BY <2>3, <3>1 DEF Working, StartsWork, GoesOn, Known
    <3>2. CASE d # c
      <4>1. task'[d] = task[d] /\ Known(task[d].line) /\ task[d].line \in Lines
        BY <2>2, <3>2, TaskShapes DEF TurnInv, RowsRead
      <4>2. QED
        BY <2>4, <4>1 DEF Known
    <3>3. QED
      BY <3>1, <3>2
  <2>7. CrossedAreKnown'
    <3>1. \A l \in crossed : l \in Lines /\ Known(l)'
      BY <2>4 DEF TurnInv, CrossedAreKnown
    <3>2. \A l \in Crossing(c) : l \in Lines /\ Known(l)'
      BY <2>6 DEF Crossing, RowsRead, Known
    <3>3. QED
      BY <2>1, <3>1, <3>2 DEF CrossedAreKnown, Known
  <2>8. /\ \A k \in Undisturbed' : k \in Undisturbed /\ k \in Keys
        /\ \A k \in Undisturbed', l \in crossed : reservation[l].takes[k] = 0
    BY <2>1, <2>4 DEF Undisturbed
  <2>9. ASSUME \A d \in Callers \ {c} : Working(d) /\ task[d].line \notin crossed => Current(d)'
        PROVE  ReadIsCurrent'
    <3> SUFFICES ASSUME NEW d \in Callers, Working(d)', task'[d].line \notin crossed'
                 PROVE  Current(d)'
      BY DEF ReadIsCurrent
    <3>1. CASE d = c
      BY <2>1, <2>3, <3>1 DEF StartsWork, GoesOn, TurnInv, ReadIsCurrent
    <3>2. CASE d # c
      BY <2>1, <2>2, <2>9, <3>2
    <3>3. QED
      BY <3>1, <3>2
  <2>10. CASE UNCHANGED <<reserved, reservation>>
    <3>1. \A d \in Callers \ {c} : Working(d) /\ task[d].line \notin crossed => Current(d)'
      BY <2>2, <2>10 DEF TurnInv, ReadIsCurrent, Current
    <3>2. ReadIsCurrent'
      BY <2>9, <3>1
    <3>3. ConsumedHasEntry'
      BY <2>1, <2>10 DEF TurnInv, ConsumedHasEntry
    <3>4. ReservedIsCommitted'
      BY <2>8, <2>10 DEF TurnInv, ReservedIsCommitted
    <3>5. QED
      BY <1>1, <2>5, <2>6, <2>7, <3>2, <3>3, <3>4 DEF TurnInv
  <2>11. ASSUME NEW row \in ReservationRows, Working(c),
                reservation' = [reservation EXCEPT ![task[c].line] = row],
                task[c].line \in crossed \/ HasEntry(row),
                \A k \in Undisturbed' :
                   reserved'[k] = reserved[k] + (HeldBy(row, k) - HeldBy(reservation[task[c].line], k))
         PROVE  TurnInv'
    <3> DEFINE l   == task[c].line
               old == reservation[l]
    <3>1. l \in Lines /\ reservation \in [Lines -> ReservationRows]
      BY <2>11, TaskShapes DEF TurnInv, Working, Inv, StateTypes
    <3>2. reservation'[l] = row /\ \A m \in Lines \ {l} : reservation'[m] = reservation[m]
      BY <2>11, <3>1
    <3>3. \A d \in Callers \ {c} : Working(d) /\ task[d].line \notin crossed => Current(d)'
      <4> SUFFICES ASSUME NEW d \in Callers \ {c}, Working(d), task[d].line \notin crossed
                   PROVE  Current(d)'
        OBVIOUS
      <4>1. task[d].line # l /\ task[d].line \in Lines /\ Current(d)
        BY <2>11, TaskShapes DEF TurnInv, OneCallerPerLine, ReadIsCurrent, Working
      <4>2. reservation'[task[d].line] = reservation[task[d].line] /\ task'[d] = task[d]
        BY <2>2, <3>2, <4>1
      <4>3. QED
        BY <4>1, <4>2 DEF Current
    <3>4. ReadIsCurrent'
      BY <2>9, <3>3
    <3>5. ConsumedHasEntry'
      <4>1. \A m \in Lines \ crossed : HasEntry(reservation'[m])
        BY <2>11, <3>2 DEF TurnInv, ConsumedHasEntry
      <4>2. QED
        BY <2>1, <4>1 DEF ConsumedHasEntry, HasEntry, Touched
    <3>6. ReservedIsCommitted'
      <4> SUFFICES ASSUME NEW k \in Undisturbed'
                   PROVE  reserved'[k] = SumFunction([m \in Lines |-> HeldBy(reservation'[m], k)])
        BY DEF ReservedIsCommitted, HeldBy
      <4> DEFINE f == [m \in Lines |-> HeldBy(reservation[m], k)]
                 g == [m \in Lines |-> HeldBy(reservation'[m], k)]
      <4>1. k \in Keys /\ k \in Undisturbed /\ reservation' \in [Lines -> ReservationRows]
        BY <1>1, <2>8 DEF Inv, StateTypes
      <4>2. \A m \in Lines : f[m] \in Int /\ g[m] \in Int
        BY <3>1, <4>1, RowTypes
      <4>3. \A m \in Lines \ {l} : f[m] = g[m]
        BY <3>2
      <4>4. f[l] = HeldBy(old, k) /\ g[l] = HeldBy(row, k)
        BY <3>1, <3>2
      <4>5. DOMAIN f = Lines /\ DOMAIN g = Lines /\ reserved[k] = SumFunction(f)
        BY <4>1 DEF TurnInv, ReservedIsCommitted
      <4>6. reserved'[k] = reserved[k] + (HeldBy(row, k) - HeldBy(old, k))
        BY <2>11
      <4>0. l \in Lines /\ IsFiniteSet(Lines)
        BY <3>1, ReservationConstants
      <4> HIDE DEF f, g, l
      <4>7. SumFunctionOnSet(g, Lines) = SumFunctionOnSet(f, Lines) + (g[l] - f[l])
        BY <4>0, <4>2, <4>3, SumChange
      <4>8. reserved'[k] = SumFunction(g)
        BY <4>4, <4>5, <4>6, <4>7 DEF SumFunction
      <4>9. QED
        BY <4>8 DEF g
    <3>7. QED
      BY <1>1, <2>5, <2>6, <2>7, <3>4, <3>5, <3>6 DEF TurnInv
  <2>12. ASSUME NEW row \in ReservationRows, Rewrite(c, row) PROVE TurnInv'
    <3>1. /\ Working(c) /\ HasEntry(row) /\ reservation' = [reservation EXCEPT ![task[c].line] = row]
          /\ \A k \in Undisturbed' :
                reserved'[k] = reserved[k] + (HeldBy(row, k) - HeldBy(reservation[task[c].line], k))
      BY <2>8, <2>12 DEF Rewrite
    <3>2. QED
      BY <2>11, <3>1
  <2>13. ASSUME Stray(c) PROVE TurnInv'
    <3> DEFINE l == task[c].line
    <3>1. PICK row \in ReservationRows : /\ row.takes = reservation[l].takes
                                         /\ reservation' = [reservation EXCEPT ![l] = row]
      BY <2>13 DEF Stray
    <3>2. /\ Working(c) /\ l \in crossed /\ l \in Lines
          /\ \A k \in Keys : reservation[l].takes[k] = 0 => reserved'[k] = reserved[k]
      BY <2>13 DEF Stray, TurnInv, CrossedAreKnown
    <3>3. ASSUME NEW k \in Undisturbed'
          PROVE  reserved'[k] = reserved[k] + (HeldBy(row, k) - HeldBy(reservation[l], k))
      <4>1. k \in Keys /\ reservation[l].takes[k] = 0 /\ row.takes[k] = 0
        BY <2>8, <3>1, <3>2
      <4>2. HeldBy(row, k) = 0 /\ HeldBy(reservation[l], k) = 0 /\ reserved[k] \in Nat
        BY <4>1 DEF HeldBy, TurnInv, Inv, StateTypes
      <4>3. QED
        BY <3>2, <4>1, <4>2
    <3>4. QED
      BY <2>11, <3>1, <3>2, <3>3
  <2>14. QED
    BY <2>1, <2>10, <2>12, <2>13, StepShape DEF Quiet, PostReversal
<1>4. QED
  BY <1>2, <1>3

(* While the order handlers of a line take turns, what is reserved is what   *)
(* the open reservations took wherever no crossed line has units: for every  *)
(* number of lines, locations and callers.                                   *)
THEOREM CommittedWhileInTurn ==
  ASSUME SerializedByLine = TRUE
  PROVE  Spec => []ReservedIsCommitted
<1>1. TurnInv /\ [Next]_vars => TurnInv'
  BY NextTurn
<1>2. TurnInv => ReservedIsCommitted
  BY DEF TurnInv
<1>3. QED
  BY <1>1, <1>2, InitInv, InitTurn, PTL DEF Spec

-------------------------------------------------------------------------------
(* What the ledger says of a line, where nobody reverses entries by hand.    *)

NobodyReverses == \A c \in Callers : task[c].pc # "reversing"

MoveInv == TurnInv /\ NobodyReverses /\ LineMovesItsUnitsOnce

LEMMA ReversingTask ==
  ASSUME Inv, "reverse" \notin Ops, NEW c \in Callers, task[c].pc # "reversing", Begin(c) \/ Continue(c)
  PROVE  task'[c].pc # "reversing"
<1>1. task \in [Callers -> Tasks]
  BY DEF Inv, StateTypes
<1>2. ASSUME NEW t, t.pc # "reversing", task' = [task EXCEPT ![c] = t] PROVE task'[c].pc # "reversing"
  BY <1>1, <1>2
<1>3. Idle.pc # "reversing" /\ \A l, m : [pc |-> "reserving", line |-> l, mode |-> m].pc # "reversing"
  BY DEF Idle
<1>4. ASSUME NEW op, NEW l, NEW to, NEW todo, ReadRow(c, op, l, to, todo)
      PROVE  task'[c].pc # "reversing"
  BY <1>1, <1>4 DEF ReadRow
<1>5. CASE Begin(c)
  <2>1. CASE \/ \E k \in Keys, change \in Changes : applyAdjustment(c, k, change) \/ AdjustAbsentRow(c, k, change)
             \/ \E item \in Items, from, to \in Locations, n \in TransferQuantities :
                  transferStock(c, item, from, to, n)
    <3>1. ASSUME NEW k, NEW change, applyAdjustment(c, k, change) \/ AdjustAbsentRow(c, k, change)
          PROVE  task'[c].pc # "reversing"
      BY <1>1, <3>1 DEF applyAdjustment, AdjustAbsentRow
    <3>2. ASSUME NEW item, NEW from, NEW to, NEW n, transferStock(c, item, from, to, n)
          PROVE  task'[c].pc # "reversing"
      BY <3>2 DEF transferStock
    <3>3. QED
      BY <2>1, <3>1, <3>2
  <2>2. CASE \/ \E to \in Modes, confirmed \in BOOLEAN : switchConsumptionMode(c, to, confirmed)
             \/ \E l \in Lines : reserve(c, l)
    BY <1>1, <2>2 DEF switchConsumptionMode, reserve
  <2>3. \A i, k : ~ reverseEntry(c, i, k)
    BY DEF reverseEntry, Starts
  <2>4. QED
    BY <1>4, <1>5, <2>1, <2>2, <2>3 DEF Begin, fulfillReservation, releaseReservation
<1>6. CASE Continue(c)
  <2>1. CASE \/ PostAbsentRow(c) \/ PostReversal(c) \/ CommitPlan(c) \/ SaveMode(c)
             \/ \E split \in SplitSettings : CommitReserve(c, split)
    BY <1>2, <1>3, <2>1 DEF PostAbsentRow, PostReversal, CommitPlan, SaveMode, CommitReserve
  <2>2. CASE CommitFulfill(c) \/ CommitRelease(c) \/ CommitMigrate(c)
    <3>1. task[c].pc = "allocations_read" /\ (Finished(c) \/ task' = [task EXCEPT ![c] = Idle])
      BY <2>2 DEF CommitFulfill, CommitRelease, CommitMigrate, Abandon, Resolving
    <3>2. QED
      BY <1>1, <1>3, <3>1 DEF Finished
  <2>3. CASE \/ LockExistingRows(c)
             \/ \E split \in SplitSettings : PlanUnlocked(c, split)
    BY <1>1, <2>3 DEF LockExistingRows, PlanUnlocked
  <2>4. CASE ListOpen(c)
    <3>1. task[c] \in [pc : {"switch_previewed", "switching"}, to : Modes, todo : SUBSET Lines]
      BY <2>4, TaskShapes DEF ListOpen
    <3>2. task'[c].pc = "switching"
      BY <1>1, <2>4, <3>1 DEF ListOpen
    <3>3. QED
      BY <3>2
  <2>5. CASE ReadAllocations(c)
    <3>1. task[c] \in [pc : {"row_read", "allocations_read"},
                       op : {"fulfill", "release", "migrate"},
                       line : Lines, status : Statuses, mode : Modes, entry : Nat,
                       to : Modes, todo : SUBSET Lines]
      BY <2>5, TaskShapes DEF ReadAllocations
    <3>2. task'[c].pc = "allocations_read"
      BY <1>1, <2>5, <3>1 DEF ReadAllocations
    <3>3. QED
      BY <3>2
  <2>6. CASE \E l \in Lines : migrateReservation(c, l)
    BY <1>4, <2>6 DEF migrateReservation
  <2>7. QED
    BY <1>6, <2>1, <2>2, <2>3, <2>4, <2>5, <2>6 DEF Continue
<1>7. QED
  BY <1>5, <1>6

LEMMA InitMove == Init /\ TurnInv => MoveInv
<1> SUFFICES ASSUME Init, TurnInv PROVE MoveInv
  OBVIOUS
<1>1. NobodyReverses
  BY DEF Init, NobodyReverses, Idle
<1>2. ASSUME NEW l \in Lines, NEW k \in Keys PROVE Moved(k, {l}) = -GoneFor(reservation[l], k)
  <2> DEFINE e == [kind |-> "adjustment", delta |-> Opening, reverses |-> NoEntry, line |-> NoLine]
             f == Terms(ledger, k, {l})
  <2>1. ledger = <<e>> /\ e.line # l
    BY ReservationConstants DEF Init
  <2>2. DOMAIN f = {1} /\ \A i \in {1} : f[i] = 0
    BY <2>1 DEF Terms
  <2>3. IsFiniteSet({1})
    BY FS_Singleton
  <2>4. Moved(k, {l}) = SumFunction(f)
    BY DEF Moved, Terms
  <2> HIDE DEF f
  <2>5. SumFunctionOnSet(f, {1}) = 0
    BY <2>2, <2>3, SumOfZeros
  <2>6. GoneFor(reservation[l], k) = 0
    BY DEF Init, NotRecorded, GoneFor
  <2>7. Moved(k, {l}) = 0
    BY <2>2, <2>4, <2>5, Zenon DEF SumFunction
  <2>8. \A n \in Int : n = 0 => -n = 0
    <3>1. \A n \in Int : -n = 0 - n
      BY SMT
    <3>2. \A n \in Int : n = 0 => 0 - n = 0
      BY SMT
    <3>3. QED
      BY <3>1, <3>2, Zenon
  <2>9. GoneFor(reservation[l], k) \in Int
    BY <2>6
  <2>10. QED
    BY <2>6, <2>7, <2>8, <2>9, Zenon
<1>3. QED
  BY <1>1, <1>2 DEF MoveInv, LineMovesItsUnitsOnce

(* A step that rewrites a row moves in the ledger what the row then says has *)
(* gone, and nothing of any other line.                                      *)
LEMMA NextMove ==
  ASSUME SerializedByLine = TRUE, "reverse" \notin Ops, MoveInv, [Next]_vars
  PROVE  MoveInv'
<1>1. TurnInv'
  BY NextTurn DEF MoveInv
<1>2. CASE UNCHANGED vars
  BY <1>1, <1>2 DEF vars, stock, MoveInv, NobodyReverses, LineMovesItsUnitsOnce, Moved
<1>3. CASE Next
  <2>1. PICK c \in Callers : (Begin(c) \/ Continue(c)) /\ crossed \subseteq crossed'
    BY <1>3 DEF Next
  <2>2. NobodyReverses'
    <3> SUFFICES ASSUME NEW d \in Callers PROVE task'[d].pc # "reversing"
      BY DEF NobodyReverses
    <3>1. CASE d = c
      BY <2>1, <3>1, ReversingTask DEF MoveInv, TurnInv, NobodyReverses
    <3>2. CASE d # c
      BY <2>1, <3>2, OthersWait DEF MoveInv, TurnInv, NobodyReverses
    <3>3. QED
      BY <3>1, <3>2
  <2>3. ASSUME NEW l \in Lines \ crossed, NEW k \in Keys
        PROVE  Moved(k, {l})' = -GoneFor(reservation'[l], k)
    <3>1. /\ Moved(k, {l}) = SumFunction(Terms(ledger, k, {l}))
          /\ Moved(k, {l})' = SumFunction(Terms(ledger', k, {l}))
          /\ Moved(k, {l}) = -GoneFor(reservation[l], k)
      BY DEF Moved, Terms, MoveInv, LineMovesItsUnitsOnce
    <3>2. ledger \in Seq(Postings) /\ ledger' \in Seq(Postings)
      BY <1>1 DEF MoveInv, TurnInv, Inv, StateTypes
    <3>3. ASSUME NEW e, ledger' = Append(ledger, e)
          PROVE  /\ e \in Postings
                 /\ Moved(k, {l})' = Moved(k, {l}) + (IF e.line = l THEN e.delta[k] ELSE 0)
      <4>1. e \in Postings
        BY <3>2, <3>3, PostedIsTyped
      <4>2. SumFunction(Terms(Append(ledger, e), k, {l})) =
              SumFunction(Terms(ledger, k, {l})) + (IF e.line \in {l} THEN e.delta[k] ELSE 0)
        BY <3>2, <4>1, AppendMoves
      <4>3. QED
        BY <3>1, <3>3, <4>1, <4>2
    <3>4. /\ reservation[l] \in ReservationRows /\ reservation'[l] \in ReservationRows
          /\ reservation \in [Lines -> ReservationRows]
      BY <1>1 DEF MoveInv, TurnInv, Inv, StateTypes
    <3>5. GoneFor(reservation[l], k) \in Nat /\ GoneFor(reservation'[l], k) \in Nat
      BY <3>4, RowTypes
    <3>6. CASE Quiet
      <4>1. GoneFor(reservation'[l], k) = GoneFor(reservation[l], k)
        BY <3>6 DEF Quiet
      <4>2. CASE ledger' = ledger
        BY <3>1, <4>1, <4>2
      <4>3. ASSUME NEW e, ledger' = Append(ledger, e), e.line \notin Lines
            PROVE  Moved(k, {l})' = -GoneFor(reservation'[l], k)
        <5>1. Moved(k, {l})' = Moved(k, {l}) + 0
          BY <3>3, <4>3
        <5>2. QED
          BY <3>1, <3>5, <4>1, <5>1
      <4>4. QED
        BY <3>6, <4>2, <4>3 DEF Quiet
    <3>7. ASSUME NEW row \in ReservationRows, Rewrite(c, row)
          PROVE  Moved(k, {l})' = -GoneFor(reservation'[l], k)
      <4> DEFINE w == task[c].line
      <4>1. /\ Working(c) /\ reservation' = [reservation EXCEPT ![w] = row]
            /\ \/ ledger' = ledger /\ GoneFor(row, k) = GoneFor(reservation[w], k)
               \/ \E e : /\ ledger' = Append(ledger, e) /\ e.line = w
                         /\ e.delta[k] = GoneFor(reservation[w], k) - GoneFor(row, k)
        BY <3>7 DEF Rewrite
      <4> HIDE DEF w
      <4>2. reservation'[l] = IF l = w THEN row ELSE reservation[l]
        BY <3>4, <4>1
      <4>3. CASE ledger' = ledger /\ GoneFor(row, k) = GoneFor(reservation[w], k)
        BY <3>1, <4>2, <4>3
      <4>4. ASSUME NEW e, ledger' = Append(ledger, e), e.line = w,
                   e.delta[k] = GoneFor(reservation[w], k) - GoneFor(row, k)
            PROVE  Moved(k, {l})' = -GoneFor(reservation'[l], k)
        <5>1. Moved(k, {l})' = Moved(k, {l}) + (IF w = l THEN e.delta[k] ELSE 0)
          BY <3>3, <4>4
        <5>2. CASE w = l
          BY <3>1, <3>5, <4>2, <4>4, <5>1, <5>2
        <5>3. CASE w # l
          BY <3>1, <3>5, <4>2, <5>1, <5>3
        <5>4. QED
          BY <5>2, <5>3
      <4>5. QED
        BY <4>1, <4>3, <4>4
    <3>8. CASE Stray(c)
      <4> DEFINE w == task[c].line
      <4>1. /\ w \in crossed /\ \E row : reservation' = [reservation EXCEPT ![w] = row]
            /\ ledger' = ledger \/ \E e : ledger' = Append(ledger, e) /\ e.line = w
        BY <3>8 DEF Stray
      <4> HIDE DEF w
      <4>2. w # l /\ reservation'[l] = reservation[l]
        BY <3>4, <4>1
      <4>3. CASE ledger' = ledger
        BY <3>1, <4>2, <4>3
      <4>4. ASSUME NEW e, ledger' = Append(ledger, e), e.line = w
            PROVE  Moved(k, {l})' = -GoneFor(reservation'[l], k)
        <5>1. Moved(k, {l})' = Moved(k, {l}) + 0
          BY <3>3, <4>2, <4>4
        <5>2. QED
          BY <3>1, <3>5, <4>2, <5>1
      <4>5. QED
        BY <4>1, <4>3, <4>4
    <3>9. QED
      BY <2>1, <3>6, <3>7, <3>8, StepShape DEF MoveInv, NobodyReverses, PostReversal
  <2>4. LineMovesItsUnitsOnce'
    BY <2>1, <2>3 DEF LineMovesItsUnitsOnce
  <2>5. QED
    BY <1>1, <2>2, <2>4 DEF MoveInv
<1>4. QED
  BY <1>2, <1>3

(* A line nobody crossed moves its units out once, whichever of shipment,    *)
(* cancellation and change of mode comes first, while the work on one line   *)
(* takes turns and nobody reverses entries by hand.                          *)
THEOREM MovedOnceWhileInTurn ==
  ASSUME SerializedByLine = TRUE, "reverse" \notin Ops
  PROVE  Spec => []LineMovesItsUnitsOnce
<1>1. MoveInv /\ [Next]_vars => MoveInv'
  BY NextMove
<1>2. MoveInv => LineMovesItsUnitsOnce
  BY DEF MoveInv
<1>3. QED
  BY <1>1, <1>2, InitInv, InitTurn, InitMove, PTL DEF Spec

(* Both hold of the two regimes together, of the one in which the work on a  *)
(* line takes turns.                                                         *)
LEMMA RegimeSteps ==
  ASSUME SerializedByLine = TRUE
  PROVE  /\ MCInit => Inv /\ Init /\ TurnInv
         /\ (regime = "in_turn" => TurnInv) /\ [MCNext]_<<vars, regime>> => (regime = "in_turn" => TurnInv)'
<1>1. MCInit => Inv /\ Init /\ TurnInv
  BY InitInv, InitTurn DEF MCInit
<1>2. ASSUME regime = "in_turn" => TurnInv, [MCNext]_<<vars, regime>>, regime' = "in_turn"
      PROVE  TurnInv'
  <2>1. regime = "in_turn" /\ [Next]_vars
    BY <1>2 DEF MCNext
  <2>2. QED
    BY <1>2, <2>1, NextTurn
<1>3. QED
  BY <1>1, <1>2

(* In the regime with turns, what is reserved is what is committed.          *)
THEOREM CommittedInTurnHolds ==
  ASSUME SerializedByLine = TRUE
  PROVE  MCSpec => []CommittedInTurn
<1> DEFINE I == regime = "in_turn" => TurnInv
<1>1. MCInit => I
  BY RegimeSteps
<1>2. I /\ [MCNext]_<<vars, regime>> => I'
  BY RegimeSteps
<1>3. I => CommittedInTurn
  BY DEF TurnInv, CommittedInTurn
<1>4. QED
  BY <1>1, <1>2, <1>3, PTL DEF MCSpec

(* In the regime with turns, a line moves its units once.                    *)
THEOREM MovedOnceInTurnHolds ==
  ASSUME SerializedByLine = TRUE, "reverse" \notin Ops
  PROVE  MCSpec => []MovedOnceInTurn
<1> DEFINE I == regime = "in_turn" => MoveInv
<1>1. MCInit => I
  BY RegimeSteps, InitMove
<1>2. I /\ [MCNext]_<<vars, regime>> => I'
  <2>1. ASSUME I, [MCNext]_<<vars, regime>>, regime' = "in_turn" PROVE MoveInv'
    <3>1. regime = "in_turn" /\ [Next]_vars
      BY <2>1 DEF MCNext
    <3>2. QED
      BY <2>1, <3>1, NextMove
  <2>2. QED
    BY <2>1
<1>3. I => MovedOnceInTurn
  BY DEF MoveInv, MovedOnceInTurn
<1>4. QED
  BY <1>1, <1>2, <1>3, PTL DEF MCSpec

===============================================================================
