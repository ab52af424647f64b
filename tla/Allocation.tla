------------------------------ MODULE Allocation ------------------------------
(***************************************************************************)
(* The pure arithmetic of packages/domain: which safety stock applies, how *)
(* much of a balance may be sold, how many kits the components can build,  *)
(* what a channel advertises, and where the units of an order come from.   *)
(*                                                                         *)
(* A recipe is a function from the component items to the units of each    *)
(* that one ordered unit needs; a plain item is a recipe with itself as    *)
(* the only component and one unit of it.  A location order is a sequence  *)
(* of distinct locations.  `available' is a function over <<item,          *)
(* location>> pairs, zero where the code's map has no entry.               *)
(***************************************************************************)
EXTENDS Integers, Sequences, FiniteSets, FiniteSetsExt, Functions

\* The null of a nullable whole number: no override, no cap.
Unset == -1

Least(a, b) == IF a < b THEN a ELSE b

NonNegative(n) == IF n < 0 THEN 0 ELSE n

\* The narrowest level that was set wins, and zero counts as set.
effectiveSafetyStock(businessDefault, itemOverride, locationOverride) ==
  IF locationOverride # Unset THEN locationOverride
  ELSE IF itemOverride # Unset THEN itemOverride
  ELSE businessDefault

availableToSellAtLocation(onHand, reserved, safetyStock) ==
  NonNegative(onHand - reserved - safetyStock)

\* Safety stock is withheld per location and only then summed.
availableToSellAcrossLocations(available, item, locations) ==
  MapThenSumSet(LAMBDA l : available[<<item, l>>], locations)

channelTarget(availableToSell, channelBuffer, channelCap) ==
  LET afterBuffer == NonNegative(availableToSell - channelBuffer)
  IN  IF channelCap = Unset THEN afterBuffer ELSE Least(afterBuffer, channelCap)

shouldSuppressWooCommerceQuantityWrite(desiredTarget, observedStoreStock, backordersEnabled) ==
  backordersEnabled /\ desiredTarget = 0 /\ observedStoreStock <= 0

-------------------------------------------------------------------------------
(* Kits: how many can be built.                                            *)

\* How many complete ordered units one location could supply on its own.
capacityAt(recipe, available, location) ==
  Min({available[<<c, location>>] \div recipe[c] : c \in DOMAIN recipe})

kitAvailabilityPooled(recipe, available, locations) ==
  Min({availableToSellAcrossLocations(available, c, locations) \div recipe[c] :
         c \in DOMAIN recipe})

kitAvailabilityPerLocation(recipe, available, locations) ==
  MapThenSumSet(LAMBDA l : capacityAt(recipe, available, l), locations)

kitAvailability(recipe, available, locations, splitFulfillment) ==
  IF splitFulfillment
  THEN kitAvailabilityPooled(recipe, available, locations)
  ELSE kitAvailabilityPerLocation(recipe, available, locations)

-------------------------------------------------------------------------------
(* Allocation: where the units of one order line come from.  A plan says   *)
(* how many ordered units each location of the order supplies.             *)

\* The highest-priority location that fills the line alone, or else the
\* highest-priority one among those that hold the most.
singleLocationPlan(quantity, order, capacity) ==
  LET places == DOMAIN order
      whole  == {i \in places : capacity[order[i]] >= quantity}
      most   == {i \in places : \A j \in places : capacity[order[j]] <= capacity[order[i]]}
      chosen == IF whole # {} THEN Min(whole) ELSE Min(most)
      units  == IF places = {} THEN 0 ELSE Least(quantity, capacity[order[chosen]])
      total  == MapThenSumSet(LAMBDA i : capacity[order[i]], places)
  IN  [allocated    |-> units,
       shortage     |-> quantity - units,
       splitBlocked |-> units < quantity /\ total >= quantity,
       from         |-> [l \in Range(order) |-> IF l = order[chosen] THEN units ELSE 0]]

\* MUTANT of remainingAfter: a location that cannot fill the rest is skipped.
remainingAfter_SkipsPartial(quantity, order, capacity) ==
  LET rem[i \in 0..Len(order)] ==
        IF i = 0 THEN quantity
        ELSE IF capacity[order[i]] >= rem[i-1] THEN 0 ELSE rem[i-1]
  IN  rem

\* The units still wanted after each place of the order has given what it can.
remainingAfter(quantity, order, capacity) ==
  LET rem[i \in 0..Len(order)] ==
        IF i = 0 THEN quantity ELSE rem[i-1] - Least(rem[i-1], capacity[order[i]])
  IN  rem

splitPlan(quantity, order, capacity) ==
  LET rem == remainingAfter(quantity, order, capacity)
  IN  [allocated    |-> quantity - rem[Len(order)],
       shortage     |-> rem[Len(order)],
       splitBlocked |-> FALSE,
       from         |-> [l \in Range(order) |->
                           LET i == CHOOSE i \in DOMAIN order : order[i] = l
                           IN  rem[i-1] - rem[i]]]

planAllocation(quantity, recipe, order, available, splitFulfillment) ==
  LET capacity == [l \in Range(order) |-> capacityAt(recipe, available, l)]
  IN  IF splitFulfillment
      THEN splitPlan(quantity, order, capacity)
      ELSE singleLocationPlan(quantity, order, capacity)

\* What a plan takes from each <<item, location>> of keys.
takesFor(recipe, plan, keys) ==
  [k \in keys |-> IF k[1] \in DOMAIN recipe /\ k[2] \in DOMAIN plan.from
                  THEN plan.from[k[2]] * recipe[k[1]]
                  ELSE 0]

===============================================================================
