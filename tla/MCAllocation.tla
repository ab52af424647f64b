----------------------------- MODULE MCAllocation -----------------------------
(***************************************************************************)
(* Checks the arithmetic of Allocation over every bounded input, against   *)
(* definitions that say what the answer must be instead of how the code    *)
(* finds it.  A behaviour is one order line looked at while stock moves:   *)
(* every step adds or removes one unit of one item at one location.        *)
(***************************************************************************)
EXTENDS Allocation, TLC

CONSTANTS Items, Recipes, Order, MaxStock, MaxQuantity

ASSUME AllocationBounds == MaxStock \in Nat /\ MaxQuantity \in Nat \ {0}

VARIABLES available, line

Locations == Range(Order)
Keys == Items \X Locations

Init ==
  /\ available = [k \in Keys |-> 0]
  /\ line \in [quantity : 1..MaxQuantity, recipe : Recipes, split : BOOLEAN]

Receive(k) ==
  /\ available[k] < MaxStock
  /\ available' = [available EXCEPT ![k] = @ + 1]
  /\ UNCHANGED line

Remove(k) ==
  /\ available[k] > 0
  /\ available' = [available EXCEPT ![k] = @ - 1]
  /\ UNCHANGED line

Next == \E k \in Keys : Receive(k) \/ Remove(k)

Spec == Init /\ [][Next]_<<available, line>>

-------------------------------------------------------------------------------
(* The instance: a plain item, and a kit of one a and two b, over three      *)
(* locations in priority order.                                              *)
ItemsMC == {"a", "b"}
RecipesMC == {"a" :> 1, "a" :> 1 @@ "b" :> 2}
OrderMC == <<"x", "y", "z">>

-------------------------------------------------------------------------------
Plan(split) == planAllocation(line.quantity, line.recipe, Order, available, split)
Capacity(l) == capacityAt(line.recipe, available, l)
Whole(n, l) == \A c \in DOMAIN line.recipe : n * line.recipe[c] <= available[<<c, l>>]

(* A plan never takes a unit that is not available, whatever the recipe, and *)
(* every ordered unit is either supplied by one location or counted short    *)
(* (planAllocation, takesFor).                                               *)
PlanTakesOnlyWhatIsThere ==
  LET p == Plan(line.split)
      t == takesFor(line.recipe, p, Keys)
  IN  /\ \A k \in Keys : t[k] \in 0..available[k]
      /\ SumFunction(p.from) = p.allocated
      /\ p.allocated + p.shortage = line.quantity

(* With splitting disabled the line is supplied by one location: the highest *)
(* priority one that holds every unit of it, and if none does, the highest   *)
(* priority one among those no other location beats (singleLocationPlan).    *)
OneLocationIsTheRightOne ==
  LET p == Plan(FALSE)
  IN  \A i \in DOMAIN Order : p.from[Order[i]] > 0 =>
        /\ \A j \in DOMAIN Order \ {i} : p.from[Order[j]] = 0
        /\ \A j \in 1..(i-1) : ~ Whole(p.allocated, Order[j])
        /\ p.shortage > 0 => \A j \in DOMAIN Order : ~ Whole(p.allocated + 1, Order[j])

(* With splitting enabled everything the locations could supply is supplied, *)
(* in priority order: a later location gives a unit only when every earlier  *)
(* one is exhausted (splitPlan).                                             *)
SplitExhaustsPriorityOrder ==
  LET p == Plan(TRUE)
  IN  /\ p.shortage > 0 => \A l \in Locations : ~ Whole(p.from[l] + 1, l)
      /\ \A i, j \in DOMAIN Order :
           i < j /\ p.from[Order[j]] > 0 => ~ Whole(p.from[Order[i]] + 1, Order[i])

(* The split_blocked flag, which owes the operator an allocation conflict,   *)
(* is raised exactly when turning splitting on would have filled a line that *)
(* one location cannot fill.                                                 *)
SplitBlockedIsExact ==
  Plan(FALSE).splitBlocked <=> Plan(FALSE).shortage > 0 /\ Plan(TRUE).shortage = 0

(* The number of kits advertised with splitting disabled is the largest      *)
(* number the locations could really assemble, each kit in one place         *)
(* (kitAvailabilityPerLocation against the plan that would ship them).       *)
AdvertisedKitsCanBeAssembled ==
  LET n == kitAvailability(line.recipe, available, Locations, FALSE)
      short(q) == splitPlan(q, Order, [l \in Locations |-> Capacity(l)]).shortage
  IN  short(n) = 0 /\ short(n + 1) = 1

(* The plan for a line is the right one, and what is advertised can be assembled by such  *)
(* plans: every reference definition above, for the same stock (planAllocation,           *)
(* kitAvailability).                                                                      *)
PlanIsTheRightOne ==
  /\ PlanTakesOnlyWhatIsThere
  /\ OneLocationIsTheRightOne
  /\ SplitExhaustsPriorityOrder
  /\ SplitBlockedIsExact
  /\ AdvertisedKitsCanBeAssembled

===============================================================================
