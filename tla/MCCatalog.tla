------------------------------- MODULE MCCatalog -------------------------------
(* The catalog, the pilot and the arithmetic of Allocation.  A behaviour belongs to one   *)
(* scene, so that the state spaces of the scenes add up.                                  *)
EXTENDS Catalog, Pilot, MCAllocation
CONSTANTS c1, c2

Member(user, owner, grants) == [userId |-> user, isOwner |-> owner, grants |-> grants]
\* A clerk whose grant is limited to locations, which none of these actions names, and an owner.
MCStaff ==
    {Member("olga", TRUE, {}),
     Member("carl", FALSE, {[permission |-> "approve_mappings",
                             scope |-> [kind |-> "locations", ids |-> {"north"}]]})}

MCParentOf == [e \in Entities |-> "listing"]
MCKitParts == {"tea" :> 1, "tea" :> 1 @@ "box" :> 1}

Item(sku, kit) == [sku |-> sku, isKit |-> kit, override |-> Unset]
Place(code) == [code |-> code, active |-> code # None, deleted |-> FALSE, address |-> FALSE, link |-> None]
Empty == [row |-> FALSE, onHand |-> 0, reserved |-> 0, safety |-> Unset]
Entity(known) == [known |-> known, quantity |-> IF known THEN 1 ELSE Unset, eligible |-> known, missing |-> FALSE]

Blank == [items |-> [i \in CanonicalItems |-> Item(None, FALSE)],
          places |-> [p \in Places |-> Place(None)],
          balances |-> [k \in Shelves |-> Empty],
          entities |-> [e \in Entities |-> Entity(FALSE)]]
Stocked == [Blank EXCEPT !.items = [i \in CanonicalItems |-> Item(i, FALSE)],
                         !.places["north"] = Place("north"),
                         !.entities["red"] = Entity(TRUE)]
MCOpenings ==
    [mappings |-> Stocked,
     variations |-> [Stocked EXCEPT !.items["box"] = Item(None, FALSE),
                                    !.balances[<<"tea", "north">>] = [Empty EXCEPT !.row = TRUE, !.onHand = 1]],
     kits |-> Stocked,
     places |-> [Blank EXCEPT !.items["tea"] = Item("tea", FALSE)],
     items |-> [Blank EXCEPT !.places["north"] = Place("north")],
     pilot |-> Blank, report |-> Blank, allocation |-> Blank]
MCDoings ==
    [mappings |-> {"propose", "mappings", "revise"}, variations |-> {"propose", "mappings", "import"},
     kits |-> {"kits", "adjust", "propose"},
     places |-> {"places", "adjust"}, items |-> {"items", "adjust", "sell"}, pilot |-> {},
     report |-> {}, allocation |-> {}]

Converged(n, late) == {[outcome |-> "converged", latency |-> IF k <= late THEN 9 ELSE 2, interval |-> 1,
                      inScope |-> TRUE, excluded |-> FALSE, at |-> 1, id |-> k] : k \in 1..n}
Happened == {[what |-> w, at |-> 1] : w \in {"reordered", "entry", "dead", "verified"}}
\* Two samples in time, and a late one that was excluded.
MCEvidence == {[samples |-> Converged(2, 0) \cup {[s EXCEPT !.excluded = TRUE] : s \in Converged(1, 1)},
                events |-> Happened]}

OneOperator == {CHOOSE o \in Operators : TRUE}
OneMapping == {CHOOSE m \in Enrollable : TRUE}
\* A cohort of one mapping is the single stage.
NoCohort == \A o \in OneOperator : screens'[o].step = "stage" => screens'[o].stage # "cohort"
\* The report reads neither what the gate withholds nor what it lets through without a
\* stage: the pilot's scene has both.
LetThrough == \E m \in OneMapping : stage.row /\ mayWrite(m) /\ GateAsked(m)
\* The report judges the two kinds of drill alike, so one of them comes first.
OneKindFirst == drills' # {} => \E d \in drills' : d.kind = "outage_recovery"

AllocationRests ==
    /\ available = [k \in Keys |-> 0]
    /\ line = [quantity |-> 1, recipe |-> CHOOSE r \in Recipes : TRUE, split |-> FALSE]
MCInit ==
    /\ CatalogInit
    /\ PilotInit
    /\ scene \notin {"pilot", "report"} => stage = NoStage
    /\ scene # "report" => evidence = CHOOSE e \in Evidence : TRUE
    /\ IF scene = "allocation" THEN Init ELSE AllocationRests
MCNext ==
    \/ CatalogNext /\ UNCHANGED <<pilotVars, available, line>>
    \/ /\ \/ /\ scene = "pilot"
             /\ StageNext(Operators) \/ EnrollNext(Operators, Enrollable) \/ GateNext(Enrollable)
          \/ /\ scene = "report"
             /\ \/ StageNext(OneOperator) /\ NoCohort
                \/ EnrollNext(OneOperator, OneMapping)
                \/ LetThrough
                \/ ReportNext /\ OneKindFirst
       /\ UNCHANGED <<catalogVars, available, line>>
    \/ scene = "allocation" /\ Next /\ UNCHANGED <<catalogVars, pilotVars>>
MCSpec == MCInit /\ [][MCNext]_<<catalogVars, pilotVars, available, line>>
Sym == Permutations(Clerks)
--------------------------------------------------------------------------------
(* A statement that fails. *)

(* Fails: a business without a stage is written to from its first day, and what happens  *)
(* before the first setStage is not in the report's window, though the thirty days are   *)
(* said to count from the first moment a real provider could be written to (mayWrite,    *)
(* setStage).                                                                            *)
PassAnswersForEveryDay ==
    assessPilot => \A a \in OversaleAlerts :
                      incidents[a].at # Never => incidents[a].class \in {"not_a_defect", "external"}
================================================================================
