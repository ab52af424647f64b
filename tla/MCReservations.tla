---------------------------- MODULE MCReservations ----------------------------
(***************************************************************************)
(* Small instances of Reservations.                                        *)
(***************************************************************************)
EXTENDS Reservations, TLC

\* Stocked items a and b; the second line is a kit of one a and two b.
ItemA == {"a"}
ItemsAB == {"a", "b"}
OneLocation == <<"x">>
TwoLocations == <<"x", "y">>
L1 == {"l1"}
L12 == {"l1", "l2"}

PlainRecipes == [l \in Lines |-> "a" :> 1]
KitRecipes == "l1" :> ("a" :> 1) @@ "l2" :> ("a" :> 1 @@ "b" :> 2)
Ones == [l \in Lines |-> 1]
Twos == [l \in Lines |-> 2]

NoItemOverride == [i \in Items |-> Unset]
NoLocationOverride == [k \in Keys |-> Unset]
\* The second location withholds nothing, by decision.
NoneWithheldAtY == [k \in Keys |-> IF k[2] = "y" THEN 0 ELSE Unset]

ThreeAtX == [k \in Keys |-> IF k[2] = "x" THEN 3 ELSE 0]
ThreeEach == [k \in Keys |-> 3]

\* Two regimes: either the job queue keeps two order handlers off one line, while the mode
\* is switched beside them, or nothing does and people reverse entries as well.
CONSTANTS RaceOps, RacePostings
VARIABLE regime
Races == INSTANCE Reservations WITH
  SerializedByLine <- FALSE, Ops <- RaceOps, MaxPostings <- RacePostings

MCInit == regime \in {"in_turn", "races"} /\ Init
MCNext ==
  /\ \/ regime = "in_turn" /\ Next
     \/ regime = "races" /\ Races!Next
  /\ UNCHANGED regime
MCSpec == MCInit /\ [][MCNext]_<<vars, regime>>

(* While the order handlers of a line take turns, what is reserved is what the open   *)
(* reservations took, through every change of the consumption mode, except where a    *)
(* switch and somebody else had read the same line at once (ReservedIsCommitted).     *)
CommittedInTurn == regime = "in_turn" => ReservedIsCommitted

(* While they take turns, a line moves its units out of stock exactly once, whichever *)
(* of shipment, cancellation and change of mode comes first, unless a switch crossed  *)
(* one of the others at it (LineMovesItsUnitsOnce).                                   *)
MovedOnceInTurn == regime = "in_turn" => LineMovesItsUnitsOnce

(* The same of crossed lines does not hold: readForResolution takes no lock, so a     *)
(* shipment that read a reservation before a switch consumed it ships it once more.   *)
EvenCrossedLinesMoveOnce ==
  regime = "in_turn" => \A l \in Lines, k \in Keys : Moved(k, {l}) = -GoneFor(reservation[l], k)

CallerSymmetry == Permutations(Callers)

CountToTwo == {[how |-> "absolute", amount |-> 2]}
CountOrMove == {[how |-> "absolute", amount |-> 2], [how |-> "delta", amount |-> -1]}

===============================================================================
