----------------------------- MODULE ConfirmedOnce -----------------------------
(***************************************************************************)
(* What the review gate promises (packages/review): an operation reaches   *)
(* the outside at most once, only after somebody agreed to it, and what    *)
(* has been decided about it stays decided.  After an operation is given   *)
(* up as failed a call that was already on its way may still arrive: that  *)
(* is the one effect the agreement allows.                                 *)
(***************************************************************************)
EXTENDS Naturals

CONSTANT Ops
VARIABLES stage, effects

cvars == <<stage, effects>>

Stages == {"unasked", "asked", "dropped", "agreed", "done", "failed"}

ConfirmedOnceTypeOK ==
    /\ stage \in [Ops -> Stages]
    /\ effects \in [Ops -> {0, 1}]

ConfirmedOnceInit ==
    /\ stage = [o \in Ops |-> "unasked"]
    /\ effects = [o \in Ops |-> 0]

Move(S, from, to) ==
    /\ \A o \in S : stage[o] = from
    /\ stage' = [o \in Ops |-> IF o \in S THEN to ELSE stage[o]]
    /\ UNCHANGED effects

Ask(o) == Move({o}, "unasked", "asked")
Drop(S) == Move(S, "asked", "dropped")
Agree(o) == Move({o}, "asked", "agreed")
GiveUp(o) == Move({o}, "agreed", "failed")
Finish(o) == effects[o] = 1 /\ Move({o}, "agreed", "done")

Act(o) ==
    /\ stage[o] \in {"agreed", "failed"}
    /\ effects[o] = 0
    /\ effects' = [effects EXCEPT ![o] = 1]
    /\ UNCHANGED stage

ConfirmedOnceNext ==
    \/ \E o \in Ops : Ask(o) \/ Agree(o) \/ GiveUp(o) \/ Finish(o) \/ Act(o)
    \/ \E S \in SUBSET Ops : Drop(S)

ConfirmedOnceSpec == ConfirmedOnceInit /\ [][ConfirmedOnceNext]_cvars

================================================================================
