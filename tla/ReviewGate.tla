------------------------------ MODULE ReviewGate ------------------------------
(***************************************************************************)
(* Propose, confirm, execute (packages/review): the one gate every         *)
(* reviewed operation of the listings and the shipping packages passes.    *)
(* An operation is a row that is proposed from values read from a          *)
(* provider, confirmed by a person who is shown those values, and carried  *)
(* out by an executor that calls the provider between two statements of    *)
(* its own.  An executor may die anywhere; any other may begin the         *)
(* operation again while it is executing.                                  *)
(***************************************************************************)
EXTENDS Integers, FiniteSets, Authz

CONSTANTS
    OpIds,        \* identifiers of the rows, used in order
    Executors,    \* what carries confirmed operations out
    Confirmers,   \* members at the confirmation page: [subject, recent]
    MaxCrashes,   \* bound on executors that die
    MaxAttempts,  \* bound on the executions of one operation
    FeatureSets   \* sets of kinds, one of which a behaviour looks at

ASSUME ReviewAssumption ==
    /\ OpIds \subseteq Nat
    /\ MaxCrashes \in Nat /\ MaxAttempts \in Nat

VARIABLES
    ops,      \* reviewed_operations
    run,      \* what each executor is doing
    effects,  \* how often the provider has changed something for each operation
    crashes,
    features  \* the kinds this behaviour looks at together; never changes

gateVars == <<ops, run, effects, crashes, features>>

Kinds == {"draft_create", "draft_publish", "price_copy", "restock_to_live",
          "order_copy", "label_purchase"}

LiveStates == {"proposed", "confirmed", "executing"}
SettledStates == {"executed", "failed", "expired", "cancelled"}

NoOp == [state |-> "none"]

\* age is the time since the proposal and sourceAge the time since its source was read, in
\* units of five minutes, counted as long as the operation is proposed.
\* subject, key and value stand for the subject key, the idempotency key and the preview;
\* the fingerprint of a preview tells any two previews apart, so it is the preview itself.
Operations(Subjects, Keys, Values) ==
    [state : LiveStates \cup SettledStates, kind : Kinds, subject : Subjects,
     key : Keys, permission : Permissions, target : STRING, value : Values,
     confirmed : BOOLEAN, age : Nat, sourceAge : Nat, attempts : 0..MaxAttempts]

\* How old the source may be at confirmation, and how long the proposal stands, in
\* units of five minutes.
reviewWindowFor(kind) ==
    CASE kind = "draft_create"    -> [sourceMaxAge |-> 6, proposalTtl |-> 12]
      [] kind = "draft_publish"   -> [sourceMaxAge |-> 3, proposalTtl |-> 6]
      [] kind = "price_copy"      -> [sourceMaxAge |-> 1, proposalTtl |-> 3]
      [] kind = "restock_to_live" -> [sourceMaxAge |-> 1, proposalTtl |-> 2]
      [] kind = "order_copy"      -> [sourceMaxAge |-> 3, proposalTtl |-> 12]
      [] kind = "label_purchase"  -> [sourceMaxAge |-> 2, proposalTtl |-> 4]

assessFreshness(op) ==
    IF op.age >= reviewWindowFor(op.kind).proposalTtl THEN "expired"
    ELSE IF op.sourceAge > reviewWindowFor(op.kind).sourceMaxAge THEN "stale_source"
    ELSE "fresh"

fingerprintMatches(op, supplied) == op.value = supplied

Rows == {o \in OpIds : ops[o] # NoOp}
Live(kind, subject) ==
    \E o \in Rows : ops[o].kind = kind /\ ops[o].subject = subject /\ ops[o].state \in LiveStates
KeyTaken(key) == \E o \in Rows : ops[o].key = key

\* One live operation per kind and subject and one row per idempotency key are unique
\* indexes: an insert that meets either raises and changes nothing.
proposeOperation(o, kind, subject, key, permission, target, value, sourceAge) ==
    /\ ops[o] = NoOp /\ \A p \in OpIds : p < o => ops[p] # NoOp
    /\ kind \in features
    /\ ~Live(kind, subject)
    /\ ~KeyTaken(key)
    /\ ops' = [ops EXCEPT ![o] =
                 [state |-> "proposed", kind |-> kind, subject |-> subject, key |-> key,
                  permission |-> permission, target |-> target, value |-> value,
                  confirmed |-> FALSE, age |-> 0, sourceAge |-> sourceAge, attempts |-> 0]]

Refusal_AnyState(o, who, fingerprint) ==
    IF ops[o].state \notin LiveStates THEN "none" ELSE "already_decided"

\* The reason confirmOperation refuses, in the order it looks; "none" confirms.
Refusal(o, who, fingerprint) ==
    IF ~authorize(who.subject, ops[o].permission, Connection(ops[o].target)) THEN "not_permitted"
    ELSE IF ops[o].permission \in StepUp /\ ~who.recent THEN "recent_authentication_required"
    ELSE IF ops[o].state # "proposed" THEN "already_decided"
    ELSE IF assessFreshness(ops[o]) = "expired" THEN "expired"
    ELSE IF ~fingerprintMatches(ops[o], fingerprint) THEN "stale_preview"
    ELSE IF assessFreshness(ops[o]) = "stale_source" THEN "stale_source"
    ELSE "none"

\* A refusal is logged and leaves the operation alone, unless it has expired.
confirmOperation(o, who, fingerprint) ==
    /\ ops[o] # NoOp
    /\ LET reason == Refusal(o, who, fingerprint)
       IN  ops' = CASE reason = "none"    -> [ops EXCEPT ![o].state = "confirmed", ![o].confirmed = TRUE]
                    [] reason = "expired" -> [ops EXCEPT ![o].state = "expired"]
                    [] OTHER              -> ops
    /\ UNCHANGED <<run, effects, crashes, features>>

\* The page offers the open operations with whether this member may confirm them, asked
\* without naming a connection; the fingerprint it sends back is that of a row it shows.
loadOpenOperations(who) ==
    {o \in Rows : ops[o].state \in LiveStates}

mayConfirm(o, who) == authorize(who.subject, ops[o].permission, AnyTarget)

confirmOperationAction ==
    \E who \in Confirmers, o \in OpIds :
        \E shown \in loadOpenOperations(who) : confirmOperation(o, who, ops[shown].value)

\* Any member may withdraw a proposal.
cancelOperation(o) ==
    /\ ops[o].state = "proposed"
    /\ ops' = [ops EXCEPT ![o].state = "cancelled"]
    /\ UNCHANGED <<run, effects, crashes, features>>

cancelOperationAction == \E o \in OpIds : cancelOperation(o)

\* Strictly past its expiry, unlike the confirmation, which refuses at the instant.
Lapsed(o) == ops[o].state = "proposed" /\ ops[o].age > reviewWindowFor(ops[o].kind).proposalTtl

expireProposals ==
    /\ \E o \in OpIds : Lapsed(o)
    /\ ops' = [o \in OpIds |-> IF Lapsed(o) THEN [ops[o] EXCEPT !.state = "expired"] ELSE ops[o]]
    /\ UNCHANGED <<run, effects, crashes, features>>

-------------------------------------------------------------------------------
\* Execution.  An executor that has begun holds the row beginExecution returned; the
\* steps of the feature (Call of Listings and Shipping) come between begin and settle.
Idle == [stage |-> "idle"]
Running(w, stage) == run[w] # Idle /\ run[w].stage = stage

beginExecution_Unconfirmed(w, o, stage) ==
    /\ run[w] = Idle
    /\ ops[o].state \in {"proposed", "confirmed", "executing"}
    /\ ops[o].attempts < MaxAttempts
    /\ ops' = [ops EXCEPT ![o].state = "executing", ![o].attempts = @ + 1]
    /\ run' = [run EXCEPT ![w] = [stage |-> stage, op |-> o, answer |-> "none"]]

beginExecution(w, o, stage) ==
    /\ run[w] = Idle
    /\ ops[o].state \in {"confirmed", "executing"}
    /\ ops[o].attempts < MaxAttempts
    /\ ops' = [ops EXCEPT ![o].state = "executing", ![o].attempts = @ + 1]
    /\ run' = [run EXCEPT ![w] = [stage |-> stage, op |-> o, answer |-> "none"]]

completeExecution(o) ==
    ops' = IF ops[o].state = "executing" THEN [ops EXCEPT ![o].state = "executed"] ELSE ops

failExecution(o) ==
    ops' = IF ops[o].state \in {"confirmed", "executing"}
             THEN [ops EXCEPT ![o].state = "failed"] ELSE ops

\* The executor is gone with whatever it had not written yet.
Crash(w) ==
    /\ run[w] # Idle
    /\ crashes < MaxCrashes
    /\ crashes' = crashes + 1
    /\ run' = [run EXCEPT ![w] = Idle]
    /\ UNCHANGED <<ops, effects, features>>

\* Time passes, until the first moment at which some proposal is assessed differently.
Older(op, n) == [op EXCEPT !.age = @ + n, !.sourceAge = @ + n]
Assessment(op) == <<assessFreshness(op), op.age > reviewWindowFor(op.kind).proposalTtl>>
Proposed == {o \in OpIds : ops[o].state = "proposed"}

Tick ==
    \E n \in 1..13 :
        /\ \E o \in Proposed : Assessment(Older(ops[o], n)) # Assessment(ops[o])
        /\ \A k \in 1..(n - 1), o \in Proposed : Assessment(Older(ops[o], k)) = Assessment(ops[o])
        /\ ops' = [o \in OpIds |-> IF o \in Proposed /\ ~Lapsed(o) THEN Older(ops[o], n) ELSE ops[o]]
        /\ UNCHANGED <<run, effects, crashes, features>>

GateInit ==
    /\ ops = [o \in OpIds |-> NoOp]
    /\ run = [w \in Executors |-> Idle]
    /\ effects = [o \in OpIds |-> 0]
    /\ crashes = 0
    /\ features \in FeatureSets

GateNext ==
    \/ confirmOperationAction
    \/ cancelOperationAction
    \/ expireProposals
    \/ \E w \in Executors : Crash(w)
    \/ Tick

-------------------------------------------------------------------------------
\* How far an operation has come, as ConfirmedOnce sees it.
Stage(op) ==
    CASE op = NoOp                             -> "unasked"
      [] op.state \in {"cancelled", "expired"} -> "dropped"
      [] op.state \in LiveStates               -> IF op.confirmed THEN "agreed" ELSE "asked"
      [] op.state = "executed"                 -> "done"
      [] op.state = "failed"                   -> "failed"

Promise == INSTANCE ConfirmedOnce WITH Ops <- OpIds, stage <- [o \in OpIds |-> Stage(ops[o])]

\* An operation reaches the channel or the carrier at most once, only after it was
\* confirmed, and is recorded as executed only after it did, through executors that die,
\* overtake each other or begin it again (beginExecution, completeExecution, failExecution
\* and the idempotency keys the proposals give the provider).
AtMostOnceWhenConfirmed == Promise!ConfirmedOnceSpec

===============================================================================
