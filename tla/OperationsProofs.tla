--------------------------- MODULE OperationsProofs ---------------------------
(***************************************************************************)
(* Theorems about the reviewed operations: listings and shipments keep     *)
(* what ConfirmedOnce promises, for any number of operations, executors,   *)
(* attempts and crashes; a stored label was paid for at the price agreed   *)
(* to; the channel is told of a completion when the units owed have left;  *)
(* and few requests for suggestions pass a budget that is spent.           *)
(***************************************************************************)
EXTENDS Operations, Sums, SequenceTheorems

-------------------------------------------------------------------------------
(* The inductive invariant.                                                  *)

States == LiveStates \cup SettledStates
AgreedStates == {"confirmed", "executing", "executed", "failed"}

RowShape(r) ==
  r = [state |-> r.state, kind |-> r.kind, subject |-> r.subject, key |-> r.key,
       permission |-> r.permission, target |-> r.target, value |-> r.value,
       confirmed |-> r.confirmed, age |-> r.age, sourceAge |-> r.sourceAge,
       attempts |-> r.attempts]

\* A row of reviewed_operations: it is confirmed from the agreement on.
IsOp(r) ==
  /\ RowShape(r)
  /\ r.state \in States /\ r.kind \in Kinds
  /\ r.confirmed = (r.state \in AgreedStates)

\* What a row may become: what was agreed to stays the same.
Follow(r, q) ==
  /\ IsOp(r) /\ IsOp(q)
  /\ q.kind = r.kind /\ q.key = r.key /\ q.value = r.value
  /\ r.state \in AgreedStates => q.state \in AgreedStates

IsAsked(o) == ops[o] # NoOp

OpsType == ops = [o \in OpIds |-> ops[o]] /\ \A o \in OpIds : ops[o] = NoOp \/ IsOp(ops[o])

KeysApart ==
  \A o, p \in OpIds : IsAsked(o) /\ IsAsked(p) /\ ops[o].key = ops[p].key => o = p

\* The key of a publication names the draft; a restock has read the listing's version.
WellMade(r) ==
  /\ r.kind = "draft_publish" => r.key = <<"draft_publish", r.value.draft>>
  /\ r.kind = "restock_to_live" => r.value.version \in Int
RowsWellMade == \A o \in OpIds : IsAsked(o) => WellMade(ops[o])

OpsInv == OpsType /\ KeysApart /\ RowsWellMade

\* What the provider remembers of the operations that reached it, by which it tells a
\* repeated call; a restock it tells by the listing's version.
Remembered == Kinds \ {"restock_to_live"}
Memory(ch, ca, kind) ==
  CASE kind = "draft_create"   -> ch.drafts
    [] kind = "draft_publish"  -> ch.published
    [] kind = "price_copy"     -> ch.priceWrites
    [] kind = "order_copy"     -> ch.copies
    [] kind = "label_purchase" -> DOMAIN ca.sold
MarkOf(o, r) ==
  CASE r.kind = "draft_publish"  -> r.value.draft
    [] r.kind = "label_purchase" -> o
    [] OTHER                     -> r.key

EffectsType == effects \in [OpIds -> {0, 1}]
NothingUnasked == \A o \in OpIds : ~IsAsked(o) => effects[o] = 0
ExecutedActed == \A o \in OpIds : IsAsked(o) /\ ops[o].state = "executed" => effects[o] = 1
ProviderRemembers ==
  \A o \in OpIds : IsAsked(o) /\ ops[o].kind \in Remembered =>
    (effects[o] = 1 <=> MarkOf(o, ops[o]) \in Memory(channel, carrier, ops[o].kind))
MemoryIsOfRows ==
  \A k \in Remembered : \A m \in Memory(channel, carrier, k) :
    \E o \in OpIds : IsAsked(o) /\ ops[o].kind = k /\ MarkOf(o, ops[o]) = m
RestockPassed ==
  \A o \in OpIds : IsAsked(o) /\ ops[o].kind = "restock_to_live" /\ effects[o] = 1 =>
    ops[o].value.version < channel.listing.version

EffectsInv ==
  EffectsType /\ NothingUnasked /\ ExecutedActed /\ ProviderRemembers /\ MemoryIsOfRows /\ RestockPassed

Runs == [stage : {"reserve", "call", "record", "settle", "store", "complete"}, op : OpIds,
         answer : {"none", "success", "failure"}]
RunType == run \in [Executors -> Runs \cup {Idle}]
\* Only what was agreed to is carried out, and a success is one that reached the provider.
RunAgreed(x) == ops[x.op] # NoOp /\ ops[x.op].state \in AgreedStates
RunTrue(x) == x.answer = "success" \/ x.stage = "complete" => effects[x.op] = 1
RunsHold == \A w \in Executors : run[w] # Idle => RunAgreed(run[w]) /\ RunTrue(run[w])
RunInv == RunType /\ RunsHold

ChannelShape(ch) ==
  /\ ch = [drafts |-> ch.drafts, published |-> ch.published, priceWrites |-> ch.priceWrites,
           copies |-> ch.copies, prices |-> ch.prices, listing |-> ch.listing]
  /\ ch.listing = [state |-> ch.listing.state, outOfStockControl |-> ch.listing.outOfStockControl,
                   version |-> ch.listing.version]
  /\ ch.listing.version \in Int
ChannelInv == ChannelShape(channel) /\ carrier = [sold |-> carrier.sold, voided |-> carrier.voided]

GateInv == OpsInv /\ EffectsInv /\ RunInv /\ ChannelInv

-------------------------------------------------------------------------------
(* What the parts of a step keep.                                            *)

LEMMA OpsAreNot == \A r : IsOp(r) => r # NoOp
  BY DEF IsOp, NoOp, States, LiveStates, SettledStates

LEMMA AskedIsOp == ASSUME OpsInv, NEW o \in OpIds, IsAsked(o) PROVE IsOp(ops[o])
  BY DEF OpsInv, OpsType, IsAsked

\* Rows move on and none is asked for.
OpsFollow ==
  /\ ops' = [o \in OpIds |-> ops'[o]]
  /\ \A o \in OpIds : ops'[o] = ops[o] \/ Follow(ops[o], ops'[o])

LEMMA FollowSame ==
  ASSUME OpsInv, OpsFollow, NEW o \in OpIds
  PROVE  /\ IsAsked(o)' <=> IsAsked(o)
         /\ IsAsked(o) => /\ ops'[o].kind = ops[o].kind /\ ops'[o].key = ops[o].key
                          /\ ops'[o].value = ops[o].value
                          /\ ops[o].state \in AgreedStates => ops'[o].state \in AgreedStates
                          /\ MarkOf(o, ops'[o]) = MarkOf(o, ops[o])
<1>1. ops'[o] = ops[o] \/ Follow(ops[o], ops'[o])
  BY DEF OpsFollow
<1>2. IsAsked(o)' <=> IsAsked(o)
  BY <1>1, OpsAreNot DEF IsAsked, Follow
<1>3. /\ ops'[o].kind = ops[o].kind /\ ops'[o].key = ops[o].key /\ ops'[o].value = ops[o].value
      /\ ops[o].state \in AgreedStates => ops'[o].state \in AgreedStates
  BY <1>1 DEF Follow
<1>4. MarkOf(o, ops'[o]) = MarkOf(o, ops[o])
  BY <1>3 DEF MarkOf
<1>5. QED
  BY <1>2, <1>3, <1>4

LEMMA FollowOps == ASSUME OpsInv, OpsFollow PROVE OpsInv'
<1>1. OpsType'
  <2>1. \A o \in OpIds : ops'[o] = NoOp \/ IsOp(ops'[o])
    BY DEF OpsInv, OpsType, OpsFollow, Follow
  <2>2. QED
    BY <2>1 DEF OpsType, OpsFollow
<1>2. KeysApart'
  BY FollowSame DEF OpsInv, KeysApart
<1>3. RowsWellMade'
  <2> SUFFICES ASSUME NEW o \in OpIds, IsAsked(o)' PROVE WellMade(ops[o])'
    BY DEF RowsWellMade
  <2>1. IsAsked(o) /\ WellMade(ops[o])
    BY FollowSame DEF OpsInv, RowsWellMade
  <2>2. ops'[o].kind = ops[o].kind /\ ops'[o].key = ops[o].key /\ ops'[o].value = ops[o].value
    BY <2>1, FollowSame
  <2>3. QED
    BY <2>1, <2>2 DEF WellMade
<1>4. QED
  BY <1>1, <1>2, <1>3 DEF OpsInv

\* The provider remembers what it did, and nothing else happens there.
SameMemory == \A k \in Remembered : Memory(channel', carrier', k) = Memory(channel, carrier, k)
VersionGrows ==
  /\ channel.listing.version \in Int /\ channel'.listing.version \in Int
  /\ channel.listing.version <= channel'.listing.version

LEMMA QuietEffects ==
  ASSUME OpsInv, EffectsInv, OpsFollow, effects' = effects, SameMemory, VersionGrows,
         \A o \in OpIds : ops'[o].state = "executed" => ops[o].state = "executed" \/ effects[o] = 1
  PROVE  EffectsInv'
<1>1. EffectsType' /\ NothingUnasked'
  BY FollowSame DEF EffectsInv, EffectsType, NothingUnasked
<1>2. ExecutedActed'
  BY FollowSame DEF EffectsInv, ExecutedActed
<1>3. ProviderRemembers'
  <2> SUFFICES ASSUME NEW o \in OpIds, IsAsked(o)', ops'[o].kind \in Remembered
               PROVE  effects'[o] = 1 <=> MarkOf(o, ops'[o]) \in Memory(channel', carrier', ops'[o].kind)
    BY DEF ProviderRemembers
  <2>1. IsAsked(o) /\ ops'[o].kind = ops[o].kind /\ MarkOf(o, ops'[o]) = MarkOf(o, ops[o])
    BY FollowSame
  <2>2. Memory(channel', carrier', ops[o].kind) = Memory(channel, carrier, ops[o].kind)
    BY <2>1 DEF SameMemory
  <2>3. QED
    BY <2>1, <2>2 DEF EffectsInv, ProviderRemembers
<1>4. MemoryIsOfRows'
  <2> SUFFICES ASSUME NEW k \in Remembered, NEW m \in Memory(channel', carrier', k)
               PROVE  \E o \in OpIds : IsAsked(o)' /\ ops'[o].kind = k /\ MarkOf(o, ops'[o]) = m
    BY DEF MemoryIsOfRows
  <2>1. m \in Memory(channel, carrier, k)
    BY DEF SameMemory
  <2>2. PICK o \in OpIds : IsAsked(o) /\ ops[o].kind = k /\ MarkOf(o, ops[o]) = m
    BY <2>1 DEF EffectsInv, MemoryIsOfRows
  <2>3. QED
    BY <2>2, FollowSame
<1>5. RestockPassed'
  <2> SUFFICES ASSUME NEW o \in OpIds, IsAsked(o)', ops'[o].kind = "restock_to_live", effects'[o] = 1
               PROVE  ops'[o].value.version < channel'.listing.version
    BY DEF RestockPassed
  <2>1. IsAsked(o) /\ ops[o].kind = "restock_to_live" /\ ops'[o].value = ops[o].value
    BY FollowSame
  <2>2. ops[o].value.version < channel.listing.version
    BY <2>1 DEF EffectsInv, RestockPassed
  <2>3. ops[o].value.version \in Int
    BY <2>1 DEF OpsInv, RowsWellMade, WellMade
  <2>4. QED
    BY <2>1, <2>2, <2>3 DEF VersionGrows
<1>6. QED
  BY <1>1, <1>2, <1>3, <1>4, <1>5 DEF EffectsInv

\* An executor goes on, stops, or begins with what was agreed to.
RunMoves(w) ==
  \/ run'[w] = run[w]
  \/ run'[w] = Idle
  \/ /\ run'[w] \in Runs
     /\ ops'[run'[w].op] # NoOp /\ ops'[run'[w].op].state \in AgreedStates
     /\ run'[w].answer = "success" \/ run'[w].stage = "complete" => effects'[run'[w].op] = 1

LEMMA MovesRun ==
  ASSUME OpsInv, RunInv, OpsFollow, run' = [w \in Executors |-> run'[w]],
         \A w \in Executors : RunMoves(w),
         \A o \in OpIds : effects[o] = 1 => effects'[o] = 1
  PROVE  RunInv'
<1>1. RunType'
  BY DEF RunInv, RunType, RunMoves
<1>2. RunsHold'
  <2> SUFFICES ASSUME NEW w \in Executors, run'[w] # Idle
               PROVE  RunAgreed(run[w])' /\ RunTrue(run[w])'
    BY DEF RunsHold
  <2>1. CASE run'[w] = run[w]
    <3>1. run[w] \in Runs /\ RunAgreed(run[w]) /\ RunTrue(run[w])
      BY <2>1 DEF RunInv, RunType, RunsHold
    <3>2. run[w].op \in OpIds
      BY <3>1 DEF Runs
    <3>3. ops'[run[w].op] # NoOp /\ ops'[run[w].op].state \in AgreedStates
      BY <3>1, <3>2, FollowSame DEF RunAgreed, IsAsked
    <3>4. QED
      BY <2>1, <3>1, <3>2, <3>3 DEF RunAgreed, RunTrue
  <2>2. CASE run'[w] # run[w]
    BY <2>2 DEF RunMoves, RunAgreed, RunTrue
  <2>3. QED
    BY <2>1, <2>2
<1>3. QED
  BY <1>1, <1>2 DEF RunInv

-------------------------------------------------------------------------------
(* Steps as ConfirmedOnce sees them.                                         *)

LEMMA StageOfRow ==
  ASSUME NEW r, IsOp(r)
  PROVE  /\ r.state = "proposed" => Stage(r) = "asked"
         /\ r.state \in {"confirmed", "executing"} => Stage(r) = "agreed"
         /\ r.state \in {"cancelled", "expired"} => Stage(r) = "dropped"
         /\ r.state = "executed" => Stage(r) = "done"
         /\ r.state = "failed" => Stage(r) = "failed"
<1>1. r # NoOp /\ r.state \in States /\ (r.confirmed = (r.state \in AgreedStates))
  BY OpsAreNot DEF IsOp
<1>2. QED
  BY <1>1 DEF Stage, States, AgreedStates, LiveStates, SettledStates

LEMMA StageOfNone == Stage(NoOp) = "unasked"
<1>1. NoOp.state = "none"
  BY DEF NoOp
<1>2. QED
  BY <1>1 DEF Stage, LiveStates

\* The steps of ConfirmedOnce and those that it does not see.
Seen == Promise!ConfirmedOnceNext \/ UNCHANGED Promise!cvars

LEMMA MoveSeen ==
  ASSUME NEW S \in SUBSET OpIds, NEW from, NEW to,
         \A o \in S : Stage(ops[o]) = from,
         \A o \in OpIds : Stage(ops'[o]) = IF o \in S THEN to ELSE Stage(ops[o]),
         effects' = effects
  PROVE  Promise!Move(S, from, to)
  BY DEF Promise!Move

LEMMA NothingSeen ==
  ASSUME \A o \in OpIds : Stage(ops'[o]) = Stage(ops[o]), effects' = effects
  PROVE  Seen
  BY DEF Seen, Promise!cvars

LEMMA OneMoveSeen ==
  ASSUME NEW o \in OpIds, NEW to,
         \A p \in OpIds : p # o => ops'[p] = ops[p],
         Stage(ops'[o]) = to, effects' = effects,
         \/ Stage(ops[o]) = to
         \/ Stage(ops[o]) = "unasked" /\ to = "asked"
         \/ Stage(ops[o]) = "asked" /\ to \in {"agreed", "dropped"}
         \/ Stage(ops[o]) = "agreed" /\ to = "failed"
         \/ Stage(ops[o]) = "agreed" /\ to = "done" /\ effects[o] = 1
  PROVE  Seen
<1>1. CASE Stage(ops[o]) = to
  BY <1>1, NothingSeen
<1>2. CASE Stage(ops[o]) # to
  <2>1. \A p \in OpIds : Stage(ops'[p]) = IF p \in {o} THEN to ELSE Stage(ops[p])
    OBVIOUS
  <2>2. \A from : Stage(ops[o]) = from => Promise!Move({o}, from, to)
    BY <2>1, MoveSeen
  <2>3. CASE Stage(ops[o]) = "unasked" /\ to = "asked"
    BY <2>2, <2>3 DEF Seen, Promise!ConfirmedOnceNext, Promise!Ask
  <2>4. CASE Stage(ops[o]) = "asked" /\ to = "agreed"
    BY <2>2, <2>4 DEF Seen, Promise!ConfirmedOnceNext, Promise!Agree
  <2>5. CASE Stage(ops[o]) = "asked" /\ to = "dropped"
    BY <2>2, <2>5 DEF Seen, Promise!ConfirmedOnceNext, Promise!Drop
  <2>6. CASE Stage(ops[o]) = "agreed" /\ to = "failed"
    BY <2>2, <2>6 DEF Seen, Promise!ConfirmedOnceNext, Promise!GiveUp
  <2>7. CASE Stage(ops[o]) = "agreed" /\ to = "done" /\ effects[o] = 1
    BY <2>2, <2>7 DEF Seen, Promise!ConfirmedOnceNext, Promise!Finish
  <2>8. QED
    BY <1>2, <2>3, <2>4, <2>5, <2>6, <2>7
<1>3. QED
  BY <1>1, <1>2

LEMMA DropSeen ==
  ASSUME NEW S \in SUBSET OpIds,
         \A o \in S : Stage(ops[o]) = "asked" /\ Stage(ops'[o]) = "dropped",
         \A o \in OpIds \ S : ops'[o] = ops[o], effects' = effects
  PROVE  Seen
<1>1. Promise!Move(S, "asked", "dropped")
  BY MoveSeen
<1>2. QED
  BY <1>1 DEF Seen, Promise!ConfirmedOnceNext, Promise!Drop

LEMMA ActSeen ==
  ASSUME NEW o \in OpIds, Stage(ops[o]) \in {"agreed", "failed"}, effects[o] = 0, ops' = ops,
         effects' = [effects EXCEPT ![o] = 1]
  PROVE  Seen
  BY DEF Seen, Promise!ConfirmedOnceNext, Promise!Act

-------------------------------------------------------------------------------
(* Rows.                                                                     *)

LEMMA RowToState ==
  ASSUME NEW r, IsOp(r), NEW s \in States, s \in AgreedStates <=> r.state \in AgreedStates
  PROVE  Follow(r, [r EXCEPT !.state = s]) /\ [r EXCEPT !.state = s].state = s
<1> DEFINE q == [r EXCEPT !.state = s]
<1>1. RowShape(q) /\ q.state = s /\ q.kind = r.kind /\ q.key = r.key /\ q.value = r.value
      /\ q.confirmed = r.confirmed
  BY DEF IsOp, RowShape
<1> HIDE DEF q
<1>2. QED
  BY <1>1 DEF Follow, IsOp, q

\* Two columns are written one after the other.
LEMMA StateAttempts ==
  \A r, s, n : [r EXCEPT !.state = s, !.attempts = n] = [[r EXCEPT !.state = s] EXCEPT !.attempts = n]
  BY SMT
LEMMA StateConfirmed ==
  \A r, s, n : [r EXCEPT !.state = s, !.confirmed = n] = [[r EXCEPT !.state = s] EXCEPT !.confirmed = n]
  BY SMT
LEMMA AgeSourceAge ==
  \A r, s, n : [r EXCEPT !.age = s, !.sourceAge = n] = [[r EXCEPT !.age = s] EXCEPT !.sourceAge = n]
  BY SMT

LEMMA ConfirmedColumn ==
  ASSUME NEW p, RowShape(p), NEW b
  PROVE  LET q == [p EXCEPT !.confirmed = b]
         IN  /\ RowShape(q) /\ q.state = p.state /\ q.kind = p.kind /\ q.key = p.key /\ q.value = p.value
             /\ q.confirmed = b
  BY DEF RowShape

LEMMA RowConfirmed ==
  ASSUME NEW r, IsOp(r), r.state = "proposed"
  PROVE  /\ Follow(r, [r EXCEPT !.state = "confirmed", !.confirmed = TRUE])
         /\ [r EXCEPT !.state = "confirmed", !.confirmed = TRUE].state = "confirmed"
<1> DEFINE p == [r EXCEPT !.state = "confirmed"]
           q == [p EXCEPT !.confirmed = TRUE]
<1>1. RowShape(p) /\ p.state = "confirmed" /\ p.kind = r.kind /\ p.key = r.key /\ p.value = r.value
  BY DEF IsOp, RowShape
<1>2. [r EXCEPT !.state = "confirmed", !.confirmed = TRUE] = q
  BY StateConfirmed
<1> HIDE DEF p
<1>3. RowShape(q) /\ q.state = p.state /\ q.kind = p.kind /\ q.key = p.key /\ q.value = p.value
      /\ q.confirmed = TRUE
  BY <1>1, ConfirmedColumn, Zenon
<1>4. "confirmed" \in States /\ "confirmed" \in AgreedStates /\ r.state \notin AgreedStates
  BY DEF States, LiveStates, AgreedStates
<1> HIDE DEF q
<1>5. QED
  BY <1>1, <1>2, <1>3, <1>4 DEF Follow, IsOp

LEMMA RowBegun ==
  ASSUME NEW r, IsOp(r), r.state \in {"confirmed", "executing"}, NEW n
  PROVE  /\ Follow(r, [r EXCEPT !.state = "executing", !.attempts = n])
         /\ [r EXCEPT !.state = "executing", !.attempts = n].state = "executing"
<1> DEFINE p == [r EXCEPT !.state = "executing"]
           q == [p EXCEPT !.attempts = n]
<1>1. "executing" \in States /\ "executing" \in AgreedStates /\ r.state \in AgreedStates
  BY DEF States, LiveStates, AgreedStates
<1>2. Follow(r, p) /\ p.state = "executing"
  BY <1>1, RowToState
<1>3. [r EXCEPT !.state = "executing", !.attempts = n] = q
  BY StateAttempts
<1> HIDE DEF p
<1>4. RowShape(q) /\ q.state = p.state /\ q.kind = p.kind /\ q.key = p.key /\ q.value = p.value
      /\ q.confirmed = p.confirmed
  BY <1>2 DEF Follow, IsOp, RowShape
<1> HIDE DEF q
<1>5. QED
  BY <1>1, <1>2, <1>3, <1>4 DEF Follow, IsOp

LEMMA RowOlder ==
  ASSUME NEW r, IsOp(r), NEW a, NEW b
  PROVE  /\ Follow(r, [r EXCEPT !.age = a, !.sourceAge = b])
         /\ [r EXCEPT !.age = a, !.sourceAge = b].state = r.state
<1> DEFINE p == [r EXCEPT !.age = a]
           q == [p EXCEPT !.sourceAge = b]
<1>1. RowShape(p) /\ p.state = r.state /\ p.kind = r.kind /\ p.key = r.key /\ p.value = r.value
      /\ p.confirmed = r.confirmed
  BY DEF IsOp, RowShape
<1>2. [r EXCEPT !.age = a, !.sourceAge = b] = q
  BY AgeSourceAge
<1> HIDE DEF p
<1>3. RowShape(q) /\ q.state = p.state /\ q.kind = p.kind /\ q.key = p.key /\ q.value = p.value
      /\ q.confirmed = p.confirmed
  BY <1>1 DEF RowShape
<1> HIDE DEF q
<1>4. QED
  BY <1>1, <1>2, <1>3 DEF Follow, IsOp

LEMMA OneFollows ==
  ASSUME OpsInv, NEW o \in OpIds, NEW q, Follow(ops[o], q), ops' = [ops EXCEPT ![o] = q]
  PROVE  OpsFollow /\ ops'[o] = q /\ \A p \in OpIds : p # o => ops'[p] = ops[p]
<1>1. ops = [p \in OpIds |-> ops[p]]
  BY DEF OpsInv, OpsType
<1>2. ops' = [p \in OpIds |-> IF p = o THEN q ELSE ops[p]]
  BY <1>1
<1>3. ops'[o] = q /\ \A p \in OpIds : p # o => ops'[p] = ops[p]
  BY <1>2
<1>4. ops' = [p \in OpIds |-> ops'[p]]
  BY <1>2
<1>5. QED
  BY <1>3, <1>4 DEF OpsFollow

-------------------------------------------------------------------------------
(* Frames.                                                                   *)

NoneExecuted == \A o \in OpIds : ops'[o].state = "executed" => ops[o].state = "executed" \/ effects[o] = 1
RunsMove == run' = [w \in Executors |-> run'[w]] /\ \A w \in Executors : RunMoves(w)
OutsideQuiet == SameMemory /\ VersionGrows /\ ChannelInv'

LEMMA QuietKeeps ==
  ASSUME GateInv, OpsFollow, NoneExecuted, RunsMove, OutsideQuiet, effects' = effects
  PROVE  GateInv'
<1>1. OpsInv'
  BY FollowOps DEF GateInv
<1>2. EffectsInv'
  BY QuietEffects DEF GateInv, NoneExecuted, OutsideQuiet
<1>3. RunInv'
  BY MovesRun DEF GateInv, RunsMove
<1>4. QED
  BY <1>1, <1>2, <1>3 DEF GateInv, OutsideQuiet

LEMMA SameOps ==
  ASSUME GateInv, ops' = ops
  PROVE  OpsFollow /\ NoneExecuted
<1>1. ops = [o \in OpIds |-> ops[o]]
  BY DEF GateInv, OpsInv, OpsType
<1>2. ops' = [o \in OpIds |-> ops'[o]]
  BY <1>1, Zenon
<1>3. QED
  BY <1>2 DEF OpsFollow, NoneExecuted

LEMMA SameOutside ==
  ASSUME GateInv, channel' = channel, carrier' = carrier
  PROVE  OutsideQuiet
  BY DEF GateInv, ChannelInv, ChannelShape, OutsideQuiet, SameMemory, VersionGrows

LEMMA SameRun ==
  ASSUME GateInv, run' = run
  PROVE  RunsMove
<1>1. run = [w \in Executors |-> run[w]]
  BY DEF GateInv, RunInv, RunType
<1>2. run' = [w \in Executors |-> run'[w]]
  BY <1>1, Zenon
<1>3. QED
  BY <1>2 DEF RunsMove, RunMoves

LEMMA OneRun ==
  ASSUME GateInv, NEW w \in Executors, NEW x, run' = [run EXCEPT ![w] = x],
         \/ x = Idle
         \/ /\ x \in Runs
            /\ ops'[x.op] # NoOp /\ ops'[x.op].state \in AgreedStates
            /\ x.answer = "success" \/ x.stage = "complete" => effects'[x.op] = 1
  PROVE  RunsMove
<1>1. run = [v \in Executors |-> run[v]]
  BY DEF GateInv, RunInv, RunType
<1>2. run' = [v \in Executors |-> IF v = w THEN x ELSE run[v]]
  BY <1>1
<1>3. run' = [v \in Executors |-> run'[v]]
  BY <1>2
<1>4. run'[w] = x /\ \A v \in Executors : v # w => run'[v] = run[v]
  BY <1>2
<1>5. ASSUME NEW v \in Executors PROVE RunMoves(v)
  <2>1. CASE v = w
    BY <1>4, <2>1 DEF RunMoves
  <2>2. CASE v # w
    BY <1>4, <2>2 DEF RunMoves
  <2>3. QED
    BY <2>1, <2>2
<1>6. QED
  BY <1>3, <1>5 DEF RunsMove

LEMMA SameStage ==
  ASSUME NEW r, NEW q, IsOp(r), IsOp(q), q.state = r.state
  PROVE  Stage(q) = Stage(r)
<1>1. r.state \in States
  BY DEF IsOp
<1>2. QED
  BY <1>1, StageOfRow DEF States, LiveStates, SettledStates

\* What has been asked for stays what it is.
RowsStay ==
  \A o \in OpIds : IsAsked(o) =>
    IsAsked(o)' /\ ops'[o].kind = ops[o].kind /\ ops'[o].value = ops[o].value

Kept == Seen /\ RowsStay

LEMMA FollowRows ==
  ASSUME GateInv, OpsFollow
  PROVE  RowsStay
  BY FollowSame DEF RowsStay, GateInv

LEMMA SameRows ==
  ASSUME ops' = ops
  PROVE  RowsStay
  BY DEF RowsStay, IsAsked

\* A step in which the gate and the two providers rest.
LEMMA RestKeeps ==
  ASSUME GateInv, UNCHANGED gateVars, UNCHANGED channel, UNCHANGED carrier
  PROVE  GateInv' /\ Kept
<1>1. ops' = ops /\ run' = run /\ effects' = effects /\ channel' = channel /\ carrier' = carrier
  BY DEF gateVars
<1>2. GateInv'
  BY <1>1, QuietKeeps, SameOps, SameOutside, SameRun
<1>3. Kept
  BY <1>1, NothingSeen, SameRows DEF Kept
<1>4. QED
  BY <1>2, <1>3

\* One row moves on; everything outside the gate rests.
LEMMA RowStep ==
  ASSUME GateInv, NEW o \in OpIds, NEW q, Follow(ops[o], q), ops' = [ops EXCEPT ![o] = q],
         RunsMove, effects' = effects, channel' = channel, carrier' = carrier,
         q.state = "executed" => ops[o].state = "executed" \/ effects[o] = 1,
         \/ Stage(q) = Stage(ops[o])
         \/ Stage(ops[o]) = "asked" /\ Stage(q) \in {"agreed", "dropped"}
         \/ Stage(ops[o]) = "agreed" /\ Stage(q) = "failed"
         \/ Stage(ops[o]) = "agreed" /\ Stage(q) = "done" /\ effects[o] = 1
  PROVE  GateInv' /\ Kept
<1>1. OpsFollow /\ ops'[o] = q /\ \A p \in OpIds : p # o => ops'[p] = ops[p]
  BY OneFollows DEF GateInv
<1>2. NoneExecuted
  BY <1>1 DEF NoneExecuted
<1>3. GateInv'
  BY <1>1, <1>2, QuietKeeps, SameOutside
<1>4. Stage(ops'[o]) = Stage(q)
  BY <1>1
<1>5. Kept
  BY <1>1, <1>4, OneMoveSeen, FollowRows DEF Kept
<1>6. QED
  BY <1>3, <1>5

-------------------------------------------------------------------------------
(* The actions of the gate.                                                  *)

Rested == UNCHANGED <<channel, carrier>>

LEMMA RowOf ==
  ASSUME GateInv, NEW o \in OpIds, ops[o].state # "none"
  PROVE  IsOp(ops[o]) /\ IsAsked(o)
  BY DEF GateInv, OpsInv, OpsType, IsAsked, NoOp

LEMMA ConfirmKeeps ==
  ASSUME GateInv, Rested, confirmOperationAction
  PROVE  GateInv' /\ Kept
<1> SUFFICES ASSUME NEW who \in Confirmers, NEW o \in OpIds, NEW fingerprint,
                    confirmOperation(o, who, fingerprint)
             PROVE  GateInv' /\ Kept
  BY DEF confirmOperationAction
<1>1. confirmOperation(o, who, fingerprint)
  OBVIOUS
<1>2. /\ run' = run /\ effects' = effects /\ crashes' = crashes /\ features' = features
      /\ channel' = channel /\ carrier' = carrier /\ RunsMove
  BY <1>1, SameRun DEF confirmOperation, Rested
<1>3. IsOp(ops[o])
  BY <1>1, AskedIsOp DEF confirmOperation, IsAsked, GateInv
<1>4. CASE ops' = ops
  BY <1>2, <1>4, RestKeeps DEF gateVars
<1>5. CASE /\ ops[o].state = "proposed"
           /\ ops' = [ops EXCEPT ![o].state = "confirmed", ![o].confirmed = TRUE]
  <2> DEFINE q == [ops[o] EXCEPT !.state = "confirmed", !.confirmed = TRUE]
  <2>1. Follow(ops[o], q) /\ q.state = "confirmed"
    BY <1>3, <1>5, RowConfirmed
  <2>2. ops' = [ops EXCEPT ![o] = q]
    BY <1>5
  <2>3. Stage(ops[o]) = "asked" /\ Stage(q) = "agreed"
    BY <1>3, <1>5, <2>1, StageOfRow DEF Follow
  <2> HIDE DEF q
  <2>4. QED
    BY <1>2, <2>1, <2>2, <2>3, RowStep
<1>6. CASE ops[o].state = "proposed" /\ ops' = [ops EXCEPT ![o].state = "expired"]
  <2> DEFINE q == [ops[o] EXCEPT !.state = "expired"]
  <2>1. Follow(ops[o], q) /\ q.state = "expired"
    BY <1>3, <1>6, RowToState DEF States, LiveStates, SettledStates, AgreedStates
  <2>2. ops' = [ops EXCEPT ![o] = q]
    BY <1>6
  <2>3. Stage(ops[o]) = "asked" /\ Stage(q) = "dropped"
    BY <1>3, <1>6, <2>1, StageOfRow DEF Follow
  <2> HIDE DEF q
  <2>4. QED
    BY <1>2, <2>1, <2>2, <2>3, RowStep
<1>7. \/ ops' = ops
      \/ /\ ops[o].state = "proposed"
         /\ ops' = [ops EXCEPT ![o].state = "confirmed", ![o].confirmed = TRUE]
      \/ ops[o].state = "proposed" /\ ops' = [ops EXCEPT ![o].state = "expired"]
  <2> DEFINE reason == Refusal(o, who, fingerprint)
  <2>1. ops' = CASE reason = "none" -> [ops EXCEPT ![o].state = "confirmed", ![o].confirmed = TRUE]
                 [] reason = "expired" -> [ops EXCEPT ![o].state = "expired"]
                 [] OTHER -> ops
    BY <1>1 DEF confirmOperation
  <2>2. reason = "none" \/ reason = "expired" => ops[o].state = "proposed"
    BY DEF Refusal
  <2> HIDE DEF reason
  <2>3. QED
    BY <2>1, <2>2
<1>8. QED
  BY <1>4, <1>5, <1>6, <1>7

LEMMA CancelKeeps ==
  ASSUME GateInv, Rested, cancelOperationAction
  PROVE  GateInv' /\ Kept
<1>1. PICK o \in OpIds : cancelOperation(o)
  BY DEF cancelOperationAction
<1>2. /\ effects' = effects /\ channel' = channel /\ carrier' = carrier /\ RunsMove
      /\ ops[o].state = "proposed" /\ ops' = [ops EXCEPT ![o].state = "cancelled"]
  BY <1>1, SameRun DEF cancelOperation, Rested
<1>3. IsOp(ops[o])
  BY <1>2, RowOf
<1> DEFINE q == [ops[o] EXCEPT !.state = "cancelled"]
<1>4. Follow(ops[o], q) /\ q.state = "cancelled"
  BY <1>2, <1>3, RowToState DEF States, LiveStates, SettledStates, AgreedStates
<1>5. ops' = [ops EXCEPT ![o] = q]
  BY <1>2
<1>6. Stage(ops[o]) = "asked" /\ Stage(q) = "dropped"
  BY <1>2, <1>3, <1>4, StageOfRow DEF Follow
<1> HIDE DEF q
<1>7. QED
  BY <1>2, <1>4, <1>5, <1>6, RowStep

LEMMA ExpireKeeps ==
  ASSUME GateInv, Rested, expireProposals
  PROVE  GateInv' /\ Kept
<1> DEFINE S == {o \in OpIds : Lapsed(o)}
<1>1. /\ effects' = effects /\ channel' = channel /\ carrier' = carrier /\ RunsMove
      /\ ops' = [o \in OpIds |-> IF Lapsed(o) THEN [ops[o] EXCEPT !.state = "expired"] ELSE ops[o]]
  BY SameRun DEF expireProposals, Rested
<1>2. ASSUME NEW o \in S
      PROVE  /\ Follow(ops[o], ops'[o]) /\ ops'[o].state = "expired"
             /\ Stage(ops[o]) = "asked" /\ Stage(ops'[o]) = "dropped"
  <2>1. ops[o].state = "proposed" /\ ops'[o] = [ops[o] EXCEPT !.state = "expired"]
    BY <1>1 DEF Lapsed
  <2>2. IsOp(ops[o])
    BY <2>1, RowOf
  <2> DEFINE q == [ops[o] EXCEPT !.state = "expired"]
  <2>5. Follow(ops[o], q) /\ q.state = "expired"
    BY <2>1, <2>2, RowToState DEF States, LiveStates, SettledStates, AgreedStates
  <2> HIDE DEF q
  <2>3. Follow(ops[o], ops'[o]) /\ ops'[o].state = "expired"
    <3>1. ops'[o] = q
      BY <2>1 DEF q
    <3>2. QED
      BY <2>5, <3>1
  <2>4. QED
    BY <2>1, <2>3, StageOfRow DEF Follow
<1>3. \A o \in OpIds \ S : ops'[o] = ops[o]
  BY <1>1
<1>4. ops' = [o \in OpIds |-> ops'[o]]
  BY <1>1
<1> HIDE DEF S
<1>5. S \in SUBSET OpIds
  BY DEF S
<1>6. OpsFollow
  BY <1>2, <1>3, <1>4, <1>5 DEF OpsFollow
<1>7. NoneExecuted
  BY <1>2, <1>3, <1>5 DEF NoneExecuted
<1>8. GateInv'
  BY <1>1, <1>6, <1>7, QuietKeeps, SameOutside
<1>9. Kept
  BY <1>1, <1>2, <1>3, <1>5, <1>6, DropSeen, FollowRows DEF Kept
<1>10. QED
  BY <1>8, <1>9

LEMMA TickKeeps ==
  ASSUME GateInv, Rested, Tick
  PROVE  GateInv' /\ Kept
<1>1. PICK n \in 1..13 :
        ops' = [o \in OpIds |-> IF o \in Proposed /\ ~Lapsed(o) THEN Older(ops[o], n) ELSE ops[o]]
  BY DEF Tick
<1>2. effects' = effects /\ channel' = channel /\ carrier' = carrier /\ RunsMove
  BY SameRun DEF Tick, Rested
<1>3. ASSUME NEW o \in OpIds
      PROVE  /\ ops'[o] = ops[o] \/ Follow(ops[o], ops'[o])
             /\ ops'[o].state = ops[o].state /\ Stage(ops'[o]) = Stage(ops[o])
  <2>1. CASE o \in Proposed /\ ~Lapsed(o)
    <3>1. ops'[o] = [ops[o] EXCEPT !.age = @ + n, !.sourceAge = @ + n] /\ ops[o].state = "proposed"
      BY <1>1, <2>1 DEF Older, Proposed
    <3>2. IsOp(ops[o])
      BY <3>1, RowOf
    <3> DEFINE a == ops[o].age + n
               b == ops[o].sourceAge + n
    <3>3. ops'[o] = [ops[o] EXCEPT !.age = a, !.sourceAge = b]
      BY <3>1
    <3> DEFINE q == [ops[o] EXCEPT !.age = a, !.sourceAge = b]
    <3> HIDE DEF a, b
    <3>6. Follow(ops[o], q) /\ q.state = ops[o].state
      BY <3>2, RowOlder
    <3>7. ops'[o] = q
      BY <3>3
    <3> HIDE DEF q
    <3>4. Follow(ops[o], ops'[o]) /\ ops'[o].state = ops[o].state
      BY <3>6, <3>7
    <3>5. QED
      BY <3>4, SameStage DEF Follow
  <2>2. CASE ~(o \in Proposed /\ ~Lapsed(o))
    BY <1>1, <2>2
  <2>3. QED
    BY <2>1, <2>2
<1>4. ops' = [o \in OpIds |-> ops'[o]]
  BY <1>1
<1>5. OpsFollow /\ NoneExecuted
  BY <1>3, <1>4 DEF OpsFollow, NoneExecuted
<1>6. GateInv'
  BY <1>2, <1>5, QuietKeeps, SameOutside
<1>7. Kept
  BY <1>2, <1>3, <1>5, NothingSeen, FollowRows DEF Kept
<1>8. QED
  BY <1>6, <1>7

\* An executor that stops, whatever it was doing.
LEMMA CrashKeeps ==
  ASSUME GateInv, Rested, NEW w \in Executors, Crash(w)
  PROVE  GateInv' /\ Kept
<1>1. ops' = ops /\ effects' = effects /\ channel' = channel /\ carrier' = carrier /\ run' = [run EXCEPT ![w] = Idle]
  BY DEF Crash, Rested
<1>2. RunsMove
  BY <1>1, OneRun
<1>3. GateInv'
  BY <1>1, <1>2, QuietKeeps, SameOps, SameOutside
<1>4. Kept
  BY <1>1, NothingSeen, SameRows DEF Kept
<1>5. QED
  BY <1>3, <1>4

LEMMA GateKeeps ==
  ASSUME GateInv, Rested, GateNext
  PROVE  GateInv' /\ Kept
  BY ConfirmKeeps, CancelKeeps, ExpireKeeps, TickKeeps, CrashKeeps DEF GateNext

-------------------------------------------------------------------------------
(* Proposals.                                                                *)

LEMMA NewRow ==
  ASSUME NEW kind \in Kinds, NEW subject, NEW key, NEW permission, NEW target, NEW value, NEW sourceAge
  PROVE  LET r == [state |-> "proposed", kind |-> kind, subject |-> subject, key |-> key,
                   permission |-> permission, target |-> target, value |-> value,
                   confirmed |-> FALSE, age |-> 0, sourceAge |-> sourceAge, attempts |-> 0]
         IN  IsOp(r) /\ r.state = "proposed" /\ r.kind = kind /\ r.key = key /\ r.value = value
<1> DEFINE r == [state |-> "proposed", kind |-> kind, subject |-> subject, key |-> key,
                 permission |-> permission, target |-> target, value |-> value,
                 confirmed |-> FALSE, age |-> 0, sourceAge |-> sourceAge, attempts |-> 0]
<1>1. /\ r.state = "proposed" /\ r.kind = kind /\ r.key = key /\ r.value = value
      /\ r.subject = subject /\ r.permission = permission /\ r.target = target
      /\ r.age = 0 /\ r.sourceAge = sourceAge /\ r.attempts = 0
  OBVIOUS
<1>2. r.confirmed = FALSE
  BY Zenon
<1>3. RowShape(r)
  BY <1>1, <1>2, Zenon DEF RowShape
<1> HIDE DEF r
<1>4. "proposed" \in States /\ "proposed" \notin AgreedStates
  BY DEF States, LiveStates, AgreedStates
<1>5. IsOp(r)
  <2>1. r.confirmed = (r.state \in AgreedStates)
    <3>1. (r.state \in AgreedStates) = FALSE
      BY <1>1, <1>4
    <3>2. QED
      BY <1>2, <3>1, Zenon
  <2>2. r.state \in States /\ r.kind \in Kinds
    BY <1>1, <1>4
  <2>3. QED
    BY <1>3, <2>1, <2>2, Zenon DEF IsOp
<1>6. QED
  BY <1>1, <1>5 DEF r

\* A new key is one the provider has not met: neither has it met what the key stands for.
LEMMA ProposeKeeps ==
  ASSUME GateInv, NEW o \in OpIds, NEW kind \in Kinds, NEW subject, NEW key, NEW permission,
         NEW target, NEW value, NEW sourceAge,
         proposeOperation(o, kind, subject, key, permission, target, value, sourceAge),
         kind = "draft_publish" => key = <<"draft_publish", value.draft>>,
         kind = "restock_to_live" => value.version \in Int,
         run' = run, effects' = effects, channel' = channel, carrier' = carrier
  PROVE  GateInv' /\ Kept
<1> DEFINE q == [state |-> "proposed", kind |-> kind, subject |-> subject, key |-> key,
                 permission |-> permission, target |-> target, value |-> value,
                 confirmed |-> FALSE, age |-> 0, sourceAge |-> sourceAge, attempts |-> 0]
<1>1. ops[o] = NoOp /\ ops' = [ops EXCEPT ![o] = q] /\ ~KeyTaken(key)
  BY DEF proposeOperation
<1>2. IsOp(q) /\ q.state = "proposed" /\ q.kind = kind /\ q.key = key /\ q.value = value
  BY NewRow
<1> HIDE DEF q
<1>3. ops = [p \in OpIds |-> ops[p]] /\ \A p \in OpIds : ops[p] = NoOp \/ IsOp(ops[p])
  BY DEF GateInv, OpsInv, OpsType
<1>4. ops' = [p \in OpIds |-> IF p = o THEN q ELSE ops[p]]
  BY <1>1, <1>3
<1>5. ops'[o] = q /\ \A p \in OpIds : p # o => ops'[p] = ops[p]
  BY <1>4
<1>6. q # NoOp /\ ~IsAsked(o) /\ IsAsked(o)'
  BY <1>1, <1>2, <1>5, OpsAreNot DEF IsAsked
<1>7. \A p \in OpIds : p # o => (IsAsked(p)' <=> IsAsked(p))
  BY <1>5 DEF IsAsked
<1>8. \A p \in OpIds : IsAsked(p) => ops[p].key # key
  BY <1>1 DEF KeyTaken, Rows, IsAsked
<1>9. OpsInv'
  <2>1. OpsType'
    <3>1. ops' = [p \in OpIds |-> ops'[p]]
      BY <1>4
    <3>2. \A p \in OpIds : ops'[p] = NoOp \/ IsOp(ops'[p])
      BY <1>2, <1>3, <1>5
    <3>3. QED
      BY <3>1, <3>2 DEF OpsType
  <2>2. KeysApart'
    BY <1>2, <1>5, <1>7, <1>8 DEF GateInv, OpsInv, KeysApart
  <2>3. RowsWellMade'
    <3> SUFFICES ASSUME NEW p \in OpIds, IsAsked(p)' PROVE WellMade(ops'[p])
      BY DEF RowsWellMade
    <3>1. CASE p = o
      BY <1>2, <1>5, <3>1 DEF WellMade
    <3>2. CASE p # o
      BY <1>5, <1>7, <3>2 DEF GateInv, OpsInv, RowsWellMade
    <3>3. QED
      BY <3>1, <3>2
  <2>4. QED
    BY <2>1, <2>2, <2>3 DEF OpsInv
<1>10. effects[o] = 0
  BY <1>6 DEF GateInv, EffectsInv, NothingUnasked
<1>11. ASSUME kind \in Remembered PROVE MarkOf(o, q) \notin Memory(channel, carrier, kind)
  <2> SUFFICES ASSUME MarkOf(o, q) \in Memory(channel, carrier, kind) PROVE FALSE
    OBVIOUS
  <2>1. PICK p \in OpIds : IsAsked(p) /\ ops[p].kind = kind /\ MarkOf(p, ops[p]) = MarkOf(o, q)
    BY <1>11 DEF GateInv, EffectsInv, MemoryIsOfRows
  <2>2. p # o /\ ops[p].key # key
    BY <1>6, <1>8, <2>1
  <2>3. CASE kind = "draft_publish"
    <3>1. ops[p].value.draft = value.draft
      BY <1>2, <2>1, <2>3 DEF MarkOf
    <3>2. ops[p].key = <<"draft_publish", ops[p].value.draft>>
      BY <2>1, <2>3 DEF GateInv, OpsInv, RowsWellMade, WellMade
    <3>3. QED
      BY <2>2, <2>3, <3>1, <3>2
  <2>4. CASE kind = "label_purchase"
    BY <1>2, <2>1, <2>2, <2>4 DEF MarkOf
  <2>5. CASE kind # "draft_publish" /\ kind # "label_purchase"
    BY <1>2, <2>1, <2>2, <2>5 DEF MarkOf
  <2>6. QED
    BY <2>3, <2>4, <2>5
<1>12. EffectsInv'
  <2>1. EffectsType' /\ NothingUnasked'
    BY <1>6, <1>7 DEF GateInv, EffectsInv, EffectsType, NothingUnasked
  <2>2. ExecutedActed'
    BY <1>2, <1>5, <1>7 DEF GateInv, EffectsInv, ExecutedActed
  <2>3. ProviderRemembers'
    <3> SUFFICES ASSUME NEW p \in OpIds, IsAsked(p)', ops'[p].kind \in Remembered
                 PROVE  effects[p] = 1 <=> MarkOf(p, ops'[p]) \in Memory(channel, carrier, ops'[p].kind)
      BY DEF ProviderRemembers
    <3>1. CASE p = o
      BY <1>2, <1>5, <1>10, <1>11, <3>1
    <3>2. CASE p # o
      BY <1>5, <1>7, <3>2 DEF GateInv, EffectsInv, ProviderRemembers
    <3>3. QED
      BY <3>1, <3>2
  <2>4. MemoryIsOfRows'
    <3> SUFFICES ASSUME NEW k \in Remembered, NEW m \in Memory(channel, carrier, k)
                 PROVE  \E p \in OpIds : IsAsked(p)' /\ ops'[p].kind = k /\ MarkOf(p, ops'[p]) = m
      BY DEF MemoryIsOfRows
    <3>1. PICK p \in OpIds : IsAsked(p) /\ ops[p].kind = k /\ MarkOf(p, ops[p]) = m
      BY DEF GateInv, EffectsInv, MemoryIsOfRows
    <3>2. p # o
      BY <1>6, <3>1
    <3>3. QED
      BY <1>5, <1>7, <3>1, <3>2
  <2>5. RestockPassed'
    BY <1>5, <1>7, <1>10 DEF GateInv, EffectsInv, RestockPassed
  <2>6. QED
    BY <2>1, <2>2, <2>3, <2>4, <2>5 DEF EffectsInv
<1>13. RunInv'
  <2>1. ASSUME NEW w \in Executors, run[w] # Idle PROVE ops'[run[w].op] = ops[run[w].op]
    <3>1. run[w] \in Runs /\ ops[run[w].op] # NoOp
      BY <2>1 DEF GateInv, RunInv, RunType, RunsHold, RunAgreed
    <3>2. QED
      BY <1>1, <1>5, <3>1 DEF Runs
  <2>2. QED
    BY <2>1 DEF GateInv, RunInv, RunType, RunsHold, RunAgreed, RunTrue
<1>14. ChannelInv'
  BY DEF GateInv, ChannelInv
<1>15. Kept
  <2>1. Stage(ops[o]) = "unasked" /\ Stage(ops'[o]) = "asked"
    BY <1>1, <1>2, <1>5, StageOfNone, StageOfRow
  <2>2. QED
    BY <1>5, <1>6, <1>7, <2>1, OneMoveSeen DEF Kept, RowsStay
<1>16. QED
  BY <1>9, <1>12, <1>13, <1>14, <1>15 DEF GateInv

LEMMA KindNames ==
  /\ {"draft_create", "draft_publish", "price_copy", "restock_to_live", "order_copy",
      "label_purchase"} \subseteq Kinds
  /\ ListingKinds = {"draft_create", "draft_publish", "price_copy", "restock_to_live", "order_copy"}
  BY DEF Kinds, ListingKinds

LEMMA ProposeDraftKeeps ==
  ASSUME GateInv, UNCHANGED carrier, NEW o \in OpIds, NEW source, NEW has, NEW platform, NEW selected,
         proposeDraft(o, source, has, platform, selected)
  PROVE  GateInv' /\ Kept
<1> DEFINE projected == IF platform = "ebay" THEN projectToEbay(has) ELSE projectToWoo(has)
           projection == applySelections(projected, selected)
           value == [destination |-> platform, fields |-> projection.fields,
                     missing |-> projection.missing, unsupported |-> projection.unsupported]
<1>1. /\ proposeOperation(o, "draft_create", "item", keyFor("draft_create", "item", o),
                          "create_drafts", Destination, value, 0)
      /\ run' = run /\ effects' = effects /\ channel' = channel
  BY DEF proposeDraft
<1> HIDE DEF value
<1>2. QED
  BY <1>1, KindNames, ProposeKeeps

LEMMA ProposePublicationKeeps ==
  ASSUME GateInv, UNCHANGED carrier, NEW o \in OpIds, NEW d \in OpIds, NEW fee,
         proposePublication(o, d, fee)
  PROVE  GateInv' /\ Kept
<1> DEFINE draft == ops[d].key
           woo == ops[d].value.destination = "woocommerce"
           permission == IF woo THEN "publish_products" ELSE "publish_listings"
           value == [draft |-> draft, fee |-> fee]
           key == keyFor("draft_publish", draft, o)
<1>1. /\ proposeOperation(o, "draft_publish", draft, key, permission, ops[d].target, value, 0)
      /\ run' = run /\ effects' = effects /\ channel' = channel
  BY DEF proposePublication
<1>2. key = <<"draft_publish", draft>> /\ value.draft = draft
  BY DEF keyFor
<1> HIDE DEF value, key, permission, draft
<1>3. QED
  BY <1>1, <1>2, KindNames, ProposeKeeps

LEMMA ProposePriceKeeps ==
  ASSUME GateInv, UNCHANGED carrier, NEW o \in OpIds, NEW e, NEW source, NEW supplied,
         proposePriceCopy(o, e, source, supplied)
  PROVE  GateInv' /\ Kept
<1>1. PICK key, value :
        /\ proposeOperation(o, "price_copy", e, key, "change_prices", Destination, value, 0)
        /\ run' = run /\ effects' = effects /\ channel' = channel
  BY DEF proposePriceCopy
<1>2. QED
  BY <1>1, KindNames, ProposeKeeps

LEMMA ProposeRestockKeeps ==
  ASSUME GateInv, UNCHANGED carrier, NEW o \in OpIds, NEW available, NEW mappingStatus,
         proposeRestockToLive(o, available, mappingStatus)
  PROVE  GateInv' /\ Kept
<1> DEFINE value == [quantity |-> available, version |-> channel.listing.version,
                     state |-> channel.listing.state]
           key == keyFor("restock_to_live", "mapping", o)
<1>1. /\ proposeOperation(o, "restock_to_live", "mapping", key, "publish_listings", Destination, value, 0)
      /\ run' = run /\ effects' = effects /\ channel' = channel
  BY DEF proposeRestockToLive
<1>2. value.version \in Int
  BY DEF GateInv, ChannelInv, ChannelShape
<1> HIDE DEF value, key
<1>3. QED
  BY <1>1, <1>2, KindNames, ProposeKeeps

LEMMA ProposeCopyKeeps ==
  ASSUME GateInv, UNCHANGED carrier, NEW o \in OpIds, NEW version, NEW techniques, NEW fulfilled,
         NEW sourceAge, proposeOrderCopy(o, version, techniques, fulfilled, sourceAge)
  PROVE  GateInv' /\ Kept
<1>1. PICK key, value :
        /\ proposeOperation(o, "order_copy", "order", key, "copy_ebay_order_to_woocommerce",
                            Destination, value, sourceAge)
        /\ run' = run /\ effects' = effects /\ channel' = channel
  BY DEF proposeOrderCopy
<1>2. QED
  BY <1>1, KindNames, ProposeKeeps

LEMMA ProposeListingKeeps ==
  ASSUME GateInv, UNCHANGED carrier, NEW o \in OpIds, ProposeListing(o)
  PROVE  GateInv' /\ Kept
  BY ProposeDraftKeeps, ProposePublicationKeeps, ProposePriceKeeps, ProposeRestockKeeps, ProposeCopyKeeps
  DEF ProposeListing

LEMMA ProposePurchaseKeeps ==
  ASSUME GateInv, UNCHANGED channel, NEW o \in OpIds, NEW p, NEW age, NEW life, NEW amount,
         proposeLabelPurchase(o, p, age, life, amount)
  PROVE  GateInv' /\ Kept
<1>1. PICK key, value :
        /\ proposeOperation(o, "label_purchase", p, key, "purchase_labels", "none", value, age)
        /\ run' = run /\ effects' = effects /\ carrier' = carrier
  BY DEF proposeLabelPurchase, parcelVars
<1>2. QED
  BY <1>1, KindNames, ProposeKeeps

-------------------------------------------------------------------------------
(* Executors.                                                                *)

\* An executor that has begun one is an executor of an agreed operation.
LEMMA RunOf ==
  ASSUME GateInv, NEW w \in Executors, run[w] # Idle
  PROVE  /\ run[w] \in Runs /\ run[w].op \in OpIds /\ IsOp(ops[run[w].op]) /\ IsAsked(run[w].op)
         /\ ops[run[w].op].state \in AgreedStates
         /\ run[w].answer = "success" \/ run[w].stage = "complete" => effects[run[w].op] = 1
<1>1. run[w] \in Runs /\ RunAgreed(run[w]) /\ RunTrue(run[w])
  BY DEF GateInv, RunInv, RunType, RunsHold
<1>2. run[w].op \in OpIds
  BY <1>1 DEF Runs
<1>3. QED
  BY <1>1, <1>2, AskedIsOp DEF GateInv, RunAgreed, RunTrue, IsAsked

LEMMA BeginKeeps ==
  ASSUME GateInv, Rested, UNCHANGED effects, NEW w \in Executors, NEW o \in OpIds,
         NEW stage \in {"reserve", "call"}, ops[o] # NoOp, beginExecution(w, o, stage)
  PROVE  GateInv' /\ Kept
<1> DEFINE x == [stage |-> stage, op |-> o, answer |-> "none"]
           n == ops[o].attempts + 1
           q == [ops[o] EXCEPT !.state = "executing", !.attempts = n]
<1>1. /\ ops[o].state \in {"confirmed", "executing"}
      /\ ops' = [ops EXCEPT ![o] = q] /\ run' = [run EXCEPT ![w] = x]
      /\ effects' = effects /\ channel' = channel /\ carrier' = carrier
  BY DEF beginExecution, Rested
<1>2. IsOp(ops[o])
  BY AskedIsOp DEF GateInv, IsAsked
<1>3. x \in Runs /\ x.op = o /\ x.answer # "success" /\ x.stage # "complete"
  BY DEF Runs
<1> HIDE DEF x, n
<1>4. Follow(ops[o], q) /\ q.state = "executing"
  BY <1>1, <1>2, RowBegun
<1> HIDE DEF q
<1>5. Stage(ops[o]) = "agreed" /\ Stage(q) = "agreed"
  BY <1>1, <1>2, <1>4, StageOfRow DEF Follow
<1>6. ops'[o] = q
  BY <1>1, <1>4, OneFollows DEF GateInv
<1>7. ops'[x.op] # NoOp /\ ops'[x.op].state \in AgreedStates
  BY <1>3, <1>4, <1>6, OpsAreNot DEF Follow, AgreedStates
<1>8. RunsMove
  BY <1>1, <1>3, <1>7, OneRun
<1>9. QED
  BY <1>1, <1>4, <1>5, <1>8, RowStep

LEMMA CompleteKeeps ==
  ASSUME GateInv, Rested, RunsMove, UNCHANGED effects, NEW o \in OpIds, IsAsked(o),
         effects[o] = 1, completeExecution(o)
  PROVE  GateInv' /\ Kept
<1>1. effects' = effects /\ channel' = channel /\ carrier' = carrier /\ IsOp(ops[o])
  BY AskedIsOp DEF GateInv, Rested
<1>2. CASE ops' = ops
  <2>1. GateInv'
    BY <1>1, <1>2, QuietKeeps, SameOps, SameOutside
  <2>2. Kept
    BY <1>1, <1>2, NothingSeen, SameRows DEF Kept
  <2>3. QED
    BY <2>1, <2>2
<1>3. CASE ops[o].state = "executing" /\ ops' = [ops EXCEPT ![o].state = "executed"]
  <2> DEFINE q == [ops[o] EXCEPT !.state = "executed"]
  <2>1. Follow(ops[o], q) /\ q.state = "executed"
    BY <1>1, <1>3, RowToState DEF States, LiveStates, SettledStates, AgreedStates
  <2>2. ops' = [ops EXCEPT ![o] = q]
    BY <1>3
  <2> HIDE DEF q
  <2>3. Stage(ops[o]) = "agreed" /\ Stage(q) = "done"
    BY <1>1, <1>3, <2>1, StageOfRow DEF Follow
  <2>4. QED
    BY <1>1, <2>1, <2>2, <2>3, RowStep
<1>4. QED
  BY <1>2, <1>3 DEF completeExecution

LEMMA FailKeeps ==
  ASSUME GateInv, Rested, RunsMove, UNCHANGED effects, NEW o \in OpIds, IsAsked(o), failExecution(o)
  PROVE  GateInv' /\ Kept
<1>1. effects' = effects /\ channel' = channel /\ carrier' = carrier /\ IsOp(ops[o])
  BY AskedIsOp DEF GateInv, Rested
<1>2. CASE ops' = ops
  <2>1. GateInv'
    BY <1>1, <1>2, QuietKeeps, SameOps, SameOutside
  <2>2. Kept
    BY <1>1, <1>2, NothingSeen, SameRows DEF Kept
  <2>3. QED
    BY <2>1, <2>2
<1>3. CASE ops[o].state \in {"confirmed", "executing"} /\ ops' = [ops EXCEPT ![o].state = "failed"]
  <2> DEFINE q == [ops[o] EXCEPT !.state = "failed"]
  <2>1. Follow(ops[o], q) /\ q.state = "failed"
    BY <1>1, <1>3, RowToState DEF States, LiveStates, SettledStates, AgreedStates
  <2>2. ops' = [ops EXCEPT ![o] = q]
    BY <1>3
  <2> HIDE DEF q
  <2>3. Stage(ops[o]) = "agreed" /\ Stage(q) = "failed"
    BY <1>1, <1>3, <2>1, StageOfRow DEF Follow
  <2>4. QED
    BY <1>1, <2>1, <2>2, <2>3, RowStep
<1>4. QED
  BY <1>2, <1>3 DEF failExecution

\* An executor goes on to another statement of its own.
LEMMA GoOnKeeps ==
  ASSUME GateInv, Rested, UNCHANGED <<ops, effects>>, NEW w \in Executors, run[w] # Idle,
         NEW stage \in {"reserve", "call", "record", "settle", "store"},
         NEW answer \in {"none", "success", "failure"},
         answer = "success" => run[w].answer = "success",
         NEW x, x = [stage |-> stage, op |-> run[w].op, answer |-> answer],
         run' = [run EXCEPT ![w] = x]
  PROVE  GateInv' /\ Kept
<1>1. /\ run[w].op \in OpIds /\ IsAsked(run[w].op) /\ ops[run[w].op].state \in AgreedStates
      /\ run[w].answer = "success" => effects[run[w].op] = 1
  BY RunOf
<1>2. x \in Runs /\ x.op = run[w].op /\ x.stage # "complete" /\ x.answer = answer
  BY <1>1 DEF Runs
<1>3. ops' = ops /\ effects' = effects /\ channel' = channel /\ carrier' = carrier
  BY DEF Rested
<1>4. RunsMove
  BY <1>1, <1>2, <1>3, OneRun DEF IsAsked
<1>5. GateInv'
  BY <1>3, <1>4, QuietKeeps, SameOps, SameOutside
<1>6. Kept
  BY <1>3, NothingSeen, SameRows DEF Kept
<1>7. QED
  BY <1>5, <1>6

LEMMA StopKeeps ==
  ASSUME GateInv, Rested, UNCHANGED <<ops, effects>>, NEW w \in Executors, run' = [run EXCEPT ![w] = Idle]
  PROVE  GateInv' /\ Kept
<1>1. ops' = ops /\ effects' = effects /\ channel' = channel /\ carrier' = carrier /\ RunsMove
  BY OneRun DEF Rested
<1>2. GateInv'
  BY <1>1, QuietKeeps, SameOps, SameOutside
<1>3. Kept
  BY <1>1, NothingSeen, SameRows DEF Kept
<1>4. QED
  BY <1>2, <1>3

LEMMA StageAnswer ==
  \A r, s, a : [r EXCEPT !.stage = s, !.answer = a] = [[r EXCEPT !.stage = s] EXCEPT !.answer = a]
  BY SMT

LEMMA RunRow ==
  ASSUME NEW x \in Runs, NEW s, NEW a
  PROVE  /\ [x EXCEPT !.stage = s] = [stage |-> s, op |-> x.op, answer |-> x.answer]
         /\ [x EXCEPT !.stage = s, !.answer = a] = [stage |-> s, op |-> x.op, answer |-> a]
<1>1. x = [stage |-> x.stage, op |-> x.op, answer |-> x.answer]
  BY DEF Runs
<1> DEFINE y == [x EXCEPT !.stage = s]
<1>2. y = [stage |-> s, op |-> x.op, answer |-> x.answer]
  BY <1>1
<1>3. [x EXCEPT !.stage = s, !.answer = a] = [y EXCEPT !.answer = a]
  BY StageAnswer
<1> HIDE DEF y
<1>4. [y EXCEPT !.answer = a] = [stage |-> s, op |-> x.op, answer |-> a]
  BY <1>2
<1>5. QED
  BY <1>2, <1>3, <1>4 DEF y

LEMMA ReserveKeeps ==
  ASSUME GateInv, UNCHANGED carrier, NEW w \in Executors, ReserveMirror(w)
  PROVE  GateInv' /\ Kept
<1>1. ops' = ops /\ effects' = effects /\ Rested /\ run[w] # Idle
  BY DEF ReserveMirror, Rested, Running
<1>2. CASE run' = [run EXCEPT ![w] = Idle]
  BY <1>1, <1>2, StopKeeps
<1>3. CASE run' = [run EXCEPT ![w].stage = "call"]
  <2> DEFINE x == [stage |-> "call", op |-> run[w].op, answer |-> run[w].answer]
  <2>1. run[w] \in Runs /\ run[w].answer \in {"none", "success", "failure"}
    BY <1>1, RunOf DEF Runs
  <2>2. run' = [run EXCEPT ![w] = [run[w] EXCEPT !.stage = "call"]]
    BY <1>3
  <2>3. run' = [run EXCEPT ![w] = x]
    BY <2>1, <2>2, RunRow
  <2>4. QED
    BY <1>1, <2>1, <2>3, GoOnKeeps
<1>4. QED
  BY <1>2, <1>3 DEF ReserveMirror

\* Both providers fail alike.
LEMMA FailingKeeps ==
  ASSUME GateInv, Rested, UNCHANGED <<ops, effects>>, NEW w \in Executors, run[w] # Idle,
         NEW s \in {"settle", "store"},
         run' = [run EXCEPT ![w].stage = s, ![w].answer = "failure"]
  PROVE  GateInv' /\ Kept
<1> DEFINE x == [stage |-> s, op |-> run[w].op, answer |-> "failure"]
<1>1. run[w] \in Runs
  BY RunOf
<1>2. run' = [run EXCEPT ![w] = [run[w] EXCEPT !.stage = s, !.answer = "failure"]]
  OBVIOUS
<1>3. [run[w] EXCEPT !.stage = s, !.answer = "failure"] = x
  <2>1. \A y : [y EXCEPT !.stage = s, !.answer = "failure"] = [[y EXCEPT !.stage = s] EXCEPT !.answer = "failure"]
    BY StageAnswer, Zenon
  <2> DEFINE y == [run[w] EXCEPT !.stage = s]
  <2>2. y = [stage |-> s, op |-> run[w].op, answer |-> run[w].answer]
    BY <1>1, RunRow
  <2>3. [run[w] EXCEPT !.stage = s, !.answer = "failure"] = [y EXCEPT !.answer = "failure"]
    BY <2>1, Zenon
  <2> HIDE DEF y
  <2>4. [y EXCEPT !.answer = "failure"] = [stage |-> s, op |-> run[w].op, answer |-> "failure"]
    BY <2>2
  <2>5. QED
    BY <2>3, <2>4
<1>4. run' = [run EXCEPT ![w] = x]
  BY <1>2, <1>3, Zenon
<1>5. QED
  BY <1>4, GoOnKeeps

LEMMA CallFailsKeeps ==
  ASSUME GateInv, UNCHANGED carrier, NEW w \in Executors, CallFails(w)
  PROVE  GateInv' /\ Kept
  BY FailingKeeps DEF CallFails, Rested, Running

LEMMA BuyFailsKeeps ==
  ASSUME GateInv, UNCHANGED channel, NEW w \in Executors, BuyFails(w)
  PROVE  GateInv' /\ Kept
  BY FailingKeeps DEF BuyFails, Rested, Running, parcelVars

LEMMA RecordMirrorKeeps ==
  ASSUME GateInv, UNCHANGED carrier, NEW w \in Executors, NEW suppressed \in BOOLEAN,
         RecordMirror(w, suppressed)
  PROVE  GateInv' /\ Kept
<1>1. ops' = ops /\ effects' = effects /\ Rested /\ run[w] # Idle
  BY DEF RecordMirror, Rested, Running
<1>2. CASE run' = [run EXCEPT ![w].stage = "settle", ![w].answer = "failure"]
  BY <1>1, <1>2, FailingKeeps
<1>3. CASE run' = [run EXCEPT ![w].stage = "settle"]
  <2> DEFINE x == [stage |-> "settle", op |-> run[w].op, answer |-> run[w].answer]
  <2>1. run[w] \in Runs /\ run[w].answer \in {"none", "success", "failure"}
    BY <1>1, RunOf DEF Runs
  <2>2. run' = [run EXCEPT ![w] = [run[w] EXCEPT !.stage = "settle"]]
    BY <1>3
  <2>3. run' = [run EXCEPT ![w] = x]
    BY <2>1, <2>2, RunRow
  <2>4. QED
    BY <1>1, <2>1, <2>3, GoOnKeeps
<1>4. QED
  BY <1>2, <1>3 DEF RecordMirror

LEMMA SettleListingKeeps ==
  ASSUME GateInv, UNCHANGED carrier, NEW w \in Executors, SettleListing(w)
  PROVE  GateInv' /\ Kept
<1>1. /\ run[w] # Idle /\ run' = [run EXCEPT ![w] = Idle] /\ Rested /\ effects' = effects
      /\ IF run[w].answer = "success" THEN completeExecution(run[w].op) ELSE failExecution(run[w].op)
  BY DEF SettleListing, Running, Rested
<1>2. RunsMove
  BY <1>1, OneRun
<1>3. /\ run[w].op \in OpIds /\ IsAsked(run[w].op)
      /\ run[w].answer = "success" => effects[run[w].op] = 1
  BY <1>1, RunOf
<1>4. QED
  BY <1>1, <1>2, <1>3, CompleteKeeps, FailKeeps

LEMMA CompletePurchaseKeeps ==
  ASSUME GateInv, UNCHANGED channel, NEW w \in Executors, CompletePurchase(w)
  PROVE  GateInv' /\ Kept
<1>1. /\ run[w] # Idle /\ run[w].stage = "complete" /\ run' = [run EXCEPT ![w] = Idle]
      /\ Rested /\ effects' = effects /\ completeExecution(run[w].op)
  BY DEF CompletePurchase, Running, Rested, parcelVars
<1>2. RunsMove
  BY <1>1, OneRun
<1>3. run[w].op \in OpIds /\ IsAsked(run[w].op) /\ effects[run[w].op] = 1
  BY <1>1, RunOf
<1>4. QED
  BY <1>1, <1>2, <1>3, CompleteKeeps

LEMMA StoreLabelKeeps ==
  ASSUME GateInv, UNCHANGED channel, NEW w \in Executors, StoreLabel(w)
  PROVE  GateInv' /\ Kept
<1>1. /\ run[w] # Idle /\ effects' = effects /\ Rested
      /\ \/ failExecution(run[w].op) /\ run' = [run EXCEPT ![w] = Idle]
         \/ /\ run[w].answer = "success" /\ run' = [run EXCEPT ![w].stage = "complete"] /\ ops' = ops
         \/ run' = [run EXCEPT ![w] = Idle] /\ ops' = ops
  BY DEF StoreLabel, Running, Rested
<1>2. /\ run[w] \in Runs /\ run[w].op \in OpIds /\ IsAsked(run[w].op)
      /\ ops[run[w].op].state \in AgreedStates
      /\ run[w].answer = "success" => effects[run[w].op] = 1
  BY <1>1, RunOf
<1>3. CASE failExecution(run[w].op) /\ run' = [run EXCEPT ![w] = Idle]
  <2>1. RunsMove
    BY <1>3, OneRun
  <2>2. QED
    BY <1>1, <1>2, <1>3, <2>1, FailKeeps
<1>4. CASE run[w].answer = "success" /\ run' = [run EXCEPT ![w].stage = "complete"] /\ ops' = ops
  <2> DEFINE x == [stage |-> "complete", op |-> run[w].op, answer |-> run[w].answer]
  <2>1. run' = [run EXCEPT ![w] = [run[w] EXCEPT !.stage = "complete"]]
    BY <1>4
  <2>2. run' = [run EXCEPT ![w] = x]
    BY <1>2, <2>1, RunRow
  <2>3. x \in Runs /\ x.op = run[w].op
    BY <1>2 DEF Runs
  <2> HIDE DEF x
  <2>4. ops'[x.op] # NoOp /\ ops'[x.op].state \in AgreedStates /\ effects'[x.op] = 1
    BY <1>1, <1>2, <1>4, <2>3 DEF IsAsked
  <2>5. RunsMove
    BY <2>2, <2>3, <2>4, OneRun
  <2>6. GateInv'
    BY <1>1, <1>4, <2>5, QuietKeeps, SameOps, SameOutside DEF Rested
  <2>7. Kept
    BY <1>1, <1>4, NothingSeen, SameRows DEF Kept
  <2>8. QED
    BY <2>6, <2>7
<1>5. CASE run' = [run EXCEPT ![w] = Idle] /\ ops' = ops
  BY <1>1, <1>5, StopKeeps
<1>6. QED
  BY <1>1, <1>3, <1>4, <1>5

LEMMA BeginListingKeeps ==
  ASSUME GateInv, UNCHANGED carrier, NEW w \in Executors, NEW o \in OpIds, BeginListing(w, o)
  PROVE  GateInv' /\ Kept
<1>1. PICK stage \in {"reserve", "call"} : beginExecution(w, o, stage)
  BY DEF BeginListing
<1>2. QED
  BY <1>1, BeginKeeps DEF BeginListing, Rested

LEMMA BeginPurchaseKeeps ==
  ASSUME GateInv, UNCHANGED channel, NEW w \in Executors, NEW o \in OpIds, BeginPurchase(w, o)
  PROVE  GateInv' /\ Kept
  BY BeginKeeps DEF BeginPurchase, Rested, parcelVars

-------------------------------------------------------------------------------
(* What the channel does with a call.                                        *)

LEMMA ChannelDrafts ==
  ASSUME NEW ch, ChannelShape(ch), NEW x
  PROVE  LET q == [ch EXCEPT !.drafts = x]
         IN  /\ ChannelShape(q) /\ q.drafts = x /\ q.published = ch.published
             /\ q.priceWrites = ch.priceWrites /\ q.copies = ch.copies /\ q.listing = ch.listing
  BY DEF ChannelShape

LEMMA ChannelPublished ==
  ASSUME NEW ch, ChannelShape(ch), NEW x
  PROVE  LET q == [ch EXCEPT !.published = x]
         IN  /\ ChannelShape(q) /\ q.published = x /\ q.drafts = ch.drafts
             /\ q.priceWrites = ch.priceWrites /\ q.copies = ch.copies /\ q.listing = ch.listing
  BY DEF ChannelShape

LEMMA ChannelCopies ==
  ASSUME NEW ch, ChannelShape(ch), NEW x
  PROVE  LET q == [ch EXCEPT !.copies = x]
         IN  /\ ChannelShape(q) /\ q.copies = x /\ q.drafts = ch.drafts
             /\ q.published = ch.published /\ q.priceWrites = ch.priceWrites /\ q.listing = ch.listing
  BY DEF ChannelShape

LEMMA ChannelPrices ==
  ASSUME NEW ch, ChannelShape(ch), NEW x
  PROVE  LET q == [ch EXCEPT !.prices = x]
         IN  /\ ChannelShape(q) /\ q.copies = ch.copies /\ q.drafts = ch.drafts
             /\ q.published = ch.published /\ q.priceWrites = ch.priceWrites /\ q.listing = ch.listing
  BY DEF ChannelShape

LEMMA ChannelWrites ==
  ASSUME NEW ch, ChannelShape(ch), NEW x
  PROVE  LET q == [ch EXCEPT !.priceWrites = x]
         IN  /\ ChannelShape(q) /\ q.priceWrites = x /\ q.copies = ch.copies /\ q.drafts = ch.drafts
             /\ q.published = ch.published /\ q.listing = ch.listing
  BY DEF ChannelShape

LEMMA ChannelListing ==
  ASSUME NEW ch, ChannelShape(ch), NEW s, NEW n \in Int
  PROVE  LET q == [ch EXCEPT !.listing = [state |-> s, outOfStockControl |-> ch.listing.outOfStockControl,
                                          version |-> n]]
         IN  /\ ChannelShape(q) /\ q.priceWrites = ch.priceWrites /\ q.copies = ch.copies
             /\ q.drafts = ch.drafts /\ q.published = ch.published /\ q.listing.version = n
  BY DEF ChannelShape

MemoryGrows(kind, mark) ==
  \A k \in Remembered : Memory(channel', carrier', k) =
    IF k = kind THEN Memory(channel, carrier, k) \cup {mark} ELSE Memory(channel, carrier, k)

\* One mark stands for one operation.
LEMMA MarksApart ==
  ASSUME GateInv, NEW o \in OpIds, NEW p \in OpIds, IsAsked(o), IsAsked(p), ops[p].kind = ops[o].kind,
         ops[o].kind \in Remembered, MarkOf(p, ops[p]) = MarkOf(o, ops[o])
  PROVE  p = o
<1>1. CASE ops[o].kind = "draft_publish"
  <2>1. ops[p].value.draft = ops[o].value.draft
    BY <1>1 DEF MarkOf
  <2>2. ops[p].key = ops[o].key
    BY <1>1, <2>1 DEF GateInv, OpsInv, RowsWellMade, WellMade
  <2>3. QED
    BY <2>2 DEF GateInv, OpsInv, KeysApart
<1>2. CASE ops[o].kind = "label_purchase"
  BY <1>2 DEF MarkOf
<1>3. CASE ops[o].kind # "draft_publish" /\ ops[o].kind # "label_purchase"
  BY <1>3 DEF MarkOf, GateInv, OpsInv, KeysApart
<1>4. QED
  BY <1>1, <1>2, <1>3

LEMMA EffectOnce ==
  ASSUME GateInv, NEW o \in OpIds, effects[o] = 0, effects' = [effects EXCEPT ![o] = 1]
  PROVE  /\ EffectsType' /\ effects'[o] = 1
         /\ \A p \in OpIds : p # o => effects'[p] = effects[p]
         /\ \A p \in OpIds : effects[p] = 1 => effects'[p] = 1
<1>1. effects \in [OpIds -> {0, 1}]
  BY DEF GateInv, EffectsInv, EffectsType
<1>2. QED
  BY <1>1 DEF EffectsType

LEMMA NotYetDone ==
  ASSUME GateInv, NEW o \in OpIds, IsAsked(o), ops[o].state \in AgreedStates, effects[o] = 0
  PROVE  Stage(ops[o]) \in {"agreed", "failed"}
<1>1. ops[o].state # "executed"
  BY DEF GateInv, EffectsInv, ExecutedActed
<1>2. QED
  BY <1>1, AskedIsOp, StageOfRow DEF GateInv, AgreedStates

\* The provider acts for an operation it had not met.
LEMMA ActKeeps ==
  ASSUME GateInv, ops' = ops, RunsMove, NEW o \in OpIds, IsAsked(o), ops[o].state \in AgreedStates,
         ops[o].kind \in Remembered, effects[o] = 0,
         MemoryGrows(ops[o].kind, MarkOf(o, ops[o])), VersionGrows, ChannelInv',
         effects' = [effects EXCEPT ![o] = 1]
  PROVE  GateInv' /\ Kept
<1>1. OpsFollow /\ OpsInv'
  BY SameOps, FollowOps DEF GateInv
<1>2. /\ EffectsType' /\ effects'[o] = 1
      /\ \A p \in OpIds : p # o => effects'[p] = effects[p]
      /\ \A p \in OpIds : effects[p] = 1 => effects'[p] = 1
  BY EffectOnce
<1>3. \A p \in OpIds : IsAsked(p)' <=> IsAsked(p)
  BY DEF IsAsked
<1>4. NothingUnasked' /\ ExecutedActed'
  BY <1>2, <1>3 DEF GateInv, EffectsInv, NothingUnasked, ExecutedActed
<1>5. ProviderRemembers'
  <2> SUFFICES ASSUME NEW p \in OpIds, IsAsked(p), ops[p].kind \in Remembered
               PROVE  effects'[p] = 1 <=> MarkOf(p, ops[p]) \in Memory(channel', carrier', ops[p].kind)
    BY <1>3 DEF ProviderRemembers
  <2>1. CASE p = o
    BY <1>2, <2>1 DEF MemoryGrows
  <2>2. CASE p # o
    <3>1. effects[p] = 1 <=> MarkOf(p, ops[p]) \in Memory(channel, carrier, ops[p].kind)
      BY DEF GateInv, EffectsInv, ProviderRemembers
    <3>2. ops[p].kind = ops[o].kind => MarkOf(p, ops[p]) # MarkOf(o, ops[o])
      BY <2>2, MarksApart
    <3>3. MarkOf(p, ops[p]) \in Memory(channel', carrier', ops[p].kind)
            <=> MarkOf(p, ops[p]) \in Memory(channel, carrier, ops[p].kind)
      BY <3>2 DEF MemoryGrows
    <3>4. QED
      BY <1>2, <2>2, <3>1, <3>3
  <2>3. QED
    BY <2>1, <2>2
<1>6. MemoryIsOfRows'
  <2> SUFFICES ASSUME NEW k \in Remembered, NEW m \in Memory(channel', carrier', k)
               PROVE  \E p \in OpIds : IsAsked(p) /\ ops[p].kind = k /\ MarkOf(p, ops[p]) = m
    BY <1>3 DEF MemoryIsOfRows
  <2>1. CASE m \in Memory(channel, carrier, k)
    BY <2>1 DEF GateInv, EffectsInv, MemoryIsOfRows
  <2>2. CASE m \notin Memory(channel, carrier, k)
    <3>1. k = ops[o].kind /\ m = MarkOf(o, ops[o])
      BY <2>2 DEF MemoryGrows
    <3>2. QED
      BY <3>1
  <2>3. QED
    BY <2>1, <2>2
<1>7. RestockPassed'
  <2> SUFFICES ASSUME NEW p \in OpIds, IsAsked(p), ops[p].kind = "restock_to_live", effects'[p] = 1
               PROVE  ops[p].value.version < channel'.listing.version
    BY <1>3 DEF RestockPassed
  <2>1. p # o
    BY DEF Remembered
  <2>2. ops[p].value.version < channel.listing.version /\ ops[p].value.version \in Int
    BY <1>2, <2>1 DEF GateInv, EffectsInv, RestockPassed, OpsInv, RowsWellMade, WellMade
  <2>3. QED
    BY <2>2 DEF VersionGrows
<1>8. EffectsInv'
  BY <1>2, <1>4, <1>5, <1>6, <1>7 DEF EffectsInv
<1>9. RunInv'
  BY <1>1, <1>2, MovesRun DEF GateInv, RunsMove
<1>10. Kept
  BY NotYetDone, ActSeen, SameRows DEF Kept
<1>11. QED
  BY <1>1, <1>8, <1>9, <1>10 DEF GateInv

\* The channel takes a restock at the version that was confirmed, and that version passes.
LEMMA RestockKeeps ==
  ASSUME GateInv, ops' = ops, RunsMove, NEW o \in OpIds, IsAsked(o), ops[o].state \in AgreedStates,
         ops[o].kind = "restock_to_live", effects[o] = 0, SameMemory, ChannelInv',
         ops[o].value.version = channel.listing.version,
         channel'.listing.version = channel.listing.version + 1,
         effects' = [effects EXCEPT ![o] = 1]
  PROVE  GateInv' /\ Kept
<1>1. OpsFollow /\ OpsInv'
  BY SameOps, FollowOps DEF GateInv
<1>2. /\ EffectsType' /\ effects'[o] = 1
      /\ \A p \in OpIds : p # o => effects'[p] = effects[p]
      /\ \A p \in OpIds : effects[p] = 1 => effects'[p] = 1
  BY EffectOnce
<1>3. \A p \in OpIds : IsAsked(p)' <=> IsAsked(p)
  BY DEF IsAsked
<1>4. NothingUnasked' /\ ExecutedActed'
  BY <1>2, <1>3 DEF GateInv, EffectsInv, NothingUnasked, ExecutedActed
<1>5. ProviderRemembers'
  <2> SUFFICES ASSUME NEW p \in OpIds, IsAsked(p), ops[p].kind \in Remembered
               PROVE  effects'[p] = 1 <=> MarkOf(p, ops[p]) \in Memory(channel', carrier', ops[p].kind)
    BY <1>3 DEF ProviderRemembers
  <2>1. p # o
    BY DEF Remembered
  <2>2. QED
    BY <1>2, <2>1 DEF GateInv, EffectsInv, ProviderRemembers, SameMemory
<1>6. MemoryIsOfRows'
  <2> SUFFICES ASSUME NEW k \in Remembered, NEW m \in Memory(channel', carrier', k)
               PROVE  \E p \in OpIds : IsAsked(p) /\ ops[p].kind = k /\ MarkOf(p, ops[p]) = m
    BY <1>3 DEF MemoryIsOfRows
  <2>1. m \in Memory(channel, carrier, k)
    BY DEF SameMemory
  <2>2. QED
    BY <2>1 DEF GateInv, EffectsInv, MemoryIsOfRows
<1>7. RestockPassed'
  <2> SUFFICES ASSUME NEW p \in OpIds, IsAsked(p), ops[p].kind = "restock_to_live", effects'[p] = 1
               PROVE  ops[p].value.version < channel'.listing.version
    BY <1>3 DEF RestockPassed
  <2>1. channel.listing.version \in Int
    BY DEF GateInv, ChannelInv, ChannelShape
  <2>2. CASE p = o
    BY <2>1, <2>2
  <2>3. CASE p # o
    <3>1. ops[p].value.version < channel.listing.version /\ ops[p].value.version \in Int
      BY <1>2, <2>3 DEF GateInv, EffectsInv, RestockPassed, OpsInv, RowsWellMade, WellMade
    <3>2. QED
      BY <2>1, <3>1
  <2>4. QED
    BY <2>2, <2>3
<1>8. EffectsInv'
  BY <1>2, <1>4, <1>5, <1>6, <1>7 DEF EffectsInv
<1>9. RunInv'
  BY <1>1, <1>2, MovesRun DEF GateInv, RunsMove
<1>10. Kept
  BY NotYetDone, ActSeen, SameRows DEF Kept
<1>11. QED
  BY <1>1, <1>8, <1>9, <1>10 DEF GateInv

\* How the channel answers the call for a row: it refuses, it knows the call, or it acts.
Refuses(done) == done.channel = channel /\ ~done.acted /\ ~done.ok
Knows(done, mark, kind) ==
  /\ ~done.acted /\ ChannelShape(done.channel)
  /\ kind \in Remembered /\ mark \in Memory(channel, carrier, kind)
  /\ done.channel.listing = channel.listing
  /\ \A k \in Remembered : Memory(done.channel, carrier, k) = Memory(channel, carrier, k)
Acts(done, mark, kind) ==
  /\ done.acted /\ ChannelShape(done.channel)
  /\ kind \in Remembered /\ mark \notin Memory(channel, carrier, kind)
  /\ done.channel.listing = channel.listing
  /\ \A k \in Remembered : Memory(done.channel, carrier, k) =
       IF k = kind THEN Memory(channel, carrier, k) \cup {mark} ELSE Memory(channel, carrier, k)
Restocks(done, r) ==
  /\ done.acted /\ ChannelShape(done.channel)
  /\ r.kind = "restock_to_live" /\ r.value.version = channel.listing.version
  /\ done.channel.listing.version = channel.listing.version + 1
  /\ \A k \in Remembered : Memory(done.channel, carrier, k) = Memory(channel, carrier, k)
Outcome(done, o, r) ==
  Refuses(done) \/ Knows(done, MarkOf(o, r), r.kind) \/ Acts(done, MarkOf(o, r), r.kind) \/ Restocks(done, r)

LEMMA RememberedKinds ==
  Remembered = {"draft_create", "draft_publish", "price_copy", "order_copy", "label_purchase"}
  BY DEF Remembered, Kinds

LEMMA DraftOutcome ==
  ASSUME GateInv, NEW o, NEW r, r.kind = "draft_create"
  PROVE  Outcome(createDraft(r), o, r)
<1> DEFINE after == [channel EXCEPT !.drafts = channel.drafts \cup {r.key}]
           done == createDraft(r)
<1>0. done = Answer(after, r.key \notin channel.drafts, TRUE)
  BY DEF createDraft
<1>2. /\ ChannelShape(after) /\ after.drafts = channel.drafts \cup {r.key} /\ after.published = channel.published
      /\ after.priceWrites = channel.priceWrites /\ after.copies = channel.copies
      /\ after.listing = channel.listing
  BY ChannelDrafts DEF GateInv, ChannelInv
<1> HIDE DEF after, done
<1>1. done.channel = after /\ (done.acted <=> r.key \notin channel.drafts)
  BY <1>0 DEF Answer
<1>3. MarkOf(o, r) = r.key /\ "draft_create" \in Remembered
  BY RememberedKinds DEF MarkOf
<1>4. CASE r.key \in channel.drafts
  <2>1. Knows(done, r.key, "draft_create")
    BY <1>1, <1>2, <1>3, <1>4, RememberedKinds DEF Knows, Memory
  <2>2. QED
    BY <1>3, <2>1 DEF Outcome, done
<1>5. CASE r.key \notin channel.drafts
  <2>1. Acts(done, r.key, "draft_create")
    BY <1>1, <1>2, <1>3, <1>5, RememberedKinds DEF Acts, Memory
  <2>2. QED
    BY <1>3, <2>1 DEF Outcome, done
<1>6. QED
  BY <1>4, <1>5

LEMMA PublishOutcome ==
  ASSUME GateInv, NEW o, NEW r, r.kind = "draft_publish"
  PROVE  Outcome(publishDraft(r), o, r)
<1> DEFINE mark == r.value.draft
           after == [channel EXCEPT !.published = channel.published \cup {mark}]
           done == publishDraft(r)
<1>1. IF mark \notin channel.drafts THEN done = Answer(channel, FALSE, FALSE)
      ELSE done = Answer(after, mark \notin channel.published, TRUE)
  BY DEF publishDraft
<1>2. /\ ChannelShape(after) /\ after.drafts = channel.drafts /\ after.published = channel.published \cup {mark}
      /\ after.priceWrites = channel.priceWrites /\ after.copies = channel.copies
      /\ after.listing = channel.listing
  BY ChannelPublished DEF GateInv, ChannelInv
<1> HIDE DEF after, done
<1>3. MarkOf(o, r) = mark /\ "draft_publish" \in Remembered
  BY RememberedKinds DEF MarkOf
<1> HIDE DEF mark
<1>4. CASE mark \notin channel.drafts
  <2>1. Refuses(done)
    BY <1>1, <1>4 DEF Refuses, Answer
  <2>2. QED
    BY <2>1 DEF Outcome, done
<1>5. CASE mark \in channel.drafts
  <2>0. done = Answer(after, mark \notin channel.published, TRUE)
    BY <1>1, <1>5
  <2>1. done.channel = after /\ (done.acted <=> mark \notin channel.published)
    BY <2>0 DEF Answer
  <2>2. CASE mark \in channel.published
    <3>1. Knows(done, mark, "draft_publish")
      BY <1>2, <1>3, <2>1, <2>2, RememberedKinds DEF Knows, Memory
    <3>2. QED
      BY <1>3, <3>1 DEF Outcome, done
  <2>3. CASE mark \notin channel.published
    <3>1. Acts(done, mark, "draft_publish")
      BY <1>2, <1>3, <2>1, <2>3, RememberedKinds DEF Acts, Memory
    <3>2. QED
      BY <1>3, <3>1 DEF Outcome, done
  <2>4. QED
    BY <2>2, <2>3
<1>6. QED
  BY <1>4, <1>5

LEMMA CopyOutcome ==
  ASSUME GateInv, NEW o, NEW r, r.kind = "order_copy"
  PROVE  Outcome(createMirroredOrder(r), o, r)
<1> DEFINE after == [channel EXCEPT !.copies = channel.copies \cup {r.key}]
           done == createMirroredOrder(r)
<1>1. done = Answer(after, r.key \notin channel.copies, TRUE)
  BY DEF createMirroredOrder
<1>2. /\ ChannelShape(after) /\ after.drafts = channel.drafts /\ after.published = channel.published
      /\ after.priceWrites = channel.priceWrites /\ after.copies = channel.copies \cup {r.key}
      /\ after.listing = channel.listing
  BY ChannelCopies DEF GateInv, ChannelInv
<1> HIDE DEF after, done
<1>3. MarkOf(o, r) = r.key /\ "order_copy" \in Remembered
  BY RememberedKinds DEF MarkOf
<1>4. done.channel = after /\ (done.acted <=> r.key \notin channel.copies)
  BY <1>1 DEF Answer
<1>5. CASE r.key \in channel.copies
  <2>1. Knows(done, r.key, "order_copy")
    BY <1>2, <1>3, <1>4, <1>5, RememberedKinds DEF Knows, Memory
  <2>2. QED
    BY <1>3, <2>1 DEF Outcome, done
<1>6. CASE r.key \notin channel.copies
  <2>1. Acts(done, r.key, "order_copy")
    BY <1>2, <1>3, <1>4, <1>6, RememberedKinds DEF Acts, Memory
  <2>2. QED
    BY <1>3, <2>1 DEF Outcome, done
<1>7. QED
  BY <1>5, <1>6

LEMMA PriceOutcome ==
  ASSUME GateInv, NEW o, NEW r, r.kind = "price_copy"
  PROVE  Outcome(writePrice(r), o, r)
<1> DEFINE price == [amount |-> r.value.to, currency |-> r.value.currency]
           prices == [channel.prices EXCEPT !["listing"] = price]
           shown == [channel EXCEPT !.prices = prices]
           after == [shown EXCEPT !.priceWrites = channel.priceWrites \cup {r.key}]
           done == writePrice(r)
<1>1. IF channel.prices["listing"].amount = NoAmount THEN done = Answer(channel, FALSE, FALSE)
      ELSE IF r.key \in channel.priceWrites THEN done = Answer(channel, FALSE, TRUE)
      ELSE done = Answer([channel EXCEPT !.prices["listing"] = price,
                                         !.priceWrites = channel.priceWrites \cup {r.key}], TRUE, TRUE)
  BY DEF writePrice
<1>2. [channel EXCEPT !.prices["listing"] = price, !.priceWrites = channel.priceWrites \cup {r.key}] = after
  BY SMT
<1>3. /\ ChannelShape(shown) /\ shown.copies = channel.copies /\ shown.drafts = channel.drafts
      /\ shown.published = channel.published /\ shown.priceWrites = channel.priceWrites
      /\ shown.listing = channel.listing
  BY ChannelPrices DEF GateInv, ChannelInv
<1> HIDE DEF shown, done
<1>4. /\ ChannelShape(after) /\ after.drafts = channel.drafts /\ after.published = channel.published
      /\ after.priceWrites = channel.priceWrites \cup {r.key} /\ after.copies = channel.copies
      /\ after.listing = channel.listing
  BY <1>3, ChannelWrites
<1> HIDE DEF after, price
<1>5. MarkOf(o, r) = r.key /\ "price_copy" \in Remembered /\ ChannelShape(channel)
  BY RememberedKinds DEF MarkOf, GateInv, ChannelInv
<1>6. CASE channel.prices["listing"].amount = NoAmount
  <2>1. Refuses(done)
    BY <1>1, <1>6 DEF Refuses, Answer
  <2>2. QED
    BY <2>1 DEF Outcome, done
<1>7. CASE channel.prices["listing"].amount # NoAmount /\ r.key \in channel.priceWrites
  <2>1. done.channel = channel /\ ~done.acted
    BY <1>1, <1>7 DEF Answer
  <2>2. Knows(done, r.key, "price_copy")
    BY <1>5, <1>7, <2>1 DEF Knows, Memory
  <2>3. QED
    BY <1>5, <2>2 DEF Outcome, done
<1>8. CASE channel.prices["listing"].amount # NoAmount /\ r.key \notin channel.priceWrites
  <2>1. done = Answer(after, TRUE, TRUE)
    BY <1>1, <1>2, <1>8
  <2>2. done.channel = after /\ done.acted
    BY <2>1 DEF Answer
  <2>3. Acts(done, r.key, "price_copy")
    BY <1>4, <1>5, <1>8, <2>2, RememberedKinds DEF Acts, Memory
  <2>4. QED
    BY <1>5, <2>3 DEF Outcome, done
<1>9. QED
  BY <1>6, <1>7, <1>8

LEMMA ListingTwice ==
  ASSUME NEW ch, ChannelShape(ch), NEW s, NEW n
  PROVE  [ch EXCEPT !.listing.state = s, !.listing.version = n] =
         [ch EXCEPT !.listing = [state |-> s, outOfStockControl |-> ch.listing.outOfStockControl, version |-> n]]
<1> DEFINE first == [ch.listing EXCEPT !.state = s]
           both == [first EXCEPT !.version = n]
           row == [state |-> s, outOfStockControl |-> ch.listing.outOfStockControl, version |-> n]
<1>1. "listing" \in DOMAIN ch
  BY DEF ChannelShape
<1>2. [ch EXCEPT !.listing.state = s, !.listing.version = n] =
        [[ch EXCEPT !.listing = first] EXCEPT !.listing = [[ch EXCEPT !.listing = first].listing EXCEPT !.version = n]]
  BY SMT
<1>3. [ch EXCEPT !.listing = first].listing = first
  BY <1>1
<1>4. first = [state |-> s, outOfStockControl |-> ch.listing.outOfStockControl, version |-> ch.listing.version]
  BY DEF ChannelShape
<1> HIDE DEF first
<1>5. both = row
  BY <1>4
<1>6. [ch EXCEPT !.listing.state = s, !.listing.version = n] = [[ch EXCEPT !.listing = first] EXCEPT !.listing = both]
  BY <1>2, <1>3
<1> HIDE DEF both, row
<1>7. [[ch EXCEPT !.listing = first] EXCEPT !.listing = both] = [ch EXCEPT !.listing = both]
  BY <1>1
<1>8. QED
  BY <1>5, <1>6, <1>7 DEF row

LEMMA RestockOutcome ==
  ASSUME GateInv, NEW o, NEW r, r.kind = "restock_to_live"
  PROVE  Outcome(restockToLive(r), o, r)
<1> DEFINE n == channel.listing.version + 1
           listing == [state |-> "active", outOfStockControl |-> channel.listing.outOfStockControl, version |-> n]
           after == [channel EXCEPT !.listing = listing]
           done == restockToLive(r)
           refused == channel.listing.state = "ended" \/ r.value.version # channel.listing.version
<1>1. IF refused THEN done = Answer(channel, FALSE, FALSE)
      ELSE done = Answer([channel EXCEPT !.listing.state = "active",
                                         !.listing.version = channel.listing.version + 1], TRUE, TRUE)
  BY DEF restockToLive
<1>2. ChannelShape(channel) /\ n \in Int
  BY DEF GateInv, ChannelInv, ChannelShape
<1>3. [channel EXCEPT !.listing.state = "active", !.listing.version = channel.listing.version + 1] = after
  <2>1. \A s, m : [channel EXCEPT !.listing.state = s, !.listing.version = m] =
          [channel EXCEPT !.listing = [state |-> s, outOfStockControl |-> channel.listing.outOfStockControl,
                                       version |-> m]]
    BY <1>2, ListingTwice
  <2>2. QED
    BY <2>1, Zenon
<1>4. /\ ChannelShape(after) /\ after.priceWrites = channel.priceWrites /\ after.copies = channel.copies
      /\ after.drafts = channel.drafts /\ after.published = channel.published /\ after.listing.version = n
  BY <1>2, ChannelListing
<1> HIDE DEF after, done
<1>5. CASE refused
  <2>1. Refuses(done)
    BY <1>1, <1>5 DEF Refuses, Answer
  <2>2. QED
    BY <2>1 DEF Outcome, done
<1>6. CASE ~refused
  <2>1. done = Answer(after, TRUE, TRUE)
    BY <1>1, <1>3, <1>6
  <2>2. done.channel = after /\ done.acted
    BY <2>1 DEF Answer
  <2>3. Restocks(done, r)
    BY <1>4, <1>6, <2>2, RememberedKinds DEF Restocks, Memory
  <2>4. QED
    BY <2>3 DEF Outcome, done
<1>7. QED
  BY <1>5, <1>6

LEMMA CarryOutcome ==
  ASSUME GateInv, NEW o, NEW r, r.kind \in ListingKinds
  PROVE  Outcome(Carry(r), o, r)
<1>1. CASE r.kind = "draft_create"
  BY <1>1, DraftOutcome DEF Carry
<1>2. CASE r.kind = "draft_publish"
  BY <1>2, PublishOutcome DEF Carry
<1>3. CASE r.kind = "price_copy"
  BY <1>3, PriceOutcome DEF Carry
<1>4. CASE r.kind = "restock_to_live"
  BY <1>4, RestockOutcome DEF Carry
<1>5. CASE r.kind = "order_copy"
  BY <1>5, CopyOutcome DEF Carry
<1>6. QED
  BY <1>1, <1>2, <1>3, <1>4, <1>5, KindNames

-------------------------------------------------------------------------------
(* Calls.                                                                    *)

LEMMA RunWritten ==
  ASSUME NEW w \in Executors, run[w] \in Runs, NEW s, NEW a
  PROVE  [run EXCEPT ![w].stage = s, ![w].answer = a] =
         [run EXCEPT ![w] = [stage |-> s, op |-> run[w].op, answer |-> a]]
<1>1. [run EXCEPT ![w].stage = s, ![w].answer = a] = [run EXCEPT ![w] = [run[w] EXCEPT !.stage = s, !.answer = a]]
  OBVIOUS
<1>2. [run[w] EXCEPT !.stage = s, !.answer = a] = [[run[w] EXCEPT !.stage = s] EXCEPT !.answer = a]
  BY StageAnswer, Zenon
<1> DEFINE y == [run[w] EXCEPT !.stage = s]
<1>3. y = [stage |-> s, op |-> run[w].op, answer |-> run[w].answer]
  BY RunRow
<1>4. [run[w] EXCEPT !.stage = s, !.answer = a] = [y EXCEPT !.answer = a]
  BY <1>2, Zenon
<1> HIDE DEF y
<1>5. [y EXCEPT !.answer = a] = [stage |-> s, op |-> run[w].op, answer |-> a]
  BY <1>3
<1>6. [run[w] EXCEPT !.stage = s, !.answer = a] = [stage |-> s, op |-> run[w].op, answer |-> a]
  BY <1>4, <1>5
<1>7. QED
  BY <1>1, <1>6, Zenon

LEMMA EffectAdded ==
  ASSUME GateInv, NEW o \in OpIds, NEW n \in {0, 1}, effects' = [effects EXCEPT ![o] = @ + n]
  PROVE  /\ n = 0 => effects' = effects
         /\ n = 1 => effects' = [effects EXCEPT ![o] = 1] \/ effects[o] # 0
<1>1. effects \in [OpIds -> {0, 1}]
  BY DEF GateInv, EffectsInv, EffectsType
<1>2. effects = [p \in OpIds |-> effects[p]]
  BY <1>1
<1>3. effects' = [p \in OpIds |-> IF p = o THEN effects[o] + n ELSE effects[p]]
  BY <1>1
<1>4. ASSUME n = 0 PROVE effects' = effects
  <2>1. effects[o] + n = effects[o]
    BY <1>1, <1>4
  <2>2. effects' = [p \in OpIds |-> effects[p]]
    BY <1>3, <2>1
  <2>3. QED
    BY <1>2, <2>2
<1>5. ASSUME n = 1, effects[o] = 0 PROVE effects' = [effects EXCEPT ![o] = 1]
  BY <1>1, <1>3, <1>5
<1>6. QED
  BY <1>4, <1>5

\* An executor called and has its answer.
LEMMA Called ==
  ASSUME GateInv, NEW w \in Executors, run[w] # Idle, ops' = ops,
         NEW s \in {"record", "settle", "store"}, NEW a \in {"success", "failure"},
         run' = [run EXCEPT ![w] = [stage |-> s, op |-> run[w].op, answer |-> a]],
         a = "success" => effects'[run[w].op] = 1
  PROVE  RunsMove
<1> DEFINE x == [stage |-> s, op |-> run[w].op, answer |-> a]
<1>1. run[w].op \in OpIds /\ IsAsked(run[w].op) /\ ops[run[w].op].state \in AgreedStates
  BY RunOf
<1>2. x \in Runs /\ x.op = run[w].op /\ x.stage # "complete" /\ x.answer = a
  BY <1>1 DEF Runs
<1> HIDE DEF x
<1>3. ops'[x.op] # NoOp /\ ops'[x.op].state \in AgreedStates
  BY <1>1, <1>2 DEF IsAsked
<1>4. run' = [run EXCEPT ![w] = x]
  BY DEF x
<1>5. x.answer = "success" \/ x.stage = "complete" => effects'[x.op] = 1
  BY <1>2
<1>6. QED
  BY <1>2, <1>3, <1>4, <1>5, OneRun

LEMMA CallKeeps ==
  ASSUME GateInv, UNCHANGED carrier, NEW w \in Executors, NEW lost \in BOOLEAN, Call(w, lost)
  PROVE  GateInv' /\ Kept
<1> DEFINE o == run[w].op
           r == ops[o]
           done == Carry(r)
           s == IF r.kind = "order_copy" THEN "record" ELSE "settle"
           a == IF done.ok /\ ~lost THEN "success" ELSE "failure"
           n == IF done.acted THEN 1 ELSE 0
<1>1. /\ run[w] # Idle /\ r.kind \in ListingKinds
      /\ ops' = ops /\ carrier' = carrier /\ channel' = done.channel
      /\ effects' = [effects EXCEPT ![o] = @ + n]
      /\ run' = [run EXCEPT ![w].stage = s, ![w].answer = a]
  BY DEF Call, Running
<1>2. /\ run[w] \in Runs /\ o \in OpIds /\ IsOp(r) /\ IsAsked(o) /\ r.state \in AgreedStates
  BY <1>1, RunOf
<1>3. Outcome(done, o, r)
  BY <1>1, CarryOutcome
<1>4. a \in {"success", "failure"} /\ (a = "success" => done.ok) /\ s \in {"record", "settle", "store"}
  OBVIOUS
<1>5. n \in {0, 1} /\ (done.acted => n = 1) /\ (~done.acted => n = 0)
  OBVIOUS
<1> HIDE DEF done, s, a, n
<1>6. run' = [run EXCEPT ![w] = [stage |-> s, op |-> run[w].op, answer |-> a]]
  <2>1. \A t, b : [run EXCEPT ![w].stage = t, ![w].answer = b] =
                   [run EXCEPT ![w] = [stage |-> t, op |-> run[w].op, answer |-> b]]
    BY <1>2, RunWritten
  <2>2. QED
    BY <1>1, <2>1, Zenon
<1>7. effects[o] \in {0, 1}
  BY <1>2 DEF GateInv, EffectsInv, EffectsType
<1>8. r.kind \in Remembered => (effects[o] = 1 <=> MarkOf(o, r) \in Memory(channel, carrier, r.kind))
  BY <1>2 DEF GateInv, EffectsInv, ProviderRemembers
<1>9. CASE Refuses(done)
  <2>1. effects' = effects /\ channel' = channel /\ a # "success"
    BY <1>1, <1>2, <1>4, <1>5, <1>9, EffectAdded DEF Refuses
  <2>2. RunsMove
    BY <1>1, <1>4, <1>6, <2>1, Called
  <2>3. GateInv'
    BY <1>1, <2>1, <2>2, QuietKeeps, SameOps, SameOutside
  <2>4. Kept
    BY <1>1, <2>1, NothingSeen, SameRows DEF Kept
  <2>5. QED
    BY <2>3, <2>4
<1>10. CASE Knows(done, MarkOf(o, r), r.kind)
  <2>1. effects' = effects /\ effects[o] = 1
    BY <1>1, <1>2, <1>5, <1>8, <1>10, EffectAdded DEF Knows
  <2>2. RunsMove
    BY <1>1, <1>4, <1>6, <2>1, Called
  <2>3. OutsideQuiet
    BY <1>1, <1>10 DEF Knows, OutsideQuiet, SameMemory, VersionGrows, GateInv, ChannelInv, ChannelShape
  <2>4. GateInv'
    BY <1>1, <2>1, <2>2, <2>3, QuietKeeps, SameOps
  <2>5. Kept
    BY <1>1, <2>1, NothingSeen, SameRows DEF Kept
  <2>6. QED
    BY <2>4, <2>5
<1>11. CASE Acts(done, MarkOf(o, r), r.kind)
  <2>1. effects[o] = 0 /\ effects' = [effects EXCEPT ![o] = 1]
    BY <1>1, <1>2, <1>5, <1>7, <1>8, <1>11, EffectAdded DEF Acts
  <2>2. RunsMove
    BY <1>1, <1>2, <1>4, <1>6, <2>1, Called, EffectOnce
  <2>3. MemoryGrows(r.kind, MarkOf(o, r)) /\ r.kind \in Remembered
    BY <1>1, <1>11 DEF Acts, MemoryGrows
  <2>4. VersionGrows /\ ChannelInv'
    BY <1>1, <1>11 DEF Acts, VersionGrows, GateInv, ChannelInv, ChannelShape
  <2>5. QED
    BY <1>1, <1>2, <2>1, <2>2, <2>3, <2>4, ActKeeps
<1>12. CASE Restocks(done, r)
  <2>1. effects[o] = 0
    <3> SUFFICES ASSUME effects[o] = 1 PROVE FALSE
      BY <1>7
    <3>1. r.value.version < channel.listing.version
      BY <1>2, <1>12 DEF Restocks, GateInv, EffectsInv, RestockPassed
    <3>2. r.value.version = channel.listing.version /\ channel.listing.version \in Int
      BY <1>12 DEF Restocks, GateInv, ChannelInv, ChannelShape
    <3>3. QED
      BY <3>1, <3>2
  <2>2. effects' = [effects EXCEPT ![o] = 1]
    BY <1>1, <1>2, <1>5, <1>12, <2>1, EffectAdded DEF Restocks
  <2>3. RunsMove
    BY <1>1, <1>2, <1>4, <1>6, <2>1, <2>2, Called, EffectOnce
  <2>4. SameMemory /\ ChannelInv'
    BY <1>1, <1>12 DEF Restocks, SameMemory, GateInv, ChannelInv
  <2>5. /\ r.kind = "restock_to_live" /\ r.value.version = channel.listing.version
        /\ channel'.listing.version = channel.listing.version + 1
    BY <1>1, <1>12 DEF Restocks
  <2>6. QED
    BY <1>1, <1>2, <2>1, <2>2, <2>3, <2>4, <2>5, RestockKeeps
<1>13. QED
  BY <1>3, <1>9, <1>10, <1>11, <1>12 DEF Outcome

LEMMA CarrierSold ==
  ASSUME NEW ca, ca = [sold |-> ca.sold, voided |-> ca.voided], NEW x
  PROVE  LET q == [ca EXCEPT !.sold = x]
         IN  q = [sold |-> x, voided |-> ca.voided]
  OBVIOUS

LEMMA BuyKeeps ==
  ASSUME GateInv, UNCHANGED channel, NEW w \in Executors, NEW charged, NEW lost \in BOOLEAN,
         buyLabel(w, charged, lost)
  PROVE  GateInv' /\ Kept
<1> DEFINE o == run[w].op
           r == ops[o]
           bought == o \in DOMAIN carrier.sold
           price == IF bought THEN carrier.sold[o] ELSE charged
           sold == [k \in DOMAIN carrier.sold \cup {o} |-> IF k = o THEN price ELSE carrier.sold[k]]
           s == "store"
           a == IF ~lost /\ price = r.value.amount THEN "success" ELSE "failure"
           n == IF bought THEN 0 ELSE 1
<1>1. /\ run[w] # Idle /\ r.kind = "label_purchase"
      /\ ops' = ops /\ channel' = channel /\ carrier' = [carrier EXCEPT !.sold = sold]
      /\ effects' = [effects EXCEPT ![o] = @ + n]
      /\ run' = [run EXCEPT ![w].stage = s, ![w].answer = a]
  BY DEF buyLabel, Running
<1>2. /\ run[w] \in Runs /\ o \in OpIds /\ IsOp(r) /\ IsAsked(o) /\ r.state \in AgreedStates
  BY <1>1, RunOf
<1>3. a \in {"success", "failure"} /\ s \in {"record", "settle", "store"}
  OBVIOUS
<1>4. n \in {0, 1} /\ (~bought => n = 1) /\ (bought => n = 0)
  OBVIOUS
<1>5. DOMAIN sold = DOMAIN carrier.sold \cup {o}
  OBVIOUS
<1> HIDE DEF s, a, n, sold
<1>6. run' = [run EXCEPT ![w] = [stage |-> s, op |-> run[w].op, answer |-> a]]
  <2>1. \A t, b : [run EXCEPT ![w].stage = t, ![w].answer = b] =
                   [run EXCEPT ![w] = [stage |-> t, op |-> run[w].op, answer |-> b]]
    BY <1>2, RunWritten
  <2>2. QED
    BY <1>1, <2>1, Zenon
<1>7. r.kind \in Remembered /\ MarkOf(o, r) = o
  BY <1>1, RememberedKinds DEF MarkOf
<1>8. effects[o] \in {0, 1} /\ (effects[o] = 1 <=> bought)
  BY <1>1, <1>2, <1>7 DEF GateInv, EffectsInv, EffectsType, ProviderRemembers, Memory
<1>9. carrier' = [sold |-> sold, voided |-> carrier.voided]
  BY <1>1, CarrierSold DEF GateInv, ChannelInv
<1>10. ChannelInv' /\ VersionGrows
  BY <1>1, <1>9 DEF GateInv, ChannelInv, ChannelShape, VersionGrows
<1>11. CASE bought
  <2>1. effects' = effects /\ effects[o] = 1
    BY <1>1, <1>2, <1>4, <1>8, <1>11, EffectAdded
  <2>2. RunsMove
    BY <1>1, <1>3, <1>6, <2>1, Called
  <2>3. DOMAIN carrier'.sold = DOMAIN carrier.sold
    BY <1>5, <1>9, <1>11
  <2>4. OutsideQuiet
    BY <1>1, <1>10, <2>3, RememberedKinds DEF OutsideQuiet, SameMemory, Memory
  <2>5. GateInv'
    BY <1>1, <2>1, <2>2, <2>4, QuietKeeps, SameOps
  <2>6. Kept
    BY <1>1, <2>1, NothingSeen, SameRows DEF Kept
  <2>7. QED
    BY <2>5, <2>6
<1>12. CASE ~bought
  <2>1. effects[o] = 0 /\ effects' = [effects EXCEPT ![o] = 1]
    BY <1>1, <1>2, <1>4, <1>8, <1>12, EffectAdded
  <2>2. RunsMove
    BY <1>1, <1>2, <1>3, <1>6, <2>1, Called, EffectOnce
  <2>3. MemoryGrows(r.kind, MarkOf(o, r))
    BY <1>1, <1>5, <1>7, <1>9, RememberedKinds DEF MemoryGrows, Memory
  <2>4. QED
    BY <1>1, <1>2, <1>7, <1>10, <2>1, <2>2, <2>3, ActKeeps
<1>13. QED
  BY <1>11, <1>12

-------------------------------------------------------------------------------
(* Everybody else.                                                           *)

\* A step outside the gate that the provider's memory does not notice.
LEMMA OutsideKeeps ==
  ASSUME GateInv, UNCHANGED gateVars, OutsideQuiet
  PROVE  GateInv' /\ Kept
<1>1. ops' = ops /\ run' = run /\ effects' = effects
  BY DEF gateVars
<1>2. GateInv'
  BY <1>1, QuietKeeps, SameOps, SameRun
<1>3. Kept
  BY <1>1, NothingSeen, SameRows DEF Kept
<1>4. QED
  BY <1>2, <1>3

LEMMA OutOfBandKeeps ==
  ASSUME GateInv, UNCHANGED carrier, OutOfBand
  PROVE  GateInv' /\ Kept
<1>1. ChannelShape(channel)
  BY DEF GateInv, ChannelInv
<1>2. UNCHANGED gateVars
  BY DEF OutOfBand
<1>3. ASSUME NEW e, NEW price, setPriceOutOfBand(e, price) PROVE OutsideQuiet
  <2> DEFINE prices == [channel.prices EXCEPT ![e] = price]
  <2>1. channel' = [channel EXCEPT !.prices = prices]
    BY <1>3 DEF setPriceOutOfBand
  <2> HIDE DEF prices
  <2>2. /\ ChannelShape(channel') /\ channel'.copies = channel.copies /\ channel'.drafts = channel.drafts
        /\ channel'.published = channel.published /\ channel'.priceWrites = channel.priceWrites
        /\ channel'.listing = channel.listing
    BY <1>1, <2>1, ChannelPrices
  <2>3. QED
    BY <1>1, <2>2, RememberedKinds
    DEF OutsideQuiet, SameMemory, Memory, VersionGrows, GateInv, ChannelInv, ChannelShape
<1>4. ASSUME NEW state, changeListingOutOfBand(state) PROVE OutsideQuiet
  <2> DEFINE n == channel.listing.version + 1
             listing == [state |-> state, outOfStockControl |-> channel.listing.outOfStockControl, version |-> n]
  <2>1. channel' = [channel EXCEPT !.listing.state = state, !.listing.version = n]
    BY <1>4 DEF changeListingOutOfBand
  <2>2. n \in Int /\ channel.listing.version \in Int /\ channel.listing.version <= n
    BY <1>1 DEF ChannelShape
  <2> HIDE DEF n
  <2>3. channel' = [channel EXCEPT !.listing = listing]
    <3>1. \A t, m : [channel EXCEPT !.listing.state = t, !.listing.version = m] =
            [channel EXCEPT !.listing = [state |-> t, outOfStockControl |-> channel.listing.outOfStockControl,
                                         version |-> m]]
      BY <1>1, ListingTwice
    <3>2. QED
      BY <2>1, <3>1, Zenon
  <2>4. /\ ChannelShape(channel') /\ channel'.priceWrites = channel.priceWrites
        /\ channel'.copies = channel.copies /\ channel'.drafts = channel.drafts
        /\ channel'.published = channel.published /\ channel'.listing.version = n
    BY <1>1, <2>2, <2>3, ChannelListing
  <2>5. QED
    BY <2>2, <2>4, RememberedKinds DEF OutsideQuiet, SameMemory, Memory, VersionGrows, GateInv, ChannelInv
<1>5. OutsideQuiet
  BY <1>3, <1>4 DEF OutOfBand
<1>6. QED
  BY <1>2, <1>5, OutsideKeeps

LEMMA VoidKeeps ==
  ASSUME GateInv, UNCHANGED channel, NEW c, NEW outcome, SettleVoid(c, outcome)
  PROVE  GateInv' /\ Kept
<1>1. UNCHANGED gateVars
  BY DEF SettleVoid
<1>2. PICK x : carrier' = [carrier EXCEPT !.voided = x]
  BY DEF SettleVoid
<1>3. carrier = [sold |-> carrier.sold, voided |-> carrier.voided]
  BY DEF GateInv, ChannelInv
<1>4. carrier' = [sold |-> carrier.sold, voided |-> x]
  BY <1>2, <1>3
<1>5. OutsideQuiet
  BY <1>4, RememberedKinds
  DEF OutsideQuiet, SameMemory, Memory, VersionGrows, GateInv, ChannelInv, ChannelShape
<1>6. QED
  BY <1>1, <1>5, OutsideKeeps

LEMMA ServingKeeps ==
  ASSUME GateInv, UNCHANGED channel, Serving
  PROVE  GateInv' /\ Kept
<1>1. ASSUME NEW c \in Clerks, NEW r, SettleVoid(c, r) PROVE GateInv' /\ Kept
  BY <1>1, VoidKeeps
<1>2. ASSUME NEW c \in Clerks, NEW o \in OpIds, voidLabel(c, o) PROVE GateInv' /\ Kept
  BY <1>2, RestKeeps DEF voidLabel
<1>3. ASSUME NEW c \in Clerks, RequestVoid(c) PROVE GateInv' /\ Kept
  BY <1>3, RestKeeps DEF RequestVoid
<1>4. ASSUME NEW c \in Clerks, RecordPush(c) PROVE GateInv' /\ Kept
  BY <1>4, RestKeeps DEF RecordPush
<1>5. ASSUME NEW o \in OpIds, recordTracking(o) PROVE GateInv' /\ Kept
  BY <1>5, RestKeeps DEF recordTracking
<1>6. ASSUME NEW c, NEW p, NEW kind, NEW who, pushTrackingToChannel(c, p, kind, who) PROVE GateInv' /\ Kept
  BY <1>6, RestKeeps DEF pushTrackingToChannel
<1>7. ASSUME NEW c, NEW acts, NEW answer, carryOut(c, acts, answer) PROVE GateInv' /\ Kept
  BY <1>7, RestKeeps DEF carryOut
<1>8. QED
  BY <1>1, <1>2, <1>3, <1>4, <1>5, <1>6, <1>7 DEF Serving

LEMMA ParcelKeeps ==
  ASSUME GateInv, UNCHANGED channel, ParcelNext
  PROVE  GateInv' /\ Kept
<1>1. ASSUME NEW p, NEW n, createPackage(p, n) PROVE GateInv' /\ Kept
  BY <1>1, RestKeeps DEF createPackage
<1>2. CASE cancelPackageAction
  BY <1>2, RestKeeps DEF cancelPackageAction, cancelPackage
<1>3. CASE Refund
  BY <1>3, RestKeeps DEF Refund
<1>4. CASE Buying
  BY <1>4, BeginPurchaseKeeps, BuyKeeps, BuyFailsKeeps, StoreLabelKeeps, CompletePurchaseKeeps DEF Buying
<1>5. CASE markShippedAction
  BY <1>5, RestKeeps DEF markShippedAction, markShipped
<1>6. CASE Serving
  BY <1>6, ServingKeeps
<1>7. CASE Account
  BY <1>7, RestKeeps DEF Account
<1>8. QED
  BY <1>1, <1>2, <1>3, <1>4, <1>5, <1>6, <1>7, ProposePurchaseKeeps DEF ParcelNext

LEMMA ListingsKeeps ==
  ASSUME GateInv, UNCHANGED carrier, ListingsNext
  PROVE  GateInv' /\ Kept
<1>1. CASE GateNext /\ UNCHANGED <<channel, mirrored, outOfBand>>
  BY <1>1, GateKeeps DEF Rested
<1>2. CASE OutOfBand
  BY <1>2, OutOfBandKeeps
<1>3. QED
  BY <1>1, <1>2, ProposeListingKeeps, BeginListingKeeps, ReserveKeeps, CallFailsKeeps,
     SettleListingKeeps, CallKeeps, RecordMirrorKeeps DEF ListingsNext

LEMMA StepKeeps ==
  ASSUME GateInv, [OperationsNext]_operationVars
  PROVE  GateInv' /\ Kept
<1>1. CASE ListingsNext /\ UNCHANGED <<parcelVars, aiVars>>
  BY <1>1, ListingsKeeps DEF parcelVars
<1>2. CASE ParcelNext /\ UNCHANGED <<channelVars, aiVars>>
  BY <1>2, ParcelKeeps DEF channelVars
<1>3. CASE AiNext /\ UNCHANGED <<channelVars, parcelVars>>
  BY <1>3, RestKeeps DEF AiNext, channelVars, parcelVars
<1>4. CASE UNCHANGED operationVars
  BY <1>4, RestKeeps DEF operationVars, channelVars, parcelVars
<1>5. QED
  BY <1>1, <1>2, <1>3, <1>4 DEF OperationsNext

LEMMA InitKeeps ==
  ASSUME OperationsInit
  PROVE  GateInv /\ Promise!ConfirmedOnceInit
<1>1. /\ ops = [o \in OpIds |-> NoOp] /\ run = [w \in Executors |-> Idle] /\ effects = [o \in OpIds |-> 0]
      /\ carrier = [sold |-> [o \in {} |-> 0], voided |-> {}]
  BY DEF OperationsInit, ListingsInit, GateInit, ShippingInit
<1>2. PICK prices, control :
        channel = [drafts |-> {}, published |-> {}, priceWrites |-> {}, copies |-> {}, prices |-> prices,
                   listing |-> [state |-> "out_of_stock", outOfStockControl |-> control, version |-> 1]]
  BY DEF OperationsInit, ListingsInit
<1>3. OpsInv
  BY <1>1 DEF OpsInv, OpsType, KeysApart, RowsWellMade, IsAsked
<1>4. \A k \in Remembered : Memory(channel, carrier, k) = {}
  BY <1>1, <1>2, RememberedKinds DEF Memory
<1>5. EffectsInv
  BY <1>1, <1>4 DEF EffectsInv, EffectsType, NothingUnasked, ExecutedActed, ProviderRemembers,
                    MemoryIsOfRows, RestockPassed, IsAsked
<1>6. RunInv
  BY <1>1 DEF RunInv, RunType, RunsHold
<1>7. ChannelInv
  BY <1>1, <1>2 DEF ChannelInv, ChannelShape
<1>8. Promise!ConfirmedOnceInit
  BY <1>1, StageOfNone DEF Promise!ConfirmedOnceInit
<1>9. QED
  BY <1>3, <1>5, <1>6, <1>7, <1>8 DEF GateInv

-------------------------------------------------------------------------------
(* What is shown.                                                            *)

\* Whatever the number of operations, of executors, of attempts and of crashes: an
\* operation reaches the channel or the carrier at most once, only after somebody confirmed
\* it, and is recorded as executed only after it did (beginExecution, completeExecution,
\* failExecution of review.ts and the keys the proposals give the providers).
THEOREM GateKeepsPromise == OperationsSpec => AtMostOnceWhenConfirmed
<1>1. OperationsInit => GateInv /\ Promise!ConfirmedOnceInit
  BY InitKeeps
<1>2. GateInv /\ [OperationsNext]_operationVars => GateInv'
  BY StepKeeps
<1>3. GateInv /\ [OperationsNext]_operationVars => [Promise!ConfirmedOnceNext]_Promise!cvars
  BY StepKeeps DEF Kept, Seen
<1>4. QED
  BY <1>1, <1>2, <1>3, PTL DEF OperationsSpec, AtMostOnceWhenConfirmed, Promise!ConfirmedOnceSpec

-------------------------------------------------------------------------------
(* Labels that were stored were paid for as confirmed.                       *)

LabelShape(r) ==
  /\ r = [state |-> r.state, parcel |-> r.parcel, amount |-> r.amount, events |-> r.events]
  /\ r.state # "none"
LabelsType == labels = [o \in OpIds |-> labels[o]] /\ \A o \in OpIds : labels[o] = NoLabel \/ LabelShape(labels[o])
IsBought(o) == IsAsked(o) /\ ops[o].kind = "label_purchase" /\ o \in DOMAIN carrier.sold
LabelsPaid ==
  \A o \in OpIds : labels[o] # NoLabel => IsBought(o) /\ labels[o].amount = ops[o].value.amount

\* An executor with a label in hand has one that was sold at the amount confirmed.
RunPaid(x) ==
  /\ x.stage = "store" => ops[x.op].kind = "label_purchase"
  /\ ops[x.op].kind = "label_purchase" /\ x.answer = "success" =>
       x.op \in DOMAIN carrier.sold /\ carrier.sold[x.op] = ops[x.op].value.amount
RunsPaid == \A w \in Executors : run[w] # Idle => RunPaid(run[w])

\* A clerk asks back a label there is.
Voids(x) ==
  /\ x = [stage |-> x.stage, label |-> x.label]
  /\ x.label \in OpIds /\ labels[x.label] # NoLabel
ClerksHold ==
  /\ clerk = [c \in Clerks |-> clerk[c]]
  /\ \A c \in Clerks : clerk[c] # Idle /\ clerk[c].stage \in {"void", "voiding"} => Voids(clerk[c])

LabelInv == LabelsType /\ LabelsPaid /\ RunsPaid /\ ClerksHold

SoldStays ==
  \A k \in DOMAIN carrier.sold : k \in DOMAIN carrier'.sold /\ carrier'.sold[k] = carrier.sold[k]

\* What a label may become: a row is inserted for a label that was bought, and keeps its amount.
LabelMoves(o) ==
  \/ labels'[o] = labels[o]
  \/ /\ labels[o] # NoLabel
     /\ LabelShape(labels'[o]) /\ labels'[o].amount = labels[o].amount
  \/ IsBought(o) /\ LabelShape(labels'[o]) /\ labels'[o].amount = ops[o].value.amount
LabelsMove == labels' = [o \in OpIds |-> labels'[o]] /\ \A o \in OpIds : LabelMoves(o)

LEMMA ShapedIsLabel == \A r : LabelShape(r) => r # NoLabel
  BY DEF LabelShape, NoLabel

LEMMA LabelsStay ==
  ASSUME LabelsType, LabelsPaid, RowsStay, SoldStays, LabelsMove
  PROVE  /\ LabelsType' /\ LabelsPaid'
         /\ \A o \in OpIds : labels[o] # NoLabel => labels'[o] # NoLabel
<1>1. \A o \in OpIds : labels[o] = NoLabel \/ LabelShape(labels[o])
  BY DEF LabelsType
<1>2. \A o \in OpIds : labels'[o] = NoLabel \/ LabelShape(labels'[o])
  BY <1>1 DEF LabelsMove, LabelMoves
<1>3. LabelsType'
  BY <1>2 DEF LabelsType, LabelsMove, LabelShape
<1>4. \A o \in OpIds : labels[o] # NoLabel => labels'[o] # NoLabel
  BY ShapedIsLabel DEF LabelsMove, LabelMoves
<1>5. ASSUME NEW o \in OpIds, labels'[o] # NoLabel PROVE IsBought(o)' /\ labels'[o].amount = ops'[o].value.amount
  <2>1. IsBought(o) /\ labels'[o].amount = ops[o].value.amount
    BY <1>5 DEF LabelsMove, LabelMoves, LabelsPaid
  <2>2. /\ ops'[o].kind = ops[o].kind /\ ops'[o].value = ops[o].value /\ IsAsked(o)'
        /\ o \in DOMAIN carrier'.sold
    BY <2>1 DEF RowsStay, SoldStays, IsBought
  <2>3. QED
    BY <2>1, <2>2 DEF IsBought
<1>6. LabelsPaid'
  BY <1>5 DEF LabelsPaid
<1>7. QED
  BY <1>3, <1>4, <1>6

\* RunPaid after the step, of what an executor holds then.
PaidNext(x) ==
  /\ x.stage = "store" => ops'[x.op].kind = "label_purchase"
  /\ ops'[x.op].kind = "label_purchase" /\ x.answer = "success" =>
       x.op \in DOMAIN carrier'.sold /\ carrier'.sold[x.op] = ops'[x.op].value.amount
RunsPay ==
  \A w \in Executors : run'[w] = run[w] \/ run'[w] = Idle \/ PaidNext(run'[w])

LEMMA RunsStayPaid ==
  ASSUME GateInv, RunsPaid, RowsStay, SoldStays, RunsPay
  PROVE  RunsPaid'
<1>1. ASSUME NEW w \in Executors, run'[w] = run[w], run[w] # Idle PROVE PaidNext(run'[w])
  <2>1. run[w].op \in OpIds /\ IsAsked(run[w].op) /\ RunPaid(run[w])
    BY <1>1, RunOf DEF RunsPaid
  <2>2. ops'[run[w].op].kind = ops[run[w].op].kind /\ ops'[run[w].op].value = ops[run[w].op].value
    BY <2>1 DEF RowsStay
  <2>3. QED
    BY <1>1, <2>1, <2>2 DEF PaidNext, RunPaid, SoldStays
<1>2. ASSUME NEW w \in Executors, run'[w] # Idle PROVE PaidNext(run'[w])
  BY <1>1, <1>2 DEF RunsPay
<1>3. QED
  BY <1>2 DEF RunsPaid, RunPaid, PaidNext

LEMMA OneRunPays ==
  ASSUME GateInv, NEW w \in Executors, NEW x, run' = [run EXCEPT ![w] = x], x = Idle \/ PaidNext(x)
  PROVE  RunsPay
<1>1. run = [v \in Executors |-> run[v]]
  BY DEF GateInv, RunInv, RunType
<1>2. run'[w] = x /\ \A v \in Executors : v # w => run'[v] = run[v]
  BY <1>1
<1>3. QED
  BY <1>2 DEF RunsPay

\* A clerk takes up a label there is, or something else.
ClerksMove ==
  /\ clerk' = [c \in Clerks |-> clerk'[c]]
  /\ \A c \in Clerks :
       \/ clerk'[c] = clerk[c]
       \/ clerk'[c] = Idle
       \/ clerk'[c].stage \notin {"void", "voiding"}
       \/ /\ clerk'[c] = [stage |-> clerk'[c].stage, label |-> clerk'[c].label]
          /\ clerk'[c].label \in OpIds /\ labels'[clerk'[c].label] # NoLabel

LEMMA ClerksStay ==
  ASSUME ClerksHold, ClerksMove, \A o \in OpIds : labels[o] # NoLabel => labels'[o] # NoLabel
  PROVE  ClerksHold'
  BY DEF ClerksHold, ClerksMove, Voids

LEMMA LabelInvKept ==
  ASSUME GateInv, LabelInv, RowsStay, SoldStays, LabelsMove, RunsPay, ClerksMove
  PROVE  LabelInv'
  BY LabelsStay, RunsStayPaid, ClerksStay DEF LabelInv

\* Steps in which the shipping page rests.
LEMMA LabelsRest ==
  ASSUME LabelInv, UNCHANGED <<labels, clerk, carrier>>
  PROVE  LabelsMove /\ ClerksMove /\ SoldStays
  BY DEF LabelInv, LabelsType, ClerksHold, LabelsMove, LabelMoves, ClerksMove, SoldStays

LEMMA RunRests == ASSUME run' = run PROVE RunsPay
  BY DEF RunsPay

LEMMA RunPayment ==
  ASSUME GateInv, NEW w \in Executors, run[w] # Idle, NEW s, NEW a,
         run' = [run EXCEPT ![w].stage = s, ![w].answer = a],
         s = "store" => ops'[run[w].op].kind = "label_purchase",
         ops'[run[w].op].kind = "label_purchase" /\ a = "success" =>
           run[w].op \in DOMAIN carrier'.sold /\ carrier'.sold[run[w].op] = ops'[run[w].op].value.amount
  PROVE  RunsPay
<1> DEFINE x == [stage |-> s, op |-> run[w].op, answer |-> a]
<1>1. run[w] \in Runs
  BY RunOf
<1>2. run' = [run EXCEPT ![w] = x]
  <2>1. \A t, b : [run EXCEPT ![w].stage = t, ![w].answer = b] =
                   [run EXCEPT ![w] = [stage |-> t, op |-> run[w].op, answer |-> b]]
    BY <1>1, RunWritten
  <2>2. QED
    BY <2>1, Zenon
<1>3. PaidNext(x)
  BY DEF PaidNext
<1> HIDE DEF x
<1>4. QED
  BY <1>2, <1>3, OneRunPays

LEMMA RunStaged ==
  ASSUME GateInv, RunsPaid, ops' = ops, carrier' = carrier, NEW w \in Executors, run[w] # Idle, NEW s,
         s # "store", run' = [run EXCEPT ![w].stage = s]
  PROVE  RunsPay
<1> DEFINE x == [stage |-> s, op |-> run[w].op, answer |-> run[w].answer]
<1>1. run[w] \in Runs /\ RunPaid(run[w])
  BY RunOf DEF RunsPaid
<1>2. run' = [run EXCEPT ![w] = [run[w] EXCEPT !.stage = s]]
  OBVIOUS
<1>3. run' = [run EXCEPT ![w] = x]
  BY <1>1, <1>2, RunRow
<1>4. PaidNext(x)
  BY <1>1 DEF PaidNext, RunPaid
<1> HIDE DEF x
<1>5. QED
  BY <1>3, <1>4, OneRunPays

LEMMA BeginPays ==
  ASSUME GateInv, NEW w \in Executors, NEW o \in OpIds, NEW stage \in {"reserve", "call"},
         beginExecution(w, o, stage)
  PROVE  RunsPay
<1> DEFINE x == [stage |-> stage, op |-> o, answer |-> "none"]
<1>1. run' = [run EXCEPT ![w] = x]
  BY DEF beginExecution
<1>2. PaidNext(x)
  BY DEF PaidNext
<1> HIDE DEF x
<1>3. QED
  BY <1>1, <1>2, OneRunPays

LEMMA StopPays ==
  ASSUME GateInv, NEW w \in Executors, run' = [run EXCEPT ![w] = Idle]
  PROVE  RunsPay
  BY OneRunPays

LEMMA GatePays ==
  ASSUME GateInv, GateNext
  PROVE  RunsPay
<1>1. ASSUME NEW w \in Executors, Crash(w) PROVE RunsPay
  BY <1>1, StopPays DEF Crash
<1>2. CASE confirmOperationAction
  BY <1>2, RunRests DEF confirmOperationAction, confirmOperation
<1>3. CASE cancelOperationAction
  BY <1>3, RunRests DEF cancelOperationAction, cancelOperation
<1>4. CASE expireProposals
  BY <1>4, RunRests DEF expireProposals
<1>5. CASE Tick
  BY <1>5, RunRests DEF Tick
<1>6. QED
  BY <1>1, <1>2, <1>3, <1>4, <1>5 DEF GateNext

LEMMA ProposalsPay ==
  ASSUME NEW o \in OpIds, ProposeListing(o)
  PROVE  RunsPay
<1>1. run' = run
  BY DEF ProposeListing, proposeDraft, proposePublication, proposePriceCopy, proposeRestockToLive,
         proposeOrderCopy
<1>2. QED
  BY <1>1, RunRests

LEMMA CallPays ==
  ASSUME GateInv, NEW w \in Executors, NEW lost \in BOOLEAN, Call(w, lost)
  PROVE  RunsPay
<1> DEFINE o == run[w].op
           s == IF ops[o].kind = "order_copy" THEN "record" ELSE "settle"
           a == IF Carry(ops[o]).ok /\ ~lost THEN "success" ELSE "failure"
<1>1. /\ run[w] # Idle /\ ops[o].kind \in ListingKinds /\ ops' = ops
      /\ run' = [run EXCEPT ![w].stage = s, ![w].answer = a]
  BY DEF Call, Running
<1>2. s # "store"
  OBVIOUS
<1>3. ops'[o].kind # "label_purchase"
  BY <1>1 DEF ListingKinds
<1> HIDE DEF s, a
<1>4. \A t, b : (t # "store" /\ run' = [run EXCEPT ![w].stage = t, ![w].answer = b]) => RunsPay
  BY <1>1, <1>3, RunPayment
<1>5. QED
  BY <1>1, <1>2, <1>4, Zenon

LEMMA MirrorPays ==
  ASSUME GateInv, RunsPaid, UNCHANGED carrier, NEW w \in Executors,
         ReserveMirror(w) \/ \E suppressed \in BOOLEAN : RecordMirror(w, suppressed)
  PROVE  RunsPay
<1>1. run[w] # Idle /\ ops' = ops /\ carrier' = carrier
  BY DEF ReserveMirror, RecordMirror, Running
<1>2. \/ run' = [run EXCEPT ![w].stage = "call"]
      \/ run' = [run EXCEPT ![w].stage = "settle"]
      \/ run' = [run EXCEPT ![w] = Idle]
      \/ run' = [run EXCEPT ![w].stage = "settle", ![w].answer = "failure"]
  BY DEF ReserveMirror, RecordMirror
<1>3. \A t : (t # "store" /\ run' = [run EXCEPT ![w].stage = t]) => RunsPay
  BY <1>1, RunStaged
<1>4. \A t, b : (t # "store" /\ b # "success" /\ run' = [run EXCEPT ![w].stage = t, ![w].answer = b]) => RunsPay
  BY <1>1, RunPayment
<1>5. run' = [run EXCEPT ![w].stage = "settle", ![w].answer = "failure"] => RunsPay
  BY <1>4, Zenon
<1>6. (run' = [run EXCEPT ![w].stage = "call"] \/ run' = [run EXCEPT ![w].stage = "settle"]) => RunsPay
  BY <1>3, Zenon
<1>7. QED
  BY <1>2, <1>5, <1>6, StopPays

LEMMA FailingPays ==
  ASSUME GateInv, NEW w \in Executors, CallFails(w) \/ BuyFails(w)
  PROVE  RunsPay
<1>1. \A t : /\ t = "store" => ops'[run[w].op].kind = "label_purchase"
             /\ run[w] # Idle
             /\ run' = [run EXCEPT ![w].stage = t, ![w].answer = "failure"]
             => RunsPay
  BY RunPayment
<1>2. CASE CallFails(w)
  <2>1. run[w] # Idle /\ run' = [run EXCEPT ![w].stage = "settle", ![w].answer = "failure"]
    BY <1>2 DEF CallFails, Running
  <2>2. "settle" # "store"
    OBVIOUS
  <2>3. QED
    BY <1>1, <2>1, <2>2, Zenon
<1>3. CASE BuyFails(w)
  <2>1. /\ run[w] # Idle /\ run' = [run EXCEPT ![w].stage = "store", ![w].answer = "failure"]
        /\ ops'[run[w].op].kind = "label_purchase"
    BY <1>3 DEF BuyFails, Running
  <2>2. QED
    BY <1>1, <2>1, Zenon
<1>4. QED
  BY <1>2, <1>3

LEMMA ListingsPay ==
  ASSUME GateInv, RunsPaid, UNCHANGED carrier, ListingsNext
  PROVE  RunsPay
<1>1. ASSUME NEW w \in Executors, NEW o \in OpIds, BeginListing(w, o) PROVE RunsPay
  BY <1>1, BeginPays DEF BeginListing
<1>2. ASSUME NEW w \in Executors, SettleListing(w) PROVE RunsPay
  BY <1>2, StopPays DEF SettleListing
<1>3. CASE OutOfBand
  BY <1>3, RunRests DEF OutOfBand, gateVars
<1>4. QED
  BY <1>1, <1>2, <1>3, GatePays, ProposalsPay, MirrorPays, FailingPays, CallPays DEF ListingsNext

LEMMA ListingsKeepLabels ==
  ASSUME GateInv, LabelInv, RowsStay, UNCHANGED <<labels, clerk, carrier>>, ListingsNext
  PROVE  LabelInv'
<1>1. RunsPay
  BY ListingsPay DEF LabelInv
<1>2. QED
  BY <1>1, LabelsRest, LabelInvKept

\* The carrier sells a label once, and what it charged for it does not change.
LEMMA BuyKeepsLabels ==
  ASSUME GateInv, LabelInv, RowsStay, NEW w \in Executors, NEW charged, NEW lost \in BOOLEAN,
         buyLabel(w, charged, lost)
  PROVE  LabelInv'
<1> DEFINE o == run[w].op
           bought == o \in DOMAIN carrier.sold
           price == IF bought THEN carrier.sold[o] ELSE charged
           sold == [k \in DOMAIN carrier.sold \cup {o} |-> IF k = o THEN price ELSE carrier.sold[k]]
           a == IF ~lost /\ price = ops[o].value.amount THEN "success" ELSE "failure"
<1>1. /\ run[w] # Idle /\ ops[o].kind = "label_purchase" /\ ops' = ops /\ labels' = labels /\ clerk' = clerk
      /\ carrier' = [carrier EXCEPT !.sold = sold]
      /\ run' = [run EXCEPT ![w].stage = "store", ![w].answer = a]
  BY DEF buyLabel, Running
<1>2. a = "success" => price = ops[o].value.amount
  OBVIOUS
<1>3. /\ DOMAIN sold = DOMAIN carrier.sold \cup {o} /\ sold[o] = price
      /\ \A k \in DOMAIN carrier.sold : sold[k] = carrier.sold[k]
  OBVIOUS
<1> HIDE DEF sold, price, a
<1>4. carrier' = [sold |-> sold, voided |-> carrier.voided]
  BY <1>1, CarrierSold DEF GateInv, ChannelInv
<1>5. SoldStays /\ o \in DOMAIN carrier'.sold /\ carrier'.sold[o] = price
  BY <1>3, <1>4 DEF SoldStays
<1>6. RunsPay
  <2>1. \A t, b : /\ ops'[o].kind = "label_purchase"
                  /\ b = "success" => price = ops'[o].value.amount
                  /\ run' = [run EXCEPT ![w].stage = t, ![w].answer = b]
                  => RunsPay
    BY <1>1, <1>5, RunPayment
  <2>2. QED
    BY <1>1, <1>2, <2>1, Zenon
<1>7. LabelsMove /\ ClerksMove
  BY <1>1 DEF LabelInv, LabelsType, ClerksHold, LabelsMove, LabelMoves, ClerksMove
<1>8. QED
  BY <1>5, <1>6, <1>7, LabelInvKept

LEMMA StoreKeepsLabels ==
  ASSUME GateInv, LabelInv, RowsStay, NEW w \in Executors, StoreLabel(w)
  PROVE  LabelInv'
<1> DEFINE o == run[w].op
           row == [state |-> "purchased", parcel |-> ops[o].value.parcel, amount |-> carrier.sold[o],
                   events |-> {}]
<1>1. run[w] # Idle /\ run[w].stage = "store" /\ carrier' = carrier /\ clerk' = clerk
  BY DEF StoreLabel, Running
<1>2. \/ run' = [run EXCEPT ![w] = Idle] /\ labels' = labels
      \/ /\ run[w].answer = "success" /\ labels' = [labels EXCEPT ![o] = row]
         /\ run' = [run EXCEPT ![w].stage = "complete"] /\ ops' = ops
  BY DEF StoreLabel
<1>3. CASE run' = [run EXCEPT ![w] = Idle] /\ labels' = labels
  BY <1>1, <1>3, StopPays, LabelsRest, LabelInvKept
<1>4. CASE /\ run[w].answer = "success" /\ labels' = [labels EXCEPT ![o] = row]
           /\ run' = [run EXCEPT ![w].stage = "complete"] /\ ops' = ops
  <2>1. o \in OpIds /\ IsAsked(o) /\ RunPaid(run[w])
    BY <1>1, RunOf DEF LabelInv, RunsPaid
  <2>2. IsBought(o) /\ carrier.sold[o] = ops[o].value.amount
    BY <1>1, <1>4, <2>1 DEF RunPaid, IsBought
  <2>3. LabelShape(row) /\ row.amount = carrier.sold[o]
    BY DEF LabelShape
  <2> HIDE DEF row
  <2>4. labels = [p \in OpIds |-> labels[p]]
    BY DEF LabelInv, LabelsType
  <2>5. labels'[o] = row /\ \A p \in OpIds : p # o => labels'[p] = labels[p]
    BY <1>4, <2>1, <2>4
  <2>6. labels' = [p \in OpIds |-> labels'[p]]
    BY <1>4, <2>4
  <2>7. LabelsMove
    BY <2>2, <2>3, <2>5, <2>6 DEF LabelsMove, LabelMoves
  <2>8. ClerksMove /\ SoldStays
    BY <1>1 DEF LabelInv, ClerksHold, ClerksMove, SoldStays
  <2>9. \A t : (t # "store" /\ run' = [run EXCEPT ![w].stage = t]) => RunsPay
    BY <1>1, <1>4, RunStaged DEF LabelInv
  <2>10. RunsPay
    BY <1>4, <2>9, Zenon
  <2>11. QED
    BY <2>7, <2>8, <2>10, LabelInvKept
<1>5. QED
  BY <1>2, <1>3, <1>4

LEMMA BuyingKeepsLabels ==
  ASSUME GateInv, LabelInv, RowsStay, Buying
  PROVE  LabelInv'
<1>1. ASSUME NEW w \in Executors, NEW o \in OpIds, BeginPurchase(w, o) PROVE LabelInv'
  <2>1. RunsPay
    BY <1>1, BeginPays DEF BeginPurchase
  <2>2. QED
    BY <1>1, <2>1, LabelsRest, LabelInvKept DEF BeginPurchase, parcelVars
<1>2. ASSUME NEW w \in Executors, BuyFails(w) PROVE LabelInv'
  <2>1. RunsPay
    BY <1>2, FailingPays
  <2>2. QED
    BY <1>2, <2>1, LabelsRest, LabelInvKept DEF BuyFails, parcelVars
<1>3. ASSUME NEW w \in Executors, CompletePurchase(w) PROVE LabelInv'
  <2>1. RunsPay
    BY <1>3, StopPays DEF CompletePurchase
  <2>2. QED
    BY <1>3, <2>1, LabelsRest, LabelInvKept DEF CompletePurchase, parcelVars
<1>4. QED
  BY <1>1, <1>2, <1>3, BuyKeepsLabels, StoreKeepsLabels DEF Buying

\* One label changes and stays what was paid for it; the gate rests.
LEMMA LabelChanges ==
  ASSUME LabelInv, NEW o \in OpIds, labels[o] # NoLabel, NEW r, LabelShape(r), r.amount = labels[o].amount,
         labels' = [labels EXCEPT ![o] = r]
  PROVE  LabelsMove
<1>1. labels = [p \in OpIds |-> labels[p]]
  BY DEF LabelInv, LabelsType
<1>2. labels' = [p \in OpIds |-> labels'[p]] /\ labels'[o] = r /\ \A p \in OpIds : p # o => labels'[p] = labels[p]
  BY <1>1
<1>3. QED
  BY <1>2 DEF LabelsMove, LabelMoves

LEMMA LabelToState ==
  ASSUME NEW r, LabelShape(r), NEW s, s # "none"
  PROVE  LabelShape([r EXCEPT !.state = s]) /\ [r EXCEPT !.state = s].amount = r.amount
  BY DEF LabelShape

LEMMA LabelEvents ==
  ASSUME NEW r, LabelShape(r), NEW e
  PROVE  LabelShape([r EXCEPT !.events = e]) /\ [r EXCEPT !.events = e].amount = r.amount
  BY DEF LabelShape

LEMMA OneClerk ==
  ASSUME ClerksHold, NEW c \in Clerks, NEW x, clerk' = [clerk EXCEPT ![c] = x],
         \/ x = Idle
         \/ x.stage \notin {"void", "voiding"}
         \/ x = [stage |-> x.stage, label |-> x.label] /\ x.label \in OpIds /\ labels'[x.label] # NoLabel
  PROVE  ClerksMove
<1>1. clerk = [d \in Clerks |-> clerk[d]]
  BY DEF ClerksHold
<1>2. clerk' = [d \in Clerks |-> clerk'[d]] /\ clerk'[c] = x /\ \A d \in Clerks : d # c => clerk'[d] = clerk[d]
  BY <1>1
<1>3. QED
  BY <1>2 DEF ClerksMove

LEMMA VoidingKeepsLabels ==
  ASSUME GateInv, LabelInv, RowsStay, NEW c \in Clerks, NEW o \in OpIds, voidLabel(c, o)
  PROVE  LabelInv'
<1> DEFINE x == [stage |-> "void", label |-> o]
<1>1. /\ labels[o].state = "purchased" /\ labels' = labels /\ carrier' = carrier /\ run' = run
      /\ clerk' = [clerk EXCEPT ![c] = x]
  BY DEF voidLabel, gateVars
<1>2. labels'[o] # NoLabel
  BY <1>1 DEF NoLabel
<1>3. x = [stage |-> x.stage, label |-> x.label] /\ x.label = o
  OBVIOUS
<1> HIDE DEF x
<1>4. ClerksMove
  BY <1>1, <1>2, <1>3, OneClerk DEF LabelInv
<1>5. LabelsMove /\ SoldStays /\ RunsPay
  BY <1>1, RunRests DEF LabelInv, LabelsType, LabelsMove, LabelMoves, SoldStays
<1>6. QED
  BY <1>4, <1>5, LabelInvKept

LEMMA RequestKeepsLabels ==
  ASSUME GateInv, LabelInv, RowsStay, NEW c \in Clerks, RequestVoid(c)
  PROVE  LabelInv'
<1> DEFINE o == clerk[c].label
           r == [labels[o] EXCEPT !.state = "void_requested"]
           x == [stage |-> "voiding", label |-> o]
<1>1. /\ clerk[c] # Idle /\ clerk[c].stage = "void" /\ carrier' = carrier /\ run' = run
      /\ \/ labels' = [labels EXCEPT ![o] = r] /\ clerk' = [clerk EXCEPT ![c].stage = "voiding"]
         \/ labels' = labels /\ clerk' = [clerk EXCEPT ![c] = Idle]
  BY DEF RequestVoid, gateVars
<1>2. clerk[c] = [stage |-> clerk[c].stage, label |-> o] /\ o \in OpIds /\ labels[o] # NoLabel
  BY <1>1 DEF LabelInv, ClerksHold, Voids
<1>3. LabelShape(labels[o])
  BY <1>2 DEF LabelInv, LabelsType
<1>4. LabelShape(r) /\ r.amount = labels[o].amount
  BY <1>3, LabelToState
<1>5. SoldStays /\ RunsPay
  BY <1>1, RunRests DEF SoldStays
<1> HIDE DEF r
<1>6. CASE labels' = [labels EXCEPT ![o] = r] /\ clerk' = [clerk EXCEPT ![c].stage = "voiding"]
  <2>1. LabelsMove
    BY <1>2, <1>4, <1>6, LabelChanges
  <2>2. labels'[o] # NoLabel
    BY <1>2, <1>4, <1>6, ShapedIsLabel DEF LabelInv, LabelsType
  <2>3. clerk' = [clerk EXCEPT ![c] = x]
    <3>1. clerk' = [clerk EXCEPT ![c] = [clerk[c] EXCEPT !.stage = "voiding"]]
      BY <1>6
    <3>2. [clerk[c] EXCEPT !.stage = "voiding"] = x
      BY <1>2
    <3>3. QED
      BY <3>1, <3>2
  <2>4. x = [stage |-> x.stage, label |-> x.label] /\ x.label = o
    OBVIOUS
  <2> HIDE DEF x
  <2>5. ClerksMove
    BY <1>2, <2>2, <2>3, <2>4, OneClerk DEF LabelInv
  <2>6. QED
    BY <1>5, <2>1, <2>5, LabelInvKept
<1>7. CASE labels' = labels /\ clerk' = [clerk EXCEPT ![c] = Idle]
  <2>1. LabelsMove
    BY <1>7 DEF LabelInv, LabelsType, LabelsMove, LabelMoves
  <2>2. ClerksMove
    BY <1>7, OneClerk DEF LabelInv
  <2>3. QED
    BY <1>5, <2>1, <2>2, LabelInvKept
<1>8. QED
  BY <1>1, <1>6, <1>7

LEMMA SettleKeepsLabels ==
  ASSUME GateInv, LabelInv, RowsStay, NEW c \in Clerks,
         NEW outcome \in {"refunded", "refused", "pending", "failure"}, SettleVoid(c, outcome)
  PROVE  LabelInv'
<1> DEFINE o == clerk[c].label
           r == [labels[o] EXCEPT !.state = StateAfter[outcome]]
<1>1. /\ clerk[c] # Idle /\ clerk[c].stage = "voiding" /\ run' = run
      /\ labels' = labels \/ labels' = [labels EXCEPT ![o] = r]
      /\ clerk' = [clerk EXCEPT ![c] = Idle]
      /\ \E v : carrier' = [carrier EXCEPT !.voided = v]
  BY DEF SettleVoid, gateVars
<1>2. StateAfter[outcome] # "none"
  BY DEF StateAfter
<1>3. o \in OpIds /\ labels[o] # NoLabel
  BY <1>1 DEF LabelInv, ClerksHold, Voids
<1>4. LabelShape(labels[o])
  BY <1>3 DEF LabelInv, LabelsType
<1>5. LabelShape(r) /\ r.amount = labels[o].amount
  BY <1>2, <1>4, LabelToState
<1> HIDE DEF r
<1>6. labels' = [labels EXCEPT ![o] = r] => LabelsMove
  BY <1>3, <1>5, LabelChanges
<1>7. labels' = labels => LabelsMove
  BY DEF LabelInv, LabelsType, LabelsMove, LabelMoves
<1>8. ClerksMove
  BY <1>1, OneClerk DEF LabelInv
<1>9. carrier'.sold = carrier.sold
  BY <1>1 DEF GateInv, ChannelInv
<1>10. SoldStays /\ RunsPay
  BY <1>1, <1>9, RunRests DEF SoldStays
<1>11. QED
  BY <1>1, <1>6, <1>7, <1>8, <1>10, LabelInvKept

LEMMA TrackingKeepsLabels ==
  ASSUME GateInv, LabelInv, RowsStay, NEW o \in OpIds, recordTracking(o)
  PROVE  LabelInv'
<1> DEFINE r == [labels[o] EXCEPT !.events = {"pre_transit"}]
<1>1. /\ labels[o] # NoLabel /\ labels' = [labels EXCEPT ![o] = r]
      /\ clerk' = clerk /\ run' = run /\ carrier' = carrier
  BY DEF recordTracking, gateVars
<1>2. LabelShape(labels[o])
  BY <1>1 DEF LabelInv, LabelsType
<1>3. LabelShape(r) /\ r.amount = labels[o].amount
  BY <1>2, LabelEvents
<1> HIDE DEF r
<1>4. LabelsMove
  BY <1>1, <1>3, LabelChanges
<1>5. ClerksMove /\ SoldStays /\ RunsPay
  BY <1>1, RunRests DEF LabelInv, ClerksHold, ClerksMove, SoldStays
<1>6. QED
  BY <1>4, <1>5, LabelInvKept

LEMMA PushesKeepLabels ==
  ASSUME GateInv, LabelInv, RowsStay, NEW c \in Clerks, NEW x,
         UNCHANGED <<gateVars, labels, carrier>>, clerk' = [clerk EXCEPT ![c] = x],
         x = Idle \/ x.stage \notin {"void", "voiding"}
  PROVE  LabelInv'
<1>1. ClerksMove
  BY OneClerk DEF LabelInv
<1>2. LabelsMove /\ SoldStays /\ RunsPay
  BY RunRests DEF LabelInv, LabelsType, LabelsMove, LabelMoves, SoldStays, gateVars
<1>3. QED
  BY <1>1, <1>2, LabelInvKept

LEMMA ServingKeepsLabels ==
  ASSUME GateInv, LabelInv, RowsStay, Serving
  PROVE  LabelInv'
<1>1. ASSUME NEW c \in Clerks, RecordPush(c) PROVE LabelInv'
  BY <1>1, PushesKeepLabels DEF RecordPush
<1>2. ASSUME NEW c \in Clerks, NEW p, NEW kind, NEW who, pushTrackingToChannel(c, p, kind, who)
      PROVE  LabelInv'
  <2> DEFINE x == [stage |-> "tell", parcel |-> p, kind |-> kind]
  <2>1. UNCHANGED <<gateVars, labels, carrier>> /\ clerk' = [clerk EXCEPT ![c] = x]
    BY <1>2 DEF pushTrackingToChannel
  <2>2. x.stage \notin {"void", "voiding"}
    OBVIOUS
  <2> HIDE DEF x
  <2>3. QED
    BY <2>1, <2>2, PushesKeepLabels
<1>3. ASSUME NEW c \in Clerks, NEW acts, NEW answer, carryOut(c, acts, answer) PROVE LabelInv'
  <2> DEFINE x == [stage |-> "told", parcel |-> clerk[c].parcel, kind |-> clerk[c].kind, answer |-> answer]
  <2>1. UNCHANGED <<gateVars, labels, carrier>> /\ clerk' = [clerk EXCEPT ![c] = x]
    BY <1>3 DEF carryOut
  <2>2. x.stage \notin {"void", "voiding"}
    OBVIOUS
  <2> HIDE DEF x
  <2>3. QED
    BY <2>1, <2>2, PushesKeepLabels
<1>4. QED
  BY <1>1, <1>2, <1>3, VoidingKeepsLabels, RequestKeepsLabels, SettleKeepsLabels, TrackingKeepsLabels
  DEF Serving

LEMMA RestKeepsLabels ==
  ASSUME GateInv, LabelInv, RowsStay, UNCHANGED <<run, labels, clerk, carrier>>
  PROVE  LabelInv'
  BY RunRests, LabelsRest, LabelInvKept

LEMMA ParcelKeepsLabels ==
  ASSUME GateInv, LabelInv, RowsStay, ParcelNext
  PROVE  LabelInv'
<1>1. ASSUME NEW p, NEW n, createPackage(p, n) PROVE LabelInv'
  BY <1>1, RestKeepsLabels DEF createPackage, gateVars
<1>2. CASE cancelPackageAction
  BY <1>2, RestKeepsLabels DEF cancelPackageAction, cancelPackage, gateVars
<1>3. CASE Refund
  BY <1>3, RestKeepsLabels DEF Refund, gateVars
<1>4. ASSUME NEW o, NEW p, NEW age, NEW life, NEW amount, proposeLabelPurchase(o, p, age, life, amount)
      PROVE  LabelInv'
  BY <1>4, RestKeepsLabels DEF proposeLabelPurchase, parcelVars
<1>5. CASE markShippedAction
  BY <1>5, RestKeepsLabels DEF markShippedAction, markShipped, gateVars
<1>6. CASE Account
  BY <1>6, RestKeepsLabels DEF Account, gateVars
<1>7. QED
  BY <1>1, <1>2, <1>3, <1>4, <1>5, <1>6, BuyingKeepsLabels, ServingKeepsLabels DEF ParcelNext

LEMMA StepKeepsLabels ==
  ASSUME GateInv, LabelInv, [OperationsNext]_operationVars
  PROVE  LabelInv'
<1>1. RowsStay
  BY StepKeeps DEF Kept
<1>2. CASE ListingsNext /\ UNCHANGED <<parcelVars, aiVars>>
  BY <1>1, <1>2, ListingsKeepLabels DEF parcelVars
<1>3. CASE ParcelNext
  BY <1>1, <1>3, ParcelKeepsLabels
<1>4. CASE AiNext /\ UNCHANGED <<channelVars, parcelVars>>
  BY <1>1, <1>4, RestKeepsLabels DEF AiNext, gateVars, parcelVars
<1>5. CASE UNCHANGED operationVars
  BY <1>1, <1>5, RestKeepsLabels DEF operationVars, gateVars, parcelVars
<1>6. QED
  BY <1>2, <1>3, <1>4, <1>5 DEF OperationsNext

LEMMA InitLabels ==
  ASSUME OperationsInit
  PROVE  LabelInv
<1>1. /\ run = [w \in Executors |-> Idle] /\ labels = [o \in OpIds |-> NoLabel]
      /\ clerk = [c \in Clerks |-> Idle]
  BY DEF OperationsInit, ListingsInit, GateInit, ShippingInit
<1>2. QED
  BY <1>1 DEF LabelInv, LabelsType, LabelsPaid, RunsPaid, ClerksHold

LEMMA PaidIsStated ==
  ASSUME GateInv, LabelInv
  PROVE  StoredLabelIsPaidFor
<1> SUFFICES ASSUME NEW o \in OpIds, labels[o] # NoLabel
             PROVE  o \in DOMAIN carrier.sold /\ labels[o].amount = ops[o].value.amount /\ effects[o] = 1
  BY DEF StoredLabelIsPaidFor
<1>1. IsBought(o) /\ labels[o].amount = ops[o].value.amount
  BY DEF LabelInv, LabelsPaid
<1>2. MarkOf(o, ops[o]) = o /\ Memory(channel, carrier, ops[o].kind) = DOMAIN carrier.sold /\ ops[o].kind \in Remembered
  BY <1>1, RememberedKinds DEF IsBought, MarkOf, Memory
<1>3. effects[o] = 1
  BY <1>1, <1>2 DEF IsBought, GateInv, EffectsInv, ProviderRemembers
<1>4. QED
  BY <1>1, <1>3 DEF IsBought

\* A stored label is one the carrier sold, at the amount somebody confirmed and under an
\* operation of its own, whatever the carrier charges, whoever buys it again and however
\* often it is asked back (executeLabelPurchase between buyLabel and the insert, voidLabel).
THEOREM LabelsArePaidFor == OperationsSpec => []StoredLabelIsPaidFor
<1>1. OperationsInit => GateInv /\ LabelInv
  BY InitKeeps, InitLabels
<1>2. GateInv /\ LabelInv /\ [OperationsNext]_operationVars => (GateInv /\ LabelInv)'
  BY StepKeeps, StepKeepsLabels
<1>3. GateInv /\ LabelInv => StoredLabelIsPaidFor
  BY PaidIsStated
<1>4. QED
  BY <1>1, <1>2, <1>3, PTL DEF OperationsSpec

-------------------------------------------------------------------------------
(* An order is completed when everything owed has shipped.                   *)

HasLabel(p) == \E o \in OpIds : labels[o] # NoLabel /\ labels[o].parcel = p
Gone == {p \in Parcels : parcels[p].status = "shipped" \/ relabelled(p)}
OwedHasGone == Ordered - refunded <= unitsIn(Gone)

ParcelShape(x) ==
  /\ x = [status |-> x.status, quantity |-> x.quantity]
  /\ x.quantity \in Nat
  /\ x.status = "none" => x.quantity = 0
ParcelsType == parcels = [p \in Parcels |-> parcels[p]] /\ \A p \in Parcels : ParcelShape(parcels[p])
LabelledHaveLabels == \A p \in Parcels : parcels[p].status \in {"labelled", "shipped"} => HasLabel(p)

\* A label that stands no more was taken back by the carrier.
LabelStands(o) == labels[o] # NoLabel => labels[o].state \in LiveLabel \/ o \in carrier.voided
LabelsStand == \A o \in OpIds : LabelStands(o)
OrderShape ==
  order = [push |-> order.push, fulfilled |-> order.fulfilled, noted |-> order.noted,
           completed |-> order.completed]

\* What is claimed to be told stays true until it is told.
Completing(x) == x # Idle /\ x.stage = "tell" /\ x.kind = "woocommerce_status"
ClaimsHold == \A c \in Clerks : Completing(clerk[c]) => OwedHasGone
ShipInv ==
  /\ ParcelsType /\ refunded \in Nat /\ LabelledHaveLabels /\ LabelsStand /\ OrderShape
  /\ ClaimsHold /\ (order.completed => OwedHasGone)

\* What a step may do to labels and packages: a label keeps its package, a refund of the
\* carrier stays, and a package that has gone stays gone or has been relabelled.
LabelsLast ==
  /\ \A o \in OpIds : labels[o] # NoLabel => labels'[o] # NoLabel /\ labels'[o].parcel = labels[o].parcel
  /\ carrier.voided \subseteq carrier'.voided
  /\ LabelsStand'
ParcelMoves(p) ==
  /\ ParcelShape(parcels'[p]) /\ parcels[p].quantity <= parcels'[p].quantity
  /\ parcels[p].status = "shipped" => parcels'[p].status = "shipped" \/ relabelled(p)'
  /\ parcels'[p].status \in {"labelled", "shipped"} =>
       parcels[p].status \in {"labelled", "shipped"} \/ HasLabel(p)'
ParcelsMove ==
  /\ parcels' = [p \in Parcels |-> parcels'[p]]
  /\ \A p \in Parcels : ParcelMoves(p)
  /\ refunded' \in Nat /\ refunded <= refunded'
ClaimsMove == \A c \in Clerks : clerk'[c] = clerk[c] \/ ~Completing(clerk'[c]) \/ OwedHasGone
OrderMoves == OrderShape' /\ (order'.completed => order.completed \/ OwedHasGone)

LEMMA RelabelledStays ==
  ASSUME LabelsLast
  PROVE  \A p \in Parcels : (relabelled(p) => relabelled(p)') /\ (HasLabel(p) => HasLabel(p)')
<1>1. ASSUME NEW p \in Parcels, relabelled(p) PROVE relabelled(p)'
  <2>1. PICK o \in OpIds, k \in OpIds :
          /\ o # k /\ labels[o] # NoLabel /\ labels[k] # NoLabel
          /\ labels[o].parcel = p /\ labels[k].parcel = p /\ o \in carrier.voided
    BY <1>1 DEF relabelled
  <2>2. /\ labels'[o] # NoLabel /\ labels'[k] # NoLabel
        /\ labels'[o].parcel = p /\ labels'[k].parcel = p /\ o \in carrier'.voided
    BY <2>1 DEF LabelsLast
  <2>3. QED
    BY <2>1, <2>2 DEF relabelled
<1>2. ASSUME NEW p \in Parcels, HasLabel(p) PROVE HasLabel(p)'
  BY <1>2 DEF HasLabel, LabelsLast
<1>3. QED
  BY <1>1, <1>2

\* A sum of what packages hold grows with what each of them counts for.
LEMMA UnitsGrow ==
  ASSUME NEW F, NEW G, DOMAIN F = Parcels, DOMAIN G = Parcels,
         \A p \in Parcels : F[p] \in Nat /\ G[p] \in Nat /\ F[p] <= G[p]
  PROVE  SumFunction(F) <= SumFunction(G) /\ SumFunction(F) \in Nat /\ SumFunction(G) \in Nat
<1>1. \A p \in Parcels : F[p] \in Int /\ G[p] \in Int /\ F[p] <= G[p]
  OBVIOUS
<1>2. SumFunctionOnSet(F, Parcels) <= SumFunctionOnSet(G, Parcels)
  BY <1>1, ShippingAssumption, SumGrows
<1>3. SumFunctionOnSet(F, Parcels) \in Nat /\ SumFunctionOnSet(G, Parcels) \in Nat
  BY ShippingAssumption, SumOfNaturals
<1>4. SumFunction(F) = SumFunctionOnSet(F, Parcels) /\ SumFunction(G) = SumFunctionOnSet(G, Parcels)
  BY DEF SumFunction, SumFunctionOnSet, FoldFunction
<1>5. QED
  BY <1>2, <1>3, <1>4

LEMMA OwedStays ==
  ASSUME ShipInv, LabelsLast, ParcelsMove, OwedHasGone
  PROVE  OwedHasGone'
<1> DEFINE F == [p \in Parcels |-> IF p \in Gone THEN parcels[p].quantity ELSE 0]
           G == [p \in Parcels |-> IF p \in Gone' THEN parcels'[p].quantity ELSE 0]
<1>1. \A p \in Parcels : p \in Gone => p \in Gone'
  <2>1. ASSUME NEW p \in Parcels, p \in Gone PROVE parcels'[p].status = "shipped" \/ relabelled(p)'
    BY <2>1, RelabelledStays DEF Gone, ParcelsMove, ParcelMoves
  <2>2. QED
    BY <2>1 DEF Gone
<1>2. /\ DOMAIN F = Parcels /\ DOMAIN G = Parcels
      /\ \A p \in Parcels : F[p] \in Nat /\ G[p] \in Nat /\ F[p] <= G[p]
  BY <1>1 DEF ShipInv, ParcelsType, ParcelShape, ParcelsMove, ParcelMoves
<1>3. unitsIn(Gone) = SumFunction(F) /\ unitsIn(Gone)' = SumFunction(G)
  BY DEF unitsIn
<1> HIDE DEF F, G
<1>4. unitsIn(Gone) <= unitsIn(Gone)' /\ unitsIn(Gone) \in Nat /\ unitsIn(Gone)' \in Nat
  BY <1>2, <1>3, UnitsGrow
<1>5. Ordered \in Int /\ refunded \in Int /\ refunded' \in Int /\ refunded <= refunded'
  BY ShippingAssumption DEF ShipInv, ParcelsMove
<1>6. QED
  BY <1>4, <1>5 DEF OwedHasGone

LEMMA ShipInvKept ==
  ASSUME ShipInv, LabelsLast, ParcelsMove, ClaimsMove, OrderMoves
  PROVE  ShipInv'
<1>1. ParcelsType' /\ refunded' \in Nat /\ LabelsStand' /\ OrderShape'
  BY DEF ParcelsType, ParcelsMove, ParcelMoves, LabelsLast, OrderMoves
<1>2. LabelledHaveLabels'
  BY RelabelledStays DEF ShipInv, LabelledHaveLabels, ParcelsMove, ParcelMoves
<1>3. ClaimsHold'
  BY OwedStays DEF ShipInv, ClaimsHold, ClaimsMove
<1>4. order'.completed => OwedHasGone'
  BY OwedStays DEF ShipInv, OrderMoves
<1>5. QED
  BY <1>1, <1>2, <1>3, <1>4 DEF ShipInv

LEMMA ParcelsRest ==
  ASSUME ShipInv, parcels' = parcels, refunded' = refunded
  PROVE  ParcelsMove
<1>1. \A p \in Parcels : ParcelMoves(p)
  BY DEF ShipInv, ParcelsType, ParcelShape, ParcelMoves
<1>2. QED
  BY <1>1 DEF ShipInv, ParcelsType, ParcelsMove

\* One package changes its state.
LEMMA OneParcel ==
  ASSUME ShipInv, NEW p, NEW x, parcels' = [parcels EXCEPT ![p] = x], refunded' = refunded,
         p \in Parcels =>
           /\ ParcelShape(x) /\ parcels[p].quantity <= x.quantity
           /\ parcels[p].status = "shipped" => x.status = "shipped" \/ relabelled(p)'
           /\ x.status \in {"labelled", "shipped"} =>
                parcels[p].status \in {"labelled", "shipped"} \/ HasLabel(p)'
  PROVE  ParcelsMove
<1>1. parcels = [q \in Parcels |-> parcels[q]]
  BY DEF ShipInv, ParcelsType
<1>2. /\ parcels' = [q \in Parcels |-> parcels'[q]]
      /\ \A q \in Parcels : parcels'[q] = IF q = p THEN x ELSE parcels[q]
  BY <1>1
<1>3. ASSUME NEW q \in Parcels PROVE ParcelMoves(q)
  <2>1. CASE q = p
    BY <1>2, <2>1 DEF ParcelMoves
  <2>2. CASE q # p
    <3>1. parcels'[q] = parcels[q] /\ ParcelShape(parcels[q])
      BY <1>2, <2>2 DEF ShipInv, ParcelsType
    <3>2. QED
      BY <3>1 DEF ParcelMoves, ParcelShape
  <2>3. QED
    BY <2>1, <2>2
<1>4. QED
  BY <1>2, <1>3 DEF ParcelsMove, ShipInv

\* A package is given another status.
LEMMA OneStatus ==
  ASSUME ShipInv, NEW p, NEW s, parcels' = [parcels EXCEPT ![p].status = s], refunded' = refunded, s # "none",
         p \in Parcels =>
           /\ parcels[p].status = "shipped" => s = "shipped" \/ relabelled(p)'
           /\ s \in {"labelled", "shipped"} => parcels[p].status \in {"labelled", "shipped"} \/ HasLabel(p)'
  PROVE  ParcelsMove
<1> DEFINE x == [parcels[p] EXCEPT !.status = s]
<1>1. parcels' = [parcels EXCEPT ![p] = x]
  OBVIOUS
<1>2. p \in Parcels => ParcelShape(parcels[p])
  BY DEF ShipInv, ParcelsType
<1>3. p \in Parcels => ParcelShape(x) /\ x.quantity = parcels[p].quantity /\ x.status = s /\ parcels[p].quantity <= x.quantity
  BY <1>2 DEF ParcelShape
<1> HIDE DEF x
<1>4. QED
  BY <1>1, <1>3, OneParcel

LEMMA LabelsLie ==
  ASSUME ShipInv, labels' = labels, carrier'.voided = carrier.voided
  PROVE  LabelsLast
  BY DEF ShipInv, LabelsStand, LabelStands, LabelsLast

\* One label changes its state, or is stored.
LEMMA OneLabel ==
  ASSUME ShipInv, LabelInv, NEW o \in OpIds, NEW r, labels' = [labels EXCEPT ![o] = r],
         carrier.voided \subseteq carrier'.voided, r # NoLabel,
         labels[o] # NoLabel => r.parcel = labels[o].parcel,
         r.state \in LiveLabel \/ o \in carrier'.voided
  PROVE  LabelsLast
<1>1. labels = [k \in OpIds |-> labels[k]]
  BY DEF LabelInv, LabelsType
<1>2. labels'[o] = r /\ \A k \in OpIds : k # o => labels'[k] = labels[k]
  BY <1>1
<1>3. \A k \in OpIds : labels[k] # NoLabel => labels'[k] # NoLabel /\ labels'[k].parcel = labels[k].parcel
  BY <1>2
<1>4. ASSUME NEW k \in OpIds PROVE LabelStands(k)'
  BY <1>2 DEF ShipInv, LabelsStand, LabelStands
<1>5. QED
  BY <1>3, <1>4 DEF LabelsLast, LabelsStand

LEMMA ClaimsRest == ASSUME clerk' = clerk PROVE ClaimsMove
  BY DEF ClaimsMove

LEMMA OneClaim ==
  ASSUME LabelInv, NEW c, NEW x, clerk' = [clerk EXCEPT ![c] = x], ~Completing(x) \/ OwedHasGone
  PROVE  ClaimsMove
<1>1. clerk = [d \in Clerks |-> clerk[d]]
  BY DEF LabelInv, ClerksHold
<1>2. \A d \in Clerks : clerk'[d] = IF d = c THEN x ELSE clerk[d]
  BY <1>1
<1>3. QED
  BY <1>2 DEF ClaimsMove

LEMMA OrderRests == ASSUME ShipInv, order' = order PROVE OrderMoves
  BY DEF ShipInv, OrderShape, OrderMoves

LEMMA ParcelVarsRest ==
  ASSUME ShipInv, UNCHANGED parcelVars
  PROVE  ShipInv'
<1>1. UNCHANGED <<parcels, refunded, labels, carrier, clerk, order>>
  BY DEF parcelVars
<1>2. QED
  BY <1>1, ParcelsRest, LabelsLie, ClaimsRest, OrderRests, ShipInvKept

LEMMA PackingShips ==
  ASSUME ShipInv, NEW p \in Parcels, NEW n \in 1..Ordered, createPackage(p, n)
  PROVE  ShipInv'
<1> DEFINE x == [status |-> "draft", quantity |-> n]
<1>1. /\ parcels[p].status = "none" /\ parcels' = [parcels EXCEPT ![p] = x]
      /\ UNCHANGED <<refunded, labels, carrier, clerk, order>>
  BY DEF createPackage
<1>2. n \in Nat /\ parcels[p].quantity = 0
  BY <1>1, ShippingAssumption DEF ShipInv, ParcelsType, ParcelShape
<1>3. ParcelShape(x) /\ parcels[p].quantity <= x.quantity /\ x.status = "draft"
  BY <1>2 DEF ParcelShape
<1> HIDE DEF x
<1>4. ParcelsMove
  BY <1>1, <1>3, OneParcel
<1>5. QED
  BY <1>1, <1>4, LabelsLie, ClaimsRest, OrderRests, ShipInvKept

LEMMA CancellingShips ==
  ASSUME ShipInv, cancelPackageAction
  PROVE  ShipInv'
<1>1. PICK p \in Parcels : cancelPackage(p)
  BY DEF cancelPackageAction
<1>2. /\ parcels[p].status = "draft" /\ parcels' = [parcels EXCEPT ![p].status = "cancelled"]
      /\ UNCHANGED <<refunded, labels, carrier, clerk, order>>
  BY <1>1 DEF cancelPackage
<1>3. ParcelsMove
  BY <1>2, OneStatus
<1>4. QED
  BY <1>2, <1>3, LabelsLie, ClaimsRest, OrderRests, ShipInvKept

LEMMA RefundShips ==
  ASSUME ShipInv, Refund
  PROVE  ShipInv'
<1>1. refunded' = refunded + 1 /\ UNCHANGED <<parcels, labels, carrier, clerk, order>>
  BY DEF Refund
<1>2. \A p \in Parcels : ParcelMoves(p)
  BY <1>1 DEF ShipInv, ParcelsType, ParcelShape, ParcelMoves
<1>3. ParcelsMove
  BY <1>1, <1>2 DEF ParcelsMove, ShipInv, ParcelsType
<1>4. QED
  BY <1>1, <1>3, LabelsLie, ClaimsRest, OrderRests, ShipInvKept

LEMMA MarkingShips ==
  ASSUME ShipInv, markShippedAction
  PROVE  ShipInv'
<1>1. PICK p \in Parcels, who \in Confirmers : markShipped(p, who)
  BY DEF markShippedAction
<1>2. /\ parcels[p].status = "labelled" /\ parcels' = [parcels EXCEPT ![p].status = "shipped"]
      /\ UNCHANGED <<refunded, labels, carrier, clerk, order>>
  BY <1>1 DEF markShipped
<1>3. ParcelsMove
  BY <1>2, OneStatus
<1>4. QED
  BY <1>2, <1>3, LabelsLie, ClaimsRest, OrderRests, ShipInvKept

LEMMA BuyShips ==
  ASSUME GateInv, ShipInv, NEW w, NEW charged, NEW lost, buyLabel(w, charged, lost)
  PROVE  ShipInv'
<1>1. /\ UNCHANGED <<parcels, refunded, labels, clerk, order>>
      /\ \E sold : carrier' = [carrier EXCEPT !.sold = sold]
  BY DEF buyLabel
<1>2. carrier'.voided = carrier.voided
  BY <1>1 DEF GateInv, ChannelInv
<1>3. QED
  BY <1>1, <1>2, ParcelsRest, LabelsLie, ClaimsRest, OrderRests, ShipInvKept

\* A package that has gone and is labelled again had its label taken back: its live label
\* would have refused another.
LEMMA LabelledShips ==
  ASSUME LabelInv, ShipInv, NEW o \in OpIds, NEW p, NEW row,
         UNCHANGED <<refunded, carrier, clerk, order>>,
         labels[o] = NoLabel, onlyLiveLabel(o, p),
         row # NoLabel, row.state \in LiveLabel, row.parcel = p,
         labels' = [labels EXCEPT ![o] = row], parcels' = [parcels EXCEPT ![p].status = "labelled"]
  PROVE  ShipInv'
<1>1. labels'[o] = row /\ \A k \in OpIds : k # o => labels'[k] = labels[k]
  BY DEF LabelInv, LabelsType
<1>2. LabelsLast
  BY OneLabel
<1>3. HasLabel(p)'
  BY <1>1 DEF HasLabel
<1>4. ASSUME p \in Parcels, parcels[p].status = "shipped" PROVE relabelled(p)'
  <2>1. PICK k \in OpIds : labels[k] # NoLabel /\ labels[k].parcel = p
    BY <1>4 DEF ShipInv, LabelledHaveLabels, HasLabel
  <2>2. k # o /\ k \in carrier.voided
    BY <2>1 DEF onlyLiveLabel, ShipInv, LabelsStand, LabelStands
  <2>3. labels'[k] # NoLabel /\ labels'[k].parcel = p /\ k \in carrier'.voided
    BY <1>1, <2>1, <2>2
  <2>4. labels'[o] # NoLabel /\ labels'[o].parcel = p
    BY <1>1
  <2>5. QED
    BY <2>2, <2>3, <2>4 DEF relabelled
<1>5. ParcelsMove
  BY <1>3, <1>4, OneStatus
<1>6. QED
  BY <1>2, <1>5, ClaimsRest, OrderRests, ShipInvKept

LEMMA StoreShips ==
  ASSUME GateInv, LabelInv, ShipInv, NEW w \in Executors, StoreLabel(w)
  PROVE  ShipInv'
<1>1. PICK o, p, row :
        /\ o = run[w].op /\ p = ops[o].value.parcel
        /\ row = [state |-> "purchased", parcel |-> p, amount |-> carrier.sold[o], events |-> {}]
  OBVIOUS
<1>2. run[w] # Idle /\ UNCHANGED <<refunded, carrier, clerk, order>>
  BY DEF StoreLabel, Running
<1>3. \/ labels' = labels /\ parcels' = parcels
      \/ /\ labels[o] = NoLabel /\ onlyLiveLabel(o, p)
         /\ labels' = [labels EXCEPT ![o] = row] /\ parcels' = [parcels EXCEPT ![p].status = "labelled"]
  BY <1>1 DEF StoreLabel
<1>4. o \in OpIds /\ row # NoLabel /\ row.state \in LiveLabel /\ row.parcel = p
  BY <1>1, <1>2, RunOf DEF NoLabel, LiveLabel
<1>5. CASE labels' = labels /\ parcels' = parcels
  BY <1>2, <1>5, ParcelsRest, LabelsLie, ClaimsRest, OrderRests, ShipInvKept
<1>6. QED
  BY <1>2, <1>3, <1>4, <1>5, LabelledShips

LEMMA BuyingShips ==
  ASSUME GateInv, LabelInv, ShipInv, Buying
  PROVE  ShipInv'
<1>1. ASSUME NEW w \in Executors, NEW o \in OpIds, BeginPurchase(w, o) PROVE ShipInv'
  BY <1>1, ParcelVarsRest DEF BeginPurchase
<1>2. ASSUME NEW w \in Executors, BuyFails(w) \/ CompletePurchase(w) PROVE ShipInv'
  BY <1>2, ParcelVarsRest DEF BuyFails, CompletePurchase
<1>3. QED
  BY <1>1, <1>2, BuyShips, StoreShips DEF Buying

LEMMA RequestShips ==
  ASSUME LabelInv, ShipInv, NEW c \in Clerks, RequestVoid(c)
  PROVE  ShipInv'
<1> DEFINE o == clerk[c].label
           r == [labels[o] EXCEPT !.state = "void_requested"]
           x == [clerk[c] EXCEPT !.stage = "voiding"]
<1>1. /\ clerk[c] # Idle /\ clerk[c].stage = "void" /\ UNCHANGED <<parcels, refunded, carrier, order>>
      /\ \/ labels' = [labels EXCEPT ![o] = r] /\ clerk' = [clerk EXCEPT ![c] = x]
         \/ labels' = labels /\ clerk' = [clerk EXCEPT ![c] = Idle]
  BY DEF RequestVoid
<1>2. clerk[c] = [stage |-> clerk[c].stage, label |-> o] /\ o \in OpIds /\ labels[o] # NoLabel
  BY <1>1 DEF LabelInv, ClerksHold, Voids
<1>3. LabelShape(labels[o])
  BY <1>2 DEF LabelInv, LabelsType
<1>4. LabelShape(r) /\ r.parcel = labels[o].parcel /\ r.state = "void_requested"
  BY <1>3 DEF LabelShape
<1>5. x.stage = "voiding"
  BY <1>2
<1>6. r # NoLabel /\ r.state \in LiveLabel /\ ~Completing(x) /\ ~Completing(Idle)
  BY <1>4, <1>5, ShapedIsLabel DEF LiveLabel, Completing
<1> HIDE DEF r, x
<1>7. labels' = [labels EXCEPT ![o] = r] => LabelsLast
  BY <1>1, <1>2, <1>4, <1>6, OneLabel
<1>8. ClaimsMove
  BY <1>1, <1>6, OneClaim
<1>9. QED
  BY <1>1, <1>7, <1>8, LabelsLie, ParcelsRest, OrderRests, ShipInvKept

LEMMA SettleShips ==
  ASSUME GateInv, LabelInv, ShipInv, NEW c \in Clerks,
         NEW outcome \in {"refunded", "refused", "pending", "failure"}, SettleVoid(c, outcome)
  PROVE  ShipInv'
<1> DEFINE o == clerk[c].label
           p == labels[o].parcel
           r == [labels[o] EXCEPT !.state = StateAfter[outcome]]
<1>1. /\ clerk[c] # Idle /\ clerk[c].stage = "voiding" /\ UNCHANGED <<refunded, order>>
      /\ clerk' = [clerk EXCEPT ![c] = Idle]
      /\ labels' = labels \/ labels' = [labels EXCEPT ![o] = r]
      /\ carrier' = [carrier EXCEPT !.voided = IF outcome = "refunded" THEN @ \cup {o} ELSE @]
      /\ parcels' = [parcels EXCEPT ![p].status = IF outcome = "refunded" /\ @ = "labelled" THEN "draft" ELSE @]
  BY DEF SettleVoid
<1>2. o \in OpIds /\ labels[o] # NoLabel
  BY <1>1 DEF LabelInv, ClerksHold, Voids
<1>3. LabelShape(labels[o])
  BY <1>2 DEF LabelInv, LabelsType
<1>4. LabelShape(r) /\ r.parcel = labels[o].parcel /\ r.state = StateAfter[outcome]
  BY <1>3 DEF LabelShape, StateAfter
<1>5. /\ carrier.voided \subseteq carrier'.voided
      /\ outcome = "refunded" => o \in carrier'.voided
  BY <1>1 DEF GateInv, ChannelInv
<1>6. outcome # "refunded" => StateAfter[outcome] \in LiveLabel
  BY DEF StateAfter, LiveLabel
<1>7. labels' = [labels EXCEPT ![o] = r] => LabelsLast
  <2>1. r # NoLabel /\ (r.state \in LiveLabel \/ o \in carrier'.voided)
    BY <1>4, <1>5, <1>6, ShapedIsLabel
  <2> HIDE DEF r
  <2>2. QED
    BY <1>2, <1>4, <1>5, <2>1, OneLabel
<1>8. labels' = labels => LabelsLast
  BY <1>5 DEF ShipInv, LabelsStand, LabelStands, LabelsLast
<1>9. ParcelsMove
  <2> DEFINE s == IF outcome = "refunded" /\ parcels[p].status = "labelled" THEN "draft" ELSE parcels[p].status
             x == [parcels[p] EXCEPT !.status = s]
  <2>1. parcels' = [parcels EXCEPT ![p] = x]
    BY <1>1
  <2>2. p \in Parcels => ParcelShape(parcels[p])
    BY DEF ShipInv, ParcelsType
  <2>3. p \in Parcels => /\ ParcelShape(x) /\ parcels[p].quantity <= x.quantity
                         /\ parcels[p].status = "shipped" => x.status = "shipped"
                         /\ x.status \in {"labelled", "shipped"} => parcels[p].status \in {"labelled", "shipped"}
    <3>1. s = "draft" \/ s = parcels[p].status
      OBVIOUS
    <3>2. parcels[p].status = "shipped" => s = "shipped"
      OBVIOUS
    <3> HIDE DEF s, p
    <3>3. SUFFICES ASSUME p \in Parcels
                   PROVE  /\ ParcelShape(x) /\ parcels[p].quantity <= x.quantity
                          /\ parcels[p].status = "shipped" => x.status = "shipped"
                          /\ x.status \in {"labelled", "shipped"} => parcels[p].status \in {"labelled", "shipped"}
      BY Zenon
    <3>4. x.status = s /\ x.quantity = parcels[p].quantity /\ x = [status |-> x.status, quantity |-> x.quantity]
      <4>1. ASSUME NEW w, w = [status |-> w.status, quantity |-> w.quantity], NEW t
            PROVE  [w EXCEPT !.status = t] = [status |-> t, quantity |-> w.quantity]
        BY <4>1
      <4>2. parcels[p] = [status |-> parcels[p].status, quantity |-> parcels[p].quantity]
        BY <2>2, <3>3, Zenon DEF ParcelShape
      <4>3. x = [status |-> s, quantity |-> parcels[p].quantity]
        BY <4>1, <4>2, Zenon
      <4> HIDE DEF x
      <4>4. QED
        BY <4>3
    <3>5. parcels[p].quantity \in Nat /\ (parcels[p].status = "none" => parcels[p].quantity = 0)
      BY <2>2, <3>3, Zenon DEF ParcelShape
    <3> HIDE DEF x
    <3>6. ParcelShape(x)
      BY <3>1, <3>4, <3>5 DEF ParcelShape
    <3>7. QED
      BY <3>1, <3>2, <3>4, <3>5, <3>6
  <2> HIDE DEF x, p
  <2>4. QED
    BY <1>1, <2>1, <2>3, OneParcel, Zenon
<1>10. ~Completing(Idle)
  BY DEF Completing
<1>11. QED
  BY <1>1, <1>7, <1>8, <1>9, <1>10, OneClaim, OrderRests, ShipInvKept

LEMMA TrackingShips ==
  ASSUME LabelInv, ShipInv, NEW o \in OpIds, recordTracking(o)
  PROVE  ShipInv'
<1> DEFINE r == [labels[o] EXCEPT !.events = {"pre_transit"}]
<1>1. /\ labels[o] # NoLabel /\ labels' = [labels EXCEPT ![o] = r]
      /\ UNCHANGED <<parcels, refunded, carrier, clerk, order>>
  BY DEF recordTracking
<1>2. LabelShape(labels[o])
  BY <1>1 DEF LabelInv, LabelsType
<1>3. LabelShape(r) /\ r.parcel = labels[o].parcel /\ r.state = labels[o].state
  BY <1>2 DEF LabelShape
<1>4. r # NoLabel /\ (r.state \in LiveLabel \/ o \in carrier'.voided)
  BY <1>1, <1>3, ShapedIsLabel DEF ShipInv, LabelsStand, LabelStands
<1> HIDE DEF r
<1>5. LabelsLast
  BY <1>1, <1>3, <1>4, OneLabel
<1>6. QED
  BY <1>1, <1>5, ParcelsRest, ClaimsRest, OrderRests, ShipInvKept

\* The push is claimed only when everything owed is in packages that have shipped.
LEMMA ClaimingShips ==
  ASSUME LabelInv, ShipInv, NEW c \in Clerks, NEW p, NEW kind, NEW who, pushTrackingToChannel(c, p, kind, who)
  PROVE  ShipInv'
<1> DEFINE x == [stage |-> "tell", parcel |-> p, kind |-> kind]
           P == {q \in Parcels : parcels[q].status = "shipped"}
           F == [q \in Parcels |-> IF q \in P THEN parcels[q].quantity ELSE 0]
           G == [q \in Parcels |-> IF q \in Gone THEN parcels[q].quantity ELSE 0]
<1>1. /\ kind = "woocommerce_status" => everythingShipped
      /\ clerk' = [clerk EXCEPT ![c] = x] /\ UNCHANGED <<parcels, refunded, labels, carrier, order>>
  BY DEF pushTrackingToChannel
<1>2. ASSUME everythingShipped PROVE OwedHasGone
  <2>1. /\ DOMAIN F = Parcels /\ DOMAIN G = Parcels
        /\ \A q \in Parcels : F[q] \in Nat /\ G[q] \in Nat /\ F[q] <= G[q]
    BY DEF ShipInv, ParcelsType, ParcelShape, Gone
  <2>2. unitsIn(P) = SumFunction(F) /\ unitsIn(Gone) = SumFunction(G)
    BY DEF unitsIn
  <2>4. Ordered - refunded <= unitsIn(P)
    BY <1>2 DEF everythingShipped
  <2> HIDE DEF F, G, P
  <2>5. unitsIn(P) <= unitsIn(Gone) /\ unitsIn(P) \in Nat /\ unitsIn(Gone) \in Nat
    BY <2>1, <2>2, UnitsGrow
  <2>6. Ordered \in Int /\ refunded \in Int
    BY ShippingAssumption DEF ShipInv
  <2>7. QED
    BY <2>4, <2>5, <2>6 DEF OwedHasGone
<1>3. ~Completing(x) \/ OwedHasGone
  BY <1>1, <1>2 DEF Completing
<1> HIDE DEF x
<1>4. ClaimsMove
  BY <1>1, <1>3, OneClaim
<1>5. QED
  BY <1>1, <1>4, ParcelsRest, LabelsLie, OrderRests, ShipInvKept

LEMMA TellingShips ==
  ASSUME LabelInv, ShipInv, NEW c \in Clerks, NEW acts, NEW answer, carryOut(c, acts, answer)
  PROVE  ShipInv'
<1> DEFINE x == [stage |-> "told", parcel |-> clerk[c].parcel, kind |-> clerk[c].kind, answer |-> answer]
<1>1. /\ clerk[c] # Idle /\ clerk[c].stage = "tell" /\ clerk' = [clerk EXCEPT ![c] = x]
      /\ UNCHANGED <<parcels, refunded, labels, carrier>>
  BY DEF carryOut
<1>2. OrderMoves
  <2>1. OrderShape
    BY DEF ShipInv
  <2>2. PICK f, n : order' = [order EXCEPT !.fulfilled = f, !.noted = n,
                                           !.completed = @ \/ (acts /\ clerk[c].kind = "woocommerce_status")]
    BY DEF carryOut
  <2>3. order' = [push |-> order.push, fulfilled |-> f, noted |-> n,
                  completed |-> order.completed \/ (acts /\ clerk[c].kind = "woocommerce_status")]
    BY <2>1, <2>2 DEF OrderShape
  <2>4. OrderShape'
    BY <2>3 DEF OrderShape
  <2>5. clerk[c].kind = "woocommerce_status" => OwedHasGone
    BY <1>1 DEF ShipInv, ClaimsHold, Completing
  <2>6. order'.completed => order.completed \/ clerk[c].kind = "woocommerce_status"
    BY <2>3
  <2>7. QED
    BY <2>4, <2>5, <2>6 DEF OrderMoves
<1>3. ~Completing(x)
  BY DEF Completing
<1> HIDE DEF x
<1>4. QED
  BY <1>1, <1>2, <1>3, OneClaim, ParcelsRest, LabelsLie, ShipInvKept

LEMMA ServingShips ==
  ASSUME GateInv, LabelInv, ShipInv, Serving
  PROVE  ShipInv'
<1>1. ~Completing(Idle)
  BY DEF Completing
<1>2. ASSUME NEW c \in Clerks, NEW o \in OpIds, voidLabel(c, o) PROVE ShipInv'
  <2> DEFINE x == [stage |-> "void", label |-> o]
  <2>1. clerk' = [clerk EXCEPT ![c] = x] /\ UNCHANGED <<parcels, refunded, labels, carrier, order>>
    BY <1>2 DEF voidLabel
  <2>2. ~Completing(x)
    BY DEF Completing
  <2> HIDE DEF x
  <2>3. QED
    BY <2>1, <2>2, OneClaim, ParcelsRest, LabelsLie, OrderRests, ShipInvKept
<1>3. ASSUME NEW c \in Clerks, RecordPush(c) PROVE ShipInv'
  <2>1. clerk' = [clerk EXCEPT ![c] = Idle] /\ UNCHANGED <<parcels, refunded, labels, carrier, order>>
    BY <1>3 DEF RecordPush
  <2>2. QED
    BY <1>1, <2>1, OneClaim, ParcelsRest, LabelsLie, OrderRests, ShipInvKept
<1>4. QED
  BY <1>2, <1>3, RequestShips, SettleShips, TrackingShips, ClaimingShips, TellingShips DEF Serving

LEMMA ParcelShips ==
  ASSUME GateInv, LabelInv, ShipInv, ParcelNext
  PROVE  ShipInv'
<1>1. ASSUME NEW o, NEW p, NEW age, NEW life, NEW amount, proposeLabelPurchase(o, p, age, life, amount)
      PROVE  ShipInv'
  BY <1>1, ParcelVarsRest DEF proposeLabelPurchase
<1>2. CASE Account
  <2>1. UNCHANGED <<parcels, refunded, labels, carrier, clerk, order>>
    BY <1>2 DEF Account
  <2>2. QED
    BY <2>1, ParcelsRest, LabelsLie, ClaimsRest, OrderRests, ShipInvKept
<1>3. QED
  BY <1>1, <1>2, PackingShips, CancellingShips, RefundShips, BuyingShips, MarkingShips, ServingShips
  DEF ParcelNext

LEMMA StepShips ==
  ASSUME GateInv, LabelInv, ShipInv, [OperationsNext]_operationVars
  PROVE  ShipInv'
<1>1. CASE UNCHANGED parcelVars
  BY <1>1, ParcelVarsRest
<1>2. CASE ParcelNext
  BY <1>2, ParcelShips
<1>3. QED
  BY <1>1, <1>2 DEF OperationsNext, operationVars

LEMMA InitShips ==
  ASSUME OperationsInit
  PROVE  ShipInv
<1>1. /\ parcels = [p \in Parcels |-> [status |-> "none", quantity |-> 0]] /\ refunded = 0
      /\ labels = [o \in OpIds |-> NoLabel] /\ clerk = [c \in Clerks |-> Idle]
  BY DEF OperationsInit, ShippingInit
<1>2. OrderShape /\ order.completed = FALSE
  BY DEF OperationsInit, ShippingInit, OrderShape
<1>3. ParcelsType /\ LabelledHaveLabels
  BY <1>1 DEF ParcelsType, ParcelShape, LabelledHaveLabels
<1>4. LabelsStand /\ ClaimsHold
  BY <1>1 DEF LabelsStand, LabelStands, ClaimsHold, Completing
<1>5. QED
  BY <1>1, <1>2, <1>3, <1>4 DEF ShipInv

\* The channel hears that an order is completed only when every unit still owed is in a
\* package that has shipped, for any number of packages, clerks, purchases and refunds; a
\* package that shipped stays so unless its label is voided and a purchase that was under
\* way labels it again (everythingShipped, pushTrackingToChannel, executeLabelPurchase).
THEOREM CompletionWaits == OperationsSpec => []CompletedWhenShipped
<1>1. OperationsInit => GateInv /\ LabelInv /\ ShipInv
  BY InitKeeps, InitLabels, InitShips
<1>2. GateInv /\ LabelInv /\ ShipInv /\ [OperationsNext]_operationVars => (GateInv /\ LabelInv /\ ShipInv)'
  BY StepKeeps, StepKeepsLabels, StepShips
<1>3. GateInv /\ LabelInv /\ ShipInv => CompletedWhenShipped
  BY DEF ShipInv, OwedHasGone, Gone, CompletedWhenShipped
<1>4. QED
  BY <1>1, <1>2, <1>3, PTL DEF OperationsSpec

-------------------------------------------------------------------------------
(* A month's budget is passed by no more than the requests that had looked.  *)

RowsShape(s) ==
  /\ Len(s) \in Nat /\ s = [i \in 1..Len(s) |-> s[i]]
  /\ \A i \in 1..Len(s) :
       s[i] = [status |-> s[i].status, month |-> s[i].month, images |-> s[i].images,
               payload |-> s[i].payload, applied |-> s[i].applied]

InFlight == {"asked", "calling"}
AskingShape ==
  /\ asking = [a \in Askers |-> asking[a]]
  /\ \A a \in Askers : asking[a].stage \in InFlight =>
       asking[a] = [stage |-> asking[a].stage, id |-> asking[a].id, kind |-> asking[a].kind,
                    month |-> asking[a].month, images |-> asking[a].images]

\* The requests that have passed the budget and not yet come back.
Pending(m) == {a \in Askers : asking[a].stage \in InFlight /\ asking[a].month = m}
Spent(m) == readUsage(m) + Cardinality(Pending(m))
BudgetHolds == \A m \in 1..2 : Spent(m) <= RequestCap + Cardinality(Askers) - 1

BudgetInv == RowsShape(suggestions) /\ AskingShape /\ BudgetHolds

LEMMA RowsAreFinite ==
  ASSUME NEW s, RowsShape(s), NEW m
  PROVE  LET S == {i \in DOMAIN s : s[i].month = m /\ s[i].status # "refused"}
         IN  IsFiniteSet(S) /\ Cardinality(S) \in Nat
<1> DEFINE S == {i \in DOMAIN s : s[i].month = m /\ s[i].status # "refused"}
<1>1. DOMAIN s = 1..Len(s) /\ Len(s) \in Nat
  BY DEF RowsShape
<1>2. S \in SUBSET (1..Len(s))
  BY <1>1
<1> HIDE DEF S
<1>3. IsFiniteSet(1..Len(s))
  BY <1>1, FS_Interval
<1>4. IsFiniteSet(S) /\ Cardinality(S) \in Nat
  BY <1>2, <1>3, FS_Subset, FS_CardinalityType
<1>5. QED
  BY <1>4 DEF S

LEMMA CountedIsFinite ==
  ASSUME RowsShape(suggestions), NEW m
  PROVE  IsFiniteSet(Counted(m)) /\ readUsage(m) \in Nat
  BY RowsAreFinite DEF readUsage, Counted

LEMMA PendingIsFinite ==
  ASSUME NEW m
  PROVE  /\ IsFiniteSet(Pending(m)) /\ Cardinality(Pending(m)) \in Nat
         /\ Cardinality(Askers) \in Nat /\ Cardinality(Pending(m)) <= Cardinality(Askers)
<1>1. Pending(m) \in SUBSET Askers /\ IsFiniteSet(Askers)
  BY AiAssumption DEF Pending
<1>2. IsFiniteSet(Pending(m)) /\ Cardinality(Pending(m)) <= Cardinality(Askers)
  BY <1>1, FS_Subset
<1>3. QED
  BY <1>1, <1>2, FS_CardinalityType

LEMMA FewerPending ==
  ASSUME NEW S, NEW T, T \subseteq S, IsFiniteSet(S)
  PROVE  Cardinality(T) <= Cardinality(S) /\ Cardinality(T) \in Nat
  BY FS_Subset, FS_CardinalityType

\* A row more at the end.
LEMMA OneRowMore ==
  ASSUME NEW s, RowsShape(s), NEW status, NEW m, NEW images, NEW payload, NEW applied
  PROVE  LET r == [status |-> status, month |-> m, images |-> images, payload |-> payload, applied |-> applied]
             t == Append(s, r)
         IN  /\ RowsShape(t) /\ Len(t) = Len(s) + 1 /\ t[Len(s) + 1] = r
             /\ \A i \in 1..Len(s) : t[i] = s[i]
<1> DEFINE r == [status |-> status, month |-> m, images |-> images, payload |-> payload, applied |-> applied]
           t == Append(s, r)
           S == {s[i] : i \in 1..Len(s)} \cup {r}
<1>1. r = [status |-> r.status, month |-> r.month, images |-> r.images, payload |-> r.payload,
           applied |-> r.applied] /\ r \in S
  OBVIOUS
<1>2. s \in [1..Len(s) -> S] /\ Len(s) \in Nat
  BY DEF RowsShape
<1>3. s \in Seq(S)
  <2> HIDE DEF S
  <2>1. \A n \in Nat : s \in [1..n -> S] => s \in UNION {[1..k -> S] : k \in Nat}
    OBVIOUS
  <2>2. QED
    BY <1>2, <2>1, SeqDef
<1> HIDE DEF r, S
<1>4. /\ t \in Seq(S) /\ Len(t) = Len(s) + 1 /\ t[Len(s) + 1] = r
      /\ \A i \in 1..Len(s) : t[i] = s[i]
  <2>1. \A e \in S : /\ Append(s, e) \in Seq(S) /\ Len(Append(s, e)) = Len(s) + 1
                      /\ Append(s, e)[Len(s) + 1] = e
                      /\ \A i \in 1..Len(s) : Append(s, e)[i] = s[i]
    BY <1>3, AppendProperties
  <2>2. QED
    BY <1>1, <2>1, Zenon
<1> HIDE DEF t
<1>5. t = [i \in 1..Len(t) |-> t[i]] /\ Len(t) \in Nat
  BY <1>4
<1>6. \A i \in 1..Len(t) : i \in 1..Len(s) \/ i = Len(s) + 1
  BY <1>2, <1>4
<1>7. RowsShape(t)
  BY <1>1, <1>4, <1>5, <1>6 DEF RowsShape
<1>8. QED
  BY <1>4, <1>7 DEF r, t

\* What recording a row spends.
LEMMA RecordSpends ==
  ASSUME RowsShape(suggestions), NEW status, NEW m, NEW images, NEW payload,
         recordRow(status, m, images, payload)
  PROVE  /\ RowsShape(suggestions')
         /\ \A k : status = "refused" \/ k # m => readUsage(k)' = readUsage(k)
         /\ readUsage(m)' <= readUsage(m) + 1
<1> DEFINE n == Len(suggestions)
           r == [status |-> status, month |-> m, images |-> images, payload |-> payload, applied |-> FALSE]
<1>1. suggestions' = Append(suggestions, r)
  BY DEF recordRow
<1>2. /\ RowsShape(suggestions') /\ Len(suggestions') = n + 1 /\ suggestions'[n + 1] = r
      /\ \A i \in 1..n : suggestions'[i] = suggestions[i]
  <2>1. \A b : LET q == [status |-> status, month |-> m, images |-> images, payload |-> payload, applied |-> b]
                   t == Append(suggestions, q)
               IN  /\ RowsShape(t) /\ Len(t) = n + 1 /\ t[n + 1] = q
                   /\ \A i \in 1..n : t[i] = suggestions[i]
    BY OneRowMore
  <2>2. QED
    BY <1>1, <2>1, Zenon
<1>3. r.status = status /\ r.month = m
  OBVIOUS
<1> HIDE DEF r
<1>4. n \in Nat /\ DOMAIN suggestions = 1..n /\ DOMAIN suggestions' = 1..(n + 1)
  BY <1>2 DEF RowsShape
<1>5. ASSUME NEW k PROVE Counted(k)' = IF k = m /\ status # "refused" THEN Counted(k) \cup {n + 1} ELSE Counted(k)
  BY <1>2, <1>3, <1>4 DEF Counted
<1>6. \A k : status = "refused" \/ k # m => readUsage(k)' = readUsage(k)
  BY <1>5 DEF readUsage
<1>7. readUsage(m)' <= readUsage(m) + 1
  <2>1. IsFiniteSet(Counted(m)) /\ readUsage(m) \in Nat
    BY CountedIsFinite
  <2>2. Cardinality(Counted(m)) \in Nat
    BY <2>1 DEF readUsage
  <2> DEFINE one == Cardinality(Counted(m)) + 1
  <2>3. Cardinality(Counted(m) \cup {n + 1}) \in {Cardinality(Counted(m)), one}
    BY <2>1, FS_AddElement
  <2>4. Counted(m)' \in {Counted(m), Counted(m) \cup {n + 1}}
    BY <1>5
  <2>5. readUsage(m)' \in {readUsage(m), one}
    BY <2>3, <2>4 DEF readUsage
  <2>6. QED
    BY <2>2, <2>5 DEF readUsage
<1>8. QED
  BY <1>2, <1>6, <1>7

LEMMA OneAsker ==
  ASSUME AskingShape, NEW a \in Askers, NEW x, asking' = [asking EXCEPT ![a] = x],
         x.stage \in InFlight =>
           x = [stage |-> x.stage, id |-> x.id, kind |-> x.kind, month |-> x.month, images |-> x.images]
  PROVE  /\ AskingShape'
         /\ \A m : Pending(m)' = IF x.stage \in InFlight /\ x.month = m
                                   THEN Pending(m) \cup {a} ELSE Pending(m) \ {a}
<1>1. asking = [b \in Askers |-> asking[b]]
  BY DEF AskingShape
<1>2. /\ asking' = [b \in Askers |-> asking'[b]] /\ asking'[a] = x
      /\ \A b \in Askers : b # a => asking'[b] = asking[b]
  BY <1>1
<1>3. AskingShape'
  BY <1>2 DEF AskingShape
<1>4. QED
  BY <1>2, <1>3 DEF Pending

\* Nothing is spent.
LEMMA SpendsNothing ==
  ASSUME BudgetInv, RowsShape(suggestions'), AskingShape',
         \A m \in 1..2 : readUsage(m)' = readUsage(m) /\ Pending(m)' \subseteq Pending(m)
  PROVE  BudgetInv'
<1>1. ASSUME NEW m \in 1..2 PROVE Spent(m)' <= RequestCap + Cardinality(Askers) - 1
  <2>1. /\ readUsage(m) \in Nat /\ readUsage(m)' = readUsage(m)
        /\ IsFiniteSet(Pending(m)) /\ Cardinality(Pending(m)) \in Nat /\ Cardinality(Askers) \in Nat
        /\ Pending(m)' \in SUBSET Pending(m)
    BY CountedIsFinite, PendingIsFinite DEF BudgetInv
  <2>2. IsFiniteSet(Pending(m)') /\ Cardinality(Pending(m)') <= Cardinality(Pending(m))
    BY <2>1, FS_Subset
  <2>3. Cardinality(Pending(m)') \in Nat
    BY <2>2, FS_CardinalityType
  <2>4. readUsage(m) + Cardinality(Pending(m)) <= RequestCap + Cardinality(Askers) - 1
    BY DEF BudgetInv, BudgetHolds, Spent
  <2>5. QED
    BY <2>1, <2>2, <2>3, <2>4, AiAssumption DEF Spent
<1>2. QED
  BY <1>1 DEF BudgetInv, BudgetHolds

\* A request that has looked at the month's budget may still be one too many, with the rest
\* of those under way.
LEMMA SuggestKeepsBudget ==
  ASSUME BudgetInv, NEW a \in Askers, NEW who, NEW kind, NEW wanted, suggest(a, who, kind, wanted)
  PROVE  BudgetInv'
<1>1. RowsShape(suggestions) /\ AskingShape
  BY DEF BudgetInv
<1>2. CASE recordRow("refused", month, FALSE, {}) /\ asking' = asking
  <2>1. RowsShape(suggestions') /\ \A k : readUsage(k)' = readUsage(k)
    <3>1. \A st, im, pl : (st = "refused" /\ recordRow(st, month, im, pl)) =>
            RowsShape(suggestions') /\ \A k : readUsage(k)' = readUsage(k)
      BY <1>1, RecordSpends
    <3>2. QED
      BY <1>2, <3>1, Zenon
  <2>2. AskingShape' /\ \A m : Pending(m)' = Pending(m)
    BY <1>1, <1>2 DEF AskingShape, Pending
  <2>3. QED
    BY <2>1, <2>2, SpendsNothing
<1>3. CASE /\ assessBudget(readUsage(month)) /\ suggestions' = suggestions
           /\ asking' = [asking EXCEPT ![a] = [stage |-> "asked", id |-> provider.id, kind |-> kind,
                            month |-> month, images |-> buildRequest(kind, wanted, provider).images]]
  <2> DEFINE i == buildRequest(kind, wanted, provider).images
             x == [stage |-> "asked", id |-> provider.id, kind |-> kind, month |-> month, images |-> i]
  <2>1. asking' = [asking EXCEPT ![a] = x]
    BY <1>3
  <2> HIDE DEF i
  <2>2. /\ x = [stage |-> x.stage, id |-> x.id, kind |-> x.kind, month |-> x.month, images |-> x.images]
        /\ x.month = month
    OBVIOUS
  <2> HIDE DEF x
  <2>3. AskingShape' /\ \A m : m # month => Pending(m)' = Pending(m) \ {a}
    BY <1>1, <2>1, <2>2, OneAsker
  <2>4. RowsShape(suggestions') /\ \A m : readUsage(m)' = readUsage(m)
    BY <1>1, <1>3 DEF readUsage, Counted
  <2>5. ASSUME NEW m \in 1..2 PROVE Spent(m)' <= RequestCap + Cardinality(Askers) - 1
    <3>1. readUsage(m) \in Nat /\ readUsage(m)' = readUsage(m) /\ Cardinality(Askers) \in Nat
      BY <1>1, <2>4, CountedIsFinite, PendingIsFinite
    <3>2. Pending(m)' \in SUBSET Askers /\ IsFiniteSet(Askers)
      BY AiAssumption DEF Pending
    <3>3. Cardinality(Pending(m)') <= Cardinality(Askers) /\ Cardinality(Pending(m)') \in Nat
      BY <3>2, FS_Subset, FS_CardinalityType
    <3>4. CASE m = month
      BY <1>3, <3>1, <3>3, <3>4, AiAssumption DEF assessBudget, Spent
    <3>5. CASE m # month
      <4>1. Pending(m)' \in SUBSET Pending(m) /\ IsFiniteSet(Pending(m)) /\ Cardinality(Pending(m)) \in Nat
        BY <2>3, <3>5, PendingIsFinite
      <4>2. Cardinality(Pending(m)') <= Cardinality(Pending(m))
        BY <4>1, FS_Subset
      <4>3. readUsage(m) + Cardinality(Pending(m)) <= RequestCap + Cardinality(Askers) - 1
        BY DEF BudgetInv, BudgetHolds, Spent
      <4>4. QED
        BY <3>1, <3>3, <4>1, <4>2, <4>3, AiAssumption DEF Spent
    <3>6. QED
      BY <3>4, <3>5
  <2>6. QED
    BY <2>3, <2>4, <2>5 DEF BudgetInv, BudgetHolds
<1>4. QED
  BY <1>2, <1>3 DEF suggest

\* A request that comes back spends what it had reserved.
LEMMA AnswerKeepsBudget ==
  ASSUME BudgetInv, NEW a \in Askers, NEW ok, NEW answer, Answered(a, ok, answer)
  PROVE  BudgetInv'
<1> PICK M : M = asking[a].month
  OBVIOUS
<1> DEFINE taken == parseSuggestion(asking[a].kind, answer)
           st == IF ~ok THEN "failed" ELSE IF taken.valid THEN "succeeded" ELSE "malformed"
           im == asking[a].images
           pl == IF ok /\ taken.valid THEN taken.payload ELSE {}
<1>1. /\ asking[a].stage = "calling" /\ asking' = [asking EXCEPT ![a] = Idle]
      /\ suggestions' = suggestions \/ recordRow(st, M, im, pl)
  BY DEF Answered
<1> HIDE DEF st, im, pl, taken
<1>2. RowsShape(suggestions) /\ AskingShape
  BY DEF BudgetInv
<1>3. AskingShape' /\ \A m : Pending(m)' = Pending(m) \ {a}
  <2>1. Idle.stage \notin InFlight
    BY DEF Idle, InFlight
  <2>2. QED
    BY <1>1, <1>2, <2>1, OneAsker
<1>4. a \in Pending(M)
  BY <1>1 DEF Pending, InFlight
<1>5. CASE suggestions' = suggestions
  <2>1. RowsShape(suggestions') /\ \A m : readUsage(m)' = readUsage(m)
    BY <1>2, <1>5 DEF readUsage, Counted
  <2>2. QED
    BY <1>3, <2>1, SpendsNothing
<1>6. CASE recordRow(st, M, im, pl)
  <2>1. /\ RowsShape(suggestions') /\ readUsage(M)' <= readUsage(M) + 1
        /\ \A k : k # M => readUsage(k)' = readUsage(k)
    <3>1. \A s, j, p : recordRow(s, M, j, p) =>
            /\ RowsShape(suggestions') /\ readUsage(M)' <= readUsage(M) + 1
            /\ \A k : k # M => readUsage(k)' = readUsage(k)
      BY <1>2, RecordSpends
    <3>2. QED
      BY <1>6, <3>1, Zenon
  <2>2. ASSUME NEW m \in 1..2 PROVE Spent(m)' <= RequestCap + Cardinality(Askers) - 1
    <3>1. /\ readUsage(m) \in Nat /\ readUsage(m)' \in Nat /\ Cardinality(Askers) \in Nat
          /\ IsFiniteSet(Pending(m)) /\ Cardinality(Pending(m)) \in Nat
      <4>1. readUsage(m)' \in Nat
        BY <2>1, RowsAreFinite DEF readUsage, Counted
      <4>2. QED
        BY <1>2, <4>1, CountedIsFinite, PendingIsFinite
    <3>2. readUsage(m) + Cardinality(Pending(m)) <= RequestCap + Cardinality(Askers) - 1
      BY DEF BudgetInv, BudgetHolds, Spent
    <3>3. CASE m = M
      <4>1. Cardinality(Pending(m)') = Cardinality(Pending(m)) - 1
        BY <1>3, <1>4, <3>1, <3>3, FS_RemoveElement
      <4>2. QED
        BY <2>1, <3>1, <3>2, <3>3, <4>1, AiAssumption DEF Spent
    <3>4. CASE m # M
      <4>1. Cardinality(Pending(m)') <= Cardinality(Pending(m)) /\ Cardinality(Pending(m)') \in Nat
        BY <1>3, <3>1, FewerPending
      <4>2. QED
        BY <2>1, <3>1, <3>2, <3>4, <4>1, AiAssumption DEF Spent
    <3>5. QED
      BY <3>3, <3>4
  <2>3. QED
    BY <1>3, <2>1, <2>2 DEF BudgetInv, BudgetHolds
<1>7. QED
  BY <1>1, <1>5, <1>6

\* An asker does something that passes no budget; the suggestions rest.
LEMMA AskerKeepsBudget ==
  ASSUME BudgetInv, suggestions' = suggestions, NEW a \in Askers, NEW x,
         asking' = [asking EXCEPT ![a] = x],
         \/ x.stage \notin InFlight
         \/ /\ asking[a].stage \in InFlight /\ x.month = asking[a].month
            /\ x = [stage |-> x.stage, id |-> x.id, kind |-> x.kind, month |-> x.month, images |-> x.images]
  PROVE  BudgetInv'
<1>1. RowsShape(suggestions) /\ AskingShape
  BY DEF BudgetInv
<1>2. AskingShape' /\ \A m : Pending(m)' = IF x.stage \in InFlight /\ x.month = m
                                             THEN Pending(m) \cup {a} ELSE Pending(m) \ {a}
  BY <1>1, OneAsker
<1>3. ASSUME NEW m PROVE Pending(m)' \subseteq Pending(m)
  <2>1. x.stage \in InFlight /\ x.month = m => a \in Pending(m)
    BY DEF Pending
  <2>2. QED
    BY <1>2, <2>1
<1>4. RowsShape(suggestions') /\ \A m : readUsage(m)' = readUsage(m)
  BY <1>1 DEF readUsage, Counted
<1>5. QED
  BY <1>2, <1>3, <1>4, SpendsNothing

LEMMA AdapterKeepsBudget ==
  ASSUME BudgetInv, NEW a \in Askers, adapterFor(a)
  PROVE  BudgetInv'
<1>1. asking[a].stage = "asked" /\ suggestions' = suggestions
  BY DEF adapterFor
<1>2. CASE asking' = [asking EXCEPT ![a] = Idle]
  <2>1. Idle.stage \notin InFlight
    BY DEF Idle, InFlight
  <2>2. QED
    BY <1>1, <1>2, <2>1, AskerKeepsBudget
<1>3. CASE asking' = [asking EXCEPT ![a].stage = "calling"]
  <2> DEFINE r == asking[a]
             x == [stage |-> "calling", id |-> r.id, kind |-> r.kind, month |-> r.month, images |-> r.images]
  <2>1. r.stage \in InFlight
    BY <1>1 DEF InFlight
  <2>2. r = [stage |-> r.stage, id |-> r.id, kind |-> r.kind, month |-> r.month, images |-> r.images]
    BY <2>1 DEF BudgetInv, AskingShape
  <2>3. asking' = [asking EXCEPT ![a] = [r EXCEPT !.stage = "calling"]]
    BY <1>3
  <2>4. [r EXCEPT !.stage = "calling"] = x
    BY <2>2
  <2>5. asking' = [asking EXCEPT ![a] = x]
    BY <2>3, <2>4, Zenon
  <2>6. /\ x = [stage |-> x.stage, id |-> x.id, kind |-> x.kind, month |-> x.month, images |-> x.images]
        /\ x.month = r.month
    OBVIOUS
  <2> HIDE DEF x
  <2>7. QED
    BY <1>1, <2>1, <2>5, <2>6, AskerKeepsBudget
<1>4. QED
  BY <1>2, <1>3 DEF adapterFor

LEMMA AdminKeepsBudget ==
  ASSUME BudgetInv, NEW a \in Askers,
         \/ \E who : removeProvider(a, who) \/ testProvider(a, who)
         \/ ProviderDeleted(a)
         \/ \E answered : EndpointTested(a, answered)
  PROVE  BudgetInv'
<1>1. PICK x : /\ suggestions' = suggestions /\ asking' = [asking EXCEPT ![a] = x]
               /\ x \in {Idle, [stage |-> "removing", id |-> provider.id], [stage |-> "testing", id |-> provider.id]}
  BY DEF removeProvider, testProvider, ProviderDeleted, EndpointTested
<1>2. x.stage \notin InFlight
  BY <1>1 DEF Idle, InFlight
<1>3. QED
  BY <1>1, <1>2, AskerKeepsBudget

LEMMA AppliedRow ==
  ASSUME NEW s, RowsShape(s), NEW i \in 1..Len(s), NEW b
  PROVE  LET t == [s EXCEPT ![i].applied = b]
         IN  /\ RowsShape(t) /\ DOMAIN t = DOMAIN s
             /\ \A j \in DOMAIN s : t[j].month = s[j].month /\ t[j].status = s[j].status
<1> DEFINE r == [s[i] EXCEPT !.applied = b]
           t == [s EXCEPT ![i].applied = b]
           n == Len(s)
<1>1. t = [s EXCEPT ![i] = r]
  OBVIOUS
<1>2. /\ s[i] = [status |-> s[i].status, month |-> s[i].month, images |-> s[i].images,
                 payload |-> s[i].payload, applied |-> s[i].applied]
      /\ n \in Nat /\ DOMAIN s = 1..n
  BY DEF RowsShape
<1>3. /\ r = [status |-> r.status, month |-> r.month, images |-> r.images, payload |-> r.payload,
              applied |-> r.applied]
      /\ r.status = s[i].status /\ r.month = s[i].month
  BY <1>2
<1> HIDE DEF r, t
<1>4. t = [j \in 1..n |-> IF j = i THEN r ELSE s[j]]
  BY <1>1, <1>2 DEF RowsShape
<1>5. Len(t) = n
  <2> DEFINE S == {IF j = i THEN r ELSE s[j] : j \in 1..n}
  <2>1. t \in [1..n -> S]
    BY <1>4
  <2> HIDE DEF S
  <2>2. t \in Seq(S)
    BY <1>2, <2>1, SeqDef
  <2>3. QED
    BY <1>2, <2>1, <2>2
<1>6. RowsShape(t)
  BY <1>2, <1>3, <1>4, <1>5 DEF RowsShape
<1>7. DOMAIN t = DOMAIN s /\ \A j \in DOMAIN s : t[j].month = s[j].month /\ t[j].status = s[j].status
  BY <1>2, <1>3, <1>4
<1>8. QED
  BY <1>6, <1>7 DEF t

LEMMA AppliedKeepsBudget ==
  ASSUME BudgetInv, NEW i \in DOMAIN suggestions, markSuggestionApplied(i)
  PROVE  BudgetInv'
<1>1. RowsShape(suggestions) /\ AskingShape /\ i \in 1..Len(suggestions)
  BY DEF BudgetInv, RowsShape
<1>2. suggestions' = [suggestions EXCEPT ![i].applied = TRUE] /\ asking' = asking
  BY DEF markSuggestionApplied
<1>3. /\ RowsShape(suggestions') /\ DOMAIN suggestions' = DOMAIN suggestions
      /\ \A j \in DOMAIN suggestions : /\ suggestions'[j].month = suggestions[j].month
                                       /\ suggestions'[j].status = suggestions[j].status
  <2>1. \A b : LET t == [suggestions EXCEPT ![i].applied = b]
               IN  /\ RowsShape(t) /\ DOMAIN t = DOMAIN suggestions
                   /\ \A j \in DOMAIN suggestions : /\ t[j].month = suggestions[j].month
                                                    /\ t[j].status = suggestions[j].status
    BY <1>1, AppliedRow
  <2>2. QED
    BY <1>2, <2>1, Zenon
<1>4. \A m : Counted(m)' = Counted(m)
  BY <1>3 DEF Counted
<1>5. AskingShape' /\ \A m : readUsage(m)' = readUsage(m) /\ Pending(m)' = Pending(m)
  BY <1>1, <1>2, <1>4 DEF AskingShape, Pending, readUsage
<1>6. QED
  BY <1>3, <1>5, SpendsNothing

LEMMA RestKeepsBudget ==
  ASSUME BudgetInv, UNCHANGED <<suggestions, asking>>
  PROVE  BudgetInv'
<1>1. RowsShape(suggestions) /\ AskingShape
  BY DEF BudgetInv
<1>2. RowsShape(suggestions') /\ AskingShape'
  BY <1>1 DEF AskingShape
<1>3. \A m : readUsage(m)' = readUsage(m) /\ Pending(m)' = Pending(m)
  BY DEF readUsage, Counted, Pending
<1>4. QED
  BY <1>2, <1>3, SpendsNothing

LEMMA SuggestionsKeepBudget ==
  ASSUME BudgetInv, AiNext
  PROVE  BudgetInv'
<1>1. CASE \E a \in Askers, who \in Confirmers, k \in features \cap DOMAIN PERMISSION_FOR, b \in BOOLEAN :
             suggest(a, who, k, b)
  BY <1>1, SuggestKeepsBudget
<1>2. CASE \E a \in Askers, ok \in BOOLEAN, answer \in Answers : Answered(a, ok, answer)
  BY <1>2, AnswerKeepsBudget
<1>3. CASE \E a \in Askers : \/ \E who \in Confirmers : removeProvider(a, who) \/ testProvider(a, who)
                             \/ ProviderDeleted(a) \/ \E answered \in BOOLEAN : EndpointTested(a, answered)
  BY <1>3, AdminKeepsBudget
<1>4. CASE \E a \in Askers : adapterFor(a)
  BY <1>4, AdapterKeepsBudget
<1>5. CASE \E i \in DOMAIN suggestions : markSuggestionApplied(i)
  BY <1>5, AppliedKeepsBudget
<1>6. CASE \/ \E who, k, d : configureProvider(who, k, d, TRUE, k = "openai_compatible")
           \/ \E who, on : setProviderEnabled(who, on)
           \/ NewMonth
  BY <1>6, RestKeepsBudget DEF configureProvider, setProviderEnabled, NewMonth
<1>7. QED
  <2>1. TRUE \in BOOLEAN /\ FALSE \in BOOLEAN
    OBVIOUS
  <2>2. QED
    BY <1>1, <1>2, <1>3, <1>4, <1>5, <1>6, <2>1 DEF AiNext

LEMMA InitBudget ==
  ASSUME OperationsInit
  PROVE  BudgetInv
<1>1. suggestions = <<>> /\ asking = [a \in Askers |-> Idle]
  BY DEF OperationsInit, AiInit
<1>2. RowsShape(suggestions) /\ \A m : Counted(m) = {}
  BY <1>1 DEF RowsShape, Counted
<1>3. AskingShape /\ \A m : Pending(m) = {}
  BY <1>1 DEF AskingShape, Pending, Idle, InFlight
<1>4. Cardinality(Askers) \in Nat \ {0}
  BY AiAssumption, FS_EmptySet, FS_CardinalityType
<1>5. \A m : Spent(m) = 0
  BY <1>2, <1>3, FS_EmptySet DEF Spent, readUsage
<1>6. QED
  BY <1>2, <1>3, <1>4, <1>5, AiAssumption DEF BudgetInv, BudgetHolds

LEMMA BudgetIsStated ==
  ASSUME BudgetInv
  PROVE  BudgetOverrunIsBounded
<1> SUFFICES ASSUME NEW m \in 1..2 PROVE readUsage(m) <= RequestCap + Cardinality(Askers) - 1
  BY DEF BudgetOverrunIsBounded
<1>1. readUsage(m) \in Nat /\ Cardinality(Pending(m)) \in Nat /\ Cardinality(Askers) \in Nat
  BY CountedIsFinite, PendingIsFinite DEF BudgetInv
<1>2. readUsage(m) + Cardinality(Pending(m)) <= RequestCap + Cardinality(Askers) - 1
  BY DEF BudgetInv, BudgetHolds, Spent
<1>3. QED
  BY <1>1, <1>2, AiAssumption

\* However many requests are under way at once, a month's budget is passed by at most those
\* that had looked at it before it was spent: what is recorded and what is still under way
\* never come to more (suggest of suggest.ts).
THEOREM BudgetIsPassedByFew == OperationsSpec => []BudgetOverrunIsBounded
<1>1. OperationsInit => BudgetInv
  BY InitBudget
<1>2. BudgetInv /\ [OperationsNext]_operationVars => BudgetInv'
  <2> SUFFICES ASSUME BudgetInv, [OperationsNext]_operationVars PROVE BudgetInv'
    OBVIOUS
  <2>1. CASE AiNext
    BY <2>1, SuggestionsKeepBudget
  <2>2. CASE UNCHANGED aiVars
    BY <2>2, RestKeepsBudget DEF aiVars
  <2>3. QED
    BY <2>1, <2>2 DEF OperationsNext, operationVars
<1>3. BudgetInv => BudgetOverrunIsBounded
  BY BudgetIsStated
<1>4. QED
  BY <1>1, <1>2, <1>3, PTL DEF OperationsSpec

===============================================================================
