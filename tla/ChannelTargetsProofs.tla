------------------------ MODULE ChannelTargetsProofs ------------------------
(* Versions move forward, on the row and on the channel, for every set of    *)
(* quantities and workers, every bound and both kinds of adapter.            *)
(*                                                                           *)
(* The row is read once and used over several steps, so the argument needs   *)
(* what a reading is worth while it is used: it is never ahead of the row    *)
(* (ReadingsTrail); and as long as no lease is lost it belongs to the only   *)
(* worker with a job (Exclusive) and is not older than what the channel has  *)
(* (ReadingsFresh).                                                          *)
EXTENDS ChannelTargets, TLAPS

\* Before the row exists there is nothing to do, and a write on its way is of
\* a version that has been recorded.
NothingBeforeRow ==
    /\ target.version <= MaxVersion
    /\ target.version = 0 => /\ \A j \in Jobs : jobs[j] = 0
                             /\ \A w \in Workers : run[w].pc = "idle"
                             /\ rec.pc = "idle"
    /\ \A w \in Workers : run[w].held => run[w].pc # "idle"
    /\ \A w \in Workers :
          run[w].pc \in {"permit", "call", "settle", "close"} =>
              run[w].version \in Versions

\* No reading, and nothing on the channel, is ahead of the row.
ReadingsTrail ==
    /\ \A w \in Workers : run[w].version <= target.version
    /\ channel.by <= target.version

\* Nobody works without a claim, and one worker at a time has one.
Exclusive ==
    /\ \A w \in Workers : run[w].pc # "idle" => run[w].held
    /\ \A w, x \in Workers : run[w].held /\ run[x].held => w = x

\* The channel has nothing newer than a write that is on its way to it.
ReadingsFresh ==
    \A w \in Workers : run[w].pc \in {"permit", "call"} =>
        channel.by <= run[w].version

LeaseKept == suffered["lapse"] = 0

Inv ==
    /\ TypeOK
    /\ NothingBeforeRow
    /\ LateAcknowledgementHarmless
    /\ ReadingsTrail
    /\ LeaseKept => Exclusive /\ ReadingsFresh

-----------------------------------------------------------------------------
(* The pieces that steps are made of.                                        *)

\* A lane at rest runs nothing and holds no claim.
LEMMA IdleType ==
    Idle \in Runs /\ Idle.pc = "idle" /\ Idle.held = FALSE /\ Idle.version = 0
  BY DEF Idle, Runs, Jobs, NoQuantity

\* A reconciliation at rest.
LEMMA RestingType == Resting \in Readings /\ Resting.pc = "idle"
  BY DEF Resting, Readings, NoQuantity

\* Adding a job to the queue keeps its type.
LEMMA PutType ==
    ASSUME NEW queue \in [Jobs -> Nat], NEW j
    PROVE  Put(queue, j) \in [Jobs -> Nat]
<1>1. CASE j \in Jobs
  BY <1>1 DEF Put
<1>2. CASE j \notin Jobs
  BY <1>2 DEF Put
<1>3. QED
  BY <1>1, <1>2

\* The jobs that handlers ask for are jobs of the mapping.
LEMMA JobTypes == Verify \in Jobs /\ \A v \in Versions : Write(v) \in Jobs
  BY DEF Verify, Write, Jobs

\* A step that leaves handlers, versions and the channel's newest version
\* alone, and makes no row converged, keeps the invariant.
LEMMA Frame ==
    ASSUME Inv, TypeOK', run' = run, channel'.by = channel.by,
           target'.version = target.version, target'.written = target.written,
           target'.state = "converged" => target.state = "converged",
           suffered'["lapse"] = suffered["lapse"],
           target.version = 0 => (\A j \in Jobs : jobs'[j] = 0) /\ rec'.pc = "idle"
    PROVE  Inv'
<1>1. NothingBeforeRow'
  BY DEF Inv, NothingBeforeRow
<1>2. LateAcknowledgementHarmless' /\ ReadingsTrail'
  BY DEF Inv, LateAcknowledgementHarmless, ReadingsTrail
<1>3. LeaseKept' => Exclusive' /\ ReadingsFresh'
  BY DEF Inv, LeaseKept, Exclusive, ReadingsFresh
<1>4. QED
  BY <1>1, <1>2, <1>3 DEF Inv

\* refreshTargetsForItem: the version only grows, and a grown one is pending.
LEMMA RefreshInv ==
    ASSUME Inv, NEW q \in Quantities, refreshTargetsForItem(q)
    PROVE  Inv'
<1>1. TypeOK'
  <2>1. target' \in Targets /\ target'.written <= target'.version
    <3>1. CASE target' = target
      BY <3>1 DEF Inv, TypeOK
    <3>2. CASE target' = [target EXCEPT !.version = @ + 1, !.desired = q,
                                          !.state = "pending"]
      <4>1. target \in Targets /\ target.written <= target.version
        BY DEF Inv, TypeOK
      <4>2. target.version + 1 \in Nat /\ "pending" \in States
        BY <4>1 DEF Targets, States
      <4>3. target' \in Targets
        <5>1. [target EXCEPT !.version = @ + 1] \in Targets
          BY <4>1, <4>2 DEF Targets
        <5>2. \A t \in Targets : [t EXCEPT !.desired = q] \in Targets
          BY DEF Targets
        <5>3. \A t \in Targets : [t EXCEPT !.state = "pending"] \in Targets
          BY <4>2 DEF Targets
        <5>4. QED
          BY <3>2, <5>1, <5>2, <5>3, Zenon
      <4>4. target'.version = target.version + 1 /\ target'.written = target.written
        BY <3>2, <4>1 DEF Targets
      <4>5. target.version \in Nat /\ target.written \in Nat
        BY <4>1 DEF Targets
      <4>6. QED
        BY <4>1, <4>3, <4>4, <4>5
    <3>3. QED
      BY <3>1, <3>2 DEF refreshTargetsForItem, Desired
  <2>2. /\ samples' \in [Versions -> {"none", "pending", "converged", "superseded"}]
        /\ excluded' \subseteq Versions
    BY DEF Inv, TypeOK, refreshTargetsForItem, Desired, openSample
  <2>3. jobs' \in [Jobs -> Nat]
    BY JobTypes, PutType DEF Inv, TypeOK, refreshTargetsForItem, Desired,
       enqueueChannelWrite, Put
  <2>4. run' \in [Workers -> Runs]
    BY IdleType DEF Inv, TypeOK, refreshTargetsForItem, Desired
  <2>5. QED
    BY <2>1, <2>2, <2>3, <2>4 DEF Inv, TypeOK, refreshTargetsForItem, Desired
<1>2. NothingBeforeRow'
  <2>1. target'.version <= MaxVersion
    BY BoundsAssumption DEF Inv, TypeOK, NothingBeforeRow,
       refreshTargetsForItem, Desired, Targets
  <2>2. target'.version = 0 => /\ \A j \in Jobs : jobs'[j] = 0
                               /\ \A x \in Workers : run'[x].pc = "idle"
                               /\ rec'.pc = "idle"
    BY JobTypes, IdleType, RestingType DEF Inv, TypeOK, NothingBeforeRow,
       refreshTargetsForItem, Desired, enqueueChannelWrite, Put, Targets,
       Runs
  <2>3. \A x \in Workers : run'[x].held => run'[x].pc # "idle"
    BY IdleType DEF Inv, TypeOK, NothingBeforeRow, refreshTargetsForItem,
       Desired, Runs
  <2>4. \A x \in Workers :
          run'[x].pc \in {"permit", "call", "settle", "close"} =>
              run'[x].version \in Versions
    BY IdleType, BoundsAssumption DEF Inv, TypeOK, NothingBeforeRow,
       refreshTargetsForItem, Desired, Runs, Targets, Versions
  <2>5. QED
    BY <2>1, <2>2, <2>3, <2>4 DEF NothingBeforeRow
<1>3. LateAcknowledgementHarmless'
  BY DEF Inv, TypeOK, LateAcknowledgementHarmless, ReadingsTrail,
     refreshTargetsForItem, Desired, Targets, Runs, Idle
<1>4. ReadingsTrail'
  BY DEF Inv, TypeOK, ReadingsTrail, refreshTargetsForItem, Desired, Targets,
     Runs, Idle, Channels
<1>5. LeaseKept' => Exclusive' /\ ReadingsFresh'
  BY DEF Inv, TypeOK, ReadingsTrail, LeaseKept, Exclusive, ReadingsFresh,
     refreshTargetsForItem, Desired, Targets, Runs, Idle
<1>6. QED
  BY <1>1, <1>2, <1>3, <1>4, <1>5 DEF Inv

\* An early return of handleChannelWrite touches samples only.
LEMMA StandDownInv ==
    ASSUME Inv, NEW w \in Workers, NEW v \in Versions, StandDown(w, v)
    PROVE  Inv'
<1>1. /\ samples' \in [Versions -> {"none", "pending", "converged", "superseded"}]
      /\ excluded' \subseteq Versions
  <2>1. target.version \in Versions \/ v < target.version
    BY JobTypes, BoundsAssumption DEF Inv, TypeOK, NothingBeforeRow,
       StandDown, Claimable, Targets, Versions
  <2>2. CASE v < target.version /\ markSuperseded(v) /\ UNCHANGED excluded
    BY <2>2 DEF Inv, TypeOK, markSuperseded, Close
  <2>3. CASE v >= target.version /\ excludeSample(target.version) /\ UNCHANGED samples
    <3>1. target.version \in Versions
      BY <2>1, <2>3, BoundsAssumption DEF Inv, TypeOK, Targets, Versions
    <3>2. QED
      BY <2>3, <3>1 DEF Inv, TypeOK, excludeSample
  <2>4. CASE v >= target.version /\ markConverged(target.version) /\ UNCHANGED excluded
    BY <2>4 DEF Inv, TypeOK, markConverged, Close
  <2>5. QED
    BY <2>2, <2>3, <2>4 DEF StandDown
<1>2. jobs' \in [Jobs -> Nat] /\ target.version # 0
  BY JobTypes DEF Inv, TypeOK, NothingBeforeRow, StandDown, Claimable, Take
<1>3. UNCHANGED <<target, run, rec, conflict, channel, permitted, reached, suffered>>
  BY DEF StandDown
<1>4. TypeOK'
  BY <1>1, <1>2, <1>3 DEF Inv, TypeOK
<1>5. QED
  BY <1>2, <1>3, <1>4, Frame

\* The reading of handleChannelWrite is the newest version there is.
LEMMA ReadForWriteInv ==
    ASSUME Inv, NEW w \in Workers, NEW v \in Versions, ReadForWrite(w, v)
    PROVE  Inv'
<1>1. TypeOK'
  <2>1. target' \in Targets /\ target'.written <= target'.version
    BY BoundsAssumption DEF Inv, TypeOK, ReadForWrite
  <2>2. /\ samples' \in [Versions -> {"none", "pending", "converged", "superseded"}]
        /\ excluded' \subseteq Versions
    BY DEF Inv, TypeOK, ReadForWrite
  <2>3. jobs' \in [Jobs -> Nat]
    BY JobTypes, PutType DEF Inv, TypeOK, ReadForWrite, Claimable, Take
  <2>4. run' \in [Workers -> Runs]
    BY IdleType DEF Inv, TypeOK, ReadForWrite, Idle, Runs, Targets, Jobs,
       Write, Versions
  <2>5. QED
    BY <2>1, <2>2, <2>3, <2>4 DEF Inv, TypeOK, ReadForWrite
<1>2. NothingBeforeRow'
  <2>1. target'.version <= MaxVersion
    BY BoundsAssumption DEF Inv, TypeOK, NothingBeforeRow, ReadForWrite,
       Targets
  <2>2. target'.version = 0 => /\ \A j \in Jobs : jobs'[j] = 0
                               /\ \A x \in Workers : run'[x].pc = "idle"
                               /\ rec'.pc = "idle"
    BY JobTypes, IdleType, RestingType DEF Inv, TypeOK, NothingBeforeRow,
       ReadForWrite, Claimable, Take, Idle, Targets, Runs
  <2>3. \A x \in Workers : run'[x].held => run'[x].pc # "idle"
    BY IdleType DEF Inv, TypeOK, NothingBeforeRow, ReadForWrite, Idle, Runs
  <2>4. \A x \in Workers :
          run'[x].pc \in {"permit", "call", "settle", "close"} =>
              run'[x].version \in Versions
    <3>1. target.version \in Versions
      BY JobTypes, BoundsAssumption DEF Inv, TypeOK, NothingBeforeRow,
         ReadForWrite, Claimable, Targets, Versions
    <3>2. run' = [run EXCEPT ![w] = run'[w]] /\ run'[w].version = target.version
      BY DEF Inv, TypeOK, ReadForWrite, Idle
    <3>3. QED
      BY <3>1, <3>2 DEF Inv, TypeOK, NothingBeforeRow
  <2>5. QED
    BY <2>1, <2>2, <2>3, <2>4 DEF NothingBeforeRow
<1>3. LateAcknowledgementHarmless'
  BY DEF Inv, TypeOK, LateAcknowledgementHarmless, ReadingsTrail,
     ReadForWrite, Claimable, Idle, Runs, Targets
<1>4. ReadingsTrail'
  BY DEF Inv, TypeOK, ReadingsTrail, ReadForWrite, Claimable, Idle, Runs,
     Targets
<1>5. LeaseKept' => Exclusive' /\ ReadingsFresh'
  BY DEF Inv, TypeOK, ReadingsTrail, LeaseKept, Exclusive, ReadingsFresh,
     ReadForWrite, Claimable, Idle, Runs, Targets
<1>6. QED
  BY <1>1, <1>2, <1>3, <1>4, <1>5 DEF Inv

\* A refused mapping is blocked, which is not converged.
LEMMA RefuseInv ==
    ASSUME Inv, NEW w \in Workers, Refuse(w)
    PROVE  Inv'
<1>1. TypeOK'
  <2>1. target' \in Targets /\ target'.written <= target'.version
    BY BoundsAssumption DEF Inv, TypeOK, Refuse, blockTarget, Targets, States
  <2>2. /\ samples' \in [Versions -> {"none", "pending", "converged", "superseded"}]
        /\ excluded' \subseteq Versions
    BY DEF Inv, TypeOK, Refuse, excludeSample, NothingBeforeRow
  <2>3. jobs' \in [Jobs -> Nat]
    BY JobTypes, PutType DEF Inv, TypeOK, Refuse
  <2>4. run' \in [Workers -> Runs]
    BY IdleType DEF Inv, TypeOK, Refuse, Return
  <2>5. QED
    BY <2>1, <2>2, <2>3, <2>4 DEF Inv, TypeOK, Refuse
<1>2. NothingBeforeRow'
  <2>1. target'.version <= MaxVersion
    BY BoundsAssumption DEF Inv, TypeOK, NothingBeforeRow, Refuse,
       blockTarget, Targets
  <2>2. target'.version = 0 => /\ \A j \in Jobs : jobs'[j] = 0
                               /\ \A x \in Workers : run'[x].pc = "idle"
                               /\ rec'.pc = "idle"
    BY JobTypes, IdleType, RestingType DEF Inv, TypeOK, NothingBeforeRow,
       Refuse, blockTarget, Return, Targets, Runs
  <2>3. \A x \in Workers : run'[x].held => run'[x].pc # "idle"
    BY IdleType DEF Inv, TypeOK, NothingBeforeRow, Refuse, Return, Runs
  <2>4. \A x \in Workers :
          run'[x].pc \in {"permit", "call", "settle", "close"} =>
              run'[x].version \in Versions
    BY IdleType, BoundsAssumption DEF Inv, TypeOK, NothingBeforeRow,
       Refuse, Return, Runs, Targets, Versions
  <2>5. QED
    BY <2>1, <2>2, <2>3, <2>4 DEF NothingBeforeRow
<1>3. LateAcknowledgementHarmless'
  BY DEF Inv, TypeOK, LateAcknowledgementHarmless, ReadingsTrail, Refuse,
     blockTarget, Targets, Return, Runs, Idle
<1>4. ReadingsTrail'
  BY DEF Inv, TypeOK, ReadingsTrail, Refuse, blockTarget, Targets, Return,
     Runs, Idle
<1>5. LeaseKept' => Exclusive' /\ ReadingsFresh'
  BY DEF Inv, TypeOK, ReadingsTrail, LeaseKept, Exclusive, ReadingsFresh,
     Refuse, blockTarget, Targets, Return, Runs, Idle
<1>6. QED
  BY <1>1, <1>2, <1>3, <1>4, <1>5 DEF Inv

\* A withheld write leaves the row alone.
LEMMA WithholdInv ==
    ASSUME Inv, NEW w \in Workers, Withhold(w)
    PROVE  Inv'
<1>1. TypeOK'
  <2>1. target' \in Targets /\ target'.written <= target'.version
    BY BoundsAssumption DEF Inv, TypeOK, Withhold
  <2>2. /\ samples' \in [Versions -> {"none", "pending", "converged", "superseded"}]
        /\ excluded' \subseteq Versions
    BY DEF Inv, TypeOK, Withhold, excludeSample, NothingBeforeRow
  <2>3. jobs' \in [Jobs -> Nat]
    BY JobTypes, PutType DEF Inv, TypeOK, Withhold
  <2>4. run' \in [Workers -> Runs]
    BY IdleType DEF Inv, TypeOK, Withhold, Return
  <2>5. QED
    BY <2>1, <2>2, <2>3, <2>4 DEF Inv, TypeOK, Withhold
<1>2. NothingBeforeRow'
  <2>1. target'.version <= MaxVersion
    BY BoundsAssumption DEF Inv, TypeOK, NothingBeforeRow, Withhold, Targets
  <2>2. target'.version = 0 => /\ \A j \in Jobs : jobs'[j] = 0
                               /\ \A x \in Workers : run'[x].pc = "idle"
                               /\ rec'.pc = "idle"
    BY JobTypes, IdleType, RestingType DEF Inv, TypeOK, NothingBeforeRow,
       Withhold, Return, Targets, Runs
  <2>3. \A x \in Workers : run'[x].held => run'[x].pc # "idle"
    BY IdleType DEF Inv, TypeOK, NothingBeforeRow, Withhold, Return, Runs
  <2>4. \A x \in Workers :
          run'[x].pc \in {"permit", "call", "settle", "close"} =>
              run'[x].version \in Versions
    BY IdleType, BoundsAssumption DEF Inv, TypeOK, NothingBeforeRow,
       Withhold, Return, Runs, Targets, Versions
  <2>5. QED
    BY <2>1, <2>2, <2>3, <2>4 DEF NothingBeforeRow
<1>3. LateAcknowledgementHarmless'
  BY DEF Inv, TypeOK, LateAcknowledgementHarmless, ReadingsTrail, Withhold,
     Return, Targets, Runs, Idle
<1>4. ReadingsTrail'
  BY DEF Inv, TypeOK, ReadingsTrail, Withhold, Return, Targets, Runs, Idle
<1>5. LeaseKept' => Exclusive' /\ ReadingsFresh'
  BY DEF Inv, TypeOK, ReadingsTrail, LeaseKept, Exclusive, ReadingsFresh,
     Withhold, Return, Targets, Runs, Idle
<1>6. QED
  BY <1>1, <1>2, <1>3, <1>4, <1>5 DEF Inv

\* The write goes on with the reading it has.
LEMMA BeginInv ==
    ASSUME Inv, NEW w \in Workers, beginWriteAttempt(w)
    PROVE  Inv'
<1>1. TypeOK'
  <2>1. target' \in Targets /\ target'.written <= target'.version
    BY BoundsAssumption DEF Inv, TypeOK, beginWriteAttempt
  <2>2. /\ samples' \in [Versions -> {"none", "pending", "converged", "superseded"}]
        /\ excluded' \subseteq Versions
    BY DEF Inv, TypeOK, beginWriteAttempt
  <2>3. jobs' \in [Jobs -> Nat]
    BY JobTypes, PutType DEF Inv, TypeOK, beginWriteAttempt
  <2>4. run' \in [Workers -> Runs]
    BY IdleType DEF Inv, TypeOK, beginWriteAttempt, Runs
  <2>5. QED
    BY <2>1, <2>2, <2>3, <2>4 DEF Inv, TypeOK, beginWriteAttempt
<1>2. NothingBeforeRow'
  <2>1. target'.version <= MaxVersion
    BY BoundsAssumption DEF Inv, TypeOK, NothingBeforeRow,
       beginWriteAttempt, Targets
  <2>2. target'.version = 0 => /\ \A j \in Jobs : jobs'[j] = 0
                               /\ \A x \in Workers : run'[x].pc = "idle"
                               /\ rec'.pc = "idle"
    BY JobTypes, IdleType, RestingType DEF Inv, TypeOK, NothingBeforeRow,
       beginWriteAttempt, Targets, Runs
  <2>3. \A x \in Workers : run'[x].held => run'[x].pc # "idle"
    BY IdleType DEF Inv, TypeOK, NothingBeforeRow, beginWriteAttempt, Runs
  <2>4. \A x \in Workers :
          run'[x].pc \in {"permit", "call", "settle", "close"} =>
              run'[x].version \in Versions
    BY IdleType, BoundsAssumption DEF Inv, TypeOK, NothingBeforeRow,
       beginWriteAttempt, Runs, Targets, Versions
  <2>5. QED
    BY <2>1, <2>2, <2>3, <2>4 DEF NothingBeforeRow
<1>3. LateAcknowledgementHarmless'
  BY DEF Inv, TypeOK, LateAcknowledgementHarmless, ReadingsTrail,
     beginWriteAttempt, Runs, Targets, Idle
<1>4. ReadingsTrail'
  BY DEF Inv, TypeOK, ReadingsTrail, beginWriteAttempt, Runs, Targets, Idle
<1>5. LeaseKept' => Exclusive' /\ ReadingsFresh'
  BY DEF Inv, TypeOK, ReadingsTrail, LeaseKept, Exclusive, ReadingsFresh,
     beginWriteAttempt, Runs, Targets, Idle
<1>6. QED
  BY <1>1, <1>2, <1>3, <1>4, <1>5 DEF Inv

\* An acknowledgement makes the row converged only at its own version.
LEMMA SettleInv ==
    ASSUME Inv, NEW w \in Workers, settleWriteAttempt(w)
    PROVE  Inv'
<1>1. TypeOK'
  <2>1. target' \in Targets /\ target'.written <= target'.version
    BY BoundsAssumption DEF Inv, TypeOK, settleWriteAttempt, Acknowledged,
       Targets, States, Runs, ReadingsTrail
  <2>2. /\ samples' \in [Versions -> {"none", "pending", "converged", "superseded"}]
        /\ excluded' \subseteq Versions
    BY DEF Inv, TypeOK, settleWriteAttempt
  <2>3. jobs' \in [Jobs -> Nat]
    BY JobTypes, PutType DEF Inv, TypeOK, settleWriteAttempt
  <2>4. run' \in [Workers -> Runs]
    BY IdleType DEF Inv, TypeOK, settleWriteAttempt, Runs
  <2>5. QED
    BY <2>1, <2>2, <2>3, <2>4 DEF Inv, TypeOK, settleWriteAttempt
<1>2. NothingBeforeRow'
  <2>1. target'.version <= MaxVersion
    BY BoundsAssumption DEF Inv, TypeOK, NothingBeforeRow,
       settleWriteAttempt, Acknowledged, Targets
  <2>2. target'.version = 0 => /\ \A j \in Jobs : jobs'[j] = 0
                               /\ \A x \in Workers : run'[x].pc = "idle"
                               /\ rec'.pc = "idle"
    BY JobTypes, IdleType, RestingType DEF Inv, TypeOK, NothingBeforeRow,
       settleWriteAttempt, Acknowledged, Targets, Runs
  <2>3. \A x \in Workers : run'[x].held => run'[x].pc # "idle"
    BY IdleType DEF Inv, TypeOK, NothingBeforeRow, settleWriteAttempt, Runs
  <2>4. \A x \in Workers :
          run'[x].pc \in {"permit", "call", "settle", "close"} =>
              run'[x].version \in Versions
    BY IdleType, BoundsAssumption DEF Inv, TypeOK, NothingBeforeRow,
       settleWriteAttempt, Runs, Targets, Versions
  <2>5. QED
    BY <2>1, <2>2, <2>3, <2>4 DEF NothingBeforeRow
<1>3. LateAcknowledgementHarmless'
  BY DEF Inv, TypeOK, LateAcknowledgementHarmless, ReadingsTrail,
     settleWriteAttempt, Acknowledged, Targets, Runs, Idle
<1>4. ReadingsTrail'
  BY DEF Inv, TypeOK, ReadingsTrail, settleWriteAttempt, Acknowledged,
     Targets, Runs, Idle
<1>5. LeaseKept' => Exclusive' /\ ReadingsFresh'
  BY DEF Inv, TypeOK, ReadingsTrail, LeaseKept, Exclusive, ReadingsFresh,
     settleWriteAttempt, Acknowledged, Targets, Runs, Idle
<1>6. QED
  BY <1>1, <1>2, <1>3, <1>4, <1>5 DEF Inv

\* The handler ends; a verification is pending.
LEMMA CloseWriteInv ==
    ASSUME Inv, NEW w \in Workers, CloseWrite(w)
    PROVE  Inv'
<1>1. TypeOK'
  <2>1. target' \in Targets /\ target'.written <= target'.version
    BY BoundsAssumption DEF Inv, TypeOK, CloseWrite
  <2>2. /\ samples' \in [Versions -> {"none", "pending", "converged", "superseded"}]
        /\ excluded' \subseteq Versions
    BY DEF Inv, TypeOK, CloseWrite, markConverged, Close
  <2>3. jobs' \in [Jobs -> Nat]
    BY JobTypes, PutType DEF Inv, TypeOK, CloseWrite, Put
  <2>4. run' \in [Workers -> Runs]
    BY IdleType DEF Inv, TypeOK, CloseWrite, Return
  <2>5. QED
    BY <2>1, <2>2, <2>3, <2>4 DEF Inv, TypeOK, CloseWrite
<1>2. NothingBeforeRow'
  <2>1. target'.version <= MaxVersion
    BY BoundsAssumption DEF Inv, TypeOK, NothingBeforeRow, CloseWrite, Targets
  <2>2. target'.version = 0 => /\ \A j \in Jobs : jobs'[j] = 0
                               /\ \A x \in Workers : run'[x].pc = "idle"
                               /\ rec'.pc = "idle"
    BY JobTypes, IdleType, RestingType DEF Inv, TypeOK, NothingBeforeRow,
       CloseWrite, Put, Return, Targets, Runs
  <2>3. \A x \in Workers : run'[x].held => run'[x].pc # "idle"
    BY IdleType DEF Inv, TypeOK, NothingBeforeRow, CloseWrite, Return, Runs
  <2>4. \A x \in Workers :
          run'[x].pc \in {"permit", "call", "settle", "close"} =>
              run'[x].version \in Versions
    BY IdleType, BoundsAssumption DEF Inv, TypeOK, NothingBeforeRow,
       CloseWrite, Return, Runs, Targets, Versions
  <2>5. QED
    BY <2>1, <2>2, <2>3, <2>4 DEF NothingBeforeRow
<1>3. LateAcknowledgementHarmless'
  BY DEF Inv, TypeOK, LateAcknowledgementHarmless, ReadingsTrail, CloseWrite,
     Return, Targets, Runs, Idle
<1>4. ReadingsTrail'
  BY DEF Inv, TypeOK, ReadingsTrail, CloseWrite, Return, Targets, Runs, Idle
<1>5. LeaseKept' => Exclusive' /\ ReadingsFresh'
  BY DEF Inv, TypeOK, ReadingsTrail, LeaseKept, Exclusive, ReadingsFresh,
     CloseWrite, Return, Targets, Runs, Idle
<1>6. QED
  BY <1>1, <1>2, <1>3, <1>4, <1>5 DEF Inv

\* A failed write degrades or blocks the row and may be retried.
LEMMA FailWriteInv ==
    ASSUME Inv, NEW w \in Workers, failWrite(w)
    PROVE  Inv'
<1>1. TypeOK'
  <2>1. target' \in Targets /\ target'.written <= target'.version
    BY BoundsAssumption DEF Inv, TypeOK, failWrite, Targets, States
  <2>2. /\ samples' \in [Versions -> {"none", "pending", "converged", "superseded"}]
        /\ excluded' \subseteq Versions
    BY DEF Inv, TypeOK, failWrite, excludeSample, NothingBeforeRow
  <2>3. jobs' \in [Jobs -> Nat]
    <3>1. Retried(w) \in [Jobs -> Nat]
      <4>1. run[w].job \in Jobs
        BY DEF Inv, TypeOK, Runs
      <4>2. QED
        BY <4>1, PutType DEF Inv, TypeOK, Retried
    <3>2. jobs' = Retried(w) \/ jobs' = jobs
      BY DEF failWrite
    <3>3. QED
      BY <3>1, <3>2 DEF Inv, TypeOK
  <2>4. run' \in [Workers -> Runs]
    BY IdleType DEF Inv, TypeOK, failWrite, Return
  <2>5. QED
    BY <2>1, <2>2, <2>3, <2>4 DEF Inv, TypeOK, failWrite
<1>2. NothingBeforeRow'
  <2>1. target'.version <= MaxVersion
    BY BoundsAssumption DEF Inv, TypeOK, NothingBeforeRow, failWrite, Targets
  <2>2. target'.version = 0 => /\ \A j \in Jobs : jobs'[j] = 0
                               /\ \A x \in Workers : run'[x].pc = "idle"
                               /\ rec'.pc = "idle"
    BY JobTypes, IdleType, RestingType DEF Inv, TypeOK, NothingBeforeRow,
       failWrite, Retried, Put, Return, Targets, Runs
  <2>3. \A x \in Workers : run'[x].held => run'[x].pc # "idle"
    BY IdleType DEF Inv, TypeOK, NothingBeforeRow, failWrite, Return, Runs
  <2>4. \A x \in Workers :
          run'[x].pc \in {"permit", "call", "settle", "close"} =>
              run'[x].version \in Versions
    BY IdleType, BoundsAssumption DEF Inv, TypeOK, NothingBeforeRow,
       failWrite, Return, Runs, Targets, Versions
  <2>5. QED
    BY <2>1, <2>2, <2>3, <2>4 DEF NothingBeforeRow
<1>3. LateAcknowledgementHarmless'
  BY DEF Inv, TypeOK, LateAcknowledgementHarmless, ReadingsTrail, failWrite,
     Targets, Return, Runs, Idle
<1>4. ReadingsTrail'
  BY DEF Inv, TypeOK, ReadingsTrail, failWrite, Targets, Return, Runs, Idle
<1>5. LeaseKept' => Exclusive' /\ ReadingsFresh'
  BY DEF Inv, TypeOK, ReadingsTrail, LeaseKept, Exclusive, ReadingsFresh,
     failWrite, Targets, Return, Runs, Idle
<1>6. QED
  BY <1>1, <1>2, <1>3, <1>4, <1>5 DEF Inv

\* A verification reads the channel.
LEMMA ReadQuantitiesInv ==
    ASSUME Inv, NEW w \in Workers, readQuantities(w)
    PROVE  Inv'
<1>1. TypeOK'
  <2>1. target' \in Targets /\ target'.written <= target'.version
    BY BoundsAssumption DEF Inv, TypeOK, readQuantities
  <2>2. /\ samples' \in [Versions -> {"none", "pending", "converged", "superseded"}]
        /\ excluded' \subseteq Versions
    BY DEF Inv, TypeOK, readQuantities
  <2>3. jobs' \in [Jobs -> Nat]
    BY JobTypes, PutType DEF Inv, TypeOK, readQuantities, Claimable, Take
  <2>4. run' \in [Workers -> Runs]
    BY IdleType DEF Inv, TypeOK, readQuantities, Idle, Runs, Channels
  <2>5. QED
    BY <2>1, <2>2, <2>3, <2>4 DEF Inv, TypeOK, readQuantities
<1>2. NothingBeforeRow'
  <2>1. target'.version <= MaxVersion
    BY BoundsAssumption DEF Inv, TypeOK, NothingBeforeRow, readQuantities,
       Targets
  <2>2. target'.version = 0 => /\ \A j \in Jobs : jobs'[j] = 0
                               /\ \A x \in Workers : run'[x].pc = "idle"
                               /\ rec'.pc = "idle"
    BY JobTypes, IdleType, RestingType DEF Inv, TypeOK, NothingBeforeRow,
       readQuantities, Claimable, Take, Idle, Channels, Targets, Runs
  <2>3. \A x \in Workers : run'[x].held => run'[x].pc # "idle"
    BY IdleType DEF Inv, TypeOK, NothingBeforeRow, readQuantities, Idle,
       Channels, Runs
  <2>4. \A x \in Workers :
          run'[x].pc \in {"permit", "call", "settle", "close"} =>
              run'[x].version \in Versions
    BY IdleType, BoundsAssumption DEF Inv, TypeOK, NothingBeforeRow,
       readQuantities, Idle, Channels, Runs, Targets, Versions
  <2>5. QED
    BY <2>1, <2>2, <2>3, <2>4 DEF NothingBeforeRow
<1>3. LateAcknowledgementHarmless'
  BY DEF Inv, TypeOK, LateAcknowledgementHarmless, ReadingsTrail,
     readQuantities, Claimable, Idle, Runs, Targets
<1>4. ReadingsTrail'
  BY DEF Inv, TypeOK, ReadingsTrail, readQuantities, Claimable, Idle, Runs,
     Targets
<1>5. LeaseKept' => Exclusive' /\ ReadingsFresh'
  BY DEF Inv, TypeOK, ReadingsTrail, LeaseKept, Exclusive, ReadingsFresh,
     readQuantities, Claimable, Idle, Runs, Targets
<1>6. QED
  BY <1>1, <1>2, <1>3, <1>4, <1>5 DEF Inv

\* A verification records what it read.
LEMMA ObserveInv ==
    ASSUME Inv, NEW w \in Workers, Observe(w)
    PROVE  Inv'
<1>1. TypeOK'
  <2>1. target' \in Targets /\ target'.written <= target'.version
    BY BoundsAssumption DEF Inv, TypeOK, Observe, Targets, Runs
  <2>2. /\ samples' \in [Versions -> {"none", "pending", "converged", "superseded"}]
        /\ excluded' \subseteq Versions
    BY DEF Inv, TypeOK, Observe
  <2>3. jobs' \in [Jobs -> Nat]
    BY JobTypes, PutType DEF Inv, TypeOK, Observe
  <2>4. run' \in [Workers -> Runs]
    <3>1. run \in [Workers -> Runs]
      BY DEF Inv, TypeOK
    <3>2. PICK a \in {"agrees", "differs"} :
            run' = [run EXCEPT ![w].pc = "judge", ![w].answer = a]
      BY DEF Observe
    <3>3. \A r \in Runs : /\ [r EXCEPT !.pc = "judge"] \in Runs
                           /\ [r EXCEPT !.answer = a] \in Runs
      BY DEF Runs
    <3>4. run' = [run EXCEPT ![w] = [[run[w] EXCEPT !.pc = "judge"]
                                       EXCEPT !.answer = a]]
      BY <3>1, <3>2
    <3>5. QED
      BY <3>1, <3>3, <3>4, Zenon
  <2>5. QED
    BY <2>1, <2>2, <2>3, <2>4 DEF Inv, TypeOK, Observe
<1>2. NothingBeforeRow'
  <2>1. target'.version <= MaxVersion
    BY BoundsAssumption DEF Inv, TypeOK, NothingBeforeRow, Observe, Targets
  <2>2. target'.version = 0 => /\ \A j \in Jobs : jobs'[j] = 0
                               /\ \A x \in Workers : run'[x].pc = "idle"
                               /\ rec'.pc = "idle"
    BY JobTypes, IdleType, RestingType DEF Inv, TypeOK, NothingBeforeRow,
       Observe, Targets, Runs
  <2>3. \A x \in Workers : run'[x].held => run'[x].pc # "idle"
    BY IdleType DEF Inv, TypeOK, NothingBeforeRow, Observe, Runs
  <2>4. \A x \in Workers :
          run'[x].pc \in {"permit", "call", "settle", "close"} =>
              run'[x].version \in Versions
    BY IdleType, BoundsAssumption DEF Inv, TypeOK, NothingBeforeRow,
       Observe, Runs, Targets, Versions
  <2>5. QED
    BY <2>1, <2>2, <2>3, <2>4 DEF NothingBeforeRow
<1>3. LateAcknowledgementHarmless'
  BY DEF Inv, TypeOK, LateAcknowledgementHarmless, ReadingsTrail, Observe,
     Targets, Runs, Idle
<1>4. ReadingsTrail'
  BY DEF Inv, TypeOK, ReadingsTrail, Observe, Targets, Runs, Idle
<1>5. LeaseKept' => Exclusive' /\ ReadingsFresh'
  BY DEF Inv, TypeOK, ReadingsTrail, LeaseKept, Exclusive, ReadingsFresh,
     Observe, Targets, Runs, Idle
<1>6. QED
  BY <1>1, <1>2, <1>3, <1>4, <1>5 DEF Inv

\* A verification calls the row converged only when its newest version is the
\* written one.
LEMMA JudgeInv ==
    ASSUME Inv, NEW w \in Workers, Judge(w)
    PROVE  Inv'
<1>1. TypeOK'
  <2>1. target' \in Targets /\ target'.written <= target'.version
    BY BoundsAssumption DEF Inv, TypeOK, Judge, Judged, Targets, States
  <2>2. /\ samples' \in [Versions -> {"none", "pending", "converged", "superseded"}]
        /\ excluded' \subseteq Versions
    BY DEF Inv, TypeOK, Judge
  <2>3. jobs' \in [Jobs -> Nat]
    BY JobTypes, PutType DEF Inv, TypeOK, Judge
  <2>4. run' \in [Workers -> Runs]
    BY IdleType DEF Inv, TypeOK, Judge, Return
  <2>5. QED
    BY <2>1, <2>2, <2>3, <2>4 DEF Inv, TypeOK, Judge
<1>2. NothingBeforeRow'
  <2>1. target'.version <= MaxVersion
    BY BoundsAssumption DEF Inv, TypeOK, NothingBeforeRow, Judge, Judged,
       Targets
  <2>2. target'.version = 0 => /\ \A j \in Jobs : jobs'[j] = 0
                               /\ \A x \in Workers : run'[x].pc = "idle"
                               /\ rec'.pc = "idle"
    BY JobTypes, IdleType, RestingType DEF Inv, TypeOK, NothingBeforeRow,
       Judge, Judged, Return, Targets, Runs
  <2>3. \A x \in Workers : run'[x].held => run'[x].pc # "idle"
    BY IdleType DEF Inv, TypeOK, NothingBeforeRow, Judge, Return, Runs
  <2>4. \A x \in Workers :
          run'[x].pc \in {"permit", "call", "settle", "close"} =>
              run'[x].version \in Versions
    BY IdleType, BoundsAssumption DEF Inv, TypeOK, NothingBeforeRow, Judge,
       Return, Runs, Targets, Versions
  <2>5. QED
    BY <2>1, <2>2, <2>3, <2>4 DEF NothingBeforeRow
<1>3. LateAcknowledgementHarmless'
  BY DEF Inv, TypeOK, LateAcknowledgementHarmless, ReadingsTrail, Judge,
     Judged, Targets, Return, Runs, Idle
<1>4. ReadingsTrail'
  BY DEF Inv, TypeOK, ReadingsTrail, Judge, Judged, Targets, Return, Runs,
     Idle
<1>5. LeaseKept' => Exclusive' /\ ReadingsFresh'
  BY DEF Inv, TypeOK, ReadingsTrail, LeaseKept, Exclusive, ReadingsFresh,
     Judge, Judged, Targets, Return, Runs, Idle
<1>6. QED
  BY <1>1, <1>2, <1>3, <1>4, <1>5 DEF Inv

\* A dead worker's job is pending again and its reading is gone.
LEMMA CrashInv ==
    ASSUME Inv, NEW w \in Workers, Crash(w)
    PROVE  Inv'
<1>1. TypeOK'
  <2>1. target' \in Targets /\ target'.written <= target'.version
    BY BoundsAssumption DEF Inv, TypeOK, Crash, Suffer, Kinds
  <2>2. /\ samples' \in [Versions -> {"none", "pending", "converged", "superseded"}]
        /\ excluded' \subseteq Versions
    BY DEF Inv, TypeOK, Crash, Suffer, Kinds
  <2>3. jobs' \in [Jobs -> Nat]
    BY JobTypes, PutType DEF Inv, TypeOK, Crash, Suffer, Kinds, Retried
  <2>4. run' \in [Workers -> Runs]
    BY IdleType DEF Inv, TypeOK, Crash, Suffer, Kinds, Return
  <2>5. QED
    BY <2>1, <2>2, <2>3, <2>4 DEF Inv, TypeOK, Crash, Suffer, Kinds
<1>2. NothingBeforeRow'
  <2>1. target'.version <= MaxVersion
    BY BoundsAssumption DEF Inv, TypeOK, NothingBeforeRow, Crash, Suffer,
       Kinds, Targets
  <2>2. target'.version = 0 => /\ \A j \in Jobs : jobs'[j] = 0
                               /\ \A x \in Workers : run'[x].pc = "idle"
                               /\ rec'.pc = "idle"
    BY JobTypes, IdleType, RestingType DEF Inv, TypeOK, NothingBeforeRow,
       Crash, Suffer, Kinds, Retried, Return, Targets, Runs
  <2>3. \A x \in Workers : run'[x].held => run'[x].pc # "idle"
    BY IdleType DEF Inv, TypeOK, NothingBeforeRow, Crash, Suffer, Kinds,
       Return, Runs
  <2>4. \A x \in Workers :
          run'[x].pc \in {"permit", "call", "settle", "close"} =>
              run'[x].version \in Versions
    <3>1. \A x \in Workers : run'[x] = run[x] \/ run'[x].pc = "idle"
      BY IdleType DEF Inv, TypeOK, Crash, Return
    <3>2. \A x \in Workers :
            run[x].pc \in {"permit", "call", "settle", "close"} =>
                run[x].version \in Versions
      BY DEF Inv, NothingBeforeRow
    <3>3. QED
      BY <3>1, <3>2
  <2>5. QED
    BY <2>1, <2>2, <2>3, <2>4 DEF NothingBeforeRow
<1>3. LateAcknowledgementHarmless'
  BY DEF Inv, TypeOK, LateAcknowledgementHarmless, ReadingsTrail, Crash,
     Suffer, Return, Targets, Runs, Idle
<1>4. ReadingsTrail'
  BY DEF Inv, TypeOK, ReadingsTrail, Crash, Suffer, Return, Targets, Runs,
     Idle
<1>5. LeaseKept' => Exclusive' /\ ReadingsFresh'
  BY DEF Inv, TypeOK, ReadingsTrail, LeaseKept, Exclusive, ReadingsFresh,
     Crash, Suffer, Return, Targets, Runs, Idle
<1>6. QED
  BY <1>1, <1>2, <1>3, <1>4, <1>5 DEF Inv

\* A lost lease ends what is known of exclusion, and nothing else.
LEMMA LapseInv ==
    ASSUME Inv, NEW w \in Workers, Lapse(w)
    PROVE  Inv'
<1>1. TypeOK'
  <2>1. target' \in Targets /\ target'.written <= target'.version
    BY BoundsAssumption DEF Inv, TypeOK, Lapse, Suffer, Kinds
  <2>2. /\ samples' \in [Versions -> {"none", "pending", "converged", "superseded"}]
        /\ excluded' \subseteq Versions
    BY DEF Inv, TypeOK, Lapse, Suffer, Kinds
  <2>3. jobs' \in [Jobs -> Nat]
    BY JobTypes, PutType DEF Inv, TypeOK, Lapse, Suffer, Kinds
  <2>4. run' \in [Workers -> Runs]
    <3>1. run \in [Workers -> Runs]
      BY DEF Inv, TypeOK
    <3>2. \A r \in Runs : [r EXCEPT !.held = FALSE] \in Runs
      BY DEF Runs
    <3>3. run' = [run EXCEPT ![w] = [run[w] EXCEPT !.held = FALSE]]
      BY <3>1 DEF Lapse
    <3>4. QED
      BY <3>1, <3>2, <3>3, Zenon
  <2>5. QED
    BY <2>1, <2>2, <2>3, <2>4 DEF Inv, TypeOK, Lapse, Suffer, Kinds
<1>2. NothingBeforeRow'
  <2>1. target'.version <= MaxVersion
    BY BoundsAssumption DEF Inv, TypeOK, NothingBeforeRow, Lapse, Suffer,
       Kinds, Targets
  <2>2. target'.version = 0 => /\ \A j \in Jobs : jobs'[j] = 0
                               /\ \A x \in Workers : run'[x].pc = "idle"
                               /\ rec'.pc = "idle"
    BY JobTypes, IdleType, RestingType DEF Inv, TypeOK, NothingBeforeRow,
       Lapse, Suffer, Kinds, Targets, Runs
  <2>3. \A x \in Workers : run'[x].held => run'[x].pc # "idle"
    BY IdleType DEF Inv, TypeOK, NothingBeforeRow, Lapse, Suffer, Kinds, Runs
  <2>4. \A x \in Workers :
          run'[x].pc \in {"permit", "call", "settle", "close"} =>
              run'[x].version \in Versions
    <3>1. run \in [Workers -> Runs]
      BY DEF Inv, TypeOK
    <3>2. \A x \in Workers :
             run'[x].pc = run[x].pc /\ run'[x].version = run[x].version
      BY <3>1 DEF Lapse, Runs
    <3>3. QED
      BY <3>2 DEF Inv, NothingBeforeRow
  <2>5. QED
    BY <2>1, <2>2, <2>3, <2>4 DEF NothingBeforeRow
<1>3. LateAcknowledgementHarmless'
  BY DEF Inv, TypeOK, LateAcknowledgementHarmless, ReadingsTrail, Lapse,
     Suffer, Runs, Targets, Idle
<1>4. ReadingsTrail'
  BY DEF Inv, TypeOK, ReadingsTrail, Lapse, Suffer, Runs, Targets, Idle
<1>5. LeaseKept' => Exclusive' /\ ReadingsFresh'
  BY DEF Inv, TypeOK, ReadingsTrail, LeaseKept, Exclusive, ReadingsFresh,
     Lapse, Suffer, Runs, Targets, Idle, Kinds
<1>6. QED
  BY <1>1, <1>2, <1>3, <1>4, <1>5 DEF Inv

\* writeQuantities: what reaches the channel is the worker's reading.
LEMMA CallInv ==
    ASSUME Inv, NEW w \in Workers, writeQuantities(w)
    PROVE  Inv'
<1>1. /\ run[w].pc = "call" /\ run[w] \in Runs /\ run[w].version \in Versions
      /\ UNCHANGED <<target, samples, excluded, jobs, rec, conflict, permitted>>
  BY DEF writeQuantities, Inv, TypeOK, NothingBeforeRow
<1>2. /\ suffered' \in [Kinds -> Nat]
      /\ suffered'["lapse"] = suffered["lapse"]
  <2>1. suffered' = suffered \/ Suffer("fault")
    BY DEF writeQuantities
  <2>2. CASE suffered' = suffered
    BY <2>2 DEF Inv, TypeOK
  <2>3. CASE Suffer("fault")
    BY <2>3 DEF Suffer, Inv, TypeOK, Kinds
  <2>4. QED
    BY <2>1, <2>2, <2>3
<1>3. \/ channel' = channel /\ reached' = reached
      \/ /\ channel' = Applied(run[w].version, run[w].quantity)
         /\ reached' = reached \cup {run[w].version}
  BY DEF writeQuantities
<1>4. /\ channel' \in Channels
      /\ channel'.by \in {channel.by, run[w].version}
  <2>1. channel \in Channels /\ run[w].version \in Nat
        /\ run[w].quantity \in Quantities \cup {NoQuantity}
    BY <1>1 DEF Inv, TypeOK, Runs
  <2>2. CASE channel' = channel
    BY <2>1, <2>2
  <2>3. CASE channel' = Applied(run[w].version, run[w].quantity)
    BY <2>1, <2>3 DEF Applied, Channels
  <2>4. QED
    BY <1>3, <2>2, <2>3
<1>5. PICK a \in {"success", "conflict", "unavailable", "unauthorized", "rejected"},
           token \in Nat :
        run' = [run EXCEPT ![w].pc = "settle", ![w].answer = a, ![w].token = token]
  <2>1. channel'.token \in Nat
    BY <1>4 DEF Channels
  <2>2. QED
    BY <2>1, BoundsAssumption DEF writeQuantities
<1>6. /\ run' \in [Workers -> Runs]
      /\ \A x \in Workers : /\ run'[x].held = run[x].held
                            /\ run'[x].version = run[x].version
                            /\ x # w => run'[x] = run[x]
      /\ run'[w].pc = "settle"
  <2>1. run \in [Workers -> Runs]
    BY DEF Inv, TypeOK
  <2>2. \A r \in Runs : /\ [r EXCEPT !.pc = "settle"] \in Runs
                        /\ [r EXCEPT !.answer = a] \in Runs
                        /\ [r EXCEPT !.token = token] \in Runs
    BY DEF Runs
  <2>3. run' = [run EXCEPT ![w] = [[[run[w] EXCEPT !.pc = "settle"]
                                     EXCEPT !.answer = a] EXCEPT !.token = token]]
    BY <1>5, <2>1
  <2>4. run' \in [Workers -> Runs] /\ \A x \in Workers : x # w => run'[x] = run[x]
    BY <1>1, <2>1, <2>2, <2>3, Zenon
  <2>5. /\ run'[w].held = run[w].held /\ run'[w].version = run[w].version
        /\ run'[w].pc = "settle"
    BY <1>1, <2>1, <2>3 DEF Runs
  <2>6. QED
    BY <2>4, <2>5
<1>7. TypeOK'
  BY <1>1, <1>2, <1>3, <1>4, <1>6 DEF Inv, TypeOK
<1>8. NothingBeforeRow'
  BY <1>1, <1>6 DEF Inv, NothingBeforeRow
<1>9. LateAcknowledgementHarmless' /\ ReadingsTrail'
  BY <1>1, <1>4, <1>6 DEF Inv, LateAcknowledgementHarmless, ReadingsTrail
<1>10. LeaseKept' => Exclusive' /\ ReadingsFresh'
  <2> SUFFICES ASSUME LeaseKept PROVE Exclusive' /\ ReadingsFresh'
    BY <1>2 DEF LeaseKept
  <2>1. run[w].held /\ \A x \in Workers : x # w => run'[x].pc = "idle"
    BY <1>1, <1>6 DEF Inv, Exclusive
  <2>2. QED
    BY <1>1, <1>6, <2>1 DEF Inv, Exclusive, ReadingsFresh
<1>11. QED
  BY <1>7, <1>8, <1>9, <1>10 DEF Inv

\* A verification of a refused mapping is dropped.
LEMMA SkipVerifyInv ==
    ASSUME Inv, NEW w \in Workers, SkipVerify(w)
    PROVE  Inv'
<1>1. jobs' \in [Jobs -> Nat] /\ target.version # 0
  BY JobTypes DEF Inv, TypeOK, NothingBeforeRow, SkipVerify, Claimable, Take
<1>2. TypeOK'
  BY <1>1, SMT DEF Inv, TypeOK, SkipVerify
<1>3. QED
  BY <1>1, <1>2, Frame DEF Inv, NothingBeforeRow, SkipVerify

\* A verification whose read fails.
LEMMA FailVerifyInv ==
    ASSUME Inv, NEW w \in Workers, FailVerify(w)
    PROVE  Inv'
<1>1. /\ suffered' \in [Kinds -> Nat]
      /\ suffered'["lapse"] = suffered["lapse"]
  BY DEF Inv, TypeOK, FailVerify, Suffer, Kinds
<1>2. jobs' \in [Jobs -> Nat] /\ target.version # 0
  BY JobTypes DEF Inv, TypeOK, NothingBeforeRow, FailVerify, Claimable, Take
<1>3. TypeOK'
  BY <1>1, <1>2, SMT DEF Inv, TypeOK, FailVerify
<1>4. QED
  BY <1>1, <1>2, <1>3, Frame DEF Inv, NothingBeforeRow, FailVerify

\* examineMapping takes its own reading of the row.
LEMMA ExamineInv ==
    ASSUME Inv, examineMapping
    PROVE  Inv'
<1>1. /\ suffered' \in [Kinds -> Nat]
      /\ suffered'["lapse"] = suffered["lapse"]
  BY DEF Inv, TypeOK, examineMapping, Suffer, Kinds
<1>2. rec' \in Readings
  BY DEF Inv, TypeOK, examineMapping, Resting, Readings, Targets, NoQuantity
<1>3. TypeOK'
  BY <1>1, <1>2, SMT DEF Inv, TypeOK, examineMapping
<1>4. QED
  BY <1>1, <1>2, <1>3, Frame DEF Inv, NothingBeforeRow, examineMapping

\* The reconciliation reads the channel.
LEMMA ReadChannelInv ==
    ASSUME Inv, ReadChannel
    PROVE  Inv'
<1>1. rec' \in Readings /\ rec.pc # "idle"
  BY DEF Inv, TypeOK, ReadChannel, Readings, Channels
<1>2. TypeOK'
  BY <1>1, SMT DEF Inv, TypeOK, ReadChannel
<1>3. QED
  BY <1>1, <1>2, Frame DEF Inv, NothingBeforeRow, ReadChannel

\* The provider cannot be asked.
LEMMA UnreachableInv ==
    ASSUME Inv, Unreachable
    PROVE  Inv'
<1>1. /\ suffered' \in [Kinds -> Nat]
      /\ suffered'["lapse"] = suffered["lapse"]
  BY DEF Inv, TypeOK, Unreachable, Suffer, Kinds
<1>2. rec' \in Readings /\ rec'.pc = "idle"
  BY RestingType DEF Unreachable
<1>3. TypeOK'
  BY <1>1, <1>2, SMT DEF Inv, TypeOK, Unreachable
<1>4. QED
  BY <1>1, <1>2, <1>3, Frame DEF Inv, NothingBeforeRow, Unreachable

\* The observation is recorded.
LEMMA RecordObservationInv ==
    ASSUME Inv, recordObservation
    PROVE  Inv'
<1>1. /\ target' \in Targets /\ target'.version = target.version
      /\ target'.written = target.written
      /\ (target'.state = "converged" => target.state = "converged")
  BY DEF Inv, TypeOK, recordObservation, Readings, Targets, States
<1>2. rec' \in Readings /\ rec.pc # "idle"
  BY DEF Inv, TypeOK, recordObservation, Readings
<1>3. TypeOK'
  BY <1>1, <1>2, SMT DEF Inv, TypeOK, recordObservation
<1>4. QED
  BY <1>1, <1>2, <1>3, Frame DEF Inv, NothingBeforeRow, recordObservation

\* The channel agrees.
LEMMA MatchInv ==
    ASSUME Inv, Match
    PROVE  Inv'
<1>1. rec' \in Readings /\ rec'.pc = "idle"
  BY RestingType DEF Match
<1>2. TypeOK'
  BY <1>1, SMT DEF Inv, TypeOK, Match
<1>3. QED
  BY <1>1, <1>2, Frame DEF Inv, NothingBeforeRow, Match

\* A dry run changes nothing.
LEMMA DryRunInv ==
    ASSUME Inv, DryRun
    PROVE  Inv'
<1>1. rec' \in Readings /\ rec'.pc = "idle"
  BY RestingType DEF DryRun
<1>2. TypeOK'
  BY <1>1, SMT DEF Inv, TypeOK, DryRun
<1>3. QED
  BY <1>1, <1>2, Frame DEF Inv, NothingBeforeRow, DryRun

\* The newest target is sent again.
LEMMA ResendInv ==
    ASSUME Inv, Resend
    PROVE  Inv'
<1>1. rec' \in Readings /\ rec'.pc = "idle"
  BY RestingType DEF Resend
<1>2. jobs' \in [Jobs -> Nat] /\ rec.pc # "idle"
  BY PutType DEF Inv, TypeOK, Resend, enqueueChannelWrite
<1>3. TypeOK'
  BY <1>1, <1>2, SMT DEF Inv, TypeOK, Resend
<1>4. QED
  BY <1>1, <1>2, <1>3, Frame DEF Inv, NothingBeforeRow, Resend

\* A conflict blocks the row.
LEMMA OpenConflictInv ==
    ASSUME Inv, openConflict
    PROVE  Inv'
<1>1. /\ target' \in Targets /\ target'.version = target.version
      /\ target'.written = target.written
      /\ (target'.state = "converged" => target.state = "converged")
  BY DEF Inv, TypeOK, openConflict, blockTarget, Targets, States
<1>2. rec' \in Readings /\ rec.pc # "idle"
  BY RestingType DEF Inv, TypeOK, openConflict, Readings
<1>3. TypeOK'
  BY <1>1, <1>2, SMT DEF Inv, TypeOK, openConflict
<1>4. QED
  BY <1>1, <1>2, <1>3, Frame DEF Inv, NothingBeforeRow, openConflict

\* A reduction makes the row pending.
LEMMA ProtectiveReductionInv ==
    ASSUME Inv, ProtectiveReduction
    PROVE  Inv'
<1>1. /\ target' \in Targets /\ target'.version = target.version
      /\ target'.written = target.written
      /\ (target'.state = "converged" => target.state = "converged")
  BY DEF Inv, TypeOK, ProtectiveReduction, Targets, States
<1>2. rec' \in Readings /\ rec'.pc = "idle"
  BY RestingType DEF ProtectiveReduction
<1>3. jobs' \in [Jobs -> Nat] /\ rec.pc # "idle"
  BY PutType DEF Inv, TypeOK, ProtectiveReduction, enqueueChannelWrite
<1>4. TypeOK'
  BY <1>1, <1>2, <1>3, SMT DEF Inv, TypeOK, ProtectiveReduction
<1>5. QED
  BY <1>1, <1>2, <1>3, <1>4, Frame DEF Inv, NothingBeforeRow,
     ProtectiveReduction

\* A resolved conflict makes the row pending.
LEMMA ResolveConflictInv ==
    ASSUME Inv, resolveConflict
    PROVE  Inv'
<1>1. /\ target' \in Targets /\ target'.version = target.version
      /\ target'.written = target.written
      /\ (target'.state = "converged" => target.state = "converged")
  BY DEF Inv, TypeOK, resolveConflict, Targets, States
<1>2. conflict' \in BOOLEAN
  BY DEF resolveConflict
<1>3. UNCHANGED <<samples, excluded, jobs, run, rec, channel, permitted, reached,
                  suffered>>
  BY DEF resolveConflict
<1>4. TypeOK'
  BY <1>1, <1>2, <1>3 DEF Inv, TypeOK
<1>5. QED
  BY <1>1, <1>3, <1>4, Frame DEF Inv, NothingBeforeRow

\* Somebody else's change is no version of ours.
LEMMA ExternalEditInv ==
    ASSUME Inv, NEW q \in Quantities, ExternalEdit(q)
    PROVE  Inv'
<1>1. /\ suffered' \in [Kinds -> Nat]
      /\ suffered'["lapse"] = suffered["lapse"]
  BY DEF Inv, TypeOK, ExternalEdit, Suffer, Kinds
<1>2. channel' \in Channels /\ channel'.by = channel.by
  <2>1. channel \in Channels /\ channel.token + 1 \in Nat
    BY DEF Inv, TypeOK, Channels
  <2>2. \A c \in Channels : [c EXCEPT !.quantity = q] \in Channels
    BY DEF Channels
  <2>3. \A c \in Channels : [c EXCEPT !.token = channel.token + 1] \in Channels
    BY <2>1 DEF Channels
  <2>4. \A c \in Channels : [c EXCEPT !.edited = TRUE] \in Channels
    BY DEF Channels
  <2>5. channel' = [[[channel EXCEPT !.quantity = q]
                       EXCEPT !.token = channel.token + 1] EXCEPT !.edited = TRUE]
    BY <2>1 DEF ExternalEdit, Channels
  <2>6. channel' \in Channels
    BY <2>1, <2>2, <2>3, <2>4, <2>5, Zenon
  <2>7. channel'.by = channel.by
    BY <2>1, <2>5 DEF Channels
  <2>8. QED
    BY <2>6, <2>7
<1>3. TypeOK'
  BY <1>1, <1>2, SMT DEF Inv, TypeOK, ExternalEdit
<1>4. QED
  BY <1>1, <1>2, <1>3, Frame DEF Inv, NothingBeforeRow, ExternalEdit

\* A change of permission touches no version.
LEMMA SwitchPermissionInv ==
    ASSUME Inv, NEW p \in Permissions, SwitchPermission(p)
    PROVE  Inv'
<1>1. /\ suffered' \in [Kinds -> Nat]
      /\ suffered'["lapse"] = suffered["lapse"]
  BY DEF Inv, TypeOK, SwitchPermission, Suffer, Kinds
<1>2. TypeOK'
  BY <1>1, SMT DEF Inv, TypeOK, SwitchPermission
<1>3. QED
  BY <1>1, <1>2, Frame DEF Inv, NothingBeforeRow, SwitchPermission

-----------------------------------------------------------------------------
(* The theorems.                                                             *)

\* Init establishes the invariant.
LEMMA InitInv == Init => Inv
<1> SUFFICES ASSUME Init PROVE Inv
  OBVIOUS
<1>1. target \in Targets /\ target.version = 0 /\ target.written = 0
      /\ target.state = "pending"
  BY DEF Init, Targets, States
<1>2. channel \in Channels /\ channel.by = 0
  BY DEF Init, Channels
<1>3. TypeOK
  <2>1. target \in Targets /\ target.written <= target.version
    BY <1>1
  <2>2. samples \in [Versions -> {"none", "pending", "converged", "superseded"}]
        /\ excluded \subseteq Versions /\ reached \subseteq Versions
    BY DEF Init
  <2>3. jobs \in [Jobs -> Nat] /\ run \in [Workers -> Runs] /\ rec \in Readings
    BY IdleType, RestingType DEF Init
  <2>4. suffered \in [Kinds -> Nat] /\ permitted \in Permissions
    BY DEF Init, Permissions
  <2>5. conflict \in BOOLEAN
    BY DEF Init
  <2>6. QED
    BY <1>2, <2>1, <2>2, <2>3, <2>4, <2>5 DEF TypeOK
<1>4. NothingBeforeRow
  BY <1>1, IdleType, RestingType, BoundsAssumption DEF Init, NothingBeforeRow
<1>5. LateAcknowledgementHarmless /\ ReadingsTrail
  BY <1>1, <1>2, IdleType DEF Init, LateAcknowledgementHarmless, ReadingsTrail
<1>6. Exclusive /\ ReadingsFresh
  BY IdleType DEF Init, Exclusive, ReadingsFresh
<1>7. QED
  BY <1>3, <1>4, <1>5, <1>6 DEF Inv

\* Every step keeps it.
LEMMA NextInv == Inv /\ [Next]_vars => Inv'
<1> SUFFICES ASSUME Inv, [Next]_vars PROVE Inv'
  OBVIOUS
<1>1. ASSUME NEW q \in Quantities, refreshTargetsForItem(q) \/ ExternalEdit(q)
      PROVE  Inv'
  BY <1>1, RefreshInv, ExternalEditInv
<1>2. ASSUME NEW w \in Workers, NEW v \in Versions, StartWrite(w, v)
      PROVE  Inv'
  BY <1>2, StandDownInv, ReadForWriteInv DEF StartWrite
<1>3. ASSUME NEW w \in Workers, WriteStep(w)
      PROVE  Inv'
  BY <1>3, RefuseInv, WithholdInv, BeginInv, CallInv, SettleInv, CloseWriteInv,
     FailWriteInv DEF WriteStep
<1>4. ASSUME NEW w \in Workers, StartVerify(w) \/ VerifyStep(w)
      PROVE  Inv'
  BY <1>4, SkipVerifyInv, ReadQuantitiesInv, FailVerifyInv, ObserveInv, JudgeInv
     DEF StartVerify, VerifyStep
<1>5. ASSUME NEW w \in Workers, Crash(w) \/ Lapse(w)
      PROVE  Inv'
  BY <1>5, CrashInv, LapseInv
<1>6. ASSUME Reconcile
      PROVE  Inv'
  BY <1>6, ExamineInv, ReadChannelInv, UnreachableInv, RecordObservationInv,
     MatchInv, DryRunInv, ResendInv, OpenConflictInv, ProtectiveReductionInv
     DEF Reconcile
<1>7. ASSUME NEW p \in Permissions, SwitchPermission(p)
      PROVE  Inv'
  BY <1>7, SwitchPermissionInv
<1>8. CASE UNCHANGED vars
  BY <1>8 DEF vars, Inv, TypeOK, NothingBeforeRow, LateAcknowledgementHarmless,
     ReadingsTrail, LeaseKept, Exclusive, ReadingsFresh
<1>9. QED
  BY <1>1, <1>2, <1>3, <1>4, <1>5, <1>6, <1>7, <1>8, ResolveConflictInv DEF Next

\* Only a write of ours moves the channel's newest version, and while leases
\* are kept it moves it forward.
LEMMA ChannelForward ==
    ASSUME Inv, [Next]_vars, LeaseKept
    PROVE  channel'.by >= channel.by
<1>1. channel.by \in Nat
  BY DEF Inv, TypeOK, Channels
<1>2. ASSUME NEW w \in Workers, writeQuantities(w)
      PROVE  channel'.by >= channel.by
  <2>1. channel' = channel \/ channel' = Applied(run[w].version, run[w].quantity)
    BY <1>2 DEF writeQuantities
  <2>2. run[w].pc = "call" /\ run[w].version \in Nat
    BY <1>2 DEF writeQuantities, Inv, TypeOK, Runs
  <2>3. channel.by <= run[w].version
    BY <2>2 DEF Inv, ReadingsFresh
  <2>4. QED
    BY <1>1, <2>1, <2>2, <2>3 DEF Applied
<1>3. ASSUME NEW q \in Quantities, ExternalEdit(q)
      PROVE  channel'.by = channel.by
  BY <1>3 DEF ExternalEdit, Inv, TypeOK, Channels
<1>4. \/ \E w \in Workers : writeQuantities(w)
      \/ \E q \in Quantities : ExternalEdit(q)
      \/ channel' = channel
  BY DEF Next, vars, StartWrite, WriteStep, StartVerify, VerifyStep, Reconcile,
     refreshTargetsForItem, StandDown, ReadForWrite, Refuse, Withhold,
     beginWriteAttempt, settleWriteAttempt, CloseWrite, failWrite, SkipVerify,
     readQuantities, FailVerify, Observe, Judge, examineMapping, ReadChannel,
     recordObservation, Unreachable, Match, DryRun, Resend, openConflict,
     ProtectiveReduction, resolveConflict, Crash, Lapse, SwitchPermission
<1>5. QED
  BY <1>1, <1>2, <1>3, <1>4

\* The invariant holds throughout.
THEOREM Invariance == Spec => []Inv
<1>1. QED
  BY InitInv, NextInv, PTL DEF Spec

\* The row, the jobs and the handlers keep their types, and no version is
\* recorded as written that was never desired (the check of migration 0015).
THEOREM TypeCorrect == Spec => []TypeOK
<1>1. Inv => TypeOK
  BY DEF Inv
<1>2. QED
  BY <1>1, Invariance, PTL

\* settleWriteAttempt's promise, for every interleaving of workers that lose
\* their leases: a late acknowledgement never makes a row look converged.
THEOREM LateAcknowledgements == Spec => []LateAcknowledgementHarmless
<1>1. Inv => LateAcknowledgementHarmless
  BY DEF Inv
<1>2. QED
  BY <1>1, Invariance, PTL

\* Section 12's rule on the channel itself, for every number of workers and
\* versions: while leases are kept, an older target never replaces a newer one.
THEOREM NewestStays == Spec => OlderNeverOverwritesNewer
<1>1. Inv /\ [Next]_vars =>
        [suffered["lapse"] = 0 => channel'.by >= channel.by]_vars
  BY ChannelForward DEF LeaseKept
<1>2. QED
  BY <1>1, Invariance, PTL DEF Spec, OlderNeverOverwritesNewer

-----------------------------------------------------------------------------
(* ConvergedIsTrue.  What a write carries is the desired quantity of its     *)
(* version, so a channel whose newest write has the row's version shows what *)
(* the row desires; and while no lease is lost the channel is never behind   *)
(* what the row says has been written.                                       *)

CarriesDesired ==
    \A w \in Workers :
        run[w].pc \in {"permit", "call", "settle"} /\ run[w].version = target.version
        => run[w].quantity = target.desired

NewestIsDesired ==
    target.version # 0 /\ channel.by = target.version =>
        channel.edited \/ channel.quantity = target.desired

WrittenIsReached ==
    /\ target.written <= channel.by
    /\ \A w \in Workers :
          run[w].pc = "settle" /\ run[w].answer = "success" => channel.by = run[w].version

ConvergedWasWritten == target.state = "converged" => target.written # 0

Delivery ==
    /\ ConvergedWasWritten
    /\ CarriesDesired
    /\ NewestIsDesired
    /\ LeaseKept => WrittenIsReached

\* A step that leaves the desired and written quantities and the channel alone, and
\* changes handlers only by moving a write up to its call, or by ending or
\* beginning something that is no write.
Quiet ==
    /\ target'.version = target.version /\ target'.desired = target.desired
    /\ target'.written = target.written /\ channel' = channel
    /\ target'.state = "converged" => target.state = "converged" \/ target.written # 0
    /\ suffered["lapse"] = 0 \/ suffered'["lapse"] # 0
    /\ \A x \in Workers : run'[x].pc \in {"permit", "call", "settle"} =>
          /\ run[x].pc \in {"permit", "call", "settle"}
          /\ run'[x].version = run[x].version /\ run'[x].quantity = run[x].quantity
          /\ run'[x].pc = "settle" => run[x].pc = "settle" /\ run'[x].answer = run[x].answer

LEMMA QuietKeeps ==
    ASSUME Delivery, Quiet
    PROVE  Delivery'
<1>1. CarriesDesired'
  BY DEF Delivery, Quiet, CarriesDesired
<1>2. NewestIsDesired'
  BY DEF Delivery, Quiet, NewestIsDesired
<1>3. LeaseKept' => WrittenIsReached'
  BY DEF Delivery, Quiet, LeaseKept, WrittenIsReached
<1>4. ConvergedWasWritten'
  BY DEF Delivery, Quiet, ConvergedWasWritten
<1>5. QED
  BY <1>1, <1>2, <1>3, <1>4 DEF Delivery

\* Steps around the handlers are quiet.
LEMMA QuietAround ==
    ASSUME Inv,
           \/ Reconcile \/ resolveConflict \/ UNCHANGED vars
           \/ \E p \in Permissions : SwitchPermission(p)
           \/ \E w \in Workers, v \in Versions : StandDown(w, v)
           \/ \E w \in Workers : SkipVerify(w) \/ FailVerify(w)
    PROVE  Quiet
<1>1. target \in Targets /\ run' = run /\ channel' = channel
  BY DEF Inv, TypeOK, Reconcile, examineMapping, ReadChannel, recordObservation, Unreachable,
     Match, DryRun, Resend, openConflict, ProtectiveReduction, resolveConflict, vars,
     SwitchPermission, StandDown, SkipVerify, FailVerify
<1>2. \/ target' = target \/ target' = blockTarget
      \/ target' = [target EXCEPT !.state = "pending"]
      \/ target' = [target EXCEPT !.token = rec.token]
  BY DEF Reconcile, examineMapping, ReadChannel, recordObservation, Unreachable,
     Match, DryRun, Resend, openConflict, ProtectiveReduction, resolveConflict, vars,
     SwitchPermission, StandDown, SkipVerify, FailVerify
<1>3. target'.version = target.version /\ target'.desired = target.desired
      /\ target'.written = target.written
      /\ (target'.state = "converged" => target.state = "converged")
  BY <1>1, <1>2 DEF Targets, blockTarget
<1>4. suffered'["lapse"] = suffered["lapse"]
  BY DEF Inv, TypeOK, Reconcile, examineMapping, ReadChannel, recordObservation, Unreachable,
     Match, DryRun, Resend, openConflict, ProtectiveReduction, resolveConflict, vars,
     SwitchPermission, StandDown, SkipVerify, FailVerify, Suffer, Kinds
<1>5. QED
  BY <1>1, <1>3, <1>4 DEF Quiet

\* So are a handler's other steps, and its end.
LEMMA QuietHandlers ==
    ASSUME Inv, NEW w \in Workers,
           \/ Refuse(w) \/ Withhold(w) \/ beginWriteAttempt(w) \/ CloseWrite(w)
           \/ failWrite(w) \/ readQuantities(w) \/ Observe(w) \/ Judge(w)
           \/ Crash(w) \/ Lapse(w)
    PROVE  Quiet
<1>1. target \in Targets /\ run \in [Workers -> Runs] /\ channel' = channel
  BY DEF Inv, TypeOK, Refuse, Withhold, beginWriteAttempt, CloseWrite, failWrite,
     readQuantities, Observe, Judge, Crash, Lapse
<1>2. \/ target' = target
      \/ \E s \in {"blocked", "degraded"} : target' = [target EXCEPT !.state = s]
      \/ \E agrees \in BOOLEAN : target' = [target EXCEPT !.state = Judged(agrees)]
      \/ target' = [target EXCEPT !.token = run[w].token]
  BY DEF Refuse, Withhold, beginWriteAttempt, CloseWrite, failWrite,
     readQuantities, Observe, Judge, Crash, Lapse, blockTarget
<1>3. target'.version = target.version /\ target'.desired = target.desired
      /\ target'.written = target.written
      /\ (target'.state = "converged" => target.state = "converged" \/ target.written # 0)
  <2>1. \A agrees \in BOOLEAN : target.written = 0 => Judged(agrees) = target.state
    BY DEF Judged
  <2>2. QED
    BY <1>1, <1>2, <2>1 DEF Targets
<1>4. suffered["lapse"] = 0 \/ suffered'["lapse"] # 0
  BY DEF Inv, TypeOK, Refuse, Withhold, beginWriteAttempt, CloseWrite, failWrite,
     readQuantities, Observe, Judge, Crash, Lapse, Suffer, Kinds
<1>5. \A x \in Workers : x # w => run'[x] = run[x]
  BY <1>1 DEF Refuse, Withhold, beginWriteAttempt, CloseWrite, failWrite,
     readQuantities, Observe, Judge, Crash, Lapse, Return
<1>6. run'[w].pc \in {"permit", "call", "settle"} =>
          /\ run[w].pc \in {"permit", "call", "settle"}
          /\ run'[w].version = run[w].version /\ run'[w].quantity = run[w].quantity
          /\ run'[w].pc = "settle" => run[w].pc = "settle" /\ run'[w].answer = run[w].answer
  <2>1. CASE Refuse(w) \/ Withhold(w) \/ CloseWrite(w) \/ failWrite(w) \/ Judge(w) \/ Crash(w)
    BY <1>1, <2>1 DEF Refuse, Withhold, CloseWrite, failWrite, Judge, Crash, Return, Idle
  <2>2. CASE beginWriteAttempt(w)
    BY <1>1, <2>2 DEF beginWriteAttempt, Runs
  <2>3. CASE readQuantities(w)
    BY <1>1, <2>3 DEF readQuantities, Idle
  <2>4. CASE Observe(w)
    BY <1>1, <2>4 DEF Observe, Runs
  <2>5. CASE Lapse(w)
    BY <1>1, <2>5 DEF Lapse, Runs
  <2>6. QED
    BY <2>1, <2>2, <2>3, <2>4, <2>5
<1>7. QED
  BY <1>1, <1>3, <1>4, <1>5, <1>6 DEF Quiet

\* A new version is one that no reading and nothing on the channel has.
LEMMA RefreshDelivery ==
    ASSUME Inv, Delivery, NEW q \in Quantities, refreshTargetsForItem(q)
    PROVE  Delivery'
<1>1. target \in Targets /\ run' = run /\ channel' = channel /\ suffered' = suffered
  BY DEF refreshTargetsForItem, Inv, TypeOK
<1>2. CASE target' = target
  <2>1. Quiet
    BY <1>1, <1>2 DEF Quiet
  <2>2. QED
    BY <2>1, QuietKeeps
<1>3. CASE target' # target
  <2>1. target'.version = target.version + 1 /\ target'.written = target.written
    BY <1>1, <1>3 DEF refreshTargetsForItem, Desired, Targets
  <2>2. target.version \in Nat /\ channel.by \in Nat /\ channel.by <= target.version
    BY <1>1 DEF Inv, TypeOK, ReadingsTrail, Targets, Channels
  <2>3. \A x \in Workers : run[x].version \in Nat /\ run[x].version <= target.version
    BY DEF Inv, TypeOK, ReadingsTrail, Runs
  <2>4. CarriesDesired' /\ NewestIsDesired'
    BY <1>1, <2>1, <2>2, <2>3 DEF CarriesDesired, NewestIsDesired
  <2>5. LeaseKept' => WrittenIsReached'
    BY <1>1, <2>1 DEF Delivery, LeaseKept, WrittenIsReached
  <2>6. ConvergedWasWritten'
    BY <1>1, <1>3 DEF refreshTargetsForItem, Desired, Targets, ConvergedWasWritten
  <2>7. QED
    BY <2>4, <2>5, <2>6 DEF Delivery
<1>4. QED
  BY <1>2, <1>3

\* A reading takes the version and the quantity together.
LEMMA ReadForWriteDelivery ==
    ASSUME Inv, Delivery, NEW w \in Workers, NEW v \in Versions, ReadForWrite(w, v)
    PROVE  Delivery'
<1>1. /\ run \in [Workers -> Runs] /\ target' = target /\ channel' = channel
      /\ suffered' = suffered
  BY DEF ReadForWrite, Inv, TypeOK
<1>2. /\ run'[w].pc = "permit" /\ run'[w].quantity = target.desired
      /\ \A x \in Workers : x # w => run'[x] = run[x]
  BY <1>1 DEF ReadForWrite, Idle
<1>3. CarriesDesired'
  BY <1>1, <1>2 DEF Delivery, CarriesDesired
<1>4. NewestIsDesired'
  BY <1>1 DEF Delivery, NewestIsDesired
<1>5. LeaseKept' => WrittenIsReached'
  BY <1>1, <1>2 DEF Delivery, LeaseKept, WrittenIsReached
<1>6. ConvergedWasWritten'
  BY <1>1 DEF Delivery, ConvergedWasWritten
<1>7. QED
  BY <1>3, <1>4, <1>5, <1>6 DEF Delivery

\* An applied write shows what it carries.  Alone with its job, it is the newest.
LEMMA CallDelivery ==
    ASSUME Inv, Delivery, NEW w \in Workers, writeQuantities(w)
    PROVE  Delivery'
<1>1. /\ run \in [Workers -> Runs] /\ run[w].pc = "call" /\ target' = target
      /\ target \in Targets /\ channel.by \in Nat /\ run[w].version \in Nat
  BY DEF writeQuantities, Inv, TypeOK, Runs, Channels
<1>2. /\ \A x \in Workers : x # w => run'[x] = run[x]
      /\ run'[w].pc = "settle" /\ run'[w].version = run[w].version
      /\ run'[w].quantity = run[w].quantity
      /\ \/ channel' = Applied(run[w].version, run[w].quantity)
         \/ channel' = channel /\ run'[w].answer # "success"
  <2>1. \E a, t : /\ run' = [run EXCEPT ![w].pc = "settle", ![w].answer = a, ![w].token = t]
                  /\ \/ channel' = Applied(run[w].version, run[w].quantity)
                     \/ channel' = channel /\ a # "success"
    <3>1. CASE /\ channel' = Applied(run[w].version, run[w].quantity)
               /\ \E a, t : run' = [run EXCEPT ![w].pc = "settle", ![w].answer = a, ![w].token = t]
      BY <3>1
    <3>2. CASE /\ channel' = channel
               /\ \E a \in Faults \cup {"conflict"} :
                    run' = [run EXCEPT ![w].pc = "settle", ![w].answer = a, ![w].token = 0]
      BY <3>2, BoundsAssumption
    <3>3. QED
      BY <3>1, <3>2 DEF writeQuantities
  <2>2. QED
    BY <1>1, <2>1 DEF Runs
<1>3. CarriesDesired'
  BY <1>1, <1>2 DEF Delivery, CarriesDesired
<1>4. NewestIsDesired'
  <2>1. run[w].version = target.version => run[w].quantity = target.desired
    BY <1>1 DEF Delivery, CarriesDesired
  <2>2. QED
    BY <1>1, <1>2, <2>1 DEF Delivery, NewestIsDesired, Applied
<1>5. ASSUME LeaseKept' PROVE WrittenIsReached'
  <2>1. LeaseKept
    BY <1>5 DEF LeaseKept, writeQuantities, Suffer, Inv, TypeOK, Kinds
  <2>2. target.written <= channel.by /\ target.written \in Nat /\ channel.by <= run[w].version
    BY <1>1, <2>1 DEF Inv, ReadingsFresh, Delivery, WrittenIsReached, Targets
  <2>3. \A x \in Workers : x # w => run[x].pc = "idle"
    BY <1>1, <2>1 DEF Inv, Exclusive
  <2>4. target'.written <= channel'.by
    BY <1>1, <1>2, <2>2 DEF Applied
  <2>5. run'[w].answer = "success" => channel'.by = run'[w].version
    BY <1>2 DEF Applied
  <2>6. QED
    BY <1>2, <2>3, <2>4, <2>5 DEF WrittenIsReached
<1>6. ConvergedWasWritten'
  BY <1>1 DEF Delivery, ConvergedWasWritten
<1>7. QED
  BY <1>3, <1>4, <1>5, <1>6 DEF Delivery

\* An acknowledged version is on the channel.
LEMMA SettleDelivery ==
    ASSUME Inv, Delivery, NEW w \in Workers, settleWriteAttempt(w)
    PROVE  Delivery'
<1>1. /\ run \in [Workers -> Runs] /\ run[w].pc = "settle" /\ run[w].answer = "success"
      /\ target \in Targets /\ channel' = channel /\ suffered' = suffered
  BY DEF settleWriteAttempt, Inv, TypeOK
<1>2. target'.version = target.version /\ target'.desired = target.desired
      /\ target'.written \in {target.written, run[w].version}
  BY <1>1 DEF settleWriteAttempt, Acknowledged, Targets
<1>3. run'[w].pc = "close" /\ \A x \in Workers : x # w => run'[x] = run[x]
  BY <1>1 DEF settleWriteAttempt, Runs
<1>4. CarriesDesired' /\ NewestIsDesired'
  BY <1>1, <1>2, <1>3 DEF Delivery, CarriesDesired, NewestIsDesired
<1>5. ASSUME LeaseKept' PROVE WrittenIsReached'
  <2>1. LeaseKept
    BY <1>1, <1>5 DEF LeaseKept
  <2>2. channel.by = run[w].version /\ target.written <= channel.by /\ channel.by \in Nat
    BY <1>1, <2>1 DEF Delivery, WrittenIsReached, Inv, TypeOK, Channels
  <2>3. QED
    BY <1>1, <1>2, <1>3, <2>1, <2>2 DEF Delivery, WrittenIsReached
<1>6. ConvergedWasWritten'
  <2>1. run[w].version # 0
    BY <1>1 DEF Inv, NothingBeforeRow, Versions
  <2>2. QED
    BY <1>1, <2>1 DEF Delivery, ConvergedWasWritten, settleWriteAttempt, Acknowledged, Targets
<1>7. QED
  BY <1>4, <1>5, <1>6 DEF Delivery

LEMMA EditDelivery ==
    ASSUME Inv, Delivery, NEW q \in Quantities, ExternalEdit(q)
    PROVE  Delivery'
<1>1. /\ channel \in Channels /\ run' = run /\ target' = target
      /\ channel'.by = channel.by /\ channel'.edited
  BY DEF ExternalEdit, Inv, TypeOK, Channels
<1>2. suffered'["lapse"] = suffered["lapse"]
  BY DEF ExternalEdit, Suffer, Inv, TypeOK, Kinds
<1>3. QED
  BY <1>1, <1>2 DEF Delivery, ConvergedWasWritten, CarriesDesired, NewestIsDesired, LeaseKept,
     WrittenIsReached

LEMMA NextDelivery == Inv /\ Delivery /\ [Next]_vars => Delivery'
<1> SUFFICES ASSUME Inv, Delivery, [Next]_vars PROVE Delivery'
  OBVIOUS
<1>1. ASSUME NEW q \in Quantities, refreshTargetsForItem(q) \/ ExternalEdit(q)
      PROVE  Delivery'
  BY <1>1, RefreshDelivery, EditDelivery
<1>2. ASSUME NEW w \in Workers, NEW v \in Versions, StartWrite(w, v)
      PROVE  Delivery'
  BY <1>2, ReadForWriteDelivery, QuietAround, QuietKeeps DEF StartWrite
<1>3. ASSUME NEW w \in Workers, WriteStep(w) \/ VerifyStep(w) \/ Crash(w) \/ Lapse(w)
      PROVE  Delivery'
  BY <1>3, CallDelivery, SettleDelivery, QuietHandlers, QuietKeeps DEF WriteStep, VerifyStep
<1>4. ASSUME NEW w \in Workers, StartVerify(w)
      PROVE  Delivery'
  BY <1>4, QuietAround, QuietHandlers, QuietKeeps DEF StartVerify
<1>5. CASE Reconcile \/ resolveConflict \/ UNCHANGED vars \/ \E p \in Permissions : SwitchPermission(p)
  BY <1>5, QuietAround, QuietKeeps
<1>6. QED
  BY <1>1, <1>2, <1>3, <1>4, <1>5 DEF Next

LEMMA DeliveryInvariance == Spec => []Delivery
<1>1. Init => Delivery
  BY DEF Init, Idle, Delivery, ConvergedWasWritten, CarriesDesired, NewestIsDesired,
     WrittenIsReached
<1>2. QED
  BY <1>1, Invariance, NextDelivery, PTL DEF Spec

\* For every number of workers, quantities, versions and disturbances: a row says
\* converged only while the channel shows what the row desires, unless somebody else
\* changed it or a worker has outlived its lease (settleWriteAttempt, Judge of
\* handleChannelVerify).
THEOREM ConvergedStaysTrue == Spec => []ConvergedIsTrue
<1>1. ASSUME Inv, Delivery PROVE ConvergedIsTrue
  <2> SUFFICES ASSUME target.state = "converged", LeaseKept
               PROVE  channel.edited \/ channel.quantity = target.desired
    BY DEF ConvergedIsTrue, LeaseKept
  <2>1. target.written = target.version /\ channel.by <= target.version /\ target.written # 0
    BY <1>1 DEF Inv, LateAcknowledgementHarmless, ReadingsTrail, Delivery, ConvergedWasWritten
  <2>2. target.written <= channel.by
    BY <1>1 DEF Delivery, WrittenIsReached
  <2>3. target.version \in Nat /\ channel.by \in Nat
    BY <1>1 DEF Inv, TypeOK, Targets, Channels
  <2>4. channel.by = target.version
    BY <2>1, <2>2, <2>3
  <2>5. QED
    BY <1>1, <2>1, <2>4 DEF Delivery, NewestIsDesired
<1>2. QED
  BY <1>1, Invariance, DeliveryInvariance, PTL

=============================================================================
