--------------------------------- MODULE Pilot ---------------------------------
(***************************************************************************)
(* The staged pilot of one business (packages/pilot): which mappings may   *)
(* be written at which stage, the oversales somebody must classify, the    *)
(* drills, and the report that says whether the pilot passes.  None of it  *)
(* runs in a transaction: each statement of setStage and of enroll commits *)
(* by itself.  Time is in days.                                            *)
(***************************************************************************)
EXTENDS Integers, FiniteSets, FiniteSetsExt

CONSTANTS
    Enrollable,             \* mappings
    Operators,              \* calls of the pilot screen that run at the same time
    CohortLimits,
    OversaleAlerts,         \* alerts an oversale is filed against
    Evidence,               \* what the rest of the system left behind, see Count
    PILOT_DURATION_DAYS, MIN_SETTLED_SAMPLES,
    SLO_TARGET, SLO_TAIL, BASELINE_INTERVAL,
    LastDay,                \* bound on time
    MaxDrills               \* bound on the drills recorded

ASSUME PilotAssumption ==
    /\ PILOT_DURATION_DAYS \in Nat /\ MIN_SETTLED_SAMPLES \in Nat /\ LastDay \in Nat
    /\ MaxDrills \in Nat
    /\ CohortLimits \subseteq Nat

Never == -1
NoLimit == -1

VARIABLES
    day,
    stage,          \* business_pilot_stages, or NoStage
    enrolled,       \* pilot_enrollments
    screens,        \* calls that have read and not yet written
    gated,          \* the gate's last answer, and the stage a withheld write is recorded with
    incidents,      \* pilot_incidents by the alert they are filed against
    drills,         \* pilot_drills
    served,         \* history: the first day the gate let a write through, once there was a stage
    evidence        \* samples and events of the other components

pilotVars == <<day, stage, enrolled, screens, gated, incidents, drills, served, evidence>>

NoStage == [stage |-> "full", limit |-> NoLimit, started |-> Never, row |-> FALSE]
Stages == {"observe", "single", "cohort", "full"}

-------------------------------------------------------------------------------
\* Stages.

stageCeiling(s, limit) ==
    CASE s = "observe" -> 0 [] s = "single" -> 1 [] s = "cohort" -> limit [] s = "full" -> NoLimit

\* Nobody's row is everybody's permission.
mayWrite(m) == stage.stage = "full" \/ (stage.stage # "observe" /\ m \in enrolled)

\* A write is let through, or recorded as withheld (recordWithheld).
GateAsked(m) ==
    /\ gated' = [mapping |-> m, withheld |-> IF mayWrite(m) THEN "no" ELSE stage.stage]
    /\ served' = IF stage.row /\ mayWrite(m) /\ served = Never THEN day ELSE served
    /\ UNCHANGED <<day, stage, enrolled, screens, incidents, drills, evidence>>

\* setStage counts the enrollments, and refuses to narrow below them, before it writes.
SetStageAction(o, s, limit) ==
    /\ screens[o].step = "idle"
    /\ s = "cohort" <=> limit # NoLimit
    /\ s = "cohort" => limit >= 1
    /\ LET ceiling == stageCeiling(s, limit)
       IN  ceiling # NoLimit => (IF stage.row THEN Cardinality(enrolled) ELSE 0) <= ceiling
    /\ screens' = [screens EXCEPT ![o] = [step |-> "stage", stage |-> s, limit |-> limit]]
    /\ UNCHANGED <<day, stage, enrolled, gated, incidents, drills, served, evidence>>

\* MUTANT of stamped: every change out of observe starts the clock anew.
stamped_Anew(s) == IF s = "observe" THEN stage.started ELSE day

\* Stamped by the first change out of observe, and never afterwards.
stamped(s) == IF s = "observe" \/ stage.started # Never THEN stage.started ELSE day

setStage(o) ==
    /\ screens[o].step = "stage"
    /\ LET s == screens[o].stage
       IN  stage' = [stage |-> s, limit |-> screens[o].limit, started |-> stamped(s), row |-> TRUE]
    /\ screens' = [screens EXCEPT ![o] = [step |-> "idle"]]
    /\ UNCHANGED <<day, enrolled, gated, incidents, drills, served, evidence>>

\* The stage is read for update, then the enrollments are counted, then one is inserted.
EnrollAction(o, m) ==
    /\ screens[o].step = "idle"
    /\ stage.row /\ stage.stage # "full"
    /\ screens' = [screens EXCEPT ![o] = [step |-> "count", mapping |-> m,
                                          ceiling |-> stageCeiling(stage.stage, stage.limit)]]
    /\ UNCHANGED <<day, stage, enrolled, gated, incidents, drills, served, evidence>>

enrollCounts(o) ==
    /\ screens[o].step = "count"
    /\ LET e == screens[o]
           room == e.mapping \notin enrolled /\ Cardinality(enrolled) < e.ceiling
       IN  screens' = [screens EXCEPT ![o] = IF room THEN [step |-> "insert", mapping |-> e.mapping]
                                             ELSE [step |-> "idle"]]
    /\ UNCHANGED <<day, stage, enrolled, gated, incidents, drills, served, evidence>>

enroll(o) ==
    /\ screens[o].step = "insert"
    /\ enrolled' = enrolled \cup {screens[o].mapping}
    /\ screens' = [screens EXCEPT ![o] = [step |-> "idle"]]
    /\ UNCHANGED <<day, stage, gated, incidents, drills, served, evidence>>

UnenrollAction(m) ==
    /\ m \in enrolled
    /\ enrolled' = enrolled \ {m}
    /\ UNCHANGED <<day, stage, screens, gated, incidents, drills, served, evidence>>

-------------------------------------------------------------------------------
\* Incidents and drills.

\* One incident for one alert, however often the alert is raised again.
fileIncident(a) ==
    /\ incidents' = IF incidents[a].at # Never THEN incidents
                    ELSE [incidents EXCEPT ![a] = [at |-> day, class |-> "unreviewed"]]
    /\ UNCHANGED <<day, stage, enrolled, screens, gated, drills, served, evidence>>

ClassifyIncidentAction(a, class) ==
    /\ incidents[a].at # Never
    /\ incidents' = [incidents EXCEPT ![a].class = class]
    /\ UNCHANGED <<day, stage, enrolled, screens, gated, drills, served, evidence>>

RecordDrillAction(kind, succeeded) ==
    /\ Cardinality(drills) < MaxDrills
    /\ drills' = drills \cup {[kind |-> kind, succeeded |-> succeeded, at |-> day]}
    /\ UNCHANGED <<day, stage, enrolled, screens, gated, incidents, served, evidence>>

NextDay ==
    /\ day < LastDay
    /\ day' = day + 1
    /\ UNCHANGED <<stage, enrolled, screens, gated, incidents, drills, served, evidence>>

-------------------------------------------------------------------------------
\* The report.  A window begins with the pilot and ends now, rounded up.
Window == [from |-> IF stage.started = Never THEN day - PILOT_DURATION_DAYS ELSE stage.started,
           to |-> day + 1]
Within(at) == Window.from <= at /\ at < Window.to

\* Two minutes, plus what the owner's own interval adds to the baseline.
Allowance(s, base) == base + (IF s.interval > BASELINE_INTERVAL THEN s.interval - BASELINE_INTERVAL ELSE 0)

measureSlo ==
    LET counted == {s \in evidence.samples : Within(s.at) /\ s.inScope /\ ~s.excluded}
        converged == {s \in counted : s.outcome = "converged"}
        met == {s \in converged : s.latency <= Allowance(s, SLO_TARGET)}
        missed == (converged \ met) \cup {s \in counted : s.outcome = "abandoned"}
        tailMet == {s \in converged : s.latency <= Allowance(s, SLO_TAIL)}
        settled == Cardinality(met) + Cardinality(missed)
    IN  [settled |-> settled,
         meetsTarget |-> settled > 0 /\ 100 * Cardinality(met) >= 95 * settled,
         meetsTail |-> settled > 0 /\ 100 * Cardinality(tailMet) >= 99 * settled]

Count(what) == Cardinality({e \in evidence.events : e.what = what /\ Within(e.at)})

\* A failure first, then what was never put to the test.
Verdict(failed, untested) ==
    IF failed THEN "not_met" ELSE IF untested THEN "undemonstrated" ELSE "met"

Oversales(class) == {a \in OversaleAlerts : incidents[a].class = class /\ Within(incidents[a].at)}
noOversale == Verdict(Oversales("defect") # {}, Oversales("unreviewed") # {})

serviceObjective ==
    IF measureSlo.settled < MIN_SETTLED_SAMPLES THEN "undemonstrated"
    ELSE IF measureSlo.meetsTarget THEN "met" ELSE "not_met"

\* A drifted balance counts whenever it drifted.
eventIntegrity == Verdict(\E e \in evidence.events : e.what = "drifted", Count("reordered") = 0)

drillCriterion(kind) ==
    LET tried == {d \in drills : d.kind = kind /\ Within(d.at)}
    IN  Verdict(tried # {} /\ \A d \in tried : ~d.succeeded, tried = {})

traceability == Verdict(Count("unexplained") + Count("unsampled") > 0, Count("entry") = 0)
retryableFailures == Verdict(Count("silent") > 0, Count("dead") = 0)
restoreDemonstrated == Verdict(FALSE, Count("verified") = 0)

assessPilot ==
    /\ stage.started # Never /\ day - stage.started >= PILOT_DURATION_DAYS
    /\ {noOversale, serviceObjective, eventIntegrity, drillCriterion("outage_recovery"), traceability,
        retryableFailures, restoreDemonstrated, drillCriterion("clean_install")} = {"met"}

-------------------------------------------------------------------------------
\* The business was there when the stages came, and was given the full one, or is new.
PilotInit ==
    /\ day = 0
    /\ stage \in {NoStage, [NoStage EXCEPT !.started = 0, !.row = TRUE]}
    /\ served = Never
    /\ enrolled = {} /\ drills = {}
    /\ screens = [o \in Operators |-> [step |-> "idle"]]
    /\ gated = [mapping |-> "none", withheld |-> "no"]
    /\ incidents = [a \in OversaleAlerts |-> [at |-> Never, class |-> "unreviewed"]]
    /\ evidence \in Evidence

StageNext(who) ==
    \E o \in who :
       \/ \E s \in Stages, limit \in CohortLimits \cup {NoLimit} : SetStageAction(o, s, limit)
       \/ setStage(o)

EnrollNext(who, what) ==
    \/ \E o \in who :
          \/ \E m \in what : EnrollAction(o, m)
          \/ enrollCounts(o) \/ enroll(o)
    \/ \E m \in what : UnenrollAction(m)
GateNext(what) == \E m \in what : GateAsked(m)

ReportNext ==
    \/ NextDay
    \/ \E a \in OversaleAlerts :
          fileIncident(a) \/ \E class \in {"defect", "not_a_defect", "external"} : ClassifyIncidentAction(a, class)
    \/ \E kind \in {"outage_recovery", "clean_install"}, ok \in BOOLEAN : RecordDrillAction(kind, ok)

PilotNext == StageNext(Operators) \/ EnrollNext(Operators, Enrollable) \/ GateNext(Enrollable) \/ ReportNext
PilotSpec == PilotInit /\ [][PilotNext]_pilotVars

-------------------------------------------------------------------------------
(* A pass answers for every write the gate let through since the business had a stage:   *)
(* an oversale filed on the day of the first of them or later was reviewed and was no    *)
(* defect.  Going back to observe and out again, enrolling and removing mappings, in any *)
(* order with the gate's answers, puts none out of the report's sight (mayWrite,         *)
(* setStage, assessPilot).                                                               *)
PassIsEarned ==
    assessPilot /\ served # Never =>
        \A a \in OversaleAlerts :
           incidents[a].at >= served
             => incidents[a].class \in {"not_a_defect", "external"}

(* The mappings enrolled never exceed what the stage permits, as the comments on enroll  *)
(* and setStage have it.                                                                 *)
CeilingHolds ==
    LET ceiling == stageCeiling(stage.stage, stage.limit)
    IN  stage.row /\ ceiling # NoLimit => Cardinality(enrolled) <= ceiling

================================================================================
