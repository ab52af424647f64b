-------------------------- MODULE MCChannelTargets --------------------------
(* One mapping, one or two lanes, and two quantities.                        *)
EXTENDS ChannelTargets

CONSTANTS w1, w2

MCWorkers == {w1, w2}

\* Any two disturbances, a pause and its end among them.
MCAnyLimit == [k \in Kinds |-> IF k = "switch" THEN 2 ELSE 1]

\* Outages only: after a crash the job stays claimed until somebody calls the queue's sweep,
\* which the worker never does.
MCOutageLimit == [k \in Kinds |-> IF k = "fault" THEN 2 ELSE 0]

\* One reconciliation, after one change made on the channel by others.
MCDriftLimit == [k \in Kinds |-> IF k \in {"edit", "pass"} THEN 1 ELSE 0]

\* Two regimes: any two disturbances, or outages alone, under the fairness of
\* ChannelTargets and without conditional writes.
VARIABLE regime
Outages == INSTANCE ChannelTargets WITH
    Limit <- MCOutageLimit, Faults <- {"unavailable"}, Conditional <- FALSE

all == <<vars, regime>>
MCInit == (regime = "any" /\ Init) \/ (regime = "outages" /\ Outages!Init)
MCNext ==
    /\ \/ regime = "any" /\ Next
       \/ regime = "outages" /\ Outages!Next
    /\ UNCHANGED regime
InOutages(A) == regime = "outages" /\ A /\ UNCHANGED regime
MCFairness ==
    \A w \in Workers :
        /\ WF_all(InOutages(Outages!WriteStep(w) \/ Outages!VerifyStep(w)))
        /\ \A v \in Versions : SF_all(InOutages(Outages!StartWrite(w, v)))
        /\ SF_all(InOutages(Outages!StartVerify(w)))
MCSpec == MCInit /\ [][MCNext]_all /\ MCFairness

\* The regime of MCDriftLimit alone, under the fairness of ChannelTargets.
DriftSpec == Init /\ regime = "any" /\ [][Next /\ UNCHANGED regime]_all /\ Fairness /\ FairReconcile

\* Through outages every recorded target ends up on its channel: once stock
\* stops moving the channel shows the desired quantity for good (TargetIsDelivered).
DeliveredAfterOutages == regime = "outages" => TargetIsDelivered

=============================================================================
