---- MODULE MCWatch ----
(* Alerts and the sweep that tells people of them, one scene at a time. *)
EXTENDS Scheduling, TLC
CONSTANTS w1, w2, w3
MCMayHear == Members \X BusinessKinds
NoWindow == [start |-> None, end |-> None]
Base == [atOnce |-> 1, processes |-> 3, ids |-> {1}, acts |-> {}, kinds |-> {}, snoozes |-> {}, preferences |-> {}, windows |-> {},
         crashes |-> 0, horizon |-> 0]
MCSetting ==
    [alerts |-> [Base EXCEPT !.acts = {"acknowledge", "resolve"},
                             !.kinds = {"connection_unhealthy"}, !.snoozes = {1},
                             !.crashes = 1, !.horizon = 2],
     mail |-> [Base EXCEPT !.atOnce = 2, !.acts = {"resolve", "retain"}, !.kinds = {"oversold"}, !.crashes = 1,
                           !.horizon = 1],
     routing |-> [Base EXCEPT !.kinds = {"mapping_blocked", "job_dead_lettered",
                                         "reconciliation_conflict", "oversold"},
                     !.preferences = {[floor |-> 5, opted |-> {}, muted |-> {}],
                                      [floor |-> 3, opted |-> {"job_dead_lettered"},
                                       muted |-> {"mapping_blocked"}]},
                     !.windows = {[start |-> 3, end |-> 1], [start |-> 0, end |-> 2], NoWindow},
                     !.horizon = 1],
     leader |-> [Base EXCEPT !.horizon = 4],
     health |-> [Base EXCEPT !.horizon = 2, !.processes = 2],
     cadence |-> [Base EXCEPT !.horizon = 2],
     retention |-> [Base EXCEPT !.horizon = 3]]
MCGaps == <<1, 1>>
MCWindows == {[history |-> 0, raw |-> 1], [history |-> 2, raw |-> 2]}
\* Fails: the tick itself need not be slow, for the lease may have lapsed before it started.
OverlapMeansSlowTick ==
    \A v, w \in Workers :
        v # w /\ Ticking(v) /\ Ticking(w)
        => \E x \in {v, w} : now - sched[x].lastTick > LeaseFor - RenewEvery
Sym == Permutations(Workers)
====
