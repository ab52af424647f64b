---- MODULE Alerts ----
(* Operator alerts of one business and of the installation (packages/notifications): the
   checks that raise, escalate and resolve them, the people who acknowledge and snooze them,
   and the sweep a leading worker runs, which announces, reminds and sends mail. A row of
   operator_alerts is a record, a row of notification_deliveries is keyed by the idempotency
   key it is unique on. A sweep works on the rows it selected; every statement is a step, so
   people, checks, crashes and a second sweep come in between.
   Left out: wording, occurrence counts, and the limits on a pass (100 and 50 rows). *)
EXTENDS Integers, FiniteSets, Sequences

CONSTANTS Workers,        \* processes that can be leading when they sweep
          Members,        \* active members of the business
          MayHear,        \* <<member, kind>>: the member holds permissionFor(kind)
          BusinessKinds, InstallationKinds,
          Subjects,       \* what an alert can be about
          Ranks,          \* severities a check may report: 2 warning, 3 error, 4 critical
          AlertIds,       \* 1..n, in the order of first_seen_at
          MAX_DELIVERY_ATTEMPTS,
          REMINDER_GAPS, REPEAT_REMINDER_GAP,
          DayLength,
          WatchScenes,
          Setting         \* per scene: how many sweeps overlap, the alerts and the
                          \* kinds raised, what people do, the snoozes, preferences and
                          \* quiet windows chosen from, the crashes and the horizon

\* In the scene "alerts" one sweep runs at a time, nothing is deleted yet and everybody may
\* hear of what is raised.
ASSUME AlertsAssumption ==
    /\ IsFiniteSet(Workers) /\ AlertIds \subseteq Nat \ {0} /\ Ranks \subseteq 1..4
    /\ MAX_DELIVERY_ATTEMPTS \in Nat /\ DayLength \in Nat \ {0}
    /\ REMINDER_GAPS \in Seq(Nat) /\ REPEAT_REMINDER_GAP \in Nat
    /\ BusinessKinds \cap (InstallationKinds \cup {"none", "deleted"}) = {}
    /\ \A s \in WatchScenes :
          /\ Setting[s].kinds \subseteq BusinessKinds /\ Setting[s].ids \subseteq AlertIds
          /\ Setting[s].snoozes \subseteq Nat /\ Setting[s].atOnce \in Nat
          /\ \A w \in Setting[s].windows : w.start \in Int /\ w.end \in Int
    /\ "alerts" \in WatchScenes =>
          /\ Setting["alerts"].atOnce = 1 /\ "retain" \notin Setting["alerts"].acts
          /\ Members \X Setting["alerts"].kinds \subseteq MayHear

VARIABLES scene, now, alerts, escalating, deliveries, prefs, quiet, sweeps, wire, crashes

alertVars == <<alerts, escalating, deliveries, prefs, quiet, sweeps, wire, crashes>>

None == 0 - 1
NoRow == [kind |-> "none"]
Deleted == [kind |-> "deleted"]
INVENTORY_SAFETY_KINDS == {"oversold", "unsafe_drift"}
REMINDABLE_SEVERITY_RANK == 3
Put(f, k, v) == [x \in DOMAIN f \cup {k} |-> IF x = k THEN v ELSE f[x]]
\* An insert that leaves the keys already there alone.
Added(f, g) == [x \in DOMAIN f \cup DOMAIN g |-> IF x \in DOMAIN f THEN f[x] ELSE g[x]]

Exists(a) == alerts[a] \notin {NoRow, Deleted}
Unresolved(a) == Exists(a) /\ ~alerts[a].resolved

\* alertStateAt: resolved wins, then a live snooze, then the acknowledgement.
alertStateAt(row, t) ==
    CASE row.resolved -> "resolved"
      [] ~row.resolved /\ row.snoozedUntil > t -> "snoozed"
      [] OTHER -> IF row.acknowledged THEN "acknowledged" ELSE "open"

------------------------------------------------------------------------------
(* Who hears about an alert, and when. *)

\* A window that wraps midnight is everything after its start or before its end.
isQuietAt(t, w) ==
    LET m == t % DayLength
    IN /\ w.start # None /\ w.end # None /\ w.start # w.end
       /\ IF w.start < w.end THEN m >= w.start /\ m < w.end ELSE m >= w.start \/ m < w.end

quietUntil(t, w) ==
    IF isQuietAt(t, w) THEN t + ((w.end - (t % DayLength) + DayLength) % DayLength) ELSE None

bypassesQuietHours(kind, rank) == rank = 4 /\ kind \in INVENTORY_SAFETY_KINDS

\* A preference is a floor (5: no mail at all) and the kinds asked for or muted; critical
\* alerts ignore the mutes. Without a preference mail starts at error.
NoPreference == [floor |-> 0, opted |-> {}, muted |-> {}]
wantsEmail(kind, rank, p) ==
    CASE p = NoPreference -> rank >= REMINDABLE_SEVERITY_RANK
      [] p # NoPreference /\ rank = 4 -> p.floor # 5
      [] OTHER -> /\ kind \notin p.muted
                  /\ p.floor # 5
                  /\ kind \in p.opted \/ rank >= p.floor

\* Nobody is a recipient of an alert about the installation: it has no business.
listRecipients(row) == IF row.kind \in InstallationKinds THEN {} ELSE Members

\* The deliveries an alert is due: in the application for everyone permitted to hear of the
\* kind, and by mail for those who want it, put off to the end of the quiet hours.
routeAlert(row, t) ==
    LET heard == {m \in listRecipients(row) : <<m, row.kind>> \in MayHear}
        defer == IF bypassesQuietHours(row.kind, row.rank) THEN None ELSE quietUntil(t, quiet)
    IN [m \in heard |-> [mail |-> wantsEmail(row.kind, row.rank, prefs[m]), until |-> defer]]

\* deliveryKey: the alert, the channel, the recipient and which notification it is.
KeysOf(a, n, routed) ==
    {<<a, "in_app", m, n>> : m \in DOMAIN routed}
    \cup {<<a, "email", m, n>> : m \in {x \in DOMAIN routed : routed[x].mail}}

Delivery(k, routed) ==
    CASE k[2] = "in_app" -> [status |-> "sent", attempts |-> 0, until |-> None]
      [] k[2] # "in_app" /\ routed[k[3]].until = None ->
            [status |-> "pending", attempts |-> 0, until |-> None]
      [] OTHER -> [status |-> "deferred", attempts |-> 0, until |-> routed[k[3]].until]

\* recordDeliveries and recordSuppressed both leave a key that is already there alone.
recordDeliveries(a, n, routed) ==
    Added(deliveries, [k \in KeysOf(a, n, routed) |-> Delivery(k, routed)])
recordSuppressed(a, n, routed) ==
    Added(deliveries, [k \in KeysOf(a, n, routed) |->
                          [status |-> "suppressed", attempts |-> 0, until |-> None]])
------------------------------------------------------------------------------
(* Checks and people. *)

NewAlert(kind, subject, rank) ==
    [kind |-> kind, subject |-> subject, rank |-> rank, acknowledged |-> FALSE,
     snoozedUntil |-> None, resolved |-> FALSE, notified |-> FALSE, notifiedRank |-> 0,
     remindersSent |-> 0, nextReminderAt |-> None]

About(kind, subject) ==
    {a \in AlertIds : Unresolved(a) /\ alerts[a].kind = kind /\ alerts[a].subject = subject}
FreeIds == {a \in Setting[scene].ids : alerts[a] = NoRow}
NextId == CHOOSE a \in FreeIds : \A b \in FreeIds : a <= b

\* The upsert of raiseAlert: an unresolved alert about the subject is joined, its severity
\* only rises; the second statement is owed when an alert somebody was told of got worse.
raised(kind, subject, rank) ==
    IF About(kind, subject) = {}
    THEN [alerts EXCEPT ![NextId] = NewAlert(kind, subject, rank)]
    ELSE [a \in AlertIds |-> IF a \in About(kind, subject)
                             THEN [alerts[a] EXCEPT !.rank = IF rank > @ THEN rank ELSE @]
                             ELSE alerts[a]]
raiseAlert(kind, subject, rank) ==
    /\ About(kind, subject) # {} \/ FreeIds # {}
    /\ alerts' = raised(kind, subject, rank)
    /\ escalating' = escalating \cup
           {a \in About(kind, subject) :
               alerts[a].notified /\ raised(kind, subject, rank)[a].rank > alerts[a].notifiedRank}

\* What the synchronization raises, each at its own severity (packages/sync/src/alerts.ts).
alertOversold(s) == raiseAlert("oversold", s, 4)
alertMappingBlocked(s) == raiseAlert("mapping_blocked", s, 4)
alertJobDeadLettered(s) == raiseAlert("job_dead_lettered", s, 2)
alertConflict(s) == raiseAlert("reconciliation_conflict", s, 4)

\* The second statement of raiseAlert; the caller may be gone before it.
scheduleEscalation(a) ==
    /\ a \in escalating
    /\ escalating' = escalating \ {a}
    /\ alerts' = IF Unresolved(a) THEN [alerts EXCEPT ![a].nextReminderAt = now] ELSE alerts
    /\ UNCHANGED <<deliveries, prefs, quiet, sweeps, wire, crashes>>
raiserDies(a) ==
    /\ a \in escalating /\ crashes > 0
    /\ escalating' = escalating \ {a} /\ crashes' = crashes - 1
    /\ UNCHANGED <<alerts, deliveries, prefs, quiet, sweeps, wire>>

acknowledgeAlert(a) ==
    /\ Unresolved(a)
    /\ alerts' = [alerts EXCEPT ![a] = [@ EXCEPT !.acknowledged = TRUE, !.nextReminderAt = None]]

snoozeAlert(a, hours) ==
    /\ Unresolved(a)
    /\ alerts' = [alerts EXCEPT ![a].snoozedUntil = now + hours]

\* A later check proved recovery.
resolvedAbout(as) ==
    [a \in AlertIds |-> IF a \in as
                        THEN [alerts[a] EXCEPT !.resolved = TRUE, !.nextReminderAt = None]
                        ELSE alerts[a]]
resolveAlert(a) == Unresolved(a) /\ alerts' = resolvedAbout({a})

savePreference(m, p) ==
    /\ prefs' = [prefs EXCEPT ![m] = p]
    /\ UNCHANGED <<alerts, escalating, deliveries, quiet, sweeps, wire, crashes>>
saveBusinessSettings(w) ==
    /\ quiet' = w
    /\ UNCHANGED <<alerts, escalating, deliveries, prefs, sweeps, wire, crashes>>
------------------------------------------------------------------------------
(* The sweep: announce, remind, send. A worker holds the rows it selected (todo), the alert
   whose intent is written and whose notification is not recorded yet (wrote), the
   deliveries it claimed, and the answer of the relay not yet written (answer). *)

NoAnswer == [key |-> <<>>]
Idle == [pass |-> "idle", at |-> None, todo |-> <<>>, wrote |-> None, claims |-> {},
         answer |-> NoAnswer]
NextUp(w) == CHOOSE a \in DOMAIN sweeps[w].todo : \A b \in DOMAIN sweeps[w].todo : a <= b

announceNewAlerts(w) ==
    /\ sweeps[w].pass = "idle"
    /\ Cardinality({v \in Workers : sweeps[v].pass # "idle"}) < Setting[scene].atOnce
    /\ sweeps' = [sweeps EXCEPT ![w] =
          [Idle EXCEPT !.pass = "announce", !.at = now,
           !.todo = [a \in {x \in AlertIds : Unresolved(x) /\ ~alerts[x].notified} |-> alerts[a]]]]
    /\ UNCHANGED <<alerts, escalating, deliveries, prefs, quiet, wire, crashes>>

notificationNumber_OfTheRow(row) == row.remindersSent
\* Which notification about the alert this is: the row still holds the previous count.
notificationNumber(row) == IF row.notified THEN row.remindersSent + 1 ELSE 0

\* notifyEach, first half: the intent is written, as suppressed when the row that was read
\* was acknowledged or snoozed.
notifyEach(w) ==
    /\ sweeps[w].pass \in {"announce", "remind"}
    /\ sweeps[w].wrote = None /\ DOMAIN sweeps[w].todo # {}
    /\ LET a == NextUp(w)
           row == sweeps[w].todo[a]
           routed == routeAlert(row, sweeps[w].at)
           n == notificationNumber(row)
       IN /\ deliveries' = IF alertStateAt(row, sweeps[w].at) \in {"acknowledged", "snoozed"}
                           THEN recordSuppressed(a, n, routed)
                           ELSE recordDeliveries(a, n, routed)
          /\ sweeps' = [sweeps EXCEPT ![w].wrote = a]
    /\ UNCHANGED <<alerts, escalating, prefs, quiet, wire, crashes>>

\* The gap before reminder number n + 1.
nextReminderAt(n, at) ==
    at + IF n < Len(REMINDER_GAPS) THEN REMINDER_GAPS[n + 1] ELSE REPEAT_REMINDER_GAP

\* One statement over the row as it now is: the counter and the next due time.
recorded(a, at) ==
    LET row == alerts[a]
        n == IF row.notified THEN row.remindersSent + 1 ELSE 0
    IN [alerts EXCEPT ![a] =
          [row EXCEPT !.notified = TRUE, !.notifiedRank = row.rank, !.remindersSent = n,
           !.nextReminderAt = IF row.acknowledged \/ row.rank < REMINDABLE_SEVERITY_RANK
                              THEN None ELSE nextReminderAt(n, at)]]
recordNotified_TestsTheRowRead(w) ==
    /\ sweeps[w].wrote # None
    /\ LET a == sweeps[w].wrote
           new == recorded(a, sweeps[w].at)
       IN /\ alerts' = IF ~Unresolved(a) THEN alerts
                       ELSE IF sweeps[w].todo[a].rank < REMINDABLE_SEVERITY_RANK
                       THEN [new EXCEPT ![a].nextReminderAt = None] ELSE new
          /\ sweeps' = [sweeps EXCEPT ![w].wrote = None,
                ![w].todo = [b \in DOMAIN @ \ {a} |-> @[b]]]
    /\ UNCHANGED <<escalating, deliveries, prefs, quiet, wire, crashes>>
recordNotified(w) ==
    /\ sweeps[w].wrote # None
    /\ LET a == sweeps[w].wrote
       IN /\ alerts' = IF Unresolved(a) THEN recorded(a, sweeps[w].at) ELSE alerts
          /\ sweeps' = [sweeps EXCEPT ![w].wrote = None,
                ![w].todo = [b \in DOMAIN @ \ {a} |-> @[b]]]
    /\ UNCHANGED <<escalating, deliveries, prefs, quiet, wire, crashes>>

\* alertsDueForReminder leaves out what is snoozed and keeps its place in the schedule.
DueForReminder ==
    {a \in AlertIds : /\ Unresolved(a)
                      /\ alerts[a].nextReminderAt # None /\ alerts[a].nextReminderAt <= now
                      /\ alerts[a].snoozedUntil <= now}
sendDueReminders(w) ==
    /\ sweeps[w].pass = "announce" /\ DOMAIN sweeps[w].todo = {}
    /\ sweeps' = [sweeps EXCEPT ![w] =
          [Idle EXCEPT !.pass = "remind", !.at = now,
                       !.todo = [a \in DueForReminder |-> alerts[a]]]]
    /\ UNCHANGED <<alerts, escalating, deliveries, prefs, quiet, wire, crashes>>

\* The attempt is counted before it is made; the row stays pending while it is under way.
Due(k) ==
    /\ k[2] = "email" /\ deliveries[k].attempts < MAX_DELIVERY_ATTEMPTS
    /\ \/ deliveries[k].status = "pending"
       \/ deliveries[k].status = "deferred" /\ deliveries[k].until <= now
claimDueDeliveries_Uncounted ==
    [k \in DOMAIN deliveries |->
        IF Due(k) THEN [deliveries[k] EXCEPT !.status = "pending"] ELSE deliveries[k]]
claimDueDeliveries ==
    [k \in DOMAIN deliveries |->
        IF Due(k) THEN [deliveries[k] EXCEPT !.status = "pending", !.attempts = @ + 1]
        ELSE deliveries[k]]
sendPendingEmail(w) ==
    /\ sweeps[w].pass = "remind" /\ DOMAIN sweeps[w].todo = {}
    /\ deliveries' = claimDueDeliveries
    /\ sweeps' = [sweeps EXCEPT ![w] =
          [Idle EXCEPT !.pass = "send", !.at = now, !.claims = {k \in DOMAIN deliveries : Due(k)}]]
    /\ UNCHANGED <<alerts, escalating, prefs, quiet, wire, crashes>>

\* mailer.send: the relay takes the message or refuses it. The mail names an alert and a
\* recipient that still exist, otherwise nothing is sent and the row is marked failed.
mailerSend(w, k, delivered) ==
    /\ sweeps[w].pass = "send" /\ sweeps[w].answer = NoAnswer /\ k \in sweeps[w].claims
    /\ Exists(k[1]) \/ ~delivered
    /\ wire' = IF Exists(k[1]) THEN Put(wire, k, (IF k \in DOMAIN wire THEN wire[k] ELSE 0) + 1)
               ELSE wire
    /\ sweeps' = [sweeps EXCEPT ![w].answer = [key |-> k, delivered |-> delivered]]
    /\ UNCHANGED <<alerts, escalating, deliveries, prefs, quiet, crashes>>

markDelivered(d) == [d EXCEPT !.status = "sent"]
markFailed(d) ==
    [d EXCEPT !.status = IF d.attempts >= MAX_DELIVERY_ATTEMPTS THEN "failed" ELSE "pending"]
markAnswer(w) ==
    /\ sweeps[w].answer # NoAnswer
    /\ LET k == sweeps[w].answer.key
       IN /\ deliveries' =
                IF k \notin DOMAIN deliveries THEN deliveries
                ELSE [deliveries EXCEPT ![k] = IF sweeps[w].answer.delivered
                                               THEN markDelivered(@) ELSE markFailed(@)]
          /\ sweeps' = [sweeps EXCEPT ![w].answer = NoAnswer, ![w].claims = @ \ {k}]
    /\ UNCHANGED <<alerts, escalating, prefs, quiet, wire, crashes>>

sweepEnds(w) ==
    /\ sweeps[w].pass = "send" /\ sweeps[w].claims = {}
    /\ sweeps' = [sweeps EXCEPT ![w] = Idle]
    /\ UNCHANGED <<alerts, escalating, deliveries, prefs, quiet, wire, crashes>>

\* The process dies, or a statement throws and the tick is abandoned.
sweepDies(w) ==
    /\ sweeps[w].pass # "idle" /\ crashes > 0
    /\ sweeps' = [sweeps EXCEPT ![w] = Idle] /\ crashes' = crashes - 1
    /\ UNCHANGED <<alerts, escalating, deliveries, prefs, quiet, wire>>
------------------------------------------------------------------------------
(* The server actions, and what a scene lets happen. *)

quietAlerts == UNCHANGED <<escalating, deliveries, prefs, quiet, sweeps, wire, crashes>>

\* An action of a business names one of its alerts: the installation's are out of its scope.
InBusiness(a) == Exists(a) /\ alerts[a].kind \in BusinessKinds
acknowledgeAlertAction(a) == InBusiness(a) /\ acknowledgeAlert(a) /\ quietAlerts
snoozeAlertAction(a, hours) == InBusiness(a) /\ snoozeAlert(a, hours) /\ quietAlerts
savePreferenceAction(m, p) == savePreference(m, p)
\* Both ends or neither, and not the same minute twice.
saveQuietHoursAction(w) ==
    (w.start = None) = (w.end = None) /\ (w.start = None \/ w.start # w.end)
    /\ saveBusinessSettings(w)

\* Retention removes alerts once they are resolved and old (here: at any later time), and
\* the deliveries of an alert go with it; old deliveries also go by themselves.
Without(keys) == [k \in DOMAIN deliveries \ keys |-> deliveries[k]]
deleteResolvedAlert(a) ==
    /\ Exists(a) /\ alerts[a].resolved
    /\ alerts' = [alerts EXCEPT ![a] = Deleted]
    /\ deliveries' = Without({k \in DOMAIN deliveries : k[1] = a})
    /\ UNCHANGED <<escalating, prefs, quiet, sweeps, wire, crashes>>

Raises ==
    \E s \in Subjects, kind \in Setting[scene].kinds :
        /\ \/ kind = "oversold" /\ alertOversold(s)
           \/ kind = "mapping_blocked" /\ alertMappingBlocked(s)
           \/ kind = "job_dead_lettered" /\ alertJobDeadLettered(s)
           \/ kind = "reconciliation_conflict" /\ alertConflict(s)
           \/ \E r \in Ranks : kind = "connection_unhealthy" /\ raiseAlert(kind, s, r)
        /\ UNCHANGED <<deliveries, prefs, quiet, sweeps, wire, crashes>>

SweepSteps(w) ==
    \/ announceNewAlerts(w) \/ notifyEach(w) \/ recordNotified(w) \/ sendDueReminders(w)
    \/ sendPendingEmail(w) \/ markAnswer(w) \/ sweepEnds(w) \/ sweepDies(w)
    \/ \E k \in sweeps[w].claims, ok \in BOOLEAN : mailerSend(w, k, ok)

PeopleSteps ==
    \/ \E a \in AlertIds :
          \/ "acknowledge" \in Setting[scene].acts /\ acknowledgeAlertAction(a)
          \/ "resolve" \in Setting[scene].acts /\ resolveAlert(a) /\ quietAlerts
          \/ \E d \in Setting[scene].snoozes : snoozeAlertAction(a, d)
          \/ scheduleEscalation(a)
          \/ raiserDies(a)
          \/ "retain" \in Setting[scene].acts /\ deleteResolvedAlert(a)
    \/ \E m \in Members, p \in Setting[scene].preferences : savePreferenceAction(m, p)
    \/ \E w \in Setting[scene].windows : saveQuietHoursAction(w)
    \/ Raises

AlertsInit ==
    /\ scene \in WatchScenes /\ now = 0
    /\ alerts = [a \in AlertIds |-> NoRow] /\ escalating = {}
    /\ deliveries = <<>> /\ wire = <<>>
    /\ prefs = [m \in Members |-> NoPreference] /\ quiet = [start |-> None, end |-> None]
    /\ sweeps = [w \in Workers |-> Idle] /\ crashes = Setting[scene].crashes

\* Time passes in every scene.
Passes == now < Setting[scene].horizon /\ now' = now + 1 /\ UNCHANGED <<scene, alertVars>>
AlertsNext ==
    \/ Passes
    \/ /\ scene \in {"alerts", "mail", "routing"}
       /\ \/ \E w \in Workers : SweepSteps(w)
          \/ PeopleSteps
       /\ UNCHANGED <<scene, now>>
------------------------------------------------------------------------------
(* Properties. *)

\* An error or critical alert that is neither resolved nor acknowledged is never forgotten:
\* it is still to be announced, or its next reminder is scheduled, or it got worse since
\* somebody was told, so that its next occurrence schedules one. Escalation, the sweep's
\* record of what it announced and the acknowledgement write the same columns in any order.
OutstandingIsHeard ==
    \A a \in AlertIds :
        Unresolved(a) /\ ~alerts[a].acknowledged /\ alerts[a].rank >= REMINDABLE_SEVERITY_RANK
        => \/ ~alerts[a].notified
           \/ alerts[a].nextReminderAt # None
           \/ alerts[a].rank > alerts[a].notifiedRank

\* However sweeps die and overlap, a message is put on the wire at most
\* MAX_DELIVERY_ATTEMPTS times: the attempt is counted before the send.
SendsAreBounded == \A k \in DOMAIN wire : wire[k] <= MAX_DELIVERY_ATTEMPTS

\* With one sweep at a time, also one that dies between writing the intents and counting
\* the notification, every notification that was counted was written for everyone who was
\* to hear it: no reminder is swallowed by the key of an earlier one. In the scene "alerts"
\* the only member may hear every kind.
CountedWasWritten ==
    scene = "alerts" =>
        \A a \in AlertIds : Exists(a) /\ alerts[a].notified =>
            \A n \in 0..alerts[a].remindersSent, m \in Members :
                <<a, "in_app", m, n>> \in DOMAIN deliveries

\* alerts.ts promises that an acknowledgement does not stop an escalation: a problem that
\* got worse since somebody was told of it is not suppressed.
EscalationIsHeard ==
    \A w \in Workers : sweeps[w].wrote # None =>
        LET row == sweeps[w].todo[sweeps[w].wrote]
            k == {x \in DOMAIN deliveries :
                     x[1] = sweeps[w].wrote /\ x[4] = notificationNumber(row)}
        IN row.notified /\ row.rank > row.notifiedRank
           => \A x \in k : deliveries[x].status # "suppressed"
====
