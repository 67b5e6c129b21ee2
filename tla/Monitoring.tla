----------------------------- MODULE Monitoring -----------------------------
(***************************************************************************)
(* The node's monitoring: alert rules and their evaluation                 *)
(* (monitoring/alerting.rs), counters and histograms (metrics.rs), health  *)
(* checks (health_checks.rs) and dashboards (dashboards.rs).  A behaviour  *)
(* is about one of them.                                                   *)
(***************************************************************************)
EXTENDS Integers, Sequences, FiniteSets, FiniteSetsExt

CONSTANTS AlertRules,      \* ids of alert rules
          AlertMetrics,    \* metrics the rules look at
          Checks,          \* names of health checks
          Dashboards,      \* ids of dashboards
          MonTasks,        \* tasks that call the monitoring objects
          MaxObservations, \* bound on observations, evaluations, counted calls
          MaxEdits,        \* bound on the changes of rules, silences, metrics
          HistoryCap       \* the 10000 observations and the 1000 reports that are kept

ASSUME MonAssumption ==
    MaxObservations \in Nat /\ MaxEdits \in Nat /\ HistoryCap \in Nat \ {0} /\ "none" \notin MonTasks

VARIABLES monPart, alerts, hist, counts, health, dash

monVars == <<monPart, alerts, hist, counts, health, dash>>

-----------------------------------------------------------------------------
(* AlertManager.  A condition is a combination of atoms, one level deep; a *)
(* rule carries one label or none and may depend on another rule.  stuck   *)
(* says that a task waits for the write lock it holds itself.              *)

AlertLabels == {{}, {"backend"}}

Conditions ==
    {[mode |-> "all", atoms |-> {[kind |-> "above", metric |-> m] : m \in AlertMetrics}],
     [mode |-> "any", atoms |-> {[kind |-> "absent", metric |-> m] : m \in AlertMetrics}]}

NoRule == [condition |-> [mode |-> "none", atoms |-> {}], labels |-> {}, parent |-> "none", recovery |-> FALSE]

AlertsInit ==
    \E channels \in IF monPart = "alerts" THEN {0, 1} ELSE {1} :
        alerts = [rules |-> [r \in AlertRules |-> NoRule], metrics |-> [m \in AlertMetrics |-> "none"],
                  active |-> {}, silences |-> {}, groups |-> {}, acknowledged |-> {},
                  fired |-> 0, ended |-> 0, channels |-> channels, stuck |-> FALSE,
                  evaluation |-> {}, recovered |-> FALSE, edits |-> 0]

RuleExists(r) == alerts.rules[r] # NoRule

ActiveRules == {a.rule : a \in alerts.active}

\* The active alerts without that of rule r.
WithoutAlert(r) == {a \in alerts.active : a.rule # r}

\* An operation that takes the lock, within the bound.
Editable == ~alerts.stuck /\ alerts.edits < MaxEdits

\* add_rule, add_threshold_alert, add_rate_alert and update_rule: the rule of that
\* id is replaced; an alert it already fired stays as it is.
AddRule(r, c, labels, parent) ==
    /\ Editable
    /\ alerts' = [alerts EXCEPT !.edits = @ + 1, !.rules[r] =
                     [condition |-> c, labels |-> labels, parent |-> parent, recovery |-> labels # {}]]

\* delete_rule: the rule and its active alert.
DeleteRule(r) ==
    /\ Editable /\ RuleExists(r)
    /\ alerts' = [alerts EXCEPT !.edits = @ + 1, !.rules[r] = NoRule, !.active = WithoutAlert(r),
                     !.ended = IF r \in ActiveRules THEN @ + 1 ELSE @]

\* update_metric, increment_counter
UpdateMetric(m, v) == Editable /\ alerts' = [alerts EXCEPT !.edits = @ + 1, !.metrics[m] = v]

\* evaluate_condition
EvaluateCondition(c, metrics) ==
    LET Holds(a) == IF a.kind = "absent" THEN metrics[a.metric] = "none" ELSE metrics[a.metric] = "high"
    IN IF c.mode = "all" THEN \A a \in c.atoms : Holds(a) ELSE \E a \in c.atoms : Holds(a)

\* evaluate_rules, the snapshot: rules, metrics and active alerts are copied and the
\* lock is released before the first rule is looked at.
EvaluateBegin ==
    /\ ~alerts.stuck /\ alerts.evaluation = {}
    /\ \E r \in AlertRules : RuleExists(r)
    /\ alerts.fired < MaxObservations
    /\ alerts' = [alerts EXCEPT !.evaluation =
                     {[rule |-> r, is |-> alerts.rules[r],
                       high |-> EvaluateCondition(alerts.rules[r].condition, alerts.metrics),
                       hidden |-> alerts.rules[r].parent \in ActiveRules] :
                         r \in {q \in AlertRules : RuleExists(q)}}]

\* fire_alert's silence check: a silence without labels matches every rule.
IsSilenced(e) == \E s \in alerts.silences : s.rule = e.rule \/ s.labels \subseteq e.is.labels

\* fire_alert: an alert that is active stays; otherwise, unless silenced, it becomes
\* active, and with a channel send_notifications waits for the lock its caller holds.
FireAlert(e) ==
    IF e.rule \in ActiveRules \/ IsSilenced(e)
    THEN [alerts EXCEPT !.evaluation = @ \ {e}]
    ELSE [alerts EXCEPT !.evaluation = @ \ {e}, !.fired = @ + 1,
                        !.active = @ \cup {[rule |-> e.rule, labels |-> e.is.labels]}, !.stuck = alerts.channels > 0]

\* Mutant: a resolved alert stays among the active ones.
ResolveAlert_NotRemoved(e) == [alerts EXCEPT !.evaluation = @ \ {e}, !.ended = @ + 1]

\* resolve_alert
ResolveAlert(e) ==
    [alerts EXCEPT !.evaluation = @ \ {e}, !.active = WithoutAlert(e.rule),
                   !.ended = IF e.rule \in ActiveRules THEN @ + 1 ELSE @]

\* evaluate_rules, one rule of the snapshot; group_alerts and execute_recovery_actions
\* follow the last one.
EvaluateRule ==
    /\ ~alerts.stuck
    /\ \E e \in alerts.evaluation :
          LET next == IF e.hidden THEN [alerts EXCEPT !.evaluation = @ \ {e}]
                      ELSE IF e.high THEN FireAlert(e) ELSE ResolveAlert(e)
          IN alerts' = IF next.evaluation = {} /\ ~next.stuck
                       THEN [next EXCEPT !.groups = {a \in next.active : a.labels # {}},
                                         !.recovered = \E a \in next.active : next.rules[a.rule].recovery]
                       ELSE next

\* silence_alert: the alert leaves the active ones; the silence has its labels.
SilenceAlert(r) ==
    /\ Editable
    /\ \E a \in alerts.active :
          /\ a.rule = r
          /\ alerts' = [alerts EXCEPT !.edits = @ + 1, !.active = @ \ {a}, !.ended = @ + 1, !.silences = @ \cup {a}]

\* silence_rule: a silence of one rule with no labels.
SilenceRule(r) ==
    /\ Editable /\ RuleExists(r)
    /\ alerts' = [alerts EXCEPT !.edits = @ + 1, !.silences = @ \cup {[rule |-> r, labels |-> {}]}]

\* create_silence
CreateSilence(labels) ==
    Editable /\ alerts' = [alerts EXCEPT !.edits = @ + 1, !.silences = @ \cup {[rule |-> "none", labels |-> labels]}]

\* expire_silence, and the passing of its time
ExpireSilence == Editable /\ \E s \in alerts.silences : alerts' = [alerts EXCEPT !.edits = @ + 1, !.silences = @ \ {s}]

\* acknowledge_alert looks the active alert up by the id of its rule.
AcknowledgeAlert(r) ==
    Editable /\ r \in ActiveRules /\ alerts' = [alerts EXCEPT !.edits = @ + 1, !.acknowledged = @ \cup {r}]

\* add_notification_channel
AddNotificationChannel == Editable /\ alerts.channels = 0 /\ alerts' = [alerts EXCEPT !.edits = @ + 1, !.channels = 1]

AlertsNext ==
    \/ EvaluateBegin \/ EvaluateRule \/ ExpireSilence \/ AddNotificationChannel
    \/ \E labels \in AlertLabels : CreateSilence(labels)
    \/ \E m \in AlertMetrics, v \in {"low", "high"} : UpdateMetric(m, v)
    \/ \E r \in AlertRules :
          \/ DeleteRule(r) \/ SilenceAlert(r) \/ SilenceRule(r) \/ AcknowledgeAlert(r)
          \/ \E c \in Conditions, labels \in AlertLabels, parent \in (AlertRules \ {r}) \cup {"none"} :
                AddRule(r, c, labels, parent)

-----------------------------------------------------------------------------
(* Histogram: observe takes the locks of the buckets, the sum, the count   *)
(* and the observations in this order and keeps them.  get_statistics      *)
(* keeps that of the observations while it takes and drops those of the    *)
(* count and the sum: a task that observes in between waits for it with    *)
(* both locks held, and then each may wait for the other.  The value of    *)
(* every observation is one.                                               *)

HistLocks == {"buckets", "sum", "count", "observations"}

HistInit ==
    hist = [made |-> 0, buckets |-> 0, sum |-> 0, count |-> 0, kept |-> 0,
            writer |-> [l \in HistLocks |-> "none"], readers |-> [l \in HistLocks |-> {}],
            pc |-> [t \in MonTasks |-> "idle"], read |-> [t \in MonTasks |-> <<>>],
            answers |-> {}]

CanWrite(l) == hist.writer[l] = "none" /\ hist.readers[l] = {}
CanRead(l) == hist.writer[l] = "none"

\* observe: one lock after the other, each counter changed under its own.
Observe(t) ==
    \/ /\ hist.pc[t] = "idle" /\ hist.made < MaxObservations /\ CanWrite("buckets")
       /\ hist' = [hist EXCEPT !.pc[t] = "sum", !.made = @ + 1, !.writer["buckets"] = t, !.buckets = @ + 1]
    \/ /\ hist.pc[t] = "sum" /\ CanWrite("sum")
       /\ hist' = [hist EXCEPT !.pc[t] = "count", !.writer["sum"] = t, !.sum = @ + 1]
    \/ /\ hist.pc[t] = "count" /\ CanWrite("count")
       /\ hist' = [hist EXCEPT !.pc[t] = "push", !.writer["count"] = t, !.count = @ + 1]

\* observe, the end: the observation is pushed, the oldest dropped beyond the cap,
\* and every lock is released.
ObserveEnd(t) ==
    /\ hist.pc[t] = "push" /\ CanWrite("observations")
    /\ hist' = [hist EXCEPT !.pc[t] = "idle", !.kept = Min({@ + 1, HistoryCap}),
                   !.writer = [l \in HistLocks |-> IF hist.writer[l] = t THEN "none" ELSE hist.writer[l]]]

\* Mutant: the guard of the observations is dropped before the count is read.
StatsObservations_Dropped(t) ==
    /\ hist.pc[t] = "idle" /\ CanRead("observations")
    /\ hist' = [hist EXCEPT !.pc[t] = "stat1", !.read[t] = <<hist.kept>>]

\* get_statistics: the guard of the observations is kept to the end.
StatsObservations(t) ==
    /\ hist.pc[t] = "idle" /\ CanRead("observations")
    /\ hist' = [hist EXCEPT !.pc[t] = "stat1", !.readers["observations"] = @ \cup {t}, !.read[t] = <<hist.kept>>]

\* The guard of the count is a temporary, dropped when the count is copied.
StatsCount(t) ==
    /\ hist.pc[t] = "stat1" /\ CanRead("count")
    /\ hist' = [hist EXCEPT !.pc[t] = "stat2", !.read[t] = Append(@, hist.count)]

\* get_statistics, the sum and the answer.
StatsSum(t) ==
    /\ hist.pc[t] = "stat2" /\ CanRead("sum")
    /\ hist' = [hist EXCEPT !.pc[t] = "idle", !.read[t] = <<>>,
                   !.answers = @ \cup {[kept |-> hist.read[t][1], count |-> hist.read[t][2], sum |-> hist.sum]},
                   !.readers = [l \in HistLocks |-> hist.readers[l] \ {t}]]

HistNext ==
    \E t \in MonTasks : Observe(t) \/ ObserveEnd(t) \/ StatsObservations(t) \/ StatsCount(t) \/ StatsSum(t)

-----------------------------------------------------------------------------
(* MetricsCollector: a counter is an Arc a caller may keep.  The _sync      *)
(* calls only spawn the task that registers or counts.                     *)

CountsInit ==
    counts = [value |-> 0, present |-> FALSE, held |-> FALSE, stale |-> 0, saved |-> 0,
              spawned |-> [register |-> 0, add |-> 0], asked |-> 0, ignored |-> 0, dropped |-> 0,
              subscribers |-> 0, series |-> 0]

\* register_counter, register_counter_with_labels: the name gets a new counter; the
\* caller of an earlier one goes on counting in the old one.
RegisterCounter ==
    /\ counts.dropped <= MaxObservations
    /\ counts' = [counts EXCEPT !.present = TRUE, !.held = TRUE, !.value = 0, !.dropped = @ + counts.value]

\* register_counter_sync, register_gauge_sync, register_histogram_sync
RegisterSync ==
    /\ counts.spawned.register = 0
    /\ counts' = [counts EXCEPT !.spawned.register = 1]

\* The spawned task of register_counter_sync replaces the counter of that name.
RunRegister ==
    /\ counts.spawned.register = 1
    /\ counts' = [counts EXCEPT !.spawned.register = 0, !.present = TRUE, !.value = 0,
                                !.dropped = @ + counts.value]

\* increment_counter, set_gauge, record_histogram: a task for every call.
IncrementSync ==
    /\ counts.asked < MaxObservations
    /\ counts' = [counts EXCEPT !.asked = @ + 1, !.spawned.add = @ + 1]

\* The spawned task: a name that is not registered yet is ignored.
RunIncrement ==
    /\ counts.spawned.add > 0
    /\ counts' = IF counts.present
                 THEN [counts EXCEPT !.spawned.add = @ - 1, !.value = @ + 1]
                 ELSE [counts EXCEPT !.spawned.add = @ - 1, !.ignored = @ + 1]

\* increment_counter_with_notification: counted, then every subscriber is sent the metric.
IncrementNotify ==
    /\ counts.present /\ counts.asked < MaxObservations
    /\ counts' = [counts EXCEPT !.asked = @ + 1, !.value = @ + 1]

\* subscribe
Subscribe == counts.subscribers = 0 /\ counts' = [counts EXCEPT !.subscribers = 1]

\* save_snapshot: the present values are written to the file.
SaveSnapshot == counts.present /\ counts' = [counts EXCEPT !.saved = counts.value]

\* load_snapshot: new counters with the saved values take the names.
LoadSnapshot ==
    /\ counts.dropped <= MaxObservations
    /\ counts' = [counts EXCEPT !.present = TRUE, !.value = counts.saved,
                     !.dropped = @ + counts.value - counts.saved]

\* calculate_rate, record_time_series_point: a point per call; get_aggregated_value
\* and the rate are computed from the points of the window.
RecordPoint == counts.present /\ counts.series < 2 /\ counts' = [counts EXCEPT !.series = @ + 1]

\* start_garbage_collection: one pass, points older than the retention go.
CollectGarbage == counts.series > 0 /\ counts' = [counts EXCEPT !.series = 0]

CountsNext ==
    \/ RegisterCounter \/ RegisterSync \/ RunRegister \/ IncrementSync \/ RunIncrement \/ IncrementNotify
    \/ Subscribe \/ SaveSnapshot \/ LoadSnapshot \/ RecordPoint \/ CollectGarbage

-----------------------------------------------------------------------------
(* HealthChecker.  A report says what the components were when it was made. *)

HealthInit ==
    health = [components |-> [c \in Checks |-> "Healthy"], ready |-> [c \in Checks |-> FALSE],
              checks |-> {}, down |-> FALSE, history |-> <<>>, gc |-> FALSE,
              task |-> [t \in MonTasks |-> {}], busy |-> {}]

\* register_check, set_component_ready, update_component_health, start_garbage_collection
RegisterCheck(c) == c \notin health.checks /\ health' = [health EXCEPT !.checks = @ \cup {c}]
SetComponentReady(c, ready) == health' = [health EXCEPT !.ready[c] = ready]
UpdateComponentHealth(c, s) == health' = [health EXCEPT !.components[c] = s]

\* check_health, the first reads: terminating while shutting down, otherwise the
\* names of the checks to run.
CheckHealthBegin(t) ==
    /\ t \notin health.busy /\ ~health.down
    /\ health' = [health EXCEPT !.busy = @ \cup {t}, !.task[t] = health.checks]

\* check_health, one check: what it answers, or Unhealthy after an error or the timeout.
RunCheck(t) ==
    /\ t \in health.busy
    /\ \E c \in health.task[t], s \in {"Healthy", "Unhealthy"} :
          health' = [health EXCEPT !.task[t] = @ \ {c}, !.components[c] = s]

OverallStatus(components) ==
    IF \E c \in Checks : components[c] = "Unhealthy" THEN "Unhealthy"
    ELSE IF \E c \in Checks : components[c] = "Degraded" THEN "Degraded" ELSE "Healthy"

\* check_health, the report; the oldest of more than the cap is dropped.
CheckHealthEnd(t) ==
    /\ t \in health.busy /\ health.task[t] = {}
    /\ LET h == Append(health.history, OverallStatus(health.components))
       IN health' = [health EXCEPT !.busy = @ \ {t},
                        !.history = IF Len(h) > HistoryCap THEN Tail(h) ELSE h]

\* begin_shutdown; readiness_probe then answers no and liveness_probe Terminating.
BeginShutdown == ~health.down /\ health' = [health EXCEPT !.down = TRUE]
IsReady == ~health.down /\ \A c \in Checks : health.ready[c]

\* start_garbage_collection: once; the task keeps the reports of the last hour.
StartHealthGc == ~health.gc /\ health' = [health EXCEPT !.gc = TRUE]
RunHealthGc == health.gc /\ health.history # <<>> /\ health' = [health EXCEPT !.history = Tail(@)]

HealthNext ==
    \/ BeginShutdown \/ StartHealthGc \/ RunHealthGc
    \/ \E c \in Checks : RegisterCheck(c) \/ (\E r \in BOOLEAN : SetComponentReady(c, r))
                         \/ (\E s \in {"Healthy", "Degraded", "Unhealthy"} : UpdateComponentHealth(c, s))
    \/ \E t \in MonTasks : CheckHealthBegin(t) \/ RunCheck(t) \/ CheckHealthEnd(t)

-----------------------------------------------------------------------------
(* DashboardManager: what it keeps by dashboard.  update_panel_data looks  *)
(* the panel up under a read lock and stores under a later write lock.     *)

DashInit ==
    dash = [known |-> {}, panels |-> {}, data |-> {}, subscribed |-> {}, annotated |-> {}, layouts |-> {},
            links |-> {}, task |-> [t \in MonTasks |-> "none"]]

\* create_dashboard, import_dashboard, create_from_template
CreateDashboard(d) ==
    /\ d \notin dash.known \cup dash.data \cup dash.layouts
    /\ dash' = [dash EXCEPT !.known = @ \cup {d}]

\* The ids are new for every dashboard: one that is deleted does not come back.
AddPanel(d) == d \in dash.known /\ dash' = [dash EXCEPT !.panels = @ \cup {d}]
SetLayout(d) == d \in dash.known /\ dash' = [dash EXCEPT !.layouts = @ \cup {d}]
SubscribeToUpdates(d) == d \in dash.known /\ dash' = [dash EXCEPT !.subscribed = @ \cup {d}]
AddAnnotation(d) == d \in dash.known /\ dash' = [dash EXCEPT !.annotated = @ \cup {d}]

\* create_public_link: the link does not say which dashboard it is of.
CreatePublicLink(d) == d \in dash.known /\ dash' = [dash EXCEPT !.links = @ \cup {"link"}]

\* update_panel_data
FindPanel(t, d) ==
    /\ dash.task[t] = "none" /\ d \in dash.known \cap dash.panels
    /\ dash' = [dash EXCEPT !.task[t] = d]

StorePanelData(t) ==
    /\ dash.task[t] # "none"
    /\ dash' = [dash EXCEPT !.task[t] = "none", !.data = @ \cup {dash.task[t]}]

\* Mutant: a deleted dashboard keeps its annotations.
DeleteDashboard_KeepAnnotations(d) ==
    /\ d \in dash.known
    /\ dash' = [dash EXCEPT !.known = @ \ {d}, !.data = @ \ {d}, !.subscribed = @ \ {d}, !.panels = @ \ {d}]

\* delete_dashboard: its layout stays.
DeleteDashboard(d) ==
    /\ d \in dash.known
    /\ dash' = [dash EXCEPT !.known = @ \ {d}, !.data = @ \ {d}, !.subscribed = @ \ {d},
                   !.annotated = @ \ {d}, !.panels = @ \ {d}]

DashNext ==
    \/ \E d \in Dashboards : CreateDashboard(d) \/ AddPanel(d) \/ SetLayout(d) \/ SubscribeToUpdates(d)
                             \/ AddAnnotation(d) \/ CreatePublicLink(d) \/ DeleteDashboard(d)
                             \/ \E t \in MonTasks : FindPanel(t, d)
    \/ \E t \in MonTasks : StorePanelData(t)

-----------------------------------------------------------------------------

MonInit ==
    /\ monPart \in {"alerts", "hist", "counts", "health", "dash"}
    /\ AlertsInit /\ HistInit /\ CountsInit /\ HealthInit /\ DashInit

MonNext ==
    /\ UNCHANGED monPart
    /\ \/ monPart = "alerts" /\ AlertsNext /\ UNCHANGED <<hist, counts, health, dash>>
       \/ monPart = "hist" /\ HistNext /\ UNCHANGED <<alerts, counts, health, dash>>
       \/ monPart = "counts" /\ CountsNext /\ UNCHANGED <<alerts, hist, health, dash>>
       \/ monPart = "health" /\ HealthNext /\ UNCHANGED <<alerts, hist, counts, dash>>
       \/ monPart = "dash" /\ DashNext /\ UNCHANGED <<alerts, hist, counts, health>>

MonSpec == MonInit /\ [][MonNext]_monVars

-----------------------------------------------------------------------------

\* Every alert that fired is either active or was resolved, silenced or deleted
\* exactly once, also when rules are replaced or deleted during an evaluation.
AlertsAccounted == alerts.fired = alerts.ended + Cardinality(alerts.active)

\* Statistics are never torn: the count and the sum a reader gets are those of the
\* observations it got, up to the ones dropped beyond the cap, although the guard of the
\* count is gone when the sum is read: an observation made in between keeps the sum
\* locked until the reader ends.  (So reader and writer may wait for each other.)
StatsNotTorn == \A a \in hist.answers : a.sum = a.count /\ a.kept = Min({a.count, HistoryCap})

\* What is kept of a dashboard for its subscribers and annotations goes with it.
DashboardsCleaned == dash.subscribed \cup dash.annotated \subseteq dash.known

=============================================================================
