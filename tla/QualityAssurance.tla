-------------------------- MODULE QualityAssurance --------------------------
(***************************************************************************)
(* The node's quality assurance: user ratings (qa/ratings.rs), accuracy of *)
(* answers (qa/accuracy.rs), response times (qa/response_time.rs) and      *)
(* uptime (qa/uptime.rs).  Every map is behind a mutex of its own; a       *)
(* behaviour is about one of the four.                                     *)
(***************************************************************************)
EXTENDS Integers, Sequences, FiniteSets, FiniteSetsExt

CONSTANTS QaTasks,        \* tasks that call
          Stars,          \* overall ratings users give, some out of range
          MinRating, MaxRating,
          MinImpact,      \* minimum_ratings_for_impact
          RecentRatings,  \* the 5 recent ratings an alert needs
          SlidingWindow,  \* sliding_window_size
          DownAfter,      \* downtime_threshold_ms, in ticks
          MaxQaOps,       \* bound on the calls
          MaxQaNow        \* bound on the clock

ASSUME QaAssumption ==
    /\ MinRating \in Nat /\ MaxRating \in Nat /\ MinRating <= MaxRating
    /\ MinImpact \in Nat /\ RecentRatings \in Nat /\ SlidingWindow \in Nat
    /\ DownAfter \in Nat /\ MaxQaOps \in Nat /\ MaxQaNow \in Nat

VARIABLES qaPart, ratings, accuracy, response, uptime

qaVars == <<qaPart, ratings, accuracy, response, uptime>>

-----------------------------------------------------------------------------
(* RatingsManager: one model and one host.  A rating's id is its number.   *)

NoRating == [pc |-> "idle", id |-> 0, stars |-> 0, spam |-> FALSE, host |-> FALSE]

RatingsInit ==
    ratings = [next |-> 1, stored |-> {}, byModel |-> {}, byHost |-> {}, queue |-> {}, rejected |-> {},
               reputation |-> 100, alerted |-> 0, applied |-> 0, task |-> [t \in QaTasks |-> NoRating]]

\* validate_rating: range, and categories, anonymity and verification as configured.
ValidRating(stars, allowed) == stars \in MinRating .. MaxRating /\ allowed

\* submit_rating, submit_rating_for_host, submit_rating_with_timestamp: the new id; a
\* rating whose text needs it is queued for moderation, and goes on like the others.
SubmitRating(t, stars, spam, host) ==
    /\ ratings.task[t].pc = "idle" /\ ratings.next <= MaxQaOps
    /\ \E allowed \in BOOLEAN : ValidRating(stars, allowed)
    /\ ratings' = [ratings EXCEPT !.next = @ + 1, !.queue = IF spam THEN @ \cup {ratings.next} ELSE @,
                      !.task[t] = [pc |-> "store", id |-> ratings.next, stars |-> stars,
                                   spam |-> spam, host |-> host]]

\* Mutant: the model's list is written before the rating is stored.
StoreRating_Late(t) ==
    LET r == ratings.task[t]
    IN r.pc = "store" /\ ratings' = [ratings EXCEPT !.task[t].pc = "model", !.byModel = @ \cup {r.id}]

StoreRating(t) ==
    LET r == ratings.task[t]
    IN r.pc = "store" /\ ratings' = [ratings EXCEPT !.task[t].pc = "model",
                                        !.stored = @ \cup {[id |-> r.id, stars |-> r.stars]}]

\* The model's list, then check_rating_alerts on the recent ratings of the model.
IndexRating(t) ==
    /\ ratings.task[t].pc = "model"
    /\ ratings' = [ratings EXCEPT !.task[t].pc = "alert", !.byModel = @ \cup {ratings.task[t].id}]

RatingsOf(ids) == {s \in ratings.stored : s.id \in ids}
StarSum(rs) == MapThenSumSet(LAMBDA s : s.stars, rs)

\* Five or more recent ratings below three on average raise an alert.
CheckRatingAlerts(t) ==
    /\ ratings.task[t].pc = "alert"
    /\ LET rs == RatingsOf(ratings.byModel)
           low == Cardinality(rs) >= RecentRatings /\ StarSum(rs) < 3 * Cardinality(rs)
       IN ratings' = [ratings EXCEPT !.alerted = IF low THEN @ + 1 ELSE @,
                         !.task[t] = IF ratings.task[t].host THEN [@ EXCEPT !.pc = "host"] ELSE NoRating]

\* submit_rating_for_host, the host's list.
IndexHostRating(t) ==
    /\ ratings.task[t].pc = "host"
    /\ ratings' = [ratings EXCEPT !.task[t] = NoRating, !.byHost = @ \cup {ratings.task[t].id}]

\* moderate_rating; the sums below do not look at the answer.
ModerateRating(id, approved) ==
    /\ id \in ratings.queue
    /\ ratings' = [ratings EXCEPT !.queue = @ \ {id}, !.rejected = IF approved THEN @ ELSE @ \cup {id}]

\* calculate_reputation_impact, with a factor of one: every call adds the same ratings again.
CalculateReputationImpact ==
    LET rs == RatingsOf(ratings.byHost)
        change == IF Cardinality(rs) >= MinImpact THEN StarSum(rs) - 3 * Cardinality(rs) ELSE 0
    IN /\ rs # {} /\ ratings.applied < 2
       /\ ratings' = [ratings EXCEPT !.applied = @ + 1, !.reputation = Max({0, Min({200, @ + change})})]

RatingsNext ==
    \/ CalculateReputationImpact
    \/ \E id \in ratings.queue, approved \in BOOLEAN : ModerateRating(id, approved)
    \/ \E t \in QaTasks :
          \/ StoreRating(t) \/ IndexRating(t) \/ CheckRatingAlerts(t) \/ IndexHostRating(t)
          \/ \E stars \in Stars, spam, host \in BOOLEAN : SubmitRating(t, stars, spam, host)

-----------------------------------------------------------------------------
(* AccuracyVerifier.  holder is the task that has the lock of the results. *)

AccuracyInit == \E store \in IF qaPart = "accuracy" THEN BOOLEAN ELSE {TRUE} :
    accuracy = [store |-> store, results |-> <<>>, queued |-> 0, pending |-> 0, completed |-> 0, rules |-> {}, byModel |-> 0,
                holder |-> "none", pc |-> [t \in QaTasks |-> "idle"]]

\* queue_verification: counted, verified by verify_response, counted again.
QueueVerification(t) ==
    /\ accuracy.pc[t] = "idle" /\ accuracy.queued < MaxQaOps
    /\ accuracy' = [accuracy EXCEPT !.pc[t] = "verify", !.queued = @ + 1, !.pending = @ + 1]

\* verify_response: a ground truth decides, otherwise a fixed score is accurate.  The
\* result is kept only where store_results is configured.
VerifyResponse(t, accurate) ==
    /\ accuracy.pc[t] = "verify"
    /\ \/ /\ accuracy.store /\ accuracy.holder = "none"
          /\ accuracy' = [accuracy EXCEPT !.pc[t] = "count", !.results = Append(@, accurate)]
       \/ /\ ~accuracy.store
          /\ accuracy' = [accuracy EXCEPT !.pc[t] = "count"]

CountVerified(t) ==
    /\ accuracy.pc[t] = "count"
    /\ accuracy' = [accuracy EXCEPT !.pc[t] = "idle", !.pending = @ - 1, !.completed = @ + 1]

\* record_verification_result holds the results' lock while check_accuracy_alerts asks
\* for it: the call does not return and nobody has the lock again.
RecordVerification(t, accurate) ==
    /\ accuracy.pc[t] = "idle" /\ accuracy.holder = "none" /\ Len(accuracy.results) < MaxQaOps
    /\ accuracy' = [accuracy EXCEPT !.pc[t] = "stuck", !.holder = t, !.results = Append(@, accurate)]

\* add_validation_rule and record_model_verification have locks of their own.
AddValidationRule == accuracy.rules = {} /\ accuracy' = [accuracy EXCEPT !.rules = {"json"}]
RecordModelVerification == accuracy.byModel < 1 /\ accuracy' = [accuracy EXCEPT !.byModel = @ + 1]

AccuracyNext ==
    \/ AddValidationRule \/ RecordModelVerification
    \/ \E t \in QaTasks :
          \/ QueueVerification(t) \/ CountVerified(t)
          \/ \E accurate \in BOOLEAN : VerifyResponse(t, accurate) \/ RecordVerification(t, accurate)

\* validate_format: the rule must exist; json text must parse and have every field.
ValidateFormat(rule, isObject, parses, missing) == rule \in accuracy.rules /\ isObject /\ parses /\ missing = {}

\* check_consistency: the most frequent answer's share of the responses, in percent.
ConsistencyScore(answers) ==
    IF answers = <<>> THEN 0
    ELSE (100 * Max({Cardinality({k \in DOMAIN answers : answers[k] = answers[i]}) : i \in DOMAIN answers}))
             \div Len(answers)

-----------------------------------------------------------------------------
(* ResponseTimeTracker.                                                    *)

ResponseInit ==
    response = [window |-> <<>>, holder |-> "none", baselines |-> {}, alerted |-> 0]

\* record_response_time: pushed and trimmed; then check_performance_alerts asks for the
\* lock the call holds.
RecordResponseTime(t, ms) ==
    /\ response.holder = "none"
    /\ LET w == Append(response.window, ms)
       IN response' = [response EXCEPT !.holder = t,
                          !.window = SubSeq(w, Max({1, Len(w) - SlidingWindow + 1}), Len(w))]

\* capture_baseline
CaptureBaseline ==
    /\ response.holder = "none" /\ response.baselines = {}
    /\ response' = [response EXCEPT !.baselines = {"base"}]

\* get_latency_distribution: the bucket above min and up to max, and one for the rest.
InBucket(ms, buckets, i) ==
    LET low == IF i = 1 THEN 0 ELSE buckets[i - 1]
    IN IF i > Len(buckets) THEN ms > buckets[Len(buckets)] ELSE ms > low /\ ms <= buckets[i]

\* calculate_percentile of sorted durations, at the lower index.
Percentile(sorted, p) == IF sorted = <<>> THEN 0 ELSE sorted[(p * (Len(sorted) - 1)) \div 100 + 1]

ResponseNext == CaptureBaseline \/ \E t \in QaTasks, ms \in {1, 2} : RecordResponseTime(t, ms)

-----------------------------------------------------------------------------
(* UptimeTracker: the node's own heartbeat, a service's heartbeat with its *)
(* two locks, and the downtime events with their file.                     *)

UptimeInit ==
    uptime = [now |-> 0, start |-> -1, beat |-> -1, status |-> "Offline", down |-> <<>>, file |-> <<>>,
              alerted |-> FALSE, service |-> "none", serviceBeat |-> -1, statusLock |-> "none", beatLock |-> "none",
              pc |-> [t \in QaTasks |-> "idle"]]

UptimeTick == uptime.now < MaxQaNow /\ uptime' = [uptime EXCEPT !.now = @ + 1]

\* start_tracking, set_tracking_start_time
StartTracking == uptime' = [uptime EXCEPT !.start = uptime.now, !.status = "Online"]

\* record_heartbeat
RecordHeartbeat == uptime' = [uptime EXCEPT !.beat = uptime.now, !.status = "Online"]

\* check_status: offline once the last heartbeat is too old; without one nothing changes.
CheckStatus ==
    /\ uptime.beat >= 0 /\ uptime.now - uptime.beat > DownAfter
    /\ uptime' = [uptime EXCEPT !.status = "Offline"]

\* record_downtime_event
RecordDowntime(ms) == Len(uptime.down) < 2 /\ uptime' = [uptime EXCEPT !.down = Append(@, ms)]

\* save_metrics, load_metrics: the file replaces what was recorded since.
SaveUptime == uptime' = [uptime EXCEPT !.file = uptime.down]
LoadUptime == uptime.file # <<>> /\ uptime' = [uptime EXCEPT !.down = uptime.file]

\* calculate_uptime_percentage: the downtime of the window, of events that may overlap,
\* is subtracted from the window without a check.
Downtime == IF uptime.down = <<>> THEN 0 ELSE uptime.down[1] + (IF Len(uptime.down) = 2 THEN uptime.down[2] ELSE 0)
UptimePercentage ==
    LET window == uptime.now - Max({uptime.start, 0})
    IN IF window = 0 THEN 100 ELSE (100 * ((window - Downtime) % 65536)) \div window

\* set_uptime_percentage: the first threshold that is reached raises the alert.
UptimeAlert == UptimePercentage <= 50 /\ uptime' = [uptime EXCEPT !.alerted = TRUE]

\* start_tracking_service takes the statuses' lock, then the heartbeats';
\* record_service_heartbeat takes them the other way round.
TrackService(t) ==
    \/ /\ uptime.pc[t] = "idle" /\ uptime.statusLock = "none"
       /\ uptime' = [uptime EXCEPT !.pc[t] = "track", !.statusLock = t, !.service = "Online"]
    \/ /\ uptime.pc[t] = "track" /\ uptime.beatLock = "none"
       /\ uptime' = [uptime EXCEPT !.pc[t] = "idle", !.statusLock = "none", !.serviceBeat = uptime.now]

ServiceHeartbeat(t) ==
    \/ /\ uptime.pc[t] = "idle" /\ uptime.beatLock = "none"
       /\ uptime' = [uptime EXCEPT !.pc[t] = "beat", !.beatLock = t, !.serviceBeat = uptime.now]
    \/ /\ uptime.pc[t] = "beat" /\ uptime.statusLock = "none"
       /\ uptime' = [uptime EXCEPT !.pc[t] = "idle", !.beatLock = "none", !.service = "Online"]

\* get_multi_service_report: what a service is reported as.
ServiceReport == IF uptime.now - uptime.serviceBeat > DownAfter THEN "Offline" ELSE uptime.service

UptimeNext ==
    \/ UptimeTick \/ StartTracking \/ RecordHeartbeat \/ CheckStatus \/ SaveUptime \/ LoadUptime \/ UptimeAlert
    \/ \E ms \in {1, 2} : RecordDowntime(ms)
    \/ \E t \in QaTasks : TrackService(t) \/ ServiceHeartbeat(t)

-----------------------------------------------------------------------------

QaInit ==
    /\ qaPart \in {"ratings", "accuracy", "response", "uptime"}
    /\ RatingsInit /\ AccuracyInit /\ ResponseInit /\ UptimeInit

QaNext ==
    /\ UNCHANGED qaPart
    /\ \/ qaPart = "ratings" /\ RatingsNext /\ UNCHANGED <<accuracy, response, uptime>>
       \/ qaPart = "accuracy" /\ AccuracyNext /\ UNCHANGED <<ratings, response, uptime>>
       \/ qaPart = "response" /\ ResponseNext /\ UNCHANGED <<ratings, accuracy, uptime>>
       \/ qaPart = "uptime" /\ UptimeNext /\ UNCHANGED <<ratings, accuracy, response>>

QaSpec == QaInit /\ [][QaNext]_qaVars

-----------------------------------------------------------------------------

\* A rating a model's or a host's list names is stored, at every moment, so that no
\* summary or reputation leaves one out, although the three are written under
\* different locks and several users rate at once.
ListedRatingIsStored == ratings.byModel \cup ratings.byHost \subseteq {s.id : s \in ratings.stored}

\* Every verification that was queued is counted as pending or completed, and where
\* store_results is configured a completed one left its result, also when another task
\* blocks the results for ever.
VerificationsAccounted ==
    /\ accuracy.queued = accuracy.pending + accuracy.completed
    /\ accuracy.store => accuracy.completed <= Len(accuracy.results)
=============================================================================
