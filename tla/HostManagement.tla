--------------------------- MODULE HostManagement ---------------------------
(***************************************************************************)
(* The host side of the node: registration with its heartbeat              *)
(* (host/registration.rs), availability and job capacity                   *)
(* (host/availability.rs), the index of hosts by model (host/registry.rs), *)
(* host selection (host/selection.rs), prices (host/pricing.rs) and        *)
(* resource bookkeeping (host/resources.rs).  The parts share no state: a  *)
(* behaviour is about one of them.                                         *)
(***************************************************************************)
EXTENDS Integers, Sequences, FiniteSets

CONSTANTS HostJobs,     \* job ids
          HostModels,   \* model ids
          HostIds,      \* host addresses
          Heartbeat,    \* heartbeat_interval, in ticks
          MaxHostNow,   \* bound on the clock
          MaxSlots,     \* bound on max_concurrent_jobs
          MaxHistory,   \* bound on a price history
          MaxExponent   \* prices are powers of two up to 2^MaxExponent

ASSUME HostAssumption ==
    /\ Heartbeat \in Nat \ {0}
    /\ MaxHostNow \in Nat /\ MaxSlots \in Nat /\ MaxHistory \in Nat /\ MaxExponent \in Nat

VARIABLES hostPart,   \* the part this behaviour is about
          reg,        \* NodeRegistration, and what the contract holds
          avail,      \* AvailabilityManager
          directory,  \* the contract's hosts, HostRegistry's index
          ranking,    \* HostSelector.performance_tracker and the last choice
          pricing,    \* PricingManager
          resources   \* ResourceMonitor

hostVars == <<hostPart, reg, avail, directory, ranking, pricing, resources>>

-----------------------------------------------------------------------------
(* NodeRegistration.                                                       *)

\* registered, handle, task: is_registered, heartbeat_handle, the spawned task;
\* chain, reverted: the contract's record, a receipt of a reverted registration.
RegInit ==
    reg = [registered |-> FALSE, handle |-> FALSE, task |-> FALSE, last |-> 0, wake |-> 0,
           now |-> 0, meta |-> 0, chainMeta |-> 0, chain |-> FALSE, reverted |-> FALSE]

\* start_heartbeat: no second task while there is a handle.
StartHeartbeat(r) ==
    IF r.handle THEN r ELSE [r EXCEPT !.handle = TRUE, !.task = TRUE, !.wake = r.now]

\* stop_heartbeat: the handle is taken and the task aborted.
StopHeartbeat(r) == [r EXCEPT !.handle = FALSE, !.task = FALSE]

\* register_node: no stake, no approved model, a bad price or a failed send
\* return early; a receipt counts as registration whatever its status.
RegisterNode ==
    \/ UNCHANGED reg
    \/ reg' = [reg EXCEPT !.chain = TRUE]              \* mined, the receipt is lost
    \/ reg' = StartHeartbeat([reg EXCEPT !.registered = TRUE, !.chain = TRUE, !.chainMeta = reg.meta])
    \/ reg' = StartHeartbeat([reg EXCEPT !.registered = TRUE, !.reverted = TRUE])

\* update_capabilities: the metadata is replaced before the transaction is sent.
UpdateCapabilities(m) ==
    /\ reg.registered
    /\ \E mined \in BOOLEAN :
          reg' = [reg EXCEPT !.meta = m, !.chainMeta = IF mined /\ reg.chain THEN m ELSE @]

\* Mutant: the heartbeat is stopped once the transaction is confirmed.
UnregisterNode_StopLate ==
    /\ reg.registered
    /\ \/ UNCHANGED reg
       \/ reg' = [reg EXCEPT !.chain = FALSE]
       \/ reg' = StopHeartbeat([reg EXCEPT !.chain = FALSE, !.registered = FALSE])

\* unregister_node: the heartbeat stops first; is_registered is cleared only
\* when a receipt arrived.
UnregisterNode ==
    /\ reg.registered
    /\ \/ reg' = StopHeartbeat(reg)                                \* not sent
       \/ reg' = StopHeartbeat([reg EXCEPT !.chain = FALSE])       \* receipt lost
       \/ reg' = StopHeartbeat([reg EXCEPT !.chain = FALSE, !.registered = FALSE])

\* One turn of the heartbeat loop: after the sleep is_registered is read, then
\* last_heartbeat is written.
Beat ==
    /\ reg.task /\ reg.now >= reg.wake
    /\ reg' = IF reg.registered
              THEN [reg EXCEPT !.last = reg.now, !.wake = reg.now + Heartbeat]
              ELSE [reg EXCEPT !.task = FALSE]

RegTick == reg.now < MaxHostNow /\ reg' = [reg EXCEPT !.now = @ + 1]

\* is_heartbeat_healthy
HeartbeatHealthy ==
    /\ reg.registered /\ reg.handle
    /\ reg.now - reg.last < 2 * Heartbeat

RegNext ==
    \/ RegisterNode \/ UnregisterNode \/ Beat \/ RegTick
    \/ \E m \in {0, 1} : UpdateCapabilities(m)

-----------------------------------------------------------------------------
(* AvailabilityManager.                                                    *)

\* active[m] is -1 while the model has no capacity_config; max is the usable
\* capacity (max_concurrent_jobs - reserved_capacity).
AvailInit ==
    avail = [status |-> "Available", shutdown |-> FALSE, windows |-> {},
             max |-> [m \in HostModels |-> 0], active |-> [m \in HostModels |-> -1],
             free |-> [m \in HostModels |-> 0], jobs |-> {}]

\* Mutant: a new configuration keeps the count of running jobs.
SetCapacityConfig_KeepCount(m, n) ==
    avail' = [avail EXCEPT !.max[m] = n, !.free[m] = n,
                           !.active[m] = IF @ = -1 THEN 0 ELSE @]

\* set_capacity_config: usage starts again at zero, allocations are kept.
SetCapacityConfig(m, n) ==
    avail' = [avail EXCEPT !.max[m] = n, !.active[m] = 0, !.free[m] = n]

\* allocate_capacity
AllocateCapacity(m, j) ==
    /\ ~avail.shutdown
    /\ avail.active[m] # -1 /\ avail.active[m] < avail.max[m]
    /\ avail' = [avail EXCEPT !.active[m] = @ + 1,
                              !.free[m] = avail.max[m] - (avail.active[m] + 1),
                              !.jobs = {a \in @ : a[1] # j} \cup {<<j, m>>}]

\* release_capacity: the model is the caller's, not the one of the allocation.
ReleaseCapacity(m, j) ==
    /\ avail.active[m] # -1
    /\ LET left == IF avail.active[m] > 0 THEN avail.active[m] - 1 ELSE 0
       IN avail' = [avail EXCEPT !.active[m] = left,
                                 !.free[m] = IF avail.active[m] > 0 THEN avail.max[m] - left ELSE @,
                                 !.jobs = {a \in @ : a[1] # j}]

\* set_status
SetStatus(s) == avail' = [avail EXCEPT !.status = s]

\* set_schedule: a valid schedule sets the status of the present time.
SetSchedule == \E s \in {"Available", "Unavailable", "Maintenance"} : SetStatus(s)

\* initiate_graceful_shutdown
InitiateGracefulShutdown == avail' = [avail EXCEPT !.shutdown = TRUE, !.status = "ShuttingDown"]

WindowsOverlap(a, b) == a[1] < b[2] /\ a[2] > b[1]

\* schedule_maintenance: refused when it overlaps a window that is kept.
ScheduleMaintenance(w) ==
    /\ \A k \in avail.windows : ~WindowsOverlap(w, k)
    /\ avail' = [avail EXCEPT !.windows = @ \cup {w}]

AvailNext ==
    \/ InitiateGracefulShutdown \/ SetSchedule
    \/ \E s \in {"Unavailable"} : SetStatus(s)
    \/ \E w \in {<<0, 2>>, <<1, 3>>, <<2, 3>>} : ScheduleMaintenance(w)
    \/ \E m \in HostModels :
          \/ \E n \in 0 .. MaxSlots : SetCapacityConfig(m, n)
          \/ \E j \in HostJobs : AllocateCapacity(m, j) \/ ReleaseCapacity(m, j)

-----------------------------------------------------------------------------
(* HostRegistry: models[h] is what the contract says host h serves.        *)

DirInit ==
    directory = [hosts |-> {}, models |-> [h \in HostIds |-> {}],
                 index |-> {}, online |-> {}, refresh |-> {}, refreshing |-> FALSE]

\* The RegistryMonitor's view of the contract.
HostChanges(h, ms) ==
    directory' = [directory EXCEPT !.hosts = IF ms = {} THEN @ \ {h} ELSE @ \cup {h}, !.models[h] = ms]

\* is_host_online_internal: a registered host is remembered as online.
IsHostOnline(h) ==
    /\ h \in directory.hosts
    /\ directory' = [directory EXCEPT !.online = @ \cup {h}]

Indexed(m) == {e \in directory.index : e.model = m}
HostsFor(m) == {h \in directory.hosts : m \in directory.models[h]}

\* get_available_hosts: an entry of the index is returned as it is, a missing one
\* computed and kept.
GetAvailableHosts(m) ==
    /\ Indexed(m) = {}
    /\ directory' = [directory EXCEPT !.index = @ \cup {[model |-> m, hosts |-> HostsFor(m)]}]

\* refresh_model_index: computed without the lock, then written over the index.
RefreshRead ==
    /\ ~directory.refreshing
    /\ directory' = [directory EXCEPT !.refreshing = TRUE,
          !.refresh = {[model |-> m, hosts |-> HostsFor(m)] : m \in {k \in HostModels : HostsFor(k) # {}}}]

RefreshWrite ==
    /\ directory.refreshing
    /\ directory' = [directory EXCEPT !.refreshing = FALSE, !.refresh = {}, !.index = directory.refresh]

DirNext ==
    \/ RefreshRead \/ RefreshWrite
    \/ \E h \in HostIds : IsHostOnline(h) \/ \E ms \in SUBSET HostModels : HostChanges(h, ms)
    \/ \E m \in HostModels : GetAvailableHosts(m)

-----------------------------------------------------------------------------
(* HostSelector.                                                           *)

\* Units: seconds, 0.0001 per token, halves of a reliable host, active jobs.  The
\* dearer of the hosts enumerated are the more reliable ones.
Metrics == {m \in [time : {0, 1}, cost : {1, 2}, reliable : {1, 2}, load : {0, 1}] : m.reliable = m.cost}
\* PerformanceMetrics::default: what a host without an entry is taken for.
DefaultMetrics == [time |-> 1, cost |-> 2, reliable |-> 1, load |-> 0]
Unknown == [time |-> -1, cost |-> -1, reliable |-> -1, load |-> -1]

RankInit ==
    ranking = [tracker |-> [h \in HostIds |-> Unknown], online |-> HostIds, chosen |-> {}, by |-> "none"]

MetricsOf(h) == IF ranking.tracker[h] = Unknown THEN DefaultMetrics ELSE ranking.tracker[h]

\* calculate_host_score with the default weights, times 600.
HostScore(m) ==
    (IF m.time > 0 THEN 180 \div (1 + m.time) ELSE 0)
    + (IF m.cost > 0 THEN 120 \div (1 + m.cost) ELSE 0)
    + 90 * m.reliable + 120 \div (1 + m.load)

\* filter_by_requirements: online, the model, the RAM, and the two optional limits.
Fits(h, maxCost, minReliable) ==
    /\ h \in ranking.online
    /\ MetricsOf(h).cost <= maxCost /\ MetricsOf(h).reliable >= minReliable

\* select_top_n_hosts (select_best_host is n = 1): the n best scores.
SelectTopHosts(n, maxCost, minReliable) ==
    LET fit == {h \in HostIds : Fits(h, maxCost, minReliable)}
    IN \E s \in SUBSET fit :
          /\ Cardinality(s) = (IF n < Cardinality(fit) THEN n ELSE Cardinality(fit))
          /\ \A h \in s, k \in fit \ s : HostScore(MetricsOf(h)) >= HostScore(MetricsOf(k))
          /\ ranking' = [ranking EXCEPT !.chosen = s, !.by = "score"]

\* select_by_cost_optimization, select_by_performance (skips a time of zero) and
\* select_with_load_balancing (skips hosts without metrics).
SelectLeast(by) ==
    LET of(h) == IF by = "cost" THEN MetricsOf(h).cost
                 ELSE IF by = "time" THEN MetricsOf(h).time ELSE MetricsOf(h).load
        set == {h \in ranking.online : /\ by = "time" => MetricsOf(h).time > 0
                                       /\ by = "load" => ranking.tracker[h] # Unknown}
    IN \E s \in {{h} : h \in set} \cup (IF set = {} THEN {{}} ELSE {}) :
          /\ \A h \in s, k \in set : of(h) <= of(k)
          /\ ranking' = [ranking EXCEPT !.chosen = s, !.by = by]

\* update_performance_metrics
UpdateMetrics(h, m) == ranking' = [ranking EXCEPT !.tracker[h] = m, !.chosen = {}, !.by = "none"]

GoesOffline(h) == ranking' = [ranking EXCEPT !.online = @ \ {h}, !.chosen = {}, !.by = "none"]

RankNext ==
    \/ \E n \in {1, 2}, c \in {1, 2}, r \in {0, 2} : SelectTopHosts(n, c, r)
    \/ \E by \in {"cost", "time", "load"} : SelectLeast(by)
    \/ \E h \in HostIds : GoesOffline(h) \/ \E m \in Metrics : UpdateMetrics(h, m)

-----------------------------------------------------------------------------
(* PricingManager: a price is the exponent of a power of two, -1 no entry. *)

PriceInit ==
    pricing = [price |-> [m \in HostModels |-> -1], minimum |-> 0,
               history |-> [m \in HostModels |-> <<>>], promoted |-> {}]

Recorded(p, m, k) == [p EXCEPT !.price[m] = k, !.history[m] = Append(@, k)]

\* set_pricing: refused below the minimum and for a tier that is not a range.
SetPricing(m, k) ==
    /\ k >= pricing.minimum
    /\ pricing' = Recorded(pricing, m, k)

\* update_base_price
UpdateBasePrice(m, k) ==
    /\ pricing.price[m] # -1 /\ k >= pricing.minimum
    /\ pricing' = Recorded(pricing, m, k)

\* apply_bulk_update: the minimum is not consulted; models without a price are
\* passed over.
ApplyBulkUpdate(ms, d) ==
    LET hit == {m \in ms : pricing.price[m] # -1}
        new(m) == pricing.price[m] + d
    IN /\ \A m \in hit : new(m) \in 0 .. MaxExponent
       /\ pricing' = [pricing EXCEPT
             !.price = [m \in HostModels |-> IF m \in hit THEN new(m) ELSE @[m]],
             !.history = [m \in HostModels |-> IF m \in hit THEN Append(@[m], new(m)) ELSE @[m]]]

\* set_minimum_price_per_token: prices that are already set stay.
SetMinimumPrice(k) == pricing' = [pricing EXCEPT !.minimum = k]

\* create_promotion
CreatePromotion(m) ==
    /\ pricing.price[m] # -1
    /\ pricing' = [pricing EXCEPT !.promoted = @ \cup {m}]

PriceNext ==
    /\ \A m \in HostModels : Len(pricing.history[m]) < MaxHistory
    /\ \/ \E m \in HostModels : CreatePromotion(m)
       \/ \E m \in HostModels, k \in 0 .. MaxExponent : SetPricing(m, k) \/ UpdateBasePrice(m, k)
       \/ \E ms \in SUBSET HostModels, d \in {-1, 1} : ApplyBulkUpdate(ms, d)
       \/ \E k \in 0 .. MaxExponent : SetMinimumPrice(k)

-----------------------------------------------------------------------------
(* ResourceMonitor.                                                        *)

ResInit ==
    resources = [initialized |-> FALSE, monitoring |-> FALSE, history |-> 0,
                 memory |-> [j \in HostJobs |-> 0], thresholds |-> {}, alerts |-> 0]

InitializeMonitor == resources' = [resources EXCEPT !.initialized = TRUE]

\* start_monitoring: the handle of an earlier monitor is dropped, not aborted; the
\* samples go to a history of the task's own, metrics_history stays empty.
StartMonitoring == resources.initialized /\ resources' = [resources EXCEPT !.monitoring = TRUE]
StopMonitoring == resources' = [resources EXCEPT !.monitoring = FALSE]

AddAlertThreshold(v) == resources' = [resources EXCEPT !.thresholds = @ \cup {v}]

\* simulate_metric: one alert for every threshold the value reaches.
SimulateMetric(v) ==
    resources' = [resources EXCEPT !.alerts = Cardinality({t \in resources.thresholds : v >= t})]

\* allocate_resources: nothing is refused; a second allocation replaces the first.
AllocateResources(j, n) == resources' = [resources EXCEPT !.memory[j] = n]

\* release_resources
ReleaseResources(j) ==
    /\ resources.memory[j] # 0
    /\ resources' = [resources EXCEPT !.memory[j] = 0]

ResNext ==
    \/ InitializeMonitor \/ StartMonitoring \/ StopMonitoring
    \/ \E v \in {1, 2} : AddAlertThreshold(v) \/ SimulateMetric(v)
    \/ \E j \in HostJobs : ReleaseResources(j) \/ \E n \in {1, 2} : AllocateResources(j, n)

-----------------------------------------------------------------------------

HostInit ==
    /\ hostPart \in {"reg", "avail", "directory", "ranking", "pricing", "resources"}
    /\ RegInit /\ AvailInit /\ DirInit /\ RankInit /\ PriceInit /\ ResInit

HostNext ==
    /\ UNCHANGED hostPart
    /\ \/ hostPart = "reg" /\ RegNext /\ UNCHANGED <<avail, directory, ranking, pricing, resources>>
       \/ hostPart = "avail" /\ AvailNext /\ UNCHANGED <<reg, directory, ranking, pricing, resources>>
       \/ hostPart = "directory" /\ DirNext /\ UNCHANGED <<reg, avail, ranking, pricing, resources>>
       \/ hostPart = "ranking" /\ RankNext /\ UNCHANGED <<reg, avail, directory, pricing, resources>>
       \/ hostPart = "pricing" /\ PriceNext /\ UNCHANGED <<reg, avail, directory, ranking, resources>>
       \/ hostPart = "resources" /\ ResNext /\ UNCHANGED <<reg, avail, directory, ranking, pricing>>

HostSpec == HostInit /\ [][HostNext]_hostVars

-----------------------------------------------------------------------------

\* A node the contract does not hold never reports a healthy heartbeat, also when
\* the receipt of its unregisterNode is lost; the one exception is a receipt of a
\* reverted registerNode, whose status is not looked at.
HealthyIsRegistered == HeartbeatHealthy => reg.chain \/ reg.reverted

\* The slots a model reports free and the jobs it counts always make up the usable
\* capacity, whatever releases, new configurations and shutdowns came between.
SlotsAddUp ==
    \A m \in HostModels : avail.active[m] # -1 => avail.active[m] + avail.free[m] = avail.max[m]
=============================================================================
