---------------------------- MODULE Performance ----------------------------
(***************************************************************************)
(* The performance services: request batching (performance/batching.rs),   *)
(* the load balancer (performance/load_balancing.rs), the inference cache  *)
(* (performance/caching.rs) and GPU memory (performance/gpu_management.rs).*)
(* Each keeps its state behind one lock, so an operation is one step; a    *)
(* behaviour is about one of the services.                                 *)
(***************************************************************************)
EXTENDS Integers, Sequences, FiniteSets, SequencesExt

CONSTANTS BatchModels,      \* models requests ask for
          Priorities,       \* priorities of the requests
          MaxRequestIds,    \* requests are numbered 1 .. MaxRequestIds
          QueueSize,        \* BatchConfig.queue_size
          Strategy,         \* BatchConfig.batching_strategy at the start
          MaxBatchSize,     \* BatchConfig.max_batch_size at the start
          LatencySize,      \* the max_batch_size of optimize_for_latency (eight)
          ThroughputSize,   \* and of optimize_for_throughput (64)
          LbNodes,          \* worker nodes
          LbSessions,       \* sessions with affinity
          MaxLbConns,       \* bound on the connections of a node
          HealthFailures,   \* failed checks that make a node unhealthy (three)
          FailuresToOpen,   \* failures after which error_rate exceeds 0.5 (seven)
          CacheKeys,        \* CacheKey
          MaxEntries,       \* CacheConfig.max_entries
          MaxMemory,        \* CacheConfig.max_memory_mb, in units
          Word,             \* usize wraps at this value
          GpuDevices,       \* device ids: 0 .. n - 1
          GpuMemory,        \* total_memory of a device, in units
          MaxAllocations    \* allocations are numbered 1 .. MaxAllocations

ASSUME PerfAssumption ==
    /\ MaxRequestIds \in Nat /\ QueueSize \in Nat /\ MaxBatchSize \in Nat \ {0}
    /\ Strategy \in {"Static", "Dynamic", "Adaptive", "Continuous"} /\ LatencySize \in Nat \ {0} /\ ThroughputSize \in Nat \ {0}
    /\ MaxLbConns \in Nat /\ FailuresToOpen \in Nat \ {0} /\ HealthFailures \in Nat \ {0}
    /\ MaxEntries \in Nat \ {0} /\ MaxMemory \in Nat /\ Word \in Nat \ {0}
    /\ GpuDevices = 0 .. Cardinality(GpuDevices) - 1 /\ GpuMemory \in Nat /\ MaxAllocations \in Nat

VARIABLES perfPart, batching, balancer, icache, gpu

perfVars == <<perfPart, batching, balancer, icache, gpu>>

-----------------------------------------------------------------------------
(* BatchProcessor.                                                         *)

\* queues[1] holds critical, queues[2] high, queues[3] normal and low requests.  The
\* task of process_batch_stream runs on a clone, with the configuration of its start
\* (own); out is what it has taken and not yet sent, lost what it could not send.
BatchingInit ==
    LET config == [strategy |-> Strategy, size |-> MaxBatchSize]
    IN batching = [config |-> config, own |-> config, queues |-> <<<<>>, <<>>, <<>>>>, sent |-> 0,
                   batches |-> <<>>, dropped |-> 0, gone |-> {}, task |-> "off", heard |-> TRUE,
                   out |-> <<>>, done |-> {}, lost |-> <<>>]

\* to_queue_index
QueueIndex(priority) ==
    CASE priority = "Critical" -> 1 [] priority = "High" -> 2 [] OTHER -> 3

\* submit_request: a full queue drops the request.
SubmitRequest(m, priority) ==
    LET q == QueueIndex(priority)
        r == [id |-> batching.sent + 1, model |-> m]
    IN /\ batching.sent < MaxRequestIds
       /\ batching' = IF Len(batching.queues[q]) >= QueueSize
                      THEN [batching EXCEPT !.sent = @ + 1, !.dropped = @ + 1, !.gone = @ \cup {r.id}]
                      ELSE [batching EXCEPT !.sent = @ + 1, !.queues[q] = Append(@, r)]

Flat(qs) == qs[1] \o qs[2] \o qs[3]
FirstOf(s, n) == SubSeq(s, 1, IF n < Len(s) THEN n ELSE Len(s))
Ids(s) == {s[i].id : i \in 1 .. Len(s)}

\* The requests of s that belong to keep, in their order.
Only(s, keep) == FlattenSeq([i \in 1 .. Len(s) |-> IF s[i] \in keep THEN <<s[i]>> ELSE <<>>])
Without(qs, ids) == [i \in 1 .. 3 |-> Only(qs[i], {r \in ToSet(qs[i]) : r.id \notin ids})]

\* collect_static_batch: in queue order, requests of the first one's model.
CollectStatic(qs, size) ==
    LET all == Flat(qs)
    IN IF all = <<>> THEN <<>> ELSE FirstOf(Only(all, {r \in ToSet(all) : r.model = Head(all).model}), size)

\* collect_dynamic_batch (and continuous): in queue order, whatever the model; the
\* time waited decides nothing, as the batch is full when it would be asked for.
CollectDynamic(qs, size) == FirstOf(Flat(qs), size)

\* collect_adaptive_batch
AdaptiveSize(total, size) ==
    IF total > 100 THEN size
    ELSE IF total > 50 THEN size \div 2
    ELSE IF 8 < size THEN 8 ELSE size
CollectAdaptive(qs, size) == FirstOf(Flat(qs), AdaptiveSize(Len(Flat(qs)), size))

Collect(qs, config) ==
    CASE config.strategy = "Static" -> CollectStatic(qs, config.size)
      [] config.strategy = "Adaptive" -> CollectAdaptive(qs, config.size)
      [] OTHER -> CollectDynamic(qs, config.size)

\* The batch as it is kept: how many requests it holds, its status, the size in force.
BatchOf(s, config) == [requests |-> Len(s), status |-> "Pending", limit |-> config.size]

\* Mutant: the requests of a batch stay in their queues.
Taken_Copy(b, s, config) == [b EXCEPT !.batches = Append(@, BatchOf(s, config))]

Taken(b, s, config) ==
    [b EXCEPT !.queues = Without(@, Ids(s)), !.batches = Append(@, BatchOf(s, config))]

\* get_next_batch: try_create_batch by a caller of its own ...
TryCreateBatch ==
    LET s == Collect(batching.queues, batching.config)
    IN /\ s # <<>>
       /\ batching' = [Taken(batching, s, batching.config) EXCEPT !.done = @ \cup Ids(s)]

\* ... or by the task of process_batch_stream ...
ProcessBatchStream ==
    /\ batching.task = "off"
    /\ batching' = [batching EXCEPT !.task = "running", !.own = batching.config]

StreamTakes ==
    LET s == Collect(batching.queues, batching.own)
    IN /\ batching.task = "running" /\ batching.out = <<>> /\ s # <<>>
       /\ batching' = [Taken(batching, s, batching.own) EXCEPT !.out = s]

\* ... which answers them one by one.
StreamAnswers ==
    /\ batching.task = "running" /\ batching.out # <<>> /\ batching.heard
    /\ batching' = [batching EXCEPT !.out = Tail(@), !.done = @ \cup {Head(batching.out).id}]

\* The receiver is dropped, which the task hears of at its next send only: it may take
\* one more batch before it returns, and what it has in hand is answered by nobody.
DropReceiver ==
    /\ batching.task = "running" /\ batching.heard
    /\ batching' = [batching EXCEPT !.heard = FALSE]

SendFails ==
    /\ batching.task = "running" /\ batching.out # <<>> /\ ~batching.heard
    /\ batching' = [batching EXCEPT !.task = "ended", !.lost = batching.out, !.out = <<>>,
                                    !.gone = @ \cup Ids(batching.out)]

\* cancel_request
CancelRequest(id) ==
    /\ id \in Ids(Flat(batching.queues))
    /\ batching' = [batching EXCEPT !.queues = Without(@, {id}), !.gone = @ \cup {id}]

\* cancel_batch: the status changes, the requests are answered all the same.
CancelBatch(i) ==
    /\ i \in 1 .. Len(batching.batches)
    /\ batching' = [batching EXCEPT !.batches[i].status = "Failed"]

\* clear_queues
ClearQueues ==
    batching' = [batching EXCEPT !.queues = <<<<>>, <<>>, <<>>>>,
                                 !.gone = @ \cup Ids(Flat(batching.queues))]

\* optimize_for_latency, optimize_for_throughput; the wait time they also set decides
\* how often get_next_batch looks at the queues, and nothing else.
Optimized == {[strategy |-> "Dynamic", size |-> LatencySize], [strategy |-> "Static", size |-> ThroughputSize]}
Optimize(config) == batching' = [batching EXCEPT !.config = config]

BatchNext ==
    \/ TryCreateBatch \/ ProcessBatchStream \/ StreamTakes \/ StreamAnswers
    \/ DropReceiver \/ SendFails \/ ClearQueues
    \/ \E m \in BatchModels, p \in Priorities : SubmitRequest(m, p)
    \/ \E id \in 1 .. MaxRequestIds : CancelRequest(id) \/ CancelBatch(id)
    \/ \E config \in Optimized : Optimize(config)

-----------------------------------------------------------------------------
(* LoadBalancer.                                                           *)

NoNode == "none"

BalancerInit ==
    balancer = [status |-> [n \in LbNodes |-> "Healthy"], conns |-> [n \in LbNodes |-> 0],
                failures |-> [n \in LbNodes |-> 0],
                errors |-> [n \in LbNodes |-> 0], busy |-> {},
                affinity |-> [s \in LbSessions |-> NoNode]]

Eligible == {n \in LbNodes : balancer.status[n] = "Healthy"}

\* select_node: a session's node while it is healthy, also when it is overloaded;
\* else one the strategy picks among the eligible, unless all are overloaded.
SelectNode(s) ==
    IF balancer.affinity[s] \in Eligible
    THEN UNCHANGED balancer
    ELSE /\ Eligible # {} /\ ~(Eligible \subseteq balancer.busy)
         /\ \E n \in Eligible :
               balancer' = [balancer EXCEPT !.affinity[s] = n]

Known(n) == balancer.status[n] # "Absent"

\* acquire_connection, release_connection: a node's limit is not looked at.
AcquireConnection(n) ==
    /\ Known(n) /\ balancer.conns[n] < MaxLbConns
    /\ balancer' = [balancer EXCEPT !.conns[n] = @ + 1]
ReleaseConnection(n) ==
    /\ Known(n) /\ balancer.conns[n] > 0
    /\ balancer' = [balancer EXCEPT !.conns[n] = @ - 1]

\* release_all_connections
ReleaseAll(n) ==
    /\ Known(n)
    /\ balancer' = [balancer EXCEPT !.conns[n] = 0, !.status[n] = "Drained"]

Reset(b, n, st) ==
    [b EXCEPT !.status[n] = st, !.conns[n] = 0, !.failures[n] = 0,
              !.errors[n] = 0, !.busy = @ \ {n}]

AddNode(n) == balancer' = Reset(balancer, n, "Healthy")

\* remove_node: the lock is held over the pause; affinities to the node go too.
RemoveNode(n) ==
    /\ Known(n)
    /\ balancer' = [Reset(balancer, n, "Absent") EXCEPT
          !.affinity = [s \in LbSessions |-> IF @[s] = n THEN NoNode ELSE @[s]]]

\* start_node_drain, mark_node_unhealthy
SetNodeStatus(n, st) ==
    /\ Known(n)
    /\ balancer' = [balancer EXCEPT !.status[n] = st]

\* update_node_metrics: the whole record is replaced, error_rate included.
UpdateNodeMetrics(n, b) ==
    /\ Known(n)
    /\ balancer' = [balancer EXCEPT !.errors[n] = 0, !.busy = IF b THEN @ \cup {n} ELSE @ \ {n}]

\* record_request_failure: the circuit of a failing node opens.
RecordRequestFailure(n) ==
    /\ Known(n) /\ balancer.errors[n] < FailuresToOpen
    /\ balancer' = [balancer EXCEPT !.errors[n] = @ + 1,
          !.status[n] = IF balancer.errors[n] + 1 >= FailuresToOpen THEN "CircuitOpen" ELSE @]

\* perform_health_check: repeated failures make a node unhealthy, one success heals an
\* unhealthy one and nothing else; the load is measured anew.
HealthCheck(n, ok, b) ==
    LET f == IF balancer.failures[n] < HealthFailures THEN balancer.failures[n] + 1 ELSE HealthFailures
    IN /\ Known(n)
       /\ balancer' = [balancer EXCEPT
             !.failures[n] = IF ok THEN 0 ELSE f,
             !.status[n] = IF ok /\ @ = "Unhealthy" THEN "Healthy"
                           ELSE IF ~ok /\ f >= HealthFailures THEN "Unhealthy" ELSE @,
             !.busy = IF b THEN @ \cup {n} ELSE @ \ {n}]

BalanceNext ==
    \/ \E s \in LbSessions : SelectNode(s)
    \/ \E n \in LbNodes :
          \/ AcquireConnection(n) \/ ReleaseConnection(n) \/ ReleaseAll(n)
          \/ AddNode(n) \/ RemoveNode(n) \/ RecordRequestFailure(n)
          \/ \E st \in {"Draining", "Unhealthy"} : SetNodeStatus(n, st)
          \/ \E b \in BOOLEAN : UpdateNodeMetrics(n, b)
          \/ \E ok, b \in BOOLEAN : HealthCheck(n, ok, b)

-----------------------------------------------------------------------------
(* InferenceCache: lru is the order of the keys, least recently used first; *)
(* an entry has size 1 or 2 and an embedding of size 1.                     *)

EmbeddingSize == 1

CacheInit ==
    icache = [lru |-> <<>>, size |-> [k \in CacheKeys |-> 0], semantic |-> <<>>,
              memory |-> 0, expired |-> {}, pressed |-> FALSE]

Keys(s) == {s[i] : i \in 1 .. Len(s)}
Minus(s, set) == LET Stays(k) == k \notin set IN SelectSeq(s, Stays)

\* What the first n keys of the order hold, with the extra the caller adds to each.
HeldBy(c, n, extra) ==
    LET sum[i \in 0 .. n] == IF i = 0 THEN 0 ELSE sum[i - 1] + c.size[c.lru[i]] + extra
    IN sum[n]

\* Keys popped: LRU entry, its semantic entries, and m as the new memory count.
Popped(c, set, m) ==
    [c EXCEPT !.lru = Minus(@, set), !.semantic = Minus(@, set), !.memory = m,
              !.size = [k \in CacheKeys |-> IF k \in set THEN 0 ELSE @[k]], !.expired = @ \ set]

\* The while loop of put: least recently used first, until size fits or nothing is left.
EvictFor(c, size) ==
    LET left(n) == (c.memory - HeldBy(c, n, 0)) % Word
        fits(n) == left(n) + size <= MaxMemory \/ n = Len(c.lru)
        n == CHOOSE i \in 0 .. Len(c.lru) : fits(i) /\ \A k \in 0 .. i - 1 : ~fits(k)
    IN Popped(c, Keys(SubSeq(c.lru, 1, n)), left(n))

\* lru_cache.put: the key moves to the end; a full cache silently drops the oldest.
LruPut(c, k, size) ==
    LET kept == Minus(c.lru, {k})
        out == IF Len(kept) >= MaxEntries THEN {Head(kept)} ELSE {}
    IN [c EXCEPT !.lru = Append(Minus(kept, out), k),
                 !.size = [i \in CacheKeys |-> IF i = k THEN size ELSE IF i \in out THEN 0 ELSE @[i]],
                 !.expired = @ \ ({k} \cup out)]

\* Mutant: the size of a new entry is not counted.
PutEntry_Uncounted(k, size) ==
    icache' = [LruPut(EvictFor(icache, size), k, size) EXCEPT !.semantic = Append(Minus(@, {k}), k)]

\* put: neither the entry it replaces nor the one the LRU drops is subtracted.  The
\* semantic entries are a list; one per key is told apart here.
PutEntry(k, size) ==
    icache' = [LruPut(EvictFor(icache, size), k, size) EXCEPT
                  !.memory = (@ + size) % Word, !.semantic = Append(Minus(@, {k}), k)]

\* get: a hit makes the key the most recently used; a semantic hit changes nothing.
GetEntry(k) ==
    /\ k \in Keys(icache.lru)
    /\ icache' = [icache EXCEPT !.lru = Append(Minus(@, {k}), k)]

\* invalidate
Invalidate(k) ==
    /\ k \in Keys(icache.lru)
    /\ icache' = Popped(icache, {k}, (icache.memory - icache.size[k]) % Word)

\* check_ttl: every entry older than the time to live.
CheckTtl ==
    LET old == icache.expired
        sum == HeldBy([icache EXCEPT !.lru = SelectSeq(@, LAMBDA k : k \in old)],
                      Cardinality(old), 0)
    IN icache' = Popped(icache, old, (icache.memory - sum) % Word)

Ages(k) ==
    /\ k \in Keys(icache.lru)
    /\ icache' = [icache EXCEPT !.expired = @ \cup {k}]

\* clear
ClearCache == icache' = Popped(icache, CacheKeys, 0)

\* evict_under_memory_pressure: subtracts the embedding too, never below zero.
EvictUnderPressure(target) ==
    LET left(n) == IF HeldBy(icache, n, EmbeddingSize) >= icache.memory THEN 0
                   ELSE icache.memory - HeldBy(icache, n, EmbeddingSize)
        stop(n) == left(n) <= target \/ n = Len(icache.lru)
        n == CHOOSE i \in 0 .. Len(icache.lru) : stop(i) /\ \A k \in 0 .. i - 1 : ~stop(k)
    IN icache' = [Popped(icache, Keys(SubSeq(icache.lru, 1, n)), left(n)) EXCEPT !.pressed = TRUE]

ICacheNext ==
    \/ CheckTtl \/ ClearCache
    \/ \E t \in {0, 1} : EvictUnderPressure(t)
    \/ \E k \in CacheKeys :
          GetEntry(k) \/ Invalidate(k) \/ Ages(k) \/ \E size \in {1, 2} : PutEntry(k, size)

-----------------------------------------------------------------------------
(* GpuManager, and a MemoryPool handed out by create_memory_pool, which is *)
(* a copy: the manager's memory does not see it.                           *)

GpuInit ==
    gpu = [free |-> [d \in GpuDevices |-> GpuMemory], up |-> GpuDevices, next |-> 0, made |-> 0,
           allocs |-> {}, pool |-> 0, chunks |-> {}]

Roomy(d, n) == d \in gpu.up /\ gpu.free[d] >= n

\* The devices a strategy may pick; round robin does not look at the device.
Candidates(strategy, n) ==
    CASE strategy = "FirstFit" -> {d \in GpuDevices : Roomy(d, n)}
      [] strategy = "RoundRobin" -> {gpu.next % Cardinality(GpuDevices)}
      [] OTHER -> {d \in GpuDevices : Roomy(d, n) /\ \A e \in GpuDevices : Roomy(e, n) => gpu.free[e] <= gpu.free[d]}

\* allocate_gpu; a node without devices falls back to the CPU and holds no GPU memory.
AllocateGpu(strategy, n) ==
    /\ gpu.made < MaxAllocations
    /\ LET turned == IF strategy = "RoundRobin" THEN (gpu.next + 1) % Cardinality(GpuDevices) ELSE gpu.next
       IN \E d \in Candidates(strategy, n) :
                gpu' = IF gpu.free[d] < n THEN [gpu EXCEPT !.next = turned]
                       ELSE [gpu EXCEPT !.free[d] = @ - n, !.next = turned, !.made = @ + 1,
                                        !.allocs = @ \cup {[id |-> gpu.made + 1, dev |-> d, size |-> n]}]

\* deallocate_gpu
DeallocateGpu(a) ==
    /\ a \in gpu.allocs
    /\ gpu' = [gpu EXCEPT !.free[a.dev] = @ + a.size, !.allocs = @ \ {a}]

\* reset_gpu
ResetGpu(d) ==
    gpu' = [gpu EXCEPT !.free[d] = GpuMemory, !.up = @ \cup {d}, !.allocs = {a \in @ : a.dev # d}]

\* MemoryPool::allocate and deallocate; a chunk that is freed again changes nothing.
PoolAllocate(n) ==
    /\ gpu.made < MaxAllocations /\ gpu.pool + n <= GpuMemory
    /\ gpu' = [gpu EXCEPT !.pool = @ + n, !.made = @ + 1,
                          !.chunks = @ \cup {[id |-> gpu.made + 1, size |-> n, used |-> TRUE]}]
PoolDeallocate(c) ==
    /\ c \in gpu.chunks
    /\ gpu' = IF ~c.used THEN gpu
              ELSE [gpu EXCEPT !.pool = @ - c.size, !.chunks = (@ \ {c}) \cup {[c EXCEPT !.used = FALSE]}]

GpuNext ==
    \/ \E n \in {1, 2} :
          PoolAllocate(n) \/ \E s \in {"FirstFit", "BestFit", "RoundRobin"} : AllocateGpu(s, n)
    \/ \E a \in gpu.allocs : DeallocateGpu(a)
    \/ \E c \in gpu.chunks : PoolDeallocate(c)
    \/ \E d \in GpuDevices : ResetGpu(d)

-----------------------------------------------------------------------------

PerfInit ==
    /\ perfPart \in {"batching", "balancer", "icache", "gpu"}
    /\ BatchingInit /\ BalancerInit /\ CacheInit /\ GpuInit

PerfNext ==
    /\ UNCHANGED perfPart
    /\ \/ perfPart = "batching" /\ BatchNext /\ UNCHANGED <<balancer, icache, gpu>>
       \/ perfPart = "balancer" /\ BalanceNext /\ UNCHANGED <<batching, icache, gpu>>
       \/ perfPart = "icache" /\ ICacheNext /\ UNCHANGED <<batching, balancer, gpu>>
       \/ perfPart = "gpu" /\ GpuNext /\ UNCHANGED <<batching, balancer, icache>>

PerfSpec == PerfInit /\ [][PerfNext]_perfVars

-----------------------------------------------------------------------------

\* A request that was submitted is in one place: its queue, the hands of the stream,
\* answered, or gone (dropped, cancelled, cleared, or lost with the receiver); a
\* batch taken by one caller is never taken by another; none exceeds the size in
\* force for its taker; and a receiver that goes away costs at most one batch.
BatchedOnce ==
    LET b == batching
        queued == Ids(Flat(b.queues))
    IN /\ queued \cup Ids(b.out) \cup b.done \cup b.gone = 1 .. b.sent
       /\ queued \cap (Ids(b.out) \cup b.done \cup b.gone) = {}
       /\ Ids(b.out) \cap (b.done \cup b.gone) = {} /\ b.done \cap b.gone = {}
       /\ \A i \in 1 .. Len(b.batches) : b.batches[i].requests <= b.batches[i].limit
       /\ Ids(b.lost) \subseteq b.gone /\ Len(b.lost) <= b.own.size

\* A session never keeps an affinity to a node that was removed.
AffinityIsKnown ==
    \A s \in LbSessions : balancer.affinity[s] # NoNode => Known(balancer.affinity[s])

\* memory_usage_bytes covers the entries the cache holds, so the subtractions of put,
\* invalidate and check_ttl cannot wrap; evict_under_memory_pressure, which subtracts
\* the embedding as well, is the one operation after which they can.
CacheMemoryCovers ==
    ~icache.pressed => icache.memory >= HeldBy(icache, Len(icache.lru), 0)

\* The free memory of a device and its allocations make up the device, and the pool
\* counts exactly its used chunks.
GpuMemoryConserved ==
    LET held(set) == LET sum[s \in SUBSET set] ==
                             IF s = {} THEN 0 ELSE LET a == CHOOSE x \in s : TRUE IN a.size + sum[s \ {a}]
                     IN sum[set]
    IN /\ \A d \in GpuDevices : gpu.free[d] + held({a \in gpu.allocs : a.dev = d}) = GpuMemory
       /\ gpu.pool = held({c \in gpu.chunks : c.used})
=============================================================================
