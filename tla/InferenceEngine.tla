--------------------------- MODULE InferenceEngine ---------------------------
(***************************************************************************)
(* The inference engine around a generation (inference/engine.rs), the     *)
(* model manager with its registry and downloads (inference/models.rs) and *)
(* the cache of responses (inference/cache.rs).  The generation loop       *)
(* itself is in WebSocketSession.                                          *)
(***************************************************************************)
EXTENDS Integers, Sequences, FiniteSets, FiniteSetsExt, SequencesExt

CONSTANTS EngModels,     \* model ids, and the files and registry entries of that name
          EngTasks,      \* requests and downloads
          DownloadSteps, \* the tenths of a download
          InfKeys,       \* hashes of cache keys
          InfSizes,      \* sizes an entry can have
          InfEntries,    \* max_entries
          InfMemory,     \* max_memory_bytes
          InfTtl,        \* ttl
          MaxEngOps,     \* bound on the operations of a part
          MaxEngNow      \* bound on time

ASSUME EngAssumption ==
    /\ DownloadSteps \in Nat \ {0} /\ InfSizes \subseteq Nat \ {0} /\ InfEntries \in Nat \ {0}
    /\ InfMemory \in Nat /\ InfTtl \in Nat \ {0} /\ MaxEngOps \in Nat /\ MaxEngNow \in Nat

VARIABLES engPart,  \* the part a behaviour is about
          engine,   \* LlmEngine
          manager,  \* ModelManager, its registry, downloads and the directory
          infCache  \* InferenceCache

engVars == <<engPart, engine, manager, infCache>>

\* Model.status; a model that is not in model_info is absent, or gone once it was
\* unloaded: load_model takes a new id.
ModelStatus == {"absent", "loading", "ready", "gone"}

EngineState ==
    [info : [EngModels -> ModelStatus], loaded : SUBSET EngModels, count : Nat, inferences : Nat,
     run : [EngTasks -> {"idle", "checked", "counted", "generating", "ended", "done", "failed", "cancelled"}],
     model : [EngTasks -> EngModels \cup {"none"}], held : BOOLEAN, ops : Nat,
     owner : [pc : {"idle", "load", "status", "unload"}, model : EngModels \cup {"none"}]]

\* A download: the tenths it has, the cancellation it was sent, and whether
\* download_tasks still holds its sender.
DownloadProgress ==
    [pc : {"idle", "running", "writing", "completed", "failed", "silent"}, steps : 0 .. DownloadSteps,
     cancel : BOOLEAN, sender : BOOLEAN, file : EngModels \cup {"none"}]

ManagerState ==
    [registry : SUBSET EngModels, files : SUBSET EngModels, downloads : [EngTasks -> DownloadProgress], ops : Nat]

CacheEntries == [key : InfKeys, size : InfSizes, at : 0 .. MaxEngNow]

CacheState ==
    [order : Seq(CacheEntries), memory : Nat, now : 0 .. MaxEngNow, hits : Nat, misses : Nat,
     evictions : Nat, total : Nat, semantic : SUBSET InfKeys, ops : Nat]

OwnerIdle == [pc |-> "idle", model |-> "none"]
NoDownload == [pc |-> "idle", steps |-> 0, cancel |-> FALSE, sender |-> FALSE, file |-> "none"]

EngInit ==
    /\ engPart \in {"engine", "manager", "cache"}
    /\ engine = [info |-> [m \in EngModels |-> "absent"], loaded |-> {}, count |-> 0, inferences |-> 0,
                 run |-> [t \in EngTasks |-> "idle"], model |-> [t \in EngTasks |-> "none"],
                 held |-> FALSE, ops |-> 0, owner |-> OwnerIdle]
    /\ \E files \in SUBSET EngModels :
          manager = [registry |-> files, files |-> files, downloads |-> [t \in EngTasks |-> NoDownload], ops |-> 0]
    /\ infCache = [order |-> <<>>, memory |-> 0, now |-> 0, hits |-> 0, misses |-> 0, evictions |-> 0,
                   total |-> 0, semantic |-> {}, ops |-> 0]

-----------------------------------------------------------------------------
(* LlmEngine.  Loading, unloading and resetting take &mut self, one at a   *)
(* time; requests run on clones beside them.  held is the mutex of the     *)
(* models.                                                                 *)

EngStep(s) == engPart = "engine" /\ engine' = s /\ UNCHANGED <<engPart, manager, infCache>>
OwnerAt(pc) == engPart = "engine" /\ engine.owner.pc = pc
EngineOps == engPart = "engine" /\ engine.ops < MaxEngOps

\* load_model: the entry of model_info precedes the backend and the file.
LoadEngineModel(m) ==
    /\ OwnerAt("idle") /\ EngineOps /\ engine.info[m] = "absent"
    /\ EngStep([engine EXCEPT !.info[m] = "loading", !.owner = [pc |-> "load", model |-> m], !.ops = @ + 1])

\* The backend and the file are there and the model is stored, under the mutex; or
\* either fails and the entry is left behind as Loading.
StoreEngineModel ==
    /\ OwnerAt("load")
    /\ \/ /\ ~engine.held
          /\ EngStep([engine EXCEPT !.loaded = @ \cup {engine.owner.model}, !.owner.pc = "status"])
       \/ EngStep([engine EXCEPT !.owner = OwnerIdle])
EngineModelReady ==
    /\ OwnerAt("status")
    /\ EngStep([engine EXCEPT !.info[engine.owner.model] = "ready", !.owner = OwnerIdle])

\* unload_model: from the models, under their mutex, then from model_info.
UnloadEngineModel(m) ==
    /\ OwnerAt("idle") /\ EngineOps /\ ~engine.held
    /\ EngStep([engine EXCEPT !.loaded = @ \ {m}, !.owner = [pc |-> "unload", model |-> m], !.ops = @ + 1])
ForgetEngineModel ==
    /\ OwnerAt("unload")
    /\ EngStep([engine EXCEPT !.info[engine.owner.model] = IF @ = "absent" THEN @ ELSE "gone",
                              !.owner = OwnerIdle])

\* run_inference_stream and run_inference: the check of model_info, then the count.
RunBegin(t, m) ==
    /\ EngineOps /\ engine.run[t] = "idle"
    /\ EngStep([engine EXCEPT !.run[t] = IF engine.info[m] \in {"absent", "gone"} THEN "failed" ELSE "checked",
                              !.model[t] = m, !.ops = @ + 1])
RunCounted(t) ==
    /\ engPart = "engine" /\ engine.run[t] = "checked"
    /\ EngStep([engine EXCEPT !.run[t] = "counted", !.count = @ + 1])

\* run_inference takes the mutex of the models and finds the model, or fails.
RunLocked(t) ==
    /\ engPart = "engine" /\ engine.run[t] = "counted" /\ ~engine.held
    /\ EngStep(IF engine.model[t] \in engine.loaded
                  THEN [engine EXCEPT !.run[t] = "generating", !.held = TRUE]
                  ELSE [engine EXCEPT !.run[t] = "failed"])

\* Mutant: the metrics are updated before the result of the generation is known.
RunEnds_CountsAll(t, ok) ==
    /\ engPart = "engine" /\ engine.run[t] = "generating"
    /\ EngStep([engine EXCEPT !.run[t] = IF ok THEN "done" ELSE "failed", !.held = FALSE,
                                 !.inferences = @ + 1])

\* The generation ends, or a decode fails; the mutex is released.
RunEnds(t, ok) ==
    /\ engPart = "engine" /\ engine.run[t] = "generating"
    /\ EngStep([engine EXCEPT !.run[t] = IF ok THEN "ended" ELSE "failed", !.held = FALSE])

\* Then the metrics are updated and the result is sent.
RunMetered(t) ==
    /\ engPart = "engine" /\ engine.run[t] = "ended"
    /\ EngStep([engine EXCEPT !.run[t] = "done", !.inferences = @ + 1])

\* InferenceHandle.cancel: run_inference_async has already awaited the result, so the
\* task it aborts only hands it over.
CancelHandle(t) ==
    /\ EngineOps /\ engine.run[t] \in {"done", "failed"}
    /\ EngStep([engine EXCEPT !.run[t] = "cancelled", !.ops = @ + 1])

\* reset_metrics keeps inference_count.
ResetEngineMetrics ==
    /\ OwnerAt("idle") /\ EngineOps
    /\ EngStep([engine EXCEPT !.inferences = 0, !.ops = @ + 1])

\* get_model_capabilities, create_prompt_template: asked of model_info.
HasCapabilities(m) == engine.info[m] \notin {"absent", "gone"}
\* count_tokens gives the same estimate whether the model is loaded or not.
CountTokens(chars) == chars \div 4

-----------------------------------------------------------------------------
(* ModelManager                                                            *)

ManagerStep(s) == engPart = "manager" /\ manager' = s /\ UNCHANGED <<engPart, engine, infCache>>
ManagerOp(s) == manager.ops < MaxEngOps /\ ManagerStep([s EXCEPT !.ops = @ + 1])

\* ModelRegistry::new and scan_models_directory: the map is replaced by the directory.
ScanModels == ManagerOp([manager EXCEPT !.registry = manager.files])

\* download_model registers the sender of the cancellation and spawns the task.
DownloadModel(t, m) ==
    /\ manager.downloads[t].pc = "idle"
    /\ ManagerOp([manager EXCEPT !.downloads[t] =
                     [NoDownload EXCEPT !.pc = "running", !.sender = TRUE, !.file = m]])

\* Mutant: the download is complete once it is beyond its size.
DownloadTurn_Beyond(t) ==
    LET d == manager.downloads[t]
    IN /\ d.pc = "running"
       /\ ManagerStep([manager EXCEPT !.downloads[t] =
             IF d.cancel THEN [d EXCEPT !.pc = "failed"]
             ELSE [d EXCEPT !.steps = @ + 1, !.pc = IF d.steps + 1 > DownloadSteps THEN "writing" ELSE @]])

\* One turn of the download's select: a cancellation that was sent is seen first,
\* as the timer of a turn starts with it.
DownloadTurn(t) ==
    LET d == manager.downloads[t]
    IN /\ d.pc = "running"
       /\ ManagerStep([manager EXCEPT !.downloads[t] =
             IF d.cancel THEN [d EXCEPT !.pc = "failed"]
             ELSE [d EXCEPT !.steps = @ + 1, !.pc = IF d.steps + 1 = DownloadSteps THEN "writing" ELSE @]])

\* The file is created, or not, in which case the receiver is told nothing.  The
\* entry of download_tasks stays.
DownloadFile(t, ok) ==
    /\ manager.downloads[t].pc = "writing"
    /\ ManagerStep([manager EXCEPT !.downloads[t].pc = IF ok THEN "completed" ELSE "silent",
                                   !.files = IF ok THEN @ \cup {manager.downloads[t].file} ELSE @])

\* cancel_download; a download that has ended is cancelled without effect.
CancelDownload(t) ==
    /\ manager.downloads[t].sender
    /\ ManagerOp([manager EXCEPT !.downloads[t].sender = FALSE, !.downloads[t].cancel = TRUE])

\* Mutant: the entry stays until the next scan.
DeleteModel_FileFirst(m, ok) ==
    /\ m \in manager.registry
    /\ ManagerOp([manager EXCEPT !.files = IF ok THEN @ \ {m} ELSE @])

\* delete_model (and each deletion of optimize_model_storage): the entry goes first;
\* the file stays when its removal fails.
DeleteModel(m, ok) ==
    /\ m \in manager.registry
    /\ ManagerOp([manager EXCEPT !.registry = @ \ {m}, !.files = IF ok THEN @ \ {m} ELSE @])

\* optimize_model_storage and cleanup_old_models: no entry ever has a last use.
LastUsed(m) == "never"
CleanupOldModels ==
    ManagerOp([manager EXCEPT !.registry = {m \in @ : LastUsed(m) = "never"}])

\* convert_model and quantize_model copy a file that exists; neither registers it.
ConvertModel(m, into) ==
    /\ m \in manager.files /\ m # into
    /\ ManagerOp([manager EXCEPT !.files = @ \cup {into}])

\* ensure_model_available: the path is the answer whether the file exists or not.
EnsureAvailable(m) == m
\* verify_model
VerifyModel(m, expected, hash) == m \in manager.files /\ (expected # "none" => hash = expected)

-----------------------------------------------------------------------------
(* InferenceCache                                                          *)

CacheStep(s) == engPart = "cache" /\ infCache' = s /\ UNCHANGED <<engPart, engine, manager>>
CacheOp(s) == infCache.ops < MaxEngOps /\ CacheStep([s EXCEPT !.ops = @ + 1])

CachePos(k) == {i \in 1 .. Len(infCache.order) : infCache.order[i].key = k}
NotKey(order, k) == LET Other(e) == e.key # k IN SelectSeq(order, Other)

CacheTick ==
    /\ infCache.now < MaxEngNow
    /\ CacheStep([infCache EXCEPT !.now = @ + 1])

\* get: an expired entry is popped, and the memory stays as it was.
GetCached(k) ==
    LET there == CachePos(k) # {}
        e == infCache.order[Min(CachePos(k))]
        fresh == infCache.now - e.at < InfTtl
    IN CacheOp(IF ~there THEN [infCache EXCEPT !.misses = @ + 1]
               ELSE IF fresh THEN [infCache EXCEPT !.hits = @ + 1, !.order = Append(NotKey(@, k), e)]
               ELSE [infCache EXCEPT !.order = NotKey(@, k), !.evictions = @ + 1, !.misses = @ + 1])

Saturating(a, b) == IF a < b THEN 0 ELSE a - b

\* Mutant: the last entry the loop accounts for stays in the cache.
EvictForInf_OffByOne(order, memory, size) ==
    LET freed[i \in 0 .. Len(order)] ==
            IF i = 0 THEN memory ELSE Saturating(freed[i - 1], order[i].size)
        n == Min({i \in 0 .. Len(order) : i = Len(order) \/ freed[i] + size <= InfMemory})
    IN [order |-> SubSeq(order, IF n = 0 THEN 1 ELSE n, Len(order)), memory |-> freed[n], n |-> n]

\* The eviction loop of put: the oldest entries go until the new one fits or none is left.
EvictForInf(order, memory, size) ==
    LET freed[i \in 0 .. Len(order)] ==
            IF i = 0 THEN memory ELSE Saturating(freed[i - 1], order[i].size)
        n == Min({i \in 0 .. Len(order) : i = Len(order) \/ freed[i] + size <= InfMemory})
    IN [order |-> SubSeq(order, n + 1, Len(order)), memory |-> freed[n], n |-> n]

\* LruCache::push: returns the entry of the same key, or the oldest of a full cache.
PushOut(order, k) ==
    LET same == {i \in 1 .. Len(order) : order[i].key = k}
    IN IF same # {} THEN [order |-> NotKey(order, k), size |-> order[Min(same)].size]
       ELSE IF Len(order) >= InfEntries THEN [order |-> Tail(order), size |-> order[1].size]
       ELSE [order |-> order, size |-> 0]

\* put, under the Memory policy or another; warm_up puts one after the other.
PutCached(k, size, byMemory) ==
    LET kept == IF byMemory THEN EvictForInf(infCache.order, infCache.memory, size)
                ELSE [order |-> infCache.order, memory |-> infCache.memory, n |-> 0]
        out == PushOut(kept.order, k)
        memory == Saturating(kept.memory, out.size) + size
        order == Append(out.order, [key |-> k, size |-> size, at |-> infCache.now])
    IN CacheOp([infCache EXCEPT !.order = order, !.memory = memory, !.total = Len(order),
                                !.evictions = @ + kept.n, !.semantic = @ \cup {k}])

\* clear
ClearInfCache ==
    CacheOp([infCache EXCEPT !.order = <<>>, !.memory = 0, !.total = 0, !.semantic = {}])

\* invalidate: the pattern is looked for in the hashes, so a prefix of one is all
\* that can match; the semantic entries stay.
InvalidateCached(keys) ==
    LET Gone(e) == e.key \in keys
        Stays(e) == e.key \notin keys
        gone == SelectSeq(infCache.order, Gone)
        freed[i \in 0 .. Len(gone)] == IF i = 0 THEN infCache.memory ELSE Saturating(freed[i - 1], gone[i].size)
        order == SelectSeq(infCache.order, Stays)
    IN CacheOp([infCache EXCEPT !.order = order, !.memory = freed[Len(gone)], !.total = Len(order),
                                !.evictions = @ + Len(gone)])

\* reset_stats
ResetCacheStats ==
    CacheOp([infCache EXCEPT !.hits = 0, !.misses = 0, !.evictions = 0, !.total = Len(infCache.order)])

-----------------------------------------------------------------------------

EngNext ==
    \/ \E m \in EngModels : LoadEngineModel(m) \/ UnloadEngineModel(m)
    \/ StoreEngineModel \/ EngineModelReady \/ ForgetEngineModel
    \/ \E t \in EngTasks, m \in EngModels : RunBegin(t, m)
    \/ \E t \in EngTasks : RunCounted(t) \/ RunLocked(t) \/ RunMetered(t)
    \/ \E t \in EngTasks, ok \in BOOLEAN : RunEnds(t, ok)
    \/ \E t \in EngTasks : CancelHandle(t)
    \/ ResetEngineMetrics
    \/ ScanModels
    \/ CleanupOldModels
    \/ \E t \in EngTasks, m \in EngModels : DownloadModel(t, m)
    \/ \E t \in EngTasks : DownloadTurn(t)
    \/ \E t \in EngTasks, ok \in BOOLEAN : DownloadFile(t, ok)
    \/ \E t \in EngTasks : CancelDownload(t)
    \/ \E m \in EngModels, ok \in BOOLEAN : DeleteModel(m, ok)
    \/ \E m, into \in EngModels : ConvertModel(m, into)
    \/ CacheTick
    \/ \E k \in InfKeys : GetCached(k)
    \/ \E k \in InfKeys, size \in InfSizes, byMemory \in BOOLEAN : PutCached(k, size, byMemory)
    \/ ClearInfCache
    \/ \E k \in InfKeys : InvalidateCached({k})
    \/ ResetCacheStats

EngSpec == EngInit /\ [][EngNext]_engVars

-----------------------------------------------------------------------------

\* The records the engine, the manager and the cache can be.
EngTypeOK ==
    /\ engine \in EngineState
    /\ manager \in ManagerState
    /\ infCache.order \in Seq(CacheEntries)
    /\ \A f \in {"memory", "hits", "misses", "evictions", "total"} : infCache[f] \in Nat

\* The metrics count inferences that gave a result, so never more than inference_count;
\* a ready model is one run_inference finds, unless it is just being unloaded, and no
\* model goes while a generation uses it, although requests run on clones beside the
\* unloading and loads of other models fail.
EngineCountsResults ==
    /\ engine.inferences <= Cardinality({t \in EngTasks : engine.run[t] \in {"done", "cancelled"}})
    /\ engine.inferences + Cardinality({t \in EngTasks : engine.run[t] \in {"counted", "generating", "ended"}}) <= engine.count
    /\ \A m \in EngModels :
           /\ engine.info[m] = "ready" => m \in engine.loaded \/ engine.owner = [pc |-> "unload", model |-> m]
           /\ m \in engine.loaded => engine.info[m] = "ready" \/ engine.owner = [pc |-> "status", model |-> m]
    /\ \A t \in EngTasks : engine.run[t] = "generating" => engine.held /\ engine.model[t] \in engine.loaded

\* The registry lists only files that exist, whatever is downloaded, converted,
\* deleted or scanned, also when the removal of a file fails.
RegistryListsFiles == manager.registry \subseteq manager.files

\* The memory the eviction loop of put believes in never falls below what the entries
\* take, although expired entries leave it too high and replaced ones are subtracted.
InfMemoryCovers ==
    FoldLeft(LAMBDA n, e : n + e.size, 0, infCache.order) <= infCache.memory
=============================================================================
