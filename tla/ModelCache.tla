----------------------------- MODULE ModelCache -----------------------------
(***************************************************************************)
(* The cache of loaded models (models/caching.rs).  load_model looks the   *)
(* model up, makes room and inserts under three separate locks, so loads   *)
(* of several tasks interleave.                                            *)
(***************************************************************************)
EXTENDS Integers, Sequences, FiniteSets, FiniteSetsExt

CONSTANTS McModels,    \* model ids
          McTasks,     \* tasks that use the cache
          ModelSize,   \* ModelSize[m]: estimate_model_size
          McMemory,    \* max_memory_gb less min_free_memory_gb
          McEntries,   \* max_models, the capacity of the LRU
          MaxMcLoads   \* bound on the loads

ASSUME McAssumption ==
    /\ IsFiniteSet(McTasks) /\ McTasks # {} /\ IsFiniteSet(McModels) /\ McModels # {}
    /\ ModelSize \in [McModels -> Nat \ {0}]
    /\ McMemory \in Nat /\ McEntries \in Nat \ {0} /\ MaxMcLoads \in Nat

VARIABLES mcEntries,   \* CacheState.entries: model -> priority, a function
          mcOrder,     \* CacheState.lru_cache, least recently used first
          mcUsage,     \* CacheState.total_memory_usage
          mcTask,      \* mcTask[t]: [pc, model, evict, critical]
          mcLoads      \* loads started

mcVars == <<mcEntries, mcOrder, mcUsage, mcTask, mcLoads>>

McIdle == [pc |-> "idle", model |-> "", evict |-> "", critical |-> FALSE]

McInit ==
    /\ mcEntries = <<>>
    /\ mcOrder = <<>>
    /\ mcUsage = 0
    /\ mcTask = [t \in McTasks |-> McIdle]
    /\ mcLoads = 0

Cached == DOMAIN mcEntries
Put(f, m, p) == [k \in DOMAIN f \cup {m} |-> IF k = m THEN p ELSE f[k]]
Del(f, m) == [k \in DOMAIN f \ {m} |-> f[k]]
Drop(s, m) == LET Stays(k) == k # m IN SelectSeq(s, Stays)
\* LruCache::get: moves the key to the end when it is there.
Touch(s, m) == IF \E i \in 1 .. Len(s) : s[i] = m THEN Append(Drop(s, m), m) ELSE s
\* LruCache::put: a full cache drops its oldest key; entries is not told.
LruInsert(s, m) ==
    LET kept == Drop(s, m)
    IN Append(IF Len(kept) >= McEntries THEN Tail(kept) ELSE kept, m)

Go(t, pc) == mcTask' = [mcTask EXCEPT ![t].pc = pc]
Ends(t) == mcTask' = [mcTask EXCEPT ![t] = McIdle]

\* load_model (and load_model_with_priority), the lookup: a hit is answered at once.
LoadModel(t, m, critical) ==
    /\ mcTask[t].pc = "idle" /\ mcLoads < MaxMcLoads
    /\ mcLoads' = mcLoads + 1
    /\ IF m \in Cached
       THEN /\ mcOrder' = Touch(mcOrder, m)
            /\ mcEntries' = IF critical THEN Put(mcEntries, m, TRUE) ELSE mcEntries
            /\ UNCHANGED mcTask
       ELSE /\ mcTask' = [mcTask EXCEPT ![t] =
                             [pc |-> "room", model |-> m, evict |-> "", critical |-> critical]]
            /\ UNCHANGED <<mcOrder, mcEntries>>
    /\ UNCHANGED mcUsage

\* The iteration of lru_cache starts at the most recently used key; a key that has
\* lost its entry may be chosen too.
Victims == {i \in 1 .. Len(mcOrder) :
               mcOrder[i] \in Cached => ~mcEntries[mcOrder[i]]}
Victim == mcOrder[CHOOSE i \in Victims : \A k \in Victims : k <= i]

\* Mutant: the size of the model to load is left out.
Room_ForWhatIsThere(t) == mcUsage <= McMemory

\* available_bytes >= required_bytes + min_free_bytes, with saturating subtraction.
Room(t) == mcUsage + ModelSize[mcTask[t].model] <= McMemory

\* ensure_space_available, one turn of its loop under the read lock.
EnsureSpace(t) ==
    /\ mcTask[t].pc = "room"
    /\ IF Room(t) THEN Go(t, "insert")
       ELSE IF Cached = {} \/ Victims = {} THEN Ends(t)
       ELSE mcTask' = [mcTask EXCEPT ![t].pc = "evict", ![t].evict = Victim]
    /\ UNCHANGED <<mcEntries, mcOrder, mcUsage, mcLoads>>

Less(a, b) == IF a < b THEN 0 ELSE a - b

\* evict_model
Evict(m) ==
    /\ mcEntries' = Del(mcEntries, m)
    /\ mcOrder' = Drop(mcOrder, m)
    /\ mcUsage' = Less(mcUsage, ModelSize[m])

\* The eviction ensure_space_available decided on: an entry that is gone by then
\* fails the load.
EvictChosen(t) ==
    /\ mcTask[t].pc = "evict"
    /\ IF mcTask[t].evict \in Cached
       THEN Evict(mcTask[t].evict) /\ Go(t, "room")
       ELSE Ends(t) /\ UNCHANGED <<mcEntries, mcOrder, mcUsage>>
    /\ UNCHANGED mcLoads

\* Mutant: a model that another task inserted meanwhile is not counted again.
InsertModel_Uncounted(t) ==
    /\ mcTask[t].pc = "insert"
    /\ mcEntries' = Put(mcEntries, mcTask[t].model, mcTask[t].critical)
    /\ mcOrder' = LruInsert(mcOrder, mcTask[t].model)
    /\ mcUsage' = IF Cached = {} THEN mcUsage + ModelSize[mcTask[t].model] ELSE mcUsage
    /\ Ends(t)
    /\ UNCHANGED mcLoads

\* The insertion: the size is added also when the model is already there.  (The
\* priority is set under a lock of its own, right after.)
InsertModel(t) ==
    /\ mcTask[t].pc = "insert"
    /\ mcEntries' = Put(mcEntries, mcTask[t].model, mcTask[t].critical)
    /\ mcOrder' = LruInsert(mcOrder, mcTask[t].model)
    /\ mcUsage' = mcUsage + ModelSize[mcTask[t].model]
    /\ Ends(t)
    /\ UNCHANGED mcLoads

\* get_model
GetModel(t, m) ==
    /\ mcTask[t].pc = "idle" /\ m \in Cached
    /\ mcOrder' = Touch(mcOrder, m)
    /\ UNCHANGED <<mcEntries, mcUsage, mcTask, mcLoads>>

\* evict_model by a caller; update_model evicts, then loads.
EvictModel(t, m) ==
    /\ mcTask[t].pc = "idle" /\ m \in Cached
    /\ Evict(m)
    /\ UNCHANGED <<mcTask, mcLoads>>

UpdateModel(t, m) ==
    /\ mcTask[t].pc = "idle" /\ mcLoads < MaxMcLoads
    /\ IF m \in Cached THEN Evict(m) ELSE UNCHANGED <<mcEntries, mcOrder, mcUsage>>
    /\ mcTask' = [mcTask EXCEPT ![t] = [pc |-> "room", model |-> m, evict |-> "", critical |-> FALSE]]
    /\ mcLoads' = mcLoads + 1

\* clear_cache
ClearModels ==
    /\ mcEntries' = <<>> /\ mcOrder' = <<>> /\ mcUsage' = 0
    /\ UNCHANGED <<mcTask, mcLoads>>

McNext ==
    \/ ClearModels
    \/ \E t \in McTasks :
          \/ EnsureSpace(t) \/ EvictChosen(t) \/ InsertModel(t)
          \/ \E m \in McModels :
                \/ GetModel(t, m) \/ EvictModel(t, m) \/ UpdateModel(t, m)
                \/ \E critical \in BOOLEAN : LoadModel(t, m, critical)

McSpec == McInit /\ [][McNext]_mcVars

-----------------------------------------------------------------------------

McSum(set) == MapThenSumSet(LAMBDA m : ModelSize[m], set)

McBiggest == CHOOSE n \in {ModelSize[m] : m \in McModels} : \A m \in McModels : ModelSize[m] <= n

\* Loads of several tasks may each find the same room, so the cache can pass its
\* limit; it passes it by at most one model per further task.
ModelMemoryBounded == mcUsage <= McMemory + (Cardinality(McTasks) - 1) * McBiggest

\* The usage that decides on evictions never falls below what the entries hold,
\* whatever loads of one model overlap and whatever is evicted between their steps.
ModelMemoryCovers == McSum(Cached) <= mcUsage
=============================================================================
