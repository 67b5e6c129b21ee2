---------------------------- MODULE VectorStores ----------------------------
(***************************************************************************)
(* The vector stores: the semantic cache over the vector client            *)
(* (vector/semantic_cache.rs), the in-memory backends of the client and of *)
(* the storage (vector/client.rs, vector/storage.rs), the cache of search  *)
(* indexes (vector/index_cache.rs), the cache of embeddings                *)
(* (vector/embeddings.rs), and the search of a session's vectors           *)
(* (rag/session_vector_store.rs, vector/hnsw.rs).                          *)
(***************************************************************************)
EXTENDS Integers, Sequences, FiniteSets, FiniteSetsExt, SequencesExt

CONSTANTS VecIds,     \* ids of entries
          VecTasks,   \* tasks that use the semantic cache
          SemMax,     \* max_cache_size
          VecSizes,   \* sizes of a vector, and megabytes of an index
          IndexCap,   \* capacity of the index cache
          IndexMb,    \* max_memory_mb
          VecTtl,     \* ttl
          MaxVecNow,  \* bound on time
          MaxVecOps   \* bound on the operations of a part

ASSUME VecAssumption ==
    /\ SemMax \in Nat \ {0} /\ VecSizes \subseteq Nat /\ IndexCap \in Nat \ {0} /\ IndexMb \in Nat
    /\ VecTtl \in Nat /\ MaxVecNow \in Nat /\ MaxVecOps \in Nat

VARIABLES vecPart,  \* the part a behaviour is about
          sem,      \* SemanticCache
          vecDb,    \* MockBackend / MockStorage
          vecIndex, \* IndexCache
          embed,    \* EmbeddingCache and its statistics
          search    \* a session's vectors and a query

vecVars == <<vecPart, sem, vecDb, vecIndex, embed, search>>

SemPcs == {"idle", "victim", "delete", "untrack", "uncount", "insert", "track", "count",
           "searching", "hit", "counthit"}

\* SemanticCache: the client's vectors, LRUTracker.access_order, CacheStats.
SemState ==
    [vectors : SUBSET VecIds, lru : Seq(VecIds), size : Nat, stored : Nat, lookups : Nat, hits : Nat,
     misses : Nat, used : SUBSET VecIds,
     task : [VecTasks -> [pc : SemPcs, id : VecIds \cup {"none"}, victim : VecIds \cup {"none"}]], ops : Nat]

\* VectorStats, StorageStats.
DbState == [vectors : [VecIds -> VecSizes \cup {-1}], total : Int, recent : Nat, bytes : Nat,
            backend : {"mock", "storage", "s5"}, meta : SUBSET VecIds, panicked : BOOLEAN, ops : Nat]

IndexEntry == [key : VecIds, mb : VecSizes, at : 0 .. MaxVecNow]

\* CacheMetrics and the LRU of indexes; inserted and cleared count for the properties.
IndexState == [order : Seq(IndexEntry), now : 0 .. MaxVecNow, hits : Nat, misses : Nat, evictions : Nat,
               inserted : Nat, cleared : Nat, ops : Nat]

EmbedState == [at : [VecIds -> -1 .. MaxVecNow], now : 0 .. MaxVecNow, hits : Nat, misses : Nat,
               served : -1 .. MaxVecNow, ops : Nat]

VecIdle == [pc |-> "idle", id |-> "none", victim |-> "none"]

VecInit ==
    /\ vecPart \in {"semantic", "db", "index", "embed", "search"}
    /\ sem = [vectors |-> {}, lru |-> <<>>, size |-> 0, stored |-> 0, lookups |-> 0, hits |-> 0,
              misses |-> 0, used |-> {}, task |-> [t \in VecTasks |-> VecIdle], ops |-> 0]
    /\ \E b \in {"mock", "storage", "s5"} :
          vecDb = [vectors |-> [v \in VecIds |-> -1], total |-> 0, recent |-> 0, bytes |-> 0,
                   backend |-> b, meta |-> {}, panicked |-> FALSE, ops |-> 0]
    /\ vecIndex = [order |-> <<>>, now |-> 0, hits |-> 0, misses |-> 0, evictions |-> 0,
                   inserted |-> 0, cleared |-> 0, ops |-> 0]
    /\ embed = [at |-> [v \in VecIds |-> -1], now |-> 0, hits |-> 0, misses |-> 0, served |-> -1, ops |-> 0]
    /\ search = [stored |-> {}, score |-> [v \in VecIds |-> 0], tagged |-> {}, k |-> 0, result |-> <<>>,
                 done |-> FALSE]

-----------------------------------------------------------------------------
(* SemanticCache.  Every lock is taken and given back on its own.          *)

SemStep(s) == vecPart = "semantic" /\ sem' = s /\ UNCHANGED <<vecPart, vecDb, vecIndex, embed, search>>
SemOps == vecPart = "semantic" /\ sem.ops < MaxVecOps
SemAt(t, pc) == vecPart = "semantic" /\ sem.task[t].pc = pc
SemGo(t, pc) == [sem EXCEPT !.task[t].pc = pc]

\* LRUTracker::access and remove; the most recent is first.
LruRemove(lru, id) == FlattenSeq([i \in 1 .. Len(lru) |-> IF lru[i] = id THEN <<>> ELSE <<lru[i]>>])
LruAccess(lru, id) == <<id>> \o LruRemove(lru, id)

\* store, the statistics maybe_evict reads.
SemStore(t, id) ==
    /\ SemOps /\ SemAt(t, "idle") /\ id \notin sem.used
    /\ SemStep([sem EXCEPT !.task[t] = [VecIdle EXCEPT !.id = id,
                                            !.pc = IF sem.size >= SemMax THEN "victim" ELSE "insert"],
                           !.used = @ \cup {id}, !.ops = @ + 1])

\* get_lru_victim, the same under every policy: the last of the access order, if that
\* is full; without a victim nothing is evicted.
SemVictim(t) ==
    /\ SemAt(t, "victim")
    /\ SemStep(IF Len(sem.lru) >= SemMax
               THEN [sem EXCEPT !.task[t].pc = "delete", !.task[t].victim = Last(sem.lru)]
               ELSE SemGo(t, "insert"))

\* evict_entry deletes the vector (gone already is no error), or fails the store.
SemDelete(t, ok) ==
    /\ SemAt(t, "delete")
    /\ SemStep(IF ok THEN [SemGo(t, "untrack") EXCEPT !.vectors = @ \ {sem.task[t].victim}]
               ELSE [sem EXCEPT !.task[t] = VecIdle])

\* Mutant: the tracker drops its last id, whoever is last by now.
SemUntrack_Last(t) ==
    /\ SemAt(t, "untrack")
    /\ SemStep([SemGo(t, "uncount") EXCEPT !.lru = SubSeq(@, 1, Len(@) - 1)])

SemUntrack(t) ==
    /\ SemAt(t, "untrack")
    /\ SemStep([SemGo(t, "uncount") EXCEPT !.lru = LruRemove(@, sem.task[t].victim)])

SemUncount(t) ==
    /\ SemAt(t, "uncount")
    /\ SemStep([SemGo(t, "insert") EXCEPT !.size = IF @ = 0 THEN 0 ELSE @ - 1])

\* store, insert_vector; a failure ends it.
SemInsert(t, ok) ==
    /\ SemAt(t, "insert")
    /\ SemStep(IF ok THEN [SemGo(t, "track") EXCEPT !.vectors = @ \cup {sem.task[t].id}]
               ELSE [sem EXCEPT !.task[t] = VecIdle])

SemTrack(t) ==
    /\ SemAt(t, "track")
    /\ SemStep([SemGo(t, "count") EXCEPT !.lru = LruAccess(@, sem.task[t].id)])

SemCount(t) ==
    /\ SemAt(t, "count")
    /\ SemStep([sem EXCEPT !.task[t] = VecIdle, !.stored = @ + 1, !.size = @ + 1])

\* lookup: the count, then the search.
SemLookup(t) ==
    /\ SemOps /\ SemAt(t, "idle")
    /\ SemStep([SemGo(t, "searching") EXCEPT !.lookups = @ + 1, !.ops = @ + 1])

\* A result that is similar enough and not expired is a hit; its id is tracked even
\* when the entry has been evicted since the search.
SemFound(t, id) ==
    /\ SemAt(t, "searching") /\ id \in sem.vectors
    /\ SemStep([SemGo(t, "hit") EXCEPT !.task[t].id = id])

SemMissed(t) ==
    /\ SemAt(t, "searching")
    /\ SemStep([sem EXCEPT !.task[t] = VecIdle, !.misses = @ + 1])

SemHit(t) ==
    /\ SemAt(t, "hit")
    /\ SemStep([SemGo(t, "counthit") EXCEPT !.lru = LruAccess(@, sem.task[t].id)])

SemCountHit(t) ==
    /\ SemAt(t, "counthit")
    /\ SemStep([sem EXCEPT !.task[t] = VecIdle, !.hits = @ + 1])

-----------------------------------------------------------------------------
(* MockBackend and MockStorage.                                            *)

DbStep(s) == vecPart = "db" /\ vecDb.ops < MaxVecOps /\ ~vecDb.panicked /\ vecDb' = [s EXCEPT !.ops = @ + 1]
             /\ UNCHANGED <<vecPart, sem, vecIndex, embed, search>>

\* insert_vector, store_vector: a vector that replaces one is counted again.
DbInsert(v, size) ==
    /\ vecDb.backend = "mock"
    /\ DbStep([vecDb EXCEPT !.vectors[v] = size, !.total = @ + 1, !.recent = @ + 1, !.bytes = @ + size])

\* Mutant: a vector that is not there is taken off the count too.
DbDelete_Unguarded(v) ==
    /\ vecDb.backend = "mock"
    /\ DbStep([vecDb EXCEPT !.vectors[v] = -1, !.total = @ - 1])

\* delete_vector: total_vectors is unsigned.
DbDelete(v) ==
    /\ vecDb.backend = "mock"
    /\ DbStep(IF vecDb.vectors[v] = -1 THEN vecDb
              ELSE [vecDb EXCEPT !.vectors[v] = -1, !.total = @ - 1,
                                 !.recent = IF @ = 0 THEN 0 ELSE @ - 1,
                                 !.bytes = IF @ < vecDb.vectors[v] THEN 0 ELSE @ - vecDb.vectors[v]])

\* MockStorage::store_vector and delete_vector keep the metadata with the vector.
StoreMock(v, size) ==
    /\ vecDb.backend = "storage"
    /\ DbStep([vecDb EXCEPT !.vectors[v] = size, !.meta = @ \cup {v}, !.total = @ + 1, !.recent = @ + 1,
                            !.bytes = @ + size])

DeleteMock(v) ==
    /\ vecDb.backend = "storage" /\ vecDb.vectors[v] # -1
    /\ DbStep([vecDb EXCEPT !.vectors[v] = -1, !.meta = @ \ {v}, !.total = @ - 1,
                            !.recent = IF @ = 0 THEN 0 ELSE @ - 1,
                            !.bytes = IF @ < vecDb.vectors[v] THEN 0 ELSE @ - vecDb.vectors[v]])

\* VectorStorage::new over S5 keeps Mock as its backend without a mock storage, so
\* the first operation unwraps None.
DbUseS5 ==
    /\ vecDb.backend = "s5"
    /\ DbStep([vecDb EXCEPT !.panicked = TRUE])

-----------------------------------------------------------------------------
(* IndexCache                                                              *)

IndexStep(s) == vecPart = "index" /\ vecIndex' = s /\ UNCHANGED <<vecPart, sem, vecDb, embed, search>>
IndexOp(s) == vecIndex.ops < MaxVecOps /\ IndexStep([s EXCEPT !.ops = @ + 1])

IndexTick == vecIndex.now < MaxVecNow /\ IndexStep([vecIndex EXCEPT !.now = @ + 1])

\* is_expired
IndexExpired(e) == vecIndex.now - e.at > VecTtl
IndexesWith(Test(_)) ==
    FlattenSeq([i \in 1 .. Len(vecIndex.order) |-> IF Test(vecIndex.order[i]) THEN <<vecIndex.order[i]>> ELSE <<>>])
IndexOther(k) == IndexesWith(LAMBDA e : e.key # k)
IndexFind(k) == IndexesWith(LAMBDA e : e.key = k)

\* get
IndexGet(k) ==
    LET found == IndexFind(k)
    IN IndexOp(IF found = <<>> THEN [vecIndex EXCEPT !.misses = @ + 1]
               ELSE IF IndexExpired(found[1])
               THEN [vecIndex EXCEPT !.order = IndexOther(k), !.misses = @ + 1, !.evictions = @ + 1]
               ELSE [vecIndex EXCEPT !.order = Append(IndexOther(k), found[1]), !.hits = @ + 1])

\* memory_usage_mb
IndexUsage(order) ==
    LET mb == [i \in 1 .. Len(order) |-> order[i].mb] IN MapThenSumSet(LAMBDA i : mb[i], 1 .. Len(order))

\* Mutant: the limit is enforced before the push.
IndexKept_Before(order) ==
    SubSeq(order, Min({i \in 1 .. Len(order) :
                          IndexUsage(SubSeq(order, i, Len(order) - 1)) <= IndexMb}), Len(order))

\* enforce_memory_limit: the oldest go until the rest fits, the new one too.
IndexKept(order) ==
    SubSeq(order, Min({i \in 1 .. Len(order) + 1 :
                          IndexUsage(SubSeq(order, i, Len(order))) <= IndexMb}), Len(order))

\* insert: push returns what it replaces or evicts, either of which is counted.
IndexInsert(k, mb) ==
    LET other == IndexOther(k)
        pushed == Append(IF Len(other) = Len(vecIndex.order) /\ Len(other) >= IndexCap THEN Tail(other) ELSE other,
                         [key |-> k, mb |-> mb, at |-> vecIndex.now])
        kept == IndexKept(pushed)
    IN IndexOp([vecIndex EXCEPT !.order = kept, !.inserted = @ + 1,
                                !.evictions = @ + (Len(vecIndex.order) + 1 - Len(kept))])

\* evict_expired
IndexEvictExpired ==
    LET fresh == IndexesWith(LAMBDA e : ~IndexExpired(e))
    IN IndexOp([vecIndex EXCEPT !.order = fresh, !.evictions = @ + (Len(vecIndex.order) - Len(fresh))])

\* clear keeps the metrics.
IndexClear == IndexOp([vecIndex EXCEPT !.order = <<>>, !.cleared = @ + Len(vecIndex.order)])

-----------------------------------------------------------------------------
(* EmbeddingGenerator                                                      *)

EmbedStep(s) == vecPart = "embed" /\ embed' = s /\ UNCHANGED <<vecPart, sem, vecDb, vecIndex, search>>

EmbedTick == embed.now < MaxVecNow /\ EmbedStep([embed EXCEPT !.now = @ + 1])

\* Mutant: an embedding of exactly the age of the ttl is still served.
EmbedFresh_Inclusive(v) == embed.at[v] # -1 /\ embed.now - embed.at[v] <= VecTtl

EmbedFresh(v) == embed.at[v] # -1 /\ embed.now - embed.at[v] < VecTtl

\* generate_embedding: a fresh entry of the cache, or a new embedding that is cached.
GenerateEmbedding(v) ==
    /\ embed.ops < MaxVecOps
    /\ EmbedStep(IF EmbedFresh(v)
                 THEN [embed EXCEPT !.hits = @ + 1, !.served = embed.now - embed.at[v], !.ops = @ + 1]
                 ELSE [embed EXCEPT !.misses = @ + 1, !.at[v] = embed.now, !.served = 0, !.ops = @ + 1])

-----------------------------------------------------------------------------
(* Searching a session's vectors; scores are ranks.                        *)

Ranked(ids, score) == SetToSortSeq(ids, LAMBDA a, b : score[a] > score[b])
Truncated(seq, k) == SubSeq(seq, 1, Min({k, Len(seq)}))

\* search: the threshold, the order, the first k.
VecSearch(ids, score, k, threshold) == Truncated(Ranked({v \in ids : score[v] >= threshold}, score), k)

\* Mutant: the first k are taken before the filter, as the vector client does.
SearchWithFilter_Truncated(ids, score, k, tagged) ==
    SelectSeq(VecSearch(ids, score, k, 0), LAMBDA v : v \in tagged)

\* search_with_filter: every vector is ranked, then filtered, then truncated.
SearchWithFilter(ids, score, k, tagged) ==
    Truncated(SelectSeq(VecSearch(ids, score, Cardinality(ids), 0), LAMBDA v : v \in tagged), k)

SearchSession(ids, score, k, tagged) ==
    /\ vecPart = "search" /\ ~search.done
    /\ search' = [stored |-> ids, score |-> score, tagged |-> tagged, k |-> k, done |-> TRUE,
                  result |-> SearchWithFilter(ids, score, k, tagged)]
    /\ UNCHANGED <<vecPart, sem, vecDb, vecIndex, embed>>

-----------------------------------------------------------------------------

VecNext ==
    \/ \E t \in VecTasks :
          \/ SemVictim(t) \/ SemUntrack(t) \/ SemUncount(t) \/ SemTrack(t) \/ SemCount(t)
          \/ SemLookup(t) \/ SemMissed(t) \/ SemHit(t) \/ SemCountHit(t)
          \/ \E ok \in BOOLEAN : SemDelete(t, ok) \/ SemInsert(t, ok)
          \/ \E id \in VecIds : SemStore(t, id) \/ SemFound(t, id)
    \/ \E v \in VecIds, size \in VecSizes : DbInsert(v, size) \/ StoreMock(v, size)
    \/ \E v \in VecIds : DbDelete(v) \/ DeleteMock(v)
    \/ DbUseS5
    \/ IndexTick \/ IndexEvictExpired \/ IndexClear
    \/ \E k \in VecIds : IndexGet(k)
    \/ \E k \in VecIds, mb \in VecSizes : IndexInsert(k, mb)
    \/ EmbedTick
    \/ \E v \in VecIds : GenerateEmbedding(v)
    \/ \E ids, tagged \in SUBSET VecIds, score \in [VecIds -> 0 .. 2], k \in 1 .. 2 :
          SearchSession(ids, score, k, tagged)

VecSpec == VecInit /\ [][VecNext]_vecVars

-----------------------------------------------------------------------------

\* The types of the caches and stores.
VecTypeOK == sem \in SemState /\ vecDb \in DbState /\ vecIndex \in IndexState /\ embed \in EmbedState

\* Every entry of the semantic cache can still be evicted: between the steps of
\* stores, evictions and lookups of several tasks an id is tracked as long as its
\* vector is stored, but for the store that is about to track it.
StoredCanBeEvicted ==
    \A id \in sem.vectors :
       \/ \E i \in 1 .. Len(sem.lru) : sem.lru[i] = id
       \/ \E t \in VecTasks : sem.task[t].pc = "track" /\ sem.task[t].id = id

\* The totals of the vector backends are never below what they hold, so the unsigned
\* subtraction of delete_vector does not wrap.
VectorTotalsCover ==
    /\ Cardinality({v \in VecIds : vecDb.vectors[v] # -1}) <= vecDb.total
    /\ FoldLeft(LAMBDA n, v : n + (IF vecDb.vectors[v] = -1 THEN 0 ELSE vecDb.vectors[v]), 0,
                SetToSeq(VecIds)) <= vecDb.bytes

\* The index cache stays within its memory and loses no index unaccounted.
IndexWithinMemory ==
    /\ IndexUsage(vecIndex.order) <= IndexMb
    /\ Len(vecIndex.order) + vecIndex.evictions + vecIndex.cleared = vecIndex.inserted

\* An embedding that is served from the cache is younger than its time to live.
EmbeddingIsFresh == VecTtl > 0 => embed.served < VecTtl

\* A filtered search finds k matching vectors whenever there are as many, and none
\* that is left out is more similar than one that is returned.
FilteredSearchIsBest ==
    search.done =>
       LET match == search.stored \cap search.tagged
           found == {search.result[i] : i \in 1 .. Len(search.result)}
       IN /\ found \subseteq match
          /\ Cardinality(found) = Min({search.k, Cardinality(match)})
          /\ \A v \in match \ found, w \in found : search.score[v] <= search.score[w]
=============================================================================
