------------------------------- MODULE Storage -------------------------------
(***************************************************************************)
(* Storage: the in-memory S5 backend (storage/s5_client.rs), the versions  *)
(* of a stored model (storage/model_storage.rs), the cache of results      *)
(* (storage/result_cache.rs), the cache of prompts (cache/mod.rs) over the *)
(* S5 bridge client (storage/enhanced_s5_client.rs), and the stores of     *)
(* results and proofs by job (storage/result_store.rs, proof_store.rs).    *)
(***************************************************************************)
EXTENDS Integers, Sequences, FiniteSets, FiniteSetsExt

CONSTANTS StoTasks,    \* tasks
          StoKeys,     \* paths, versions, prompts or jobs
          StoSizes,    \* sizes of what is stored
          StoQuota,    \* quota_limit, max_cache_size
          StoChunks,   \* the chunks a large model has
          StoTtl,      \* ttl_seconds
          MaxStoNow,   \* bound on time
          MaxStoOps    \* bound on the operations of a part

ASSUME StoAssumption ==
    /\ IsFiniteSet(StoTasks) /\ StoTasks # {} /\ IsFiniteSet(StoKeys)
    /\ StoSizes \subseteq Nat \ {0} /\ StoSizes # {} /\ StoQuota \in Nat /\ StoChunks \in Nat \ {0}
    /\ StoTtl \in Nat /\ MaxStoNow \in Nat /\ MaxStoOps \in Nat

VARIABLES stoPart,  \* the part a behaviour is about
          s5,       \* MockS5Backend
          mstore,   \* ModelStorage: the files of a model's versions
          rcache,   \* ResultCache
          pcache,   \* PromptCache
          byJob,    \* ResultStore, ProofStore
          bridge    \* EnhancedS5Client: the bridge, and the client's own copies

stoVars == <<stoPart, s5, mstore, rcache, pcache, byJob, bridge>>

S5State == [files : [StoKeys -> StoSizes \cup {0}], injected : BOOLEAN,
            task : [StoTasks -> [pc : {"idle", "put"}, path : StoKeys \cup {"none"}, size : Nat]], ops : Nat]

\* The files of a version: its parts, chunks.cbor, metadata.cbor, version.cbor.
VersionFiles == [parts : 0 .. StoChunks, total : 0 .. StoChunks, index : BOOLEAN, meta : BOOLEAN,
                 version : {"none", "latest", "old"}]

ModelStoreState ==
    [files : [StoKeys -> VersionFiles], latest : StoKeys \cup {"none"}, deleted : BOOLEAN,
     task : [StoTasks -> [pc : {"idle", "data", "index", "meta", "version", "list", "unflag", "flag", "latest"},
                          v : StoKeys \cup {"none"}, others : SUBSET StoKeys]], ops : Nat]

PromptEntry == [size : Nat, at : -1 .. MaxStoNow]

PromptState ==
    [entries : [StoKeys -> PromptEntry], bytes : Nat, remote : [StoKeys -> -1 .. MaxStoNow], now : 0 .. MaxStoNow,
     entriesLock : StoTasks \cup {"free"}, metricsLock : StoTasks \cup {"free"}, served : -1 .. MaxStoNow,
     task : [StoTasks -> [pc : {"idle", "metrics", "remote", "s5entries", "vector", "upload"},
                          op : {"get", "put"}, k : StoKeys \cup {"none"}, size : Nat]], ops : Nat]

NoVersion == [parts |-> 0, total |-> 0, index |-> FALSE, meta |-> FALSE, version |-> "none"]
StoIdle == [pc |-> "idle", v |-> "none", others |-> {}]
PromptIdle == [pc |-> "idle", op |-> "get", k |-> "none", size |-> 0]
NoPrompt == [size |-> 0, at |-> -1]

\* What the bridge holds, the client's copies, and the paths a put was answered for.
BridgeState ==
    [remote : [StoKeys -> Nat], local : [StoKeys -> Nat], answered : SUBSET StoKeys,
     task : [StoTasks -> [pc : {"idle", "sent", "held", "copy"}, k : StoKeys \cup {"none"}, v : Nat]], ops : Nat]

BridgeIdle == [pc |-> "idle", k |-> "none", v |-> 0]

StoInit ==
    /\ stoPart \in {"s5", "models", "results", "prompts", "jobs", "bridge"}
    /\ s5 = [files |-> [k \in StoKeys |-> 0], injected |-> FALSE,
             task |-> [t \in StoTasks |-> [pc |-> "idle", path |-> "none", size |-> 0]], ops |-> 0]
    /\ mstore = [files |-> [k \in StoKeys |-> NoVersion], latest |-> "none", deleted |-> FALSE,
                 task |-> [t \in StoTasks |-> StoIdle], ops |-> 0]
    /\ \E k \in StoKeys :
          rcache = [config |-> "free", memory |-> {}, stored |-> {k}, hits |-> 0, misses |-> 0,
                    task |-> [t \in StoTasks |-> [pc |-> "idle", k |-> "none"]], ops |-> 0]
    /\ pcache = [entries |-> [k \in StoKeys |-> NoPrompt], bytes |-> 0, remote |-> [k \in StoKeys |-> -1],
                 now |-> 0, entriesLock |-> "free", metricsLock |-> "free", served |-> -1,
                 task |-> [t \in StoTasks |-> PromptIdle], ops |-> 0]
    /\ byJob = [held |-> [k \in StoKeys |-> 0], count |-> 0, tokens |-> 0, hits |-> 0, misses |-> 0, ops |-> 0]
    /\ bridge = [remote |-> [k \in StoKeys |-> 0], local |-> [k \in StoKeys |-> 0],
                 answered |-> {},
                 task |-> [t \in StoTasks |-> BridgeIdle], ops |-> 0]

SumOf(f) == MapThenSumSet(LAMBDA k : f[k], DOMAIN f)

-----------------------------------------------------------------------------
(* MockS5Backend                                                           *)

S5Step(s) == stoPart = "s5" /\ s5' = s /\ UNCHANGED <<stoPart, mstore, rcache, pcache, byJob, bridge>>
S5Op(s) == s5.ops < MaxStoOps /\ S5Step([s EXCEPT !.ops = @ + 1])

\* inject_error: the next call fails and takes the error away.
InjectError == ~s5.injected /\ S5Op([s5 EXCEPT !.injected = TRUE])
S5Fails == s5.injected /\ S5Op([s5 EXCEPT !.injected = FALSE])

\* Mutant: the new data is left out of the sum.
CheckQuota_Stored(size) == SumOf(s5.files) <= StoQuota

\* check_quota: what is stored now and the new data, also where it replaces some.
CheckQuota(size) == SumOf(s5.files) + size <= StoQuota

\* put, put_with_metadata: the quota is checked under its own lock.
S5Put(t, k, size) ==
    /\ s5.task[t].pc = "idle" /\ ~s5.injected /\ CheckQuota(size)
    /\ S5Op([s5 EXCEPT !.task[t] = [pc |-> "put", path |-> k, size |-> size]])

\* The insertion.
S5Insert(t) ==
    /\ s5.task[t].pc = "put"
    /\ S5Step([s5 EXCEPT !.files[s5.task[t].path] = s5.task[t].size,
                         !.task[t] = [pc |-> "idle", path |-> "none", size |-> 0]])

\* delete; what is not there is an error.
S5Delete(k) ==
    /\ s5.files[k] # 0 /\ ~s5.injected
    /\ S5Op([s5 EXCEPT !.files[k] = 0])

-----------------------------------------------------------------------------
(* ModelStorage.  Every put can fail and ends the operation.               *)

MsStep(s) == stoPart = "models" /\ mstore' = s /\ UNCHANGED <<stoPart, s5, rcache, pcache, byJob, bridge>>
MsAt(t, pc) == stoPart = "models" /\ mstore.task[t].pc = pc
MsFile(t) == mstore.files[mstore.task[t].v]
MsFailed(t) == MsStep([mstore EXCEPT !.task[t] = StoIdle])

\* store_model begins a version with a fresh id, of one part or of several.
StoreModel(t, v, n) ==
    /\ MsAt(t, "idle") /\ mstore.ops < MaxStoOps
    /\ mstore.files[v].total = 0
    /\ MsStep([mstore EXCEPT !.task[t] = [pc |-> "data", v |-> v, others |-> {}], !.files[v].total = n,
                             !.ops = @ + 1])

\* Mutant: a part that could not be stored is passed over.
StorePart_PassedOver(t, ok) ==
    /\ MsAt(t, "data")
    /\ LET n == MsFile(t).parts + (IF ok THEN 1 ELSE 0)
       IN MsStep([mstore EXCEPT !.files[mstore.task[t].v].parts = n,
                                !.task[t].pc = IF MsFile(t).total = 1 THEN "meta"
                                               ELSE IF ok /\ n < MsFile(t).total THEN "data" ELSE "index"])

\* The data of a small model, or one chunk of store_chunked_model.
StorePart(t, ok) ==
    /\ MsAt(t, "data")
    /\ IF ok
       THEN LET n == MsFile(t).parts + 1
            IN MsStep([mstore EXCEPT !.files[mstore.task[t].v].parts = n,
                                     !.task[t].pc = IF n < MsFile(t).total THEN "data"
                                                    ELSE IF n = 1 THEN "meta" ELSE "index"])
       ELSE MsFailed(t)

\* chunks.cbor
StoreIndex(t, ok) ==
    /\ MsAt(t, "index")
    /\ IF ok THEN MsStep([mstore EXCEPT !.files[mstore.task[t].v].index = TRUE, !.task[t].pc = "meta"])
       ELSE MsFailed(t)

\* metadata.cbor
StoreMeta(t, ok) ==
    /\ MsAt(t, "meta")
    /\ IF ok THEN MsStep([mstore EXCEPT !.files[mstore.task[t].v].meta = TRUE, !.task[t].pc = "version"])
       ELSE MsFailed(t)

\* version.cbor, written as the latest.
StoreVersion(t, ok) ==
    /\ MsAt(t, "version")
    /\ IF ok THEN MsStep([mstore EXCEPT !.files[mstore.task[t].v].version = "latest", !.task[t].pc = "list"])
       ELSE MsFailed(t)

\* update_latest_version lists the versions that have a version.cbor.
ListVersions(t) ==
    /\ MsAt(t, "list")
    /\ MsStep(IF mstore.files[mstore.task[t].v].version = "none"
              THEN [mstore EXCEPT !.task[t] = StoIdle]
              ELSE [mstore EXCEPT !.task[t].pc = "unflag",
                      !.task[t].others = {k \in StoKeys \ {mstore.task[t].v} : mstore.files[k].version # "none"}])

\* Each other version is written back as not the latest.
Unflag(t, ok) ==
    /\ MsAt(t, "unflag")
    /\ IF mstore.task[t].others = {} THEN MsStep([mstore EXCEPT !.task[t].pc = "flag"])
       ELSE IF ok
       THEN \E k \in mstore.task[t].others :
               MsStep([mstore EXCEPT !.files[k].version = "old", !.task[t].others = @ \ {k}])
       ELSE MsFailed(t)

Flag(t, ok) ==
    /\ MsAt(t, "flag")
    /\ IF ok THEN MsStep([mstore EXCEPT !.files[mstore.task[t].v].version = "latest", !.task[t].pc = "latest"])
       ELSE MsFailed(t)

\* latest.cbor
StoreLatest(t, ok) ==
    /\ MsAt(t, "latest")
    /\ IF ok THEN MsStep([mstore EXCEPT !.latest = mstore.task[t].v, !.task[t] = StoIdle]) ELSE MsFailed(t)

\* delete_version_data: the data, metadata, version and chunks.cbor; the chunks stay.
WithoutFiles(f) ==
    [f EXCEPT !.parts = IF f.total = 1 THEN 0 ELSE @, !.index = FALSE, !.meta = FALSE, !.version = "none"]

\* delete_model: the files of the listed versions; latest.cbor stays, and the deletion
\* of the directory, which is no file, is an error.
DeleteStored ==
    /\ stoPart = "models" /\ mstore.ops < MaxStoOps
    /\ MsStep([mstore EXCEPT !.deleted = TRUE, !.ops = @ + 1,
                  !.files = [k \in StoKeys |-> IF @[k].version = "none" THEN @[k] ELSE WithoutFiles(@[k])]])

\* get_model of the latest version, and get_model_version.
LoadsCompletely(v) ==
    /\ mstore.files[v].meta
    /\ mstore.files[v].parts = mstore.files[v].total
    /\ mstore.files[v].index <=> mstore.files[v].total > 1

-----------------------------------------------------------------------------
(* ResultCache.  put holds the lock of the configuration to its end, and   *)
(* enforce_size_limit, which it calls, asks for that lock again.           *)

RcStep(s) == stoPart = "results" /\ rcache' = s /\ UNCHANGED <<stoPart, s5, mstore, pcache, byJob, bridge>>
RcFree == stoPart = "results" /\ rcache.config = "free"

\* put, to the call of enforce_size_limit, where it stays.
RcPut(t, k) ==
    /\ RcFree /\ rcache.task[t].pc = "idle" /\ rcache.ops < MaxStoOps
    /\ RcStep([rcache EXCEPT !.config = t, !.task[t] = [pc |-> "limit", k |-> k], !.ops = @ + 1])

\* put, from the lock of enforce_size_limit on: the entry is stored and kept in memory.
RcEnforceSizeLimit(t) ==
    /\ RcFree /\ rcache.task[t].pc = "limit"
    /\ LET k == rcache.task[t].k
       IN RcStep([rcache EXCEPT !.stored = @ \cup {k}, !.memory = @ \cup {k},
                                !.task[t] = [pc |-> "idle", k |-> "none"]])

\* get of what is in memory.
RcGet(t, k) ==
    /\ stoPart = "results" /\ rcache.task[t].pc = "idle" /\ rcache.ops < MaxStoOps
    /\ RcStep(IF k \in rcache.memory THEN [rcache EXCEPT !.hits = @ + 1, !.ops = @ + 1]
              ELSE [rcache EXCEPT !.task[t] = [pc |-> "valid", k |-> k], !.ops = @ + 1])

\* is_entry_valid, by the storage, as the index of metadata is empty.
RcValid(t) ==
    /\ RcFree /\ rcache.task[t].pc = "valid"
    /\ RcStep(IF rcache.task[t].k \in rcache.stored THEN [rcache EXCEPT !.task[t].pc = "fetch"]
              ELSE [rcache EXCEPT !.misses = @ + 1, !.task[t] = [pc |-> "idle", k |-> "none"]])

\* get of what is in the storage.
RcFetch(t) ==
    /\ RcFree /\ rcache.task[t].pc = "fetch"
    /\ LET k == rcache.task[t].k
       IN RcStep([rcache EXCEPT !.memory = IF k \in rcache.stored THEN @ \cup {k} ELSE @,
                                !.hits = IF k \in rcache.stored THEN @ + 1 ELSE @,
                                !.misses = IF k \in rcache.stored THEN @ ELSE @ + 1,
                                !.task[t] = [pc |-> "idle", k |-> "none"]])

\* delete, of a batch.
RcDelete(k) ==
    /\ RcFree /\ k \in rcache.stored /\ rcache.ops < MaxStoOps
    /\ RcStep([rcache EXCEPT !.stored = @ \ {k}, !.memory = @ \ {k}, !.ops = @ + 1])

\* clear leaves the storage as it is.
RcClear ==
    /\ stoPart = "results" /\ rcache.ops < MaxStoOps
    /\ RcStep([rcache EXCEPT !.memory = {}, !.hits = 0, !.misses = 0, !.ops = @ + 1])

-----------------------------------------------------------------------------
(* PromptCache.  put and the look into memory take the lock of the entries *)
(* and then of the metrics; a hit in S5 takes them the other way round.    *)

PcStep(s) == stoPart = "prompts" /\ pcache' = s /\ UNCHANGED <<stoPart, s5, mstore, rcache, byJob, bridge>>
PcAt(t, pc) == stoPart = "prompts" /\ pcache.task[t].pc = pc
PcEnd(s, t) == [s EXCEPT !.task[t] = PromptIdle]
PcOps == stoPart = "prompts" /\ pcache.ops < MaxStoOps
PcTick == pcache.now < MaxStoNow /\ PcStep([pcache EXCEPT !.now = @ + 1])
PcYoung(at) == at # -1 /\ pcache.now - at <= StoTtl

\* put and get begin with the lock of the entries.
PcBegin(t, op, k, size) ==
    /\ PcOps /\ PcAt(t, "idle") /\ pcache.entriesLock = "free"
    /\ PcStep([pcache EXCEPT !.entriesLock = t, !.ops = @ + 1,
                             !.task[t] = [pc |-> "metrics", op |-> op, k |-> k, size |-> size]])

\* get, in memory: a young entry is a hit.
PcMemory(t) ==
    LET e == pcache.entries[pcache.task[t].k]
    IN /\ PcAt(t, "metrics") /\ pcache.task[t].op = "get"
       /\ IF PcYoung(e.at)
          THEN /\ pcache.metricsLock = "free"
               /\ PcStep(PcEnd([pcache EXCEPT !.entriesLock = "free", !.served = pcache.now - e.at], t))
          ELSE PcStep([pcache EXCEPT !.entriesLock = "free", !.task[t].pc = "remote"])

\* The oldest entries go until the new one fits, or all of them.
Evictions(size) ==
    LET there == {k \in StoKeys : pcache.entries[k].at # -1}
        sizes == [k \in StoKeys |-> pcache.entries[k].size]
        Freed(S) == SumOf([k \in S |-> sizes[k]])
        Oldest(S) == \A k \in S, l \in there \ S : pcache.entries[k].at <= pcache.entries[l].at
        Enough(S) == pcache.bytes - Freed(S) + size <= StoQuota
    IN {S \in SUBSET there :
           /\ Oldest(S) /\ S # {}
           /\ Enough(S) \/ S = there
           /\ \E k \in S : Oldest(S \ {k}) /\ (~Enough(S \ {k}) \/ S = {k})}

\* Mutant: the evicted entries are taken off the total by the size of the new one.
PcPut_BySize(t) ==
    LET j == pcache.task[t]
        over == pcache.bytes + j.size > StoQuota
        there == {k \in StoKeys : pcache.entries[k].at # -1}
    IN /\ PcAt(t, "metrics") /\ j.op = "put" /\ pcache.metricsLock = "free"
       /\ \E S \in IF over /\ there # {} THEN Evictions(j.size) ELSE {{}} :
             PcStep([pcache EXCEPT
                !.entries = [k \in StoKeys |-> IF k = j.k THEN [size |-> j.size, at |-> pcache.now]
                                               ELSE IF k \in S THEN NoPrompt ELSE @[k]],
                !.bytes = (IF S = {} THEN @ ELSE IF @ < j.size * 2 THEN 0 ELSE @ - j.size * 2) + j.size,
                !.entriesLock = "free", !.task[t].pc = "upload"])

\* put, under both locks: an entry that is replaced stays in the total.
PcPut(t) ==
    LET j == pcache.task[t]
        over == pcache.bytes + j.size > StoQuota
        there == {k \in StoKeys : pcache.entries[k].at # -1}
    IN /\ PcAt(t, "metrics") /\ j.op = "put" /\ pcache.metricsLock = "free"
       /\ \E S \in IF over /\ there # {} THEN Evictions(j.size) ELSE {{}} :
             PcStep([pcache EXCEPT
                !.entries = [k \in StoKeys |-> IF k = j.k THEN [size |-> j.size, at |-> pcache.now]
                                               ELSE IF k \in S THEN NoPrompt ELSE @[k]],
                !.bytes = (@ - SumOf([k \in S |-> pcache.entries[k].size])) + j.size,
                !.entriesLock = "free", !.task[t].pc = "upload"])

\* put, the uploads: each may fail or time out; a put is a success all the same.
PcUpload(t, ok) ==
    /\ PcAt(t, "upload")
    /\ PcStep(PcEnd([pcache EXCEPT !.remote[pcache.task[t].k] = IF ok THEN pcache.now ELSE @], t))

\* get, in S5: a young copy is a hit, counted under the lock of the metrics.
PcRemote(t) ==
    /\ PcAt(t, "remote")
    /\ IF PcYoung(pcache.remote[pcache.task[t].k])
       THEN /\ pcache.metricsLock = "free"
            /\ PcStep([pcache EXCEPT !.metricsLock = t, !.task[t].pc = "s5entries",
                                     !.task[t].size = pcache.now - pcache.remote[pcache.task[t].k]])
       ELSE PcStep([pcache EXCEPT !.task[t].pc = "vector"])

\* The copy becomes an entry of the age it was found with, and of size 0, as the size
\* is not serialized.
PcFromS5(t) ==
    LET age == pcache.task[t].size
    IN /\ PcAt(t, "s5entries") /\ pcache.entriesLock = "free"
       /\ PcStep(PcEnd([pcache EXCEPT !.entries[pcache.task[t].k] = [size |-> 0, at |-> pcache.now - age],
                                      !.metricsLock = "free", !.served = age], t))

\* get, by similarity, or a miss.
PcSimilar(t, k) ==
    /\ PcAt(t, "vector") /\ pcache.metricsLock = "free" /\ PcYoung(pcache.remote[k])
    /\ PcStep(PcEnd([pcache EXCEPT !.served = pcache.now - pcache.remote[k]], t))

PcMiss(t) ==
    /\ PcAt(t, "vector") /\ pcache.metricsLock = "free"
    /\ PcStep(PcEnd(pcache, t))

\* clear, under both locks; S5 and the vectors stay.
PcClear ==
    /\ PcOps /\ pcache.entriesLock = "free" /\ pcache.metricsLock = "free"
    /\ PcStep([pcache EXCEPT !.entries = [k \in StoKeys |-> NoPrompt], !.bytes = 0, !.ops = @ + 1])

-----------------------------------------------------------------------------
(* ResultStore and ProofStore: both locks are held, in the same order.     *)

JobStep(s) == stoPart = "jobs" /\ byJob.ops < MaxStoOps /\ byJob' = [s EXCEPT !.ops = @ + 1]
              /\ UNCHANGED <<stoPart, s5, mstore, rcache, pcache, bridge>>
JobsHeld(held) == Cardinality({k \in StoKeys : held[k] # 0})

\* store_result, store_proof: what is replaced stays in the total.
StoreByJob(k, tokens) ==
    LET held == [byJob.held EXCEPT ![k] = tokens]
    IN JobStep([byJob EXCEPT !.held = held, !.count = JobsHeld(held), !.tokens = @ + tokens])

\* retrieve_result, retrieve_proof
RetrieveByJob(k) ==
    JobStep(IF byJob.held[k] # 0 THEN [byJob EXCEPT !.hits = @ + 1] ELSE [byJob EXCEPT !.misses = @ + 1])

\* Mutant: the total is reduced also where nothing was held.
RemoveByJob_Unguarded(k) ==
    JobStep([byJob EXCEPT !.held[k] = 0, !.count = JobsHeld([byJob.held EXCEPT ![k] = 0]),
                          !.tokens = IF @ = 0 THEN 0 ELSE @ - 1])

\* remove_result, remove_proof
RemoveByJob(k) ==
    LET held == [byJob.held EXCEPT ![k] = 0]
    IN /\ byJob.held[k] # 0
       /\ JobStep([byJob EXCEPT !.held = held, !.count = JobsHeld(held),
                                !.tokens = IF @ < byJob.held[k] THEN 0 ELSE @ - byJob.held[k]])

\* clear
ClearByJob == JobStep([byJob EXCEPT !.held = [k \in StoKeys |-> 0], !.count = 0, !.tokens = 0])

-----------------------------------------------------------------------------
(* EnhancedS5Client: a put is sent to the bridge and then copied; a get    *)
(* that the bridge does not answer is served from the copy.                *)

BrStep(s) == stoPart = "bridge" /\ bridge' = s /\ UNCHANGED <<stoPart, s5, mstore, rcache, pcache, byJob>>
BrOp(s) == bridge.ops < MaxStoOps /\ BrStep([s EXCEPT !.ops = @ + 1])
BrAt(t, pc) == stoPart = "bridge" /\ bridge.task[t].pc = pc
BrEnd(s, t) == [s EXCEPT !.task[t] = BridgeIdle]

\* put_file: the request; the content is named by the operation that sends it.
PutFile(t, k) ==
    /\ BrAt(t, "idle")
    /\ BrOp([bridge EXCEPT !.task[t] = [pc |-> "sent", k |-> k, v |-> bridge.ops + 1]])

\* The bridge stores the content.
BridgeStores(t) ==
    /\ BrAt(t, "sent")
    /\ BrStep([bridge EXCEPT !.remote[bridge.task[t].k] = bridge.task[t].v, !.task[t].pc = "held"])

\* put_file: no answer, a status that is no success, or an answer without a CID ends
\* the put; the bridge may hold the content all the same.
PutFails(t) ==
    /\ stoPart = "bridge" /\ bridge.task[t].pc \in {"sent", "held"}
    /\ BrStep(BrEnd(bridge, t))

\* put_file: the answer carries a CID.
PutAnswered(t) ==
    /\ BrAt(t, "held")
    /\ BrStep([bridge EXCEPT !.task[t].pc = "copy"])

\* put: the content is copied, and the put returns.
PutCopies(t) ==
    /\ BrAt(t, "copy")
    /\ LET j == bridge.task[t]
       IN BrStep(BrEnd([bridge EXCEPT !.local[j.k] = j.v, !.answered = @ \cup {j.k}], t))

\* get_file, and the copy where it fails (a 404 too); nothing in either is an error.
GetFile(k, ok) == IF ok THEN bridge.remote[k] ELSE 0

\* Mutant: the bridge is the only place a get looks at.
ReadsCopy_Never(k, ok) == GetFile(k, ok)

\* get
ReadsCopy(k, ok) == IF GetFile(k, ok) # 0 THEN GetFile(k, ok) ELSE bridge.local[k]

\* delete_file; a 404 is a success; the copy stays.
DeleteFile(k) == BrOp([bridge EXCEPT !.remote[k] = 0])

-----------------------------------------------------------------------------

ResultCacheNext ==
    \/ RcClear
    \/ \E k \in StoKeys : RcDelete(k)
    \/ \E t \in StoTasks :
          \/ RcValid(t) \/ RcFetch(t)
          \/ \E k \in StoKeys : RcPut(t, k) \/ RcGet(t, k)

StoNext ==
    \/ InjectError \/ S5Fails
    \/ \E k \in StoKeys : S5Delete(k)
    \/ \E t \in StoTasks : S5Insert(t) \/ \E k \in StoKeys, size \in StoSizes : S5Put(t, k, size)
    \/ \E t \in StoTasks :
          \/ ListVersions(t)
          \/ \E v \in StoKeys, n \in {1, StoChunks} : StoreModel(t, v, n)
          \/ \E ok \in BOOLEAN :
                \/ StorePart(t, ok) \/ StoreIndex(t, ok) \/ StoreMeta(t, ok) \/ StoreVersion(t, ok)
                \/ Unflag(t, ok) \/ Flag(t, ok) \/ StoreLatest(t, ok)
    \/ DeleteStored
    \/ ResultCacheNext
    \/ PcTick \/ PcClear
    \/ \E t \in StoTasks :
          \/ PcMemory(t) \/ PcPut(t) \/ PcRemote(t) \/ PcFromS5(t) \/ PcMiss(t)
          \/ \E ok \in BOOLEAN : PcUpload(t, ok)
          \/ \E k \in StoKeys : PcSimilar(t, k) \/ PcBegin(t, "get", k, 0)
          \/ \E k \in StoKeys, size \in StoSizes : PcBegin(t, "put", k, size)
    \/ \E k \in StoKeys : RetrieveByJob(k) \/ RemoveByJob(k) \/ \E n \in StoSizes : StoreByJob(k, n)
    \/ ClearByJob
    \/ \E t \in StoTasks :
          \/ BridgeStores(t) \/ PutFails(t) \/ PutAnswered(t) \/ PutCopies(t)
          \/ \E k \in StoKeys : PutFile(t, k)
    \/ \E k \in StoKeys : DeleteFile(k)

StoSpec == StoInit /\ [][StoNext]_stoVars

\* The result cache alone: the future of a call is polled as long as it can go on.
RcTaskStep(t) == RcValid(t) \/ RcFetch(t) \/ RcEnforceSizeLimit(t)
RcSpec ==
    /\ StoInit /\ stoPart = "results"
    /\ [][ResultCacheNext \/ \E t \in StoTasks : RcTaskStep(t)]_stoVars
    /\ \A t \in StoTasks : WF_stoVars(RcTaskStep(t))

-----------------------------------------------------------------------------

\* The types of the stores and caches.
StoTypeOK == s5 \in S5State /\ mstore \in ModelStoreState /\ pcache \in PromptState /\ bridge \in BridgeState

\* Concurrent puts may each find the same room under the quota; they pass it by at
\* most what all tasks but one are putting, none of which is larger than the quota.
QuotaOvershoot ==
    SumOf(s5.files) <= StoQuota + (Cardinality(StoTasks) - 1) * Max({n \in StoSizes : n <= StoQuota} \cup {0})

\* Whatever put of whatever store fails, and however two stores of a model interleave,
\* the version latest.cbor names can be loaded (until delete_model).
LatestCanBeLoaded == mstore.latest # "none" /\ ~mstore.deleted => LoadsCompletely(mstore.latest)

\* The size that decides on the evictions of the prompt cache covers its entries, and
\* what it serves is within its time to live, from memory, S5 or by similarity.
PromptCacheCovers ==
    /\ SumOf([k \in StoKeys |-> pcache.entries[k].size]) <= pcache.bytes
    /\ pcache.served <= StoTtl

\* The counts of the stores by job match what they hold.
ByJobCounts ==
    /\ byJob.count = JobsHeld(byJob.held)
    /\ SumOf(byJob.held) <= byJob.tokens

\* Once a put of a path was answered with a CID, a get of it finds content, whether or
\* not the bridge answers (enhanced_s5_client.rs 474, 485).
AnsweredCanBeRead == \A k \in bridge.answered, ok \in BOOLEAN : ReadsCopy(k, ok) # 0

\* Every put and every get of the result cache returns, as test_result_cache.rs awaits.
ResultCacheReturns == \A t \in StoTasks : rcache.task[t].pc # "idle" ~> rcache.task[t].pc = "idle"
=============================================================================
