--------------------------- MODULE VectorLoading ---------------------------
(***************************************************************************)
(* Vectors of a session: uploadVectors and searchVectors work on the store *)
(* the session owns, and encrypted_session_init may start a task that      *)
(* loads a vector database from S5 and builds an index (api/websocket/     *)
(* vector_loading.rs, rag/vector_loader.rs).  The task polls the session's *)
(* cancellation token, which the end of a connection cancels for good.     *)
(* get_session_mut returns a clone of the session, so what the task writes *)
(* to it is dropped with the clone: the stored session keeps its status.   *)
(***************************************************************************)
EXTENDS Integers, FiniteSets

CONSTANTS VlSessions,   \* sessions
          Loads,        \* loading tasks
          Uploads,      \* uploadVectors requests under way
          Vectors,      \* vector ids
          MaxVectors,   \* capacity of a session's store (100 000)
          Chunks,       \* chunks of the database
          ParallelChunks, \* max_parallel_chunks (5)
          MaxDownloads  \* rate_limit.max_downloads

ASSUME VlAssumption ==
    /\ MaxVectors \in Nat /\ Chunks \in Nat /\ ParallelChunks \in Nat \ {0} /\ MaxDownloads \in Nat

VARIABLES
    vlStored,  \* sessions in the store
    vlSpent,   \* sessions whose cancellation token is cancelled
    ragStore,  \* ragStore[s]: the ids in the session's vector store
    ragOn,     \* sessions for which RAG is enabled
    loader,    \* the limit the loader was made with, and the downloads of its window
    load,      \* load[l]: session, stage, manifest, chunks fetched and in flight, result
    upload     \* upload[u]: session, ids still to add, rejections

vlVars == <<vlStored, vlSpent, ragStore, ragOn, loader, load, upload>>

\* What the checks read of a manifest; the database in S5 may be any.
Manifests == [mine : BOOLEAN, fits : BOOLEAN, live : BOOLEAN, valid : BOOLEAN]
NoManifest == [mine |-> FALSE, fits |-> FALSE, live |-> FALSE, valid |-> FALSE]

IdleLoad == [session |-> "none", stage |-> "idle", manifest |-> NoManifest, flight |-> 0, got |-> 0,
             result |-> "none"]
IdleUpload == [session |-> "none", todo |-> {}, rejected |-> 0]

VlSessionInit(s) ==
    /\ s \notin vlStored
    /\ vlStored' = vlStored \cup {s}
    /\ UNCHANGED <<vlSpent, ragStore, ragOn, load, upload, loader>>

\* encrypted_session_init with a vector_database: the load is spawned with a clone
\* of the session's token.
StartLoad(l, s) ==
    /\ load[l].stage = "idle" /\ s \in vlStored
    /\ load' = [load EXCEPT ![l] = [IdleLoad EXCEPT !.session = s, !.stage = "check"]]
    /\ UNCHANGED <<vlStored, vlSpent, ragStore, ragOn, upload, loader>>

\* The end of the connection cancels the token; the session stays in the store.
VlDisconnect(s) ==
    /\ s \in vlStored \ vlSpent
    /\ vlSpent' = vlSpent \cup {s}
    /\ UNCHANGED <<vlStored, ragStore, ragOn, load, upload, loader>>

End(l, result) == load' = [load EXCEPT ![l] = [@ EXCEPT !.stage = "ended", !.result = result]]
Cancelled(l) == load[l].session \in vlSpent

\* The first test of the token, and the session key.
CheckToken(l) ==
    /\ load[l].stage = "check"
    /\ IF Cancelled(l) THEN End(l, "cancelled") ELSE load' = [load EXCEPT ![l].stage = "manifest"]
    /\ UNCHANGED <<vlStored, vlSpent, ragStore, ragOn, upload, loader>>

\* check_rate_limit: a download is recorded in the window, or refused.
RateAllows == loader.limit # "rate" \/ loader.window < MaxDownloads
CountDownload(n) == loader' = IF loader.limit = "rate" THEN [loader EXCEPT !.window = @ + n] ELSE loader

\* The window of the rate limit has passed.
WindowPasses ==
    /\ loader.window > 0
    /\ loader' = [loader EXCEPT !.window = 0]
    /\ UNCHANGED <<vlStored, vlSpent, ragStore, ragOn, load, upload>>

\* download_and_decrypt_manifest: a failed download was counted as well.
FetchManifest(l, m, ok) ==
    /\ load[l].stage = "manifest"
    /\ IF RateAllows /\ ok
       THEN load' = [load EXCEPT ![l] = [@ EXCEPT !.stage = "owner", !.manifest = m]]
       ELSE End(l, "error")
    /\ CountDownload(IF RateAllows THEN 1 ELSE 0)
    /\ UNCHANGED <<vlStored, vlSpent, ragStore, ragOn, upload>>

Goes(l, ok, stage) == IF ok THEN load' = [load EXCEPT ![l].stage = stage] ELSE End(l, "error")

\* verify_owner: the addresses are compared without their case.
VerifyOwner(l) ==
    /\ load[l].stage = "owner"
    /\ Goes(l, load[l].manifest.mine, "memory")
    /\ UNCHANGED <<vlStored, vlSpent, ragStore, ragOn, upload, loader>>

\* check_memory_limit, by the counts the manifest gives, only with a limit.
CheckMemoryLimit(l) ==
    /\ load[l].stage = "memory"
    /\ Goes(l, loader.limit # "memory" \/ load[l].manifest.fits, "state")
    /\ UNCHANGED <<vlStored, vlSpent, ragStore, ragOn, upload, loader>>

\* Mutant: a deleted database is loaded.
ManifestLoaded_Deleted(l) ==
    /\ load[l].stage = "state"
    /\ Goes(l, load[l].manifest.valid, "chunks")
    /\ UNCHANGED <<vlStored, vlSpent, ragStore, ragOn, upload, loader>>

\* A deleted database, or a manifest that is not valid, is an error.
ManifestLoaded(l) ==
    /\ load[l].stage = "state"
    /\ Goes(l, load[l].manifest.live /\ load[l].manifest.valid, "chunks")
    /\ UNCHANGED <<vlStored, vlSpent, ragStore, ragOn, upload, loader>>

\* buffer_unordered keeps at most max_parallel_chunks downloads in flight; each is
\* counted, and one the rate limit refuses ends the load.
FetchChunk(l) ==
    /\ load[l].stage = "chunks"
    /\ load[l].flight < ParallelChunks /\ load[l].got + load[l].flight < Chunks
    /\ IF RateAllows THEN load' = [load EXCEPT ![l].flight = @ + 1] ELSE End(l, "error")
    /\ CountDownload(IF RateAllows THEN 1 ELSE 0)
    /\ UNCHANGED <<vlStored, vlSpent, ragStore, ragOn, upload>>

ChunkLoaded(l) ==
    /\ load[l].stage = "chunks" /\ load[l].flight > 0
    /\ load' = [load EXCEPT ![l].flight = @ - 1, ![l].got = @ + 1]
    /\ UNCHANGED <<vlStored, vlSpent, ragStore, ragOn, upload, loader>>

\* All chunks are there; a database without vectors is an error.
ChunksComplete(l) ==
    /\ load[l].stage = "chunks" /\ load[l].got = Chunks
    /\ IF Chunks = 0 THEN End(l, "error") ELSE load' = [load EXCEPT ![l].stage = "build"]
    /\ UNCHANGED <<vlStored, vlSpent, ragStore, ragOn, upload, loader>>

Loading == {"manifest", "owner", "memory", "state", "chunks", "build"}

\* A download or a decryption of a chunk fails, or VECTOR_LOADING_TIMEOUT strikes.
LoadFails(l) ==
    /\ load[l].stage \in Loading
    /\ End(l, "error")
    /\ UNCHANGED <<vlStored, vlSpent, ragStore, ragOn, upload, loader>>

\* load_vectors_from_s5: a loader made with a timeout drops the load where it is.
LoadTimeout(l) ==
    /\ load[l].stage \in Loading \ {"build"} /\ loader.limit = "timeout"
    /\ End(l, "error")
    /\ UNCHANGED <<vlStored, vlSpent, ragStore, ragOn, upload, loader>>

\* select! also waits for the token while vectors load and while the index is built.
LoadCancelled(l) ==
    /\ load[l].stage \in Loading
    /\ Cancelled(l)
    /\ End(l, "cancelled")
    /\ UNCHANGED <<vlStored, vlSpent, ragStore, ragOn, upload, loader>>

\* The index is set on a clone of the session and lost with it.
IndexBuilt(l) ==
    /\ load[l].stage = "build"
    /\ End(l, IF load[l].session \in vlStored THEN "complete" ELSE "error")
    /\ UNCHANGED <<vlStored, vlSpent, ragStore, ragOn, upload, loader>>

-----------------------------------------------------------------------------
(* uploadVectors and searchVectors *)

\* get_or_create_rag_session creates the session if need be, then replace clears.
UploadBegin(u, s, ids, replace) ==
    /\ upload[u].session = "none" /\ ids # {}
    /\ vlStored' = vlStored \cup {s}
    /\ ragOn' = ragOn \cup {s}
    /\ ragStore' = [ragStore EXCEPT ![s] = IF replace THEN {} ELSE @]
    /\ upload' = [upload EXCEPT ![u] = [session |-> s, todo |-> ids, rejected |-> 0]]
    /\ UNCHANGED <<vlSpent, load, loader>>

\* Mutants: the limit counts one too few, or refuses nothing.
Accepts_OffByOne(s, v) == v \in ragStore[s] \/ Cardinality(ragStore[s]) <= MaxVectors

\* SessionVectorStore::add replaces a known id, and refuses a new one when full.
Accepts(s, v) == v \in ragStore[s] \/ Cardinality(ragStore[s]) < MaxVectors

\* The store is locked for one vector at a time.
UploadAdd(u, v) ==
    LET s == upload[u].session IN
    /\ v \in upload[u].todo
    /\ ragStore' = [ragStore EXCEPT ![s] = IF Accepts(s, v) THEN @ \cup {v} ELSE @]
    /\ upload' = [upload EXCEPT ![u].todo = @ \ {v}, ![u].rejected = IF Accepts(s, v) THEN @ ELSE @ + 1]
    /\ UNCHANGED <<vlStored, vlSpent, ragOn, load, loader>>

UploadEnd(u) ==
    /\ upload[u].session # "none" /\ upload[u].todo = {}
    /\ upload' = [upload EXCEPT ![u] = IdleUpload]
    /\ UNCHANGED <<vlStored, vlSpent, ragStore, ragOn, load, loader>>

\* handle_search_vectors: an error without RAG, else the matching vectors that are
\* stored now; the session's vector_database is never set on the stored session.
SearchResults(s) == IF s \in ragOn THEN ragStore[s] ELSE {}

VlInit ==
    /\ vlStored = {} /\ vlSpent = {} /\ ragOn = {}
    /\ ragStore = [s \in VlSessions |-> {}]
    /\ \E limit \in {"none", "rate", "memory", "timeout"} : loader = [limit |-> limit, window |-> 0]
    /\ load = [l \in Loads |-> IdleLoad]
    /\ upload = [u \in Uploads |-> IdleUpload]

LoadStep(l) ==
    \/ \E m \in Manifests, ok \in BOOLEAN : FetchManifest(l, m, ok)
    \/ VerifyOwner(l) \/ CheckMemoryLimit(l) \/ LoadTimeout(l)
    \/ CheckToken(l) \/ ManifestLoaded(l) \/ FetchChunk(l) \/ ChunkLoaded(l)
    \/ ChunksComplete(l) \/ LoadFails(l) \/ LoadCancelled(l) \/ IndexBuilt(l)

VlNext ==
    \/ WindowPasses
    \/ \E s \in VlSessions : VlSessionInit(s) \/ VlDisconnect(s)
    \/ \E l \in Loads : LoadStep(l) \/ \E s \in VlSessions : StartLoad(l, s)
    \/ \E u \in Uploads :
         \/ UploadEnd(u)
         \/ \E v \in Vectors : UploadAdd(u, v)
         \/ \E s \in VlSessions, ids \in SUBSET Vectors, replace \in BOOLEAN :
              UploadBegin(u, s, ids, replace)

VlSpec == VlInit /\ [][VlNext]_vlVars

-----------------------------------------------------------------------------
\* Two connections upload to one session, one vector per lock: the store never
\* exceeds its limit, a search only sees sessions with RAG enabled, and what a
\* rejected vector lacked was room (session_vector_store.rs 94).
VectorCapacity ==
    \A s \in VlSessions :
        /\ Cardinality(SearchResults(s)) <= MaxVectors
        /\ s \notin ragOn => ragStore[s] = {}

\* An index is built only from a database of this user that is not deleted and within
\* the memory limit, from all its chunks or not at all, and the downloads of a window,
\* of however many loads, keep to the rate limit (vector_loader.rs 299-339, 559-567, 671).
LoadIsChecked ==
    /\ loader.window <= MaxDownloads
    /\ \A l \in Loads :
        load[l].stage = "build" \/ load[l].result = "complete" =>
            /\ load[l].got = Chunks /\ load[l].flight = 0
            /\ load[l].manifest.mine /\ load[l].manifest.live
            /\ loader.limit = "memory" => load[l].manifest.fits
=============================================================================
