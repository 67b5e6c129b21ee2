--------------------------------- MODULE Ezkl ---------------------------------
(***************************************************************************)
(* Proofs of inference: batches of proofs (ezkl/batch_proofs.rs),          *)
(* incremental proofs (ezkl/proof_creation.rs), the proof verifier with    *)
(* its cache (ezkl/verification.rs), the artifacts of a model              *)
(* (ezkl/integration.rs), and under crypto/ezkl the proof cache, the key   *)
(* manager, the prover and the verifier of commitment proofs.              *)
(***************************************************************************)
EXTENDS Integers, Sequences, FiniteSets, SequencesExt

CONSTANTS EzItems,     \* inferences, proofs, witnesses: told apart by their hashes
          EzBroken,    \* the ones without a model hash, tokens or embeddings
          EzTasks,     \* callers
          EzLimits,    \* values of max_concurrent
          EzBatchMax,  \* bound on the size of a batch
          EzCapacity,  \* capacity of the proof cache
          MaxEzOps     \* bound on the operations of a part

ASSUME EzAssumption ==
    /\ EzBroken \subseteq EzItems /\ EzLimits \subseteq Nat \ {0} /\ EzBatchMax \in Nat
    /\ EzCapacity \in Nat /\ MaxEzOps \in Nat
    /\ EzItems # {} /\ IsFiniteSet(EzTasks) /\ "free" \notin EzTasks

VARIABLES ezPart,       \* the part a behaviour is about
          batch,        \* BatchProofGenerator
          increments,   \* ProofGenerator
          verification, \* ProofVerifier
          artifacts,    \* EZKLIntegration
          proofCache,   \* ProofCache
          keyCache,     \* KeyManager
          judged        \* EzklProver and EzklVerifier

ezVars == <<ezPart, batch, increments, verification, artifacts, proofCache, keyCache, judged>>

\* The call of create_batch_proof that runs and the batch the map batches holds.
BatchState ==
    [pc : {"idle", "work", "done"}, parallel : BOOLEAN, unique : Seq(EzItems), total : Nat, permits : Nat,
     running : SUBSET Nat, proofs : Seq({"pending", "ok", "failed"}), sent : Nat, streams : BOOLEAN,
     result : {"none", "Completed", "PartialSuccess", "Failed"}, ops : Nat,
     entry : [status : {"none", "InProgress", "Completed", "Failed", "Cancelled"}, processed : Nat, timer : BOOLEAN,
              cancelled : BOOLEAN, waiter : {"none", "polls", "reads", "ok", "failed"}]]

IncrementState == [status : [EzItems -> {"none", "InProgress", "Cancelled"}], steps : [EzItems -> Nat], made : Nat, ops : Nat]

\* A request: the proof, its mode and whether its key and its constraints suit it.
VerificationRequest == [proof : EzItems, full : BOOLEAN, suits : BOOLEAN, old : BOOLEAN]
VerificationState ==
    [cache : [EzItems -> {"none", "valid", "invalid"}], hits : Nat, misses : Nat, total : Nat, valid : Nat,
     failed : Nat, expired : Nat, ops : Nat,
     task : [EzTasks -> [pc : {"idle", "verify", "count"}, request : VerificationRequest, verdict : {"none", "valid", "invalid"}]]]

ArtifactState == [cache : SUBSET EzItems, lock : EzTasks \cup {"free"}, count : Nat, building : EzItems \cup {"none"}]

ProofCacheState ==
    [proofs : SUBSET EzItems, lru : Seq(EzItems), stale : SUBSET EzItems, ttl : BOOLEAN, hits : Nat, misses : Nat,
     evictions : Nat, entries : Nat, ops : Nat]

\* A key file and what is cached of it; an empty or malformed key is not valid.
KeyState ==
    [file : Nat, bad : SUBSET Nat, cache : Nat \cup {-1},
     task : [EzTasks -> [pc : {"idle", "lookup", "load", "insert"}, key : Nat]], ops : Nat]

CommitmentFields == {"job", "model", "input", "output"}
JudgedState ==
    [real : BOOLEAN, proof : [CommitmentFields -> EzItems], bytes : [CommitmentFields -> EzItems],
     witness : [CommitmentFields -> EzItems], verdict : {"no proof", "none", "accepted", "bytes accepted", "refused"}]

EzNoRequest == [proof |-> CHOOSE i \in EzItems : TRUE, full |-> FALSE, suits |-> FALSE, old |-> FALSE]

EzInit ==
    /\ ezPart \in {"batch", "started", "increments", "verification", "artifacts", "proofCache", "keys", "judged"}
    /\ batch = [pc |-> "idle", parallel |-> FALSE, unique |-> <<>>, total |-> 0, permits |-> 0, running |-> {},
                proofs |-> <<>>, sent |-> 0, streams |-> FALSE, result |-> "none", ops |-> 0,
                entry |-> [status |-> "none", processed |-> 0, timer |-> FALSE, cancelled |-> FALSE, waiter |-> "none"]]
    /\ increments = [status |-> [i \in EzItems |-> "none"], steps |-> [i \in EzItems |-> 0], made |-> 0, ops |-> 0]
    /\ verification = [cache |-> [i \in EzItems |-> "none"], hits |-> 0, misses |-> 0, total |-> 0, valid |-> 0,
                       failed |-> 0, expired |-> 0, ops |-> 0,
                       task |-> [t \in EzTasks |-> [pc |-> "idle", request |-> EzNoRequest, verdict |-> "none"]]]
    /\ artifacts = [cache |-> {}, lock |-> "free", count |-> 0, building |-> "none"]
    /\ \E ttl \in IF ezPart = "proofCache" THEN BOOLEAN ELSE {FALSE} :
          proofCache = [proofs |-> {}, lru |-> <<>>, stale |-> {}, ttl |-> ttl, hits |-> 0, misses |-> 0,
                        evictions |-> 0, entries |-> 0, ops |-> 0]
    /\ keyCache = [file |-> 0, bad |-> {}, cache |-> -1, ops |-> 0, task |-> [t \in EzTasks |-> [pc |-> "idle", key |-> 0]]]
    /\ \E real \in IF ezPart = "judged" THEN BOOLEAN ELSE {FALSE} :
          LET any == CHOOSE w \in [CommitmentFields -> EzItems] : TRUE
          IN judged = [real |-> real, proof |-> any, bytes |-> any, witness |-> any, verdict |-> "no proof"]

-----------------------------------------------------------------------------
(* BatchProofGenerator                                                     *)

BatchStep(s) ==
    /\ ezPart \in {"batch", "started"} /\ batch' = s
    /\ UNCHANGED <<ezPart, increments, verification, artifacts, proofCache, keyCache, judged>>

\* deduplicate_inferences: the first of each key stays.
DeduplicateInferences(items) ==
    FoldLeft(LAMBDA unique, i : IF i \in ToSet(unique) THEN unique ELSE Append(unique, i), <<>>, items)

\* create_batch_proof until the proofs are made; Adaptive is Parallel with
\* five at a time, Streaming is Sequential.
CreateBatchProof(items, dedup, parallel, limit) ==
    /\ batch.pc # "work" /\ batch.ops < MaxEzOps
    /\ LET unique == IF dedup THEN DeduplicateInferences(items) ELSE items
       IN BatchStep([batch EXCEPT !.pc = "work", !.parallel = parallel, !.unique = unique, !.total = Len(items),
                         !.permits = IF parallel THEN limit ELSE 1, !.running = {}, !.streams = FALSE,
                         !.proofs = [i \in 1 .. Len(unique) |-> "pending"], !.result = "none", !.ops = @ + 1])

\* A spawned task gets its permit; the sequential loop takes the next inference.
BeginProof(i) ==
    /\ batch.pc = "work" /\ ~batch.streams /\ i \in 1 .. Len(batch.unique) /\ i \notin batch.running
    /\ batch.proofs[i] = "pending" /\ Cardinality(batch.running) < batch.permits
    /\ batch.parallel \/ \A j \in 1 .. (i - 1) : batch.proofs[j] # "pending"
    /\ BatchStep([batch EXCEPT !.running = @ \cup {i}])

\* generate_single_proof_static
GenerateSingleProof(item) == IF item \in EzBroken THEN "failed" ELSE "ok"

\* Mutant: the entries are pushed in the order the tasks end in.
EndProof_Pushed(i) ==
    /\ batch.pc = "work" /\ i \in batch.running
    /\ LET slot == CHOOSE j \in 1 .. Len(batch.proofs) :
                      /\ batch.proofs[j] = "pending"
                      /\ \A k \in 1 .. Len(batch.proofs) : batch.proofs[k] = "pending" => j <= k
       IN BatchStep([batch EXCEPT !.running = @ \ {i}, !.proofs[slot] = GenerateSingleProof(batch.unique[i])])

\* process_parallel and process_sequential: the entry of inference i.
EndProof(i) ==
    /\ batch.pc = "work" /\ i \in batch.running
    /\ BatchStep([batch EXCEPT !.running = @ \ {i}, !.proofs[i] = GenerateSingleProof(batch.unique[i])])

\* The counts, aggregate_proofs over the successful ones, and the status.
BatchResult(proofs) ==
    IF \A i \in DOMAIN proofs : proofs[i] = "ok" THEN "Completed"
    ELSE IF \E i \in DOMAIN proofs : proofs[i] = "ok" THEN "PartialSuccess" ELSE "Failed"
BatchReturns ==
    /\ batch.pc = "work" /\ ~batch.streams /\ \A i \in DOMAIN batch.proofs : batch.proofs[i] # "pending"
    /\ BatchStep([batch EXCEPT !.pc = "done", !.result = BatchResult(batch.proofs)])

\* create_batch_proof_stream: chunk after chunk, here of one inference, until
\* the receiver is dropped.  The stream does not deduplicate.
CreateBatchProofStream(items) ==
    /\ batch.pc # "work" /\ batch.ops < MaxEzOps
    /\ BatchStep([batch EXCEPT !.pc = "work", !.parallel = FALSE, !.streams = TRUE, !.unique = items, !.total = Len(items),
                      !.permits = 1, !.running = {}, !.sent = 0, !.proofs = <<>>, !.result = "none", !.ops = @ + 1])
SendChunk ==
    /\ batch.pc = "work" /\ batch.streams
    /\ IF batch.sent = Len(batch.unique) THEN BatchStep([batch EXCEPT !.pc = "idle"])
       ELSE \/ BatchStep([batch EXCEPT !.sent = @ + 1,
                              !.proofs = Append(@, GenerateSingleProof(batch.unique[batch.sent + 1]))])
            \/ BatchStep([batch EXCEPT !.pc = "idle"])

\* start_batch_proof: nothing is proved; a timer completes the batch.
StartBatchProof(n) ==
    /\ batch.entry.status = "none"
    /\ BatchStep([batch EXCEPT !.total = n, !.entry = [@ EXCEPT !.status = "InProgress", !.timer = TRUE]])

\* Mutant: the timer does not look at the status.
BatchTimer_Any ==
    /\ batch.entry.timer
    /\ BatchStep([batch EXCEPT !.entry = [@ EXCEPT !.timer = FALSE, !.status = "Completed", !.processed = batch.total]])
BatchTimer ==
    /\ batch.entry.timer
    /\ IF batch.entry.status = "Cancelled" THEN BatchStep([batch EXCEPT !.entry.timer = FALSE])
       ELSE BatchStep([batch EXCEPT !.entry = [@ EXCEPT !.timer = FALSE, !.status = "Completed", !.processed = batch.total]])

\* cancel_batch_proof, whatever the status was.
CancelBatchProof ==
    /\ batch.entry.status # "none"
    /\ BatchStep([batch EXCEPT !.entry = [@ EXCEPT !.status = "Cancelled", !.cancelled = TRUE]])
SimulateInterruption(n) ==
    /\ batch.entry.status \notin {"none", "Cancelled"} /\ n <= batch.total
    /\ BatchStep([batch EXCEPT !.entry = [@ EXCEPT !.status = "Failed", !.processed = n]])

\* wait_for_batch polls, then reads the batch again and makes all its proofs.
WaitForBatch ==
    /\ batch.entry.status # "none" /\ batch.entry.waiter = "none"
    /\ BatchStep([batch EXCEPT !.entry.waiter = "polls"])
PollBatch ==
    /\ batch.entry.waiter = "polls" /\ batch.entry.status # "InProgress"
    /\ BatchStep([batch EXCEPT !.entry.waiter = IF batch.entry.status = "Completed" THEN "reads" ELSE "failed"])
RecreateBatch ==
    /\ batch.entry.waiter = "reads"
    /\ BatchStep([batch EXCEPT !.entry.waiter = "ok"])

\* The calls that make proofs, and the map of started batches.
BatchesNext ==
    \/ /\ ezPart = "batch"
       /\ \/ \E n \in 1 .. EzBatchMax : \E items \in [1 .. n -> EzItems] :
                \/ CreateBatchProofStream(items)
                \/ \E dedup, parallel \in BOOLEAN, limit \in EzLimits : CreateBatchProof(items, dedup, parallel, limit)
          \/ \E i \in 1 .. EzBatchMax : BeginProof(i) \/ EndProof(i)
          \/ BatchReturns \/ SendChunk
    \/ /\ ezPart = "started"
       /\ \/ \E n \in 0 .. EzBatchMax : StartBatchProof(n) \/ SimulateInterruption(n)
          \/ BatchTimer \/ CancelBatchProof \/ WaitForBatch \/ PollBatch \/ RecreateBatch

\* Whatever order the spawned proofs end in, entry i of a batch is the proof of
\* the i-th inference that was kept, and a cancelled batch stays cancelled
\* although its timer runs on.
BatchAccounted ==
    /\ \A i \in DOMAIN batch.proofs :
          batch.proofs[i] # "pending" => batch.proofs[i] = GenerateSingleProof(batch.unique[i])
    /\ batch.entry.cancelled => batch.entry.status = "Cancelled"

-----------------------------------------------------------------------------
(* ProofGenerator: incremental proofs                                      *)

IncrementStep(s) ==
    /\ ezPart = "increments" /\ increments' = s
    /\ UNCHANGED <<ezPart, batch, verification, artifacts, proofCache, keyCache, judged>>

StartIncrementalProof(i) ==
    /\ increments.status[i] = "none" /\ increments.ops < MaxEzOps
    /\ IncrementStep([increments EXCEPT !.status[i] = "InProgress", !.steps[i] = 0, !.ops = @ + 1])
AddProofStep(i) ==
    /\ increments.status[i] = "InProgress" /\ increments.steps[i] < MaxEzOps
    /\ IncrementStep([increments EXCEPT !.steps[i] = @ + 1])
CancelProof(i) ==
    /\ increments.status[i] # "none"
    /\ IncrementStep([increments EXCEPT !.status[i] = "Cancelled"])

\* finalize_incremental_proof removes the proof, a cancelled one for an error;
\* create_proof makes one at once.
FinalizeIncrementalProof(i) ==
    /\ increments.status[i] # "none"
    /\ IncrementStep([increments EXCEPT !.status[i] = "none",
                          !.made = @ + (IF increments.status[i] = "Cancelled" THEN 0 ELSE 1)])
CreateProof(i) ==
    /\ i \notin EzBroken /\ increments.ops < MaxEzOps
    /\ IncrementStep([increments EXCEPT !.made = @ + 1, !.ops = @ + 1])

IncrementsNext ==
    \E i \in EzItems :
       \/ StartIncrementalProof(i) \/ AddProofStep(i) \/ CancelProof(i) \/ FinalizeIncrementalProof(i) \/ CreateProof(i)

-----------------------------------------------------------------------------
(* ProofVerifier                                                           *)

VerificationStep(s) ==
    /\ ezPart = "verification" /\ verification' = s
    /\ UNCHANGED <<ezPart, batch, increments, artifacts, proofCache, keyCache, judged>>

\* verify_full finds what is wrong; the other modes find every proof valid.
\* The constraints are checked in every mode.
VerifyMode(r) == IF (r.full /\ r.proof \in EzBroken) \/ ~r.suits THEN "invalid" ELSE "valid"

\* verify_proof_impl up to the verdict: the cache answers by the proof alone,
\* whatever mode, key, age or constraints are asked for.
VerifyProof(t, r) ==
    /\ verification.task[t].pc = "idle" /\ verification.ops < MaxEzOps
    /\ IF verification.cache[r.proof] # "none"
       THEN VerificationStep([verification EXCEPT !.hits = @ + 1, !.ops = @ + 1])
       ELSE IF r.old
       THEN VerificationStep([verification EXCEPT !.misses = @ + 1, !.expired = @ + 1, !.ops = @ + 1])
       ELSE VerificationStep([verification EXCEPT !.misses = @ + 1, !.ops = @ + 1,
                                  !.task[t] = [pc |-> "verify", request |-> r, verdict |-> "none"]])

\* Mutant: a verdict that another call cached meanwhile is not counted again.
CacheResult_Once(t) ==
    LET r == verification.task[t].request
    IN /\ verification.task[t].pc = "verify"
       /\ VerificationStep([verification EXCEPT !.cache[r.proof] = VerifyMode(r),
                                !.task[t].pc = IF verification.cache[r.proof] = "none" THEN "count" ELSE "idle",
                                !.task[t].verdict = VerifyMode(r)])
CacheResult(t) ==
    LET r == verification.task[t].request
    IN /\ verification.task[t].pc = "verify"
       /\ VerificationStep([verification EXCEPT !.cache[r.proof] = VerifyMode(r),
                                !.task[t].pc = "count", !.task[t].verdict = VerifyMode(r)])
UpdateVerificationMetrics(t) ==
    LET ok == verification.task[t].verdict = "valid"
    IN /\ verification.task[t].pc = "count"
       /\ VerificationStep([verification EXCEPT !.total = @ + 1, !.valid = @ + (IF ok THEN 1 ELSE 0),
                                !.failed = @ + (IF ok THEN 0 ELSE 1), !.task[t].pc = "idle"])

VerificationNext ==
    \E t \in EzTasks : CacheResult(t) \/ UpdateVerificationMetrics(t) \/ \E r \in VerificationRequest : VerifyProof(t, r)

\* Every lookup that missed is a verification that is counted or still runs,
\* or a proof found too old: calls that race for the same proof all count.
VerificationsCounted ==
    verification.misses = verification.valid + verification.failed + verification.expired
                            + Cardinality({t \in EzTasks : verification.task[t].pc # "idle"})

-----------------------------------------------------------------------------
(* EZKLIntegration: get_or_create_artifacts keeps the cache's lock while   *)
(* it builds.                                                              *)

ArtifactStep(s) ==
    /\ ezPart = "artifacts" /\ artifacts' = s
    /\ UNCHANGED <<ezPart, batch, increments, verification, proofCache, keyCache, judged>>
GetOrCreateArtifacts(t, i) ==
    /\ artifacts.lock = "free" /\ i \notin artifacts.cache
    /\ ArtifactStep([artifacts EXCEPT !.lock = t, !.building = i])
\* Mutant: the count is taken before the insertion.
InsertArtifacts_CountFirst(t) ==
    /\ artifacts.lock = t
    /\ ArtifactStep([artifacts EXCEPT !.lock = "free", !.building = "none", !.cache = @ \cup {artifacts.building},
                         !.count = Cardinality(artifacts.cache)])
InsertArtifacts(t) ==
    /\ artifacts.lock = t
    /\ ArtifactStep([artifacts EXCEPT !.lock = "free", !.building = "none", !.cache = @ \cup {artifacts.building},
                         !.count = Cardinality(artifacts.cache \cup {artifacts.building})])

-----------------------------------------------------------------------------
(* ProofCache: one lock over every operation                               *)

ProofCacheStep(s) ==
    /\ ezPart = "proofCache" /\ proofCache.ops < MaxEzOps + 2
    /\ proofCache' = [s EXCEPT !.ops = @ + 1]
    /\ UNCHANGED <<ezPart, batch, increments, verification, artifacts, keyCache, judged>>

\* remove; an absent key leaves the queue alone.
RemoveProof(s, k) ==
    IF k \notin s.proofs THEN s
    ELSE [s EXCEPT !.proofs = @ \ {k}, !.stale = @ \ {k}, !.lru = RemoveFirst(@, k), !.entries = Cardinality(s.proofs) - 1]

\* Mutant: the key leaves its place in the queue and is not put in front.
TouchProof_Dropped(s, k) == [s EXCEPT !.lru = RemoveFirst(@, k), !.hits = @ + 1]
TouchProof(s, k) == [s EXCEPT !.lru = <<k>> \o RemoveFirst(@, k), !.hits = @ + 1]

\* get: an expired proof is removed and missed.
GetProof(k) ==
    IF k \notin proofCache.proofs THEN ProofCacheStep([proofCache EXCEPT !.misses = @ + 1])
    ELSE IF k \in proofCache.stale THEN ProofCacheStep([RemoveProof(proofCache, k) EXCEPT !.misses = @ + 1])
    ELSE ProofCacheStep(TouchProof(proofCache, k))

\* evict_lru until there is room: the tail of the queue that has to go is the
\* shortest one that leaves fewer proofs than the capacity.
EvictLru(s) ==
    LET left(n) == s.proofs \ ToSet(SubSeq(s.lru, Len(s.lru) - n + 1, Len(s.lru)))
        room(n) == Cardinality(left(n)) < EzCapacity
        n == CHOOSE m \in 0 .. Len(s.lru) : room(m) /\ \A l \in 0 .. (m - 1) : ~room(l)
    IN [s EXCEPT !.proofs = left(n), !.stale = @ \cap left(n), !.lru = SubSeq(@, 1, Len(@) - n), !.evictions = @ + n]

\* insert: a key that is cached is put in front once more, and its old place
\* in the queue stays.
InsertProof(k) ==
    IF EzCapacity = 0 THEN ProofCacheStep(proofCache)
    ELSE LET s == EvictLru(proofCache)
         IN ProofCacheStep([s EXCEPT !.proofs = @ \cup {k}, !.stale = @ \ {k}, !.lru = <<k>> \o @,
                                     !.entries = Cardinality(s.proofs \cup {k})])
InvalidateProofs ==
    ProofCacheStep([proofCache EXCEPT !.proofs = {}, !.stale = {}, !.lru = <<>>, !.entries = 0])

\* clear_by_model_hash: the proofs of a model are removed in turn, under one
\* lock, so the first place of each in the queue goes.
ClearByModelHash(keys) ==
    LET gone == keys \cap proofCache.proofs
        q == proofCache.lru
        stays == {i \in DOMAIN q : q[i] \in gone => \E j \in 1 .. (i - 1) : q[j] = q[i]}
    IN \E place \in [1 .. Cardinality(stays) -> stays] :
          /\ ToSet(place) = stays /\ \A i, j \in DOMAIN place : i < j => place[i] < place[j]
          /\ ProofCacheStep([proofCache EXCEPT !.proofs = @ \ gone, !.stale = @ \ gone, !.entries = Cardinality(proofCache.proofs \ gone),
                                              !.lru = [i \in DOMAIN place |-> q[place[i]]]])
ProofExpires(k) ==
    /\ proofCache.ttl /\ k \in proofCache.proofs \ proofCache.stale
    /\ ProofCacheStep([proofCache EXCEPT !.stale = @ \cup {k}])

ProofCacheNext ==
    \/ InvalidateProofs
    \/ \E keys \in SUBSET EzItems : Cardinality(keys) > 1 /\ ClearByModelHash(keys)
    \/ \E k \in EzItems :
          GetProof(k) \/ InsertProof(k) \/ ProofExpires(k) \/ ProofCacheStep(RemoveProof(proofCache, k))

\* Every proof can be evicted: the queue names it at least once although
\* replacing leaves names behind, so the loop of insert finds room; and the
\* entries reported are the proofs held.
ProofsCanBeEvicted ==
    /\ proofCache.proofs \subseteq ToSet(proofCache.lru) /\ Cardinality(proofCache.proofs) <= EzCapacity
    /\ proofCache.entries = Cardinality(proofCache.proofs)

-----------------------------------------------------------------------------
(* KeyManager                                                              *)

KeyStep(s) ==
    /\ ezPart = "keys" /\ keyCache' = s
    /\ UNCHANGED <<ezPart, batch, increments, verification, artifacts, proofCache, judged>>
KeyAt(t, pc) == keyCache.task[t].pc = pc

\* The key file is replaced, by a good key or a bad one.
KeyFileChanges(bad) ==
    /\ keyCache.file < MaxEzOps
    /\ KeyStep([keyCache EXCEPT !.file = @ + 1, !.bad = IF bad THEN @ \cup {keyCache.file + 1} ELSE @])

\* load_proving_key and load_verifying_key look the path up under the lock.
LookUpKey(t) ==
    /\ KeyAt(t, "idle") /\ keyCache.cache = -1 /\ keyCache.ops < MaxEzOps
    /\ KeyStep([keyCache EXCEPT !.task[t].pc = "load", !.ops = @ + 1])

\* Mutant: the file is validated, and read again for the key to insert.
LoadKey_ReadTwice(t) ==
    /\ KeyAt(t, "load")
    /\ \E k \in keyCache.file .. MaxEzOps :
          KeyStep([keyCache EXCEPT !.task[t] = [pc |-> IF keyCache.file \in keyCache.bad THEN "idle" ELSE "insert", key |-> k]])

\* The file is read and what was read is validated; an invalid key is an error.
LoadKey(t) ==
    /\ KeyAt(t, "load")
    /\ KeyStep([keyCache EXCEPT !.task[t] = [pc |-> IF keyCache.file \in keyCache.bad THEN "idle" ELSE "insert",
                                             key |-> keyCache.file]])
InsertKey(t) ==
    /\ KeyAt(t, "insert")
    /\ KeyStep([keyCache EXCEPT !.cache = keyCache.task[t].key, !.task[t].pc = "idle"])

\* invalidate_cache, and reload_proving_key and reload_verifying_key, which
\* remove the key and load it again.
InvalidateKeys ==
    /\ keyCache.cache # -1
    /\ KeyStep([keyCache EXCEPT !.cache = -1])
ReloadKey(t) ==
    /\ KeyAt(t, "idle") /\ keyCache.ops < MaxEzOps
    /\ KeyStep([keyCache EXCEPT !.cache = -1, !.task[t].pc = "lookup", !.ops = @ + 1])
LookUpAgain(t) ==
    /\ KeyAt(t, "lookup")
    /\ KeyStep([keyCache EXCEPT !.task[t].pc = IF keyCache.cache = -1 THEN "load" ELSE "idle"])

KeysNext ==
    \/ \E bad \in BOOLEAN : KeyFileChanges(bad)
    \/ InvalidateKeys
    \/ \E t \in EzTasks : LookUpKey(t) \/ LoadKey(t) \/ InsertKey(t) \/ ReloadKey(t) \/ LookUpAgain(t)

\* No key is cached that validation refused, though the file may change
\* between any two steps of a load.
CachedKeyIsValid == keyCache.cache \notin keyCache.bad

-----------------------------------------------------------------------------
(* EzklProver and EzklVerifier                                             *)

JudgedStep(s) ==
    /\ ezPart = "judged" /\ judged' = s
    /\ UNCHANGED <<ezPart, batch, increments, verification, artifacts, proofCache, keyCache>>

\* generate_proof, for real or as a mock: the proof's hashes and its bytes
\* name the witness.
EzGenerateProof(w) ==
    /\ judged.verdict = "no proof"
    /\ JudgedStep([judged EXCEPT !.proof = w, !.bytes = w, !.verdict = "none"])

\* The hashes and the bytes a verifier gets need not be of one proof.
ProofReplaced(p, b) ==
    /\ judged.verdict = "none"
    /\ JudgedStep([judged EXCEPT !.proof = p, !.bytes = b])

\* Mutant: the output hash is not compared.
HashesMatch_NoOutput(p, w) == \A f \in {"model", "input"} : p[f] = w[f]
HashesMatch(p, w) == \A f \in {"model", "input", "output"} : p[f] = w[f]

\* verify_real_proof compares the journal of the receipt with the witness,
\* the job too; verify_mock_proof asks for the length and the marker only.
VerifyRealProof(bytes, w) == bytes = w
VerifyMockProof(bytes, w) == TRUE

\* EzklVerifier::verify_proof
VerifyCommitment(w) ==
    /\ judged.verdict = "none"
    /\ LET ok == /\ HashesMatch(judged.proof, w)
                 /\ IF judged.real THEN VerifyRealProof(judged.bytes, w) ELSE VerifyMockProof(judged.bytes, w)
       IN JudgedStep([judged EXCEPT !.witness = w, !.verdict = IF ok THEN "accepted" ELSE "refused"])

\* verify_proof_bytes: with three public inputs the job is not among them.
VerifyRealProofBytes(bytes, w, withJob) == \A f \in CommitmentFields \ (IF withJob THEN {} ELSE {"job"}) : bytes[f] = w[f]
VerifyProofBytes(w, withJob) ==
    /\ judged.verdict = "none"
    /\ LET ok == judged.real => VerifyRealProofBytes(judged.bytes, w, withJob)
       IN JudgedStep([judged EXCEPT !.witness = w, !.verdict = IF ok THEN "bytes accepted" ELSE "refused"])

JudgedNext ==
    \E w \in [CommitmentFields -> EzItems] :
       \/ EzGenerateProof(w) \/ VerifyCommitment(w) \/ \E withJob \in BOOLEAN : VerifyProofBytes(w, withJob)
       \/ \E f \in CommitmentFields, i \in EzItems :
             \/ ProofReplaced([judged.proof EXCEPT ![f] = i], judged.bytes)
             \/ ProofReplaced(judged.proof, [judged.bytes EXCEPT ![f] = i])

\* An accepted proof names the witness's model, input and output; with real
\* proofs the receipt's journal names its job too.
AcceptedIsOfTheWitness ==
    judged.verdict = "accepted" =>
       /\ \A f \in {"model", "input", "output"} : judged.proof[f] = judged.witness[f]
       /\ judged.real => judged.bytes = judged.witness

-----------------------------------------------------------------------------
EzTypeOK ==
    /\ verification \in VerificationState /\ artifacts \in ArtifactState
    /\ artifacts.lock = "free" => artifacts.count = Cardinality(artifacts.cache)

EzNext ==
    \/ BatchesNext \/ IncrementsNext \/ VerificationNext \/ ProofCacheNext \/ KeysNext \/ JudgedNext
    \/ \E t \in EzTasks : InsertArtifacts(t) \/ \E i \in EzItems : GetOrCreateArtifacts(t, i)

EzSpec == EzInit /\ [][EzNext]_ezVars
=============================================================================
