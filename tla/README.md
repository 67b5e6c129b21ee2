# A TLA+ model of the Fabstir LLM node

The Fabstir node is a Rust program (`src/src`, about 100 000 lines) that a host
runs to sell LLM inference by the token. A client opens a session job on a
contract, streams prompts over a WebSocket or HTTP, and pays for the tokens that
the host proves on the chain. This directory models the node component by
component: in most detail the part on which payment and recovery depend, and around it
the services that answer requests and those that deal with jobs, money, the chain, peers
and models. All of it is checked with TLC on small instances; most of the safety
properties are also proved with TLAPS, for every value of the constants.

Paths below are relative to the root of the workspace, in which the repository is
`src/`. `checkpoint_manager.rs` is `src/src/contracts/checkpoint_manager.rs`,
`publisher.rs` is `src/src/checkpoint/publisher.rs`, `server.rs` is
`src/src/api/server.rs`.

## Inventory

| component | state | operations | hard behaviour | what makes it correct |
|---|---|---|---|---|
| Checkpoint manager (`checkpoint_manager.rs`) | a token tracker per job behind one `RwLock`; content hashes per job; proof cache | `track_tokens`, `force_checkpoint`, `force_checkpoint_on_completion`, `complete_session_job` | streams, spawned submissions and settlements run concurrently; trackers are moved optimistically and rolled back; every stage of a submission may fail; settlement waits, gives up, retries, and drops trackers others still use | a token is billed once, in order; submissions of a job are serial; settlement proves what is left; flags are cleared; settlement ends |
| Checkpoint publisher (`publisher.rs`, `index.rs`) | message buffer, checkpoint number and index per session, in memory; deltas and index in S5 | `buffer_message`, `set_recovery_public_key`, `publish_checkpoint` | two uploads that fail independently and are retried; restart; one lock held across the uploads | the index names only what is stored; a failed publication loses no message; recovered messages are in order |
| Request handlers and start-up (`server.rs`, `main.rs`) | the request being served; the parts that are up | `handle_inference_request`, `handle_streaming_request`, `handle_websocket`, `main` | the producer task outlives its connection; the forced checkpoint races with the buffering of the response; requests are served before start-up ends | what is billed can be recovered; a proof binds its own prompt and response; what is served is metered |
| WebSocket sessions (`api/websocket`) | session store and files, caches, contexts, cancel flag, vector store, key store, circuits, statistics | init, prompt, cancel, upload, search, close, persist, trim | flags shared by successive inferences; updates of clones; messages swallowed during a stream; two caches with one limit | one end per stream; a late cancel harms nobody; contexts and caches keep their limits |
| Pools and limiters (`api/pool.rs`, `chain_connection_pool.rs`, rate limiters) | connections, idle lists, buckets, windows | acquire, release, maintain, check, clean up | counters read and written under different locks | a connection is lent to one; limits hold up to a known overshoot |
| Settlement queue (`settlement`) | requests by session, priority heap, statuses | disconnect, add, next, process, retry | stale copies in the heap; a restarted processor | a session is settled once for each time it was taken out of the store; nothing pending is out of a worker's reach |
| Payments (`payments`, `payment_claim.rs`, `payment_distribution.rs`) | fees, shares, withdrawals, accumulator, revenue, events | distribute, claim, split, request, execute, cancel, track | check-then-act across awaits; rounding | no unit is made or lost; a cancelled withdrawal is never paid |
| Proof and result records (`settlement/validator.rs`, `storage/*_store.rs`, `results/storage.rs`) | results, proofs, metadata | store, validate, delete | reads apart from each other | a payment is released for the proof of its very result |
| Jobs (`job_claim.rs`, `job_processor.rs`, `result_submission.rs`) | queue, claims, slots, outputs | poll, claim, process, submit | counters over failing paths; ambiguous answers | slots match claims; workers come back |
| Hosts (`host`), registrars (`blockchain`, `contracts/registry_monitor.rs`) | registration per chain, host registry, availability, prices | register, heartbeat, monitor, renew | events and polling update one cache | what is believed follows the chain |
| Contract clients (`contracts`, `config/provider.rs`) | wallet, providers, cursors, approved models | send, wait, poll, switch, retry | reorganised loops, bounded channels, lost answers | no job event is passed over unsent; retries are bounded |
| Peer-to-peer node (`p2p`) | swarm, pending responses, queries, records, peers | commands and events of one loop | a bounded channel to the application, callers waiting for answers | every caller returns; peers are not leaked |
| Inference engine (`inference`), batching, load balancing, caching, GPUs (`performance`) | models, downloads, queues, workers, caches, allocations | load, run, download, batch, route, put, evict | awaits between check and insertion; evictions; several queues | each request is batched once; totals cover what is there |
| Vectors, storage, search, images (`vector`, `rag`, `storage`, `cache`, `search`, `diffusion`) | caches, indexes, versions, quotas, limits, bills | put, get, list, load, search, generate | multi-part uploads that fail half-way; caches with two tables; limits recorded after the work | the latest version can be loaded; what is answered was asked for and allowed; images are billed once |
| Models (`models`, `model_validation.rs`) | files, versions, backups, grants, consents | download, validate, update, roll back, grant, delete | checks before awaits; time | nothing is used before its check or after its withdrawal |
| Proof generation (`ezkl`, `crypto/ezkl`) | batches, caches, keys | prove, verify, cache, reload | key files that change, counters and queues | no invalid key is cached; an accepted proof is of its witness |
| Monitoring, quality assurance (`monitoring`, `qa`) | metrics, alerts, ratings, samples | record, evaluate, silence, report | values behind several locks | alerts are accounted for; statistics are not torn |
| Vision and embeddings (`vision`, `embeddings`, `api/ocr`, `api/describe_image`, `api/embed`) | the models that were loaded, one request | load, embed, detect, recognise, describe | fallbacks tried in turn; image geometry and decoding loops with edges | the default is the first model configured; all fallbacks are tried; every text pixel is covered, every text embedded as if alone |
| Cryptography, configuration | none that is shared | | computation and I/O | outside a model checker's reach |

Interaction: a request handler calls the manager for every token; the manager
spawns submissions that prove, call the publisher, and send a transaction; the end
of a connection spawns a settlement, which may itself run a last submission. The
manager's trackers and the publisher's session map are the shared state; every
task finds them under a lock, and no lock is held across a submission, except the
publisher's, which is held across its uploads.

The other components share less: they meet through the server's start-up, which
hands each part to the request handlers when it could be made (`NodeServer`), and
through the contract and S5.

`PROJECT.json` lists the hazards of the code line by line with the properties that
cover them, and those that are not covered.

## Modules

| module | role |
|---|---|
| `JobLedger` | abstract specification: what metering promises the parties of a job |
| `CheckpointManager` | the checkpoint manager: metering, submission, settlement |
| `CheckpointPublisher` | publication of conversation checkpoints to S5, with restarts |
| `CheckpointPublisherProofs` | theorems about it |
| `SessionRecovery` | composition: request handlers, `CheckpointManager`, `CheckpointPublisher` |
| `SessionRecoveryProofs` | theorems about `CheckpointManager`, among them that it implements `JobLedger`, and about the composition |
| `FiniteSums` | lemmas on sums over finite sets, filters, counts and integer division that the proofs share |
| `SettlementProofs` | theorems about `Settlement`, `SettlementRecords`, `Payouts` and `Claims` |
| `ModelProofs` | invariants of `ModelStore`, `PrivateModels` and `Ezkl` |
| `NodeEconomyProofs` | theorems about `MCNodeEconomy`, from the two before and from invariants of its other components |
| `ServicePartsProofs` | theorems about single components of `MCNodeServices` |
| `NodeServicesProofs` | theorems about `MCNodeServices`, from those and from invariants of its other components |
| `MCNodeServices` | the components that answer requests, one at a time (first table below); the core's modules are run as they are |
| `MCNodeEconomy` | the components of jobs, money, chain, peers and models (second table below) |

The components around the core are modules of their own: a component's variables
are its locked data and the program counters of the calls in progress, an action is
what a task does between two awaits or under one lock. Where a file holds several
parts that share no state, the module has a variable (`ctxPart`, `svcPart`, ...) that
says which one a behaviour is about, so that the parts' states add up instead of
multiplying. In the same way `MCNodeServices` and `MCNodeEconomy` are sums:
`focus` names the component a behaviour is about, the others stay in one initial
state, and a property of the run is the conjunction of properties of components, each
guarded by its focus. An operator named `Definition_Variant` is the definition with a
plausible mistake; the runs do not use it, and with it in the definition's place the
property its comment is about fails.

Services, run `services`:

| module | models | main properties |
|---|---|---|
| `WebSocketSession` | a connection of `handle_websocket`, its session and key store, the engine's generation loop and the producer task of each prompt | `OneStreamEnd`, `LateCancelIsHarmless`, `CancelStopsGeneration` (violated) |
| `VectorLoading` | vectors uploaded to a session, and the task that loads a database from S5 | `VectorCapacity`, `LoadIsChecked` |
| `ConnectionLimits` | `api/pool.rs` with its maintenance; the pools of the chains at the granularity of their locks; the sliding window of the server, the two kinds of token buckets with their resets and clean-ups | `PoolOvershoot`, `LentToOne`, `GrantedWithinRate` |
| `NodeServer` | the start-up of `main`, requests with and without a job served meanwhile, search and vision routing, the two meters | `ServedIsMetered` |
| `WsContext` | session store (its limited, plain and saving creations) and files, conversation caches, memory manager, context of a prompt | `CacheWithinLimit`, `ContextFits`, `SessionMemoryCovers`, `DestroyedIsGone` |
| `WsServices` | authenticator, job verifier, connection table, protocol, statistics, circuit, proof cache | `ProofCacheBounded`, `ActiveIsCounted`, `OpenCircuitHasTimer`, `JobDetailsAreFresh` |
| `WsTransport` | frames, payload checks, stand-alone server, handlers, engines per model, workers, sessions per chain, token tracker | `EnginesBounded`, `SessionWithinMemory`, `ConnectionsAreServed`, `FrameLengthKept`, `NoPayloadPanics`, `ReceivedIsRecorded`, `PromptIsAsked`, `WorkersInTurn` |
| `InferenceEngine` | engine, registry and downloads of models, response cache | `EngineCountsResults`, `InfMemoryCovers`, `RegistryListsFiles` |
| `VectorStores` | semantic cache, vector backends, index and embedding caches, filtered search | `IndexWithinMemory`, `VectorTotalsCover`, `StoredCanBeEvicted`, `EmbeddingIsFresh`, `FilteredSearchIsBest` |
| `Storage` | S5 backends, versions of models, result and prompt caches, stores by job | `LatestCanBeLoaded`, `QuotaOvershoot`, `PromptCacheCovers`, `ByJobCounts`, `AnsweredCanBeRead`, `ResultCacheReturns` (violated) |
| `Performance` | batching, load balancer, multi-level cache, GPU memory | `BatchedOnce`, `GpuMemoryConserved`, `CacheMemoryCovers`, `AffinityIsKnown` |
| `ModelCache` | loads, evictions and pins of `models/caching.rs` | `ModelMemoryBounded`, `ModelMemoryCovers` |
| `Monitoring`, `QualityAssurance` | alerts, metrics, health checks, dashboards; ratings, accuracy, response times, uptime | `StatsNotTorn`, `AlertsAccounted`, `DashboardsCleaned`; `ListedRatingIsStored`, `VerificationsAccounted` |
| `WebSearch` | providers, the two caches, pages fetched in parallel | `SearchCachesBounded`, `PagesMatchResults` |
| `SessionHandlers` | the message router with its init, resume and prompt handlers over their caches; the session manager by chain | `IndexUsedOnce`, `ConversationOfJob`, `RemovedStaysRemoved` |
| `ModelEndpoints` | start-up of the embedding models, the embed, OCR and describe endpoints, the vision client with its local fallback | `DefaultIsFirstConfigured`, `EveryTextEmbedded`, `FailsAfterAllTried` |
| `Vision` | text detection, padding, CTC decoding, word segmentation, captions and batch embeddings as algorithms | `DetectionCovers`, `BoxesMapBack`, `CtcIsCollapse`, `SegmentationIsBest`, `CaptionHasNoLoop`, `BatchIsEach` |
| `ImageGeneration` | images asked for in messages and over HTTP, limit, blocklist and bill | `ImagesWithinRate`, `ImagesAreBilled`, `OnlyAllowedIsDrawn` |

Economy, run `economy`:

| module | models | main properties |
|---|---|---|
| `Settlement` | disconnects, ids parsed from names, auto settlement on and off, the queue with its heap, the processing loop, retries | `SettledOnce`, `SettlementsDrained` |
| `Payouts` | `payments/withdrawal.rs`, `payments/fees.rs` | `CancelledNeverPaid`, `FeesConserved` |
| `Claims` | choice and retries of claims, accumulator and splits of payments | `SplitsConserve`, `EarnedIsPaid`, `ClaimIsWorthwhile` |
| `JobPipeline` | a job from the queue over claim, inference, storage and submission to the payment | `SlotsMatchClaims`, `ResultIsStored`, `WorkersReturn` |
| `SettlementRecords` | packaged results, proofs validated before a release, payments seen on the chain, revenue | `NamedResultIsStored`, `ReleasedIsProven`, `ConfirmedIsComplete`, `RevenueAddsUp` |
| `ProofSubmission` | what a submission of `CheckpointManager` hands on: S5, the transaction, its receipt | `NamedProofIsStored` |
| `P2PNode` | the task that owns the swarm, its callers, queries and peers | `CallersReturn`, `PeersNotLeaked` |
| `HostManagement`, `Registrars` | `host/`; `blockchain/`, `registry_monitor.rs`, `cli/registration.rs` | `SlotsAddUp`, `HealthyIsRegistered`; `RegistrarStatusIsReal`, `ExpiryIsWarned`, `ListedIsRegistered` |
| `ChainClients` | `Web3Client`, job monitor, proof submitter, model registry, providers | `NoJobEventSkipped`, `Web3Consistent`, `SubmitsBounded`, `ValidatedIsApproved` |
| `ModelStore`, `PrivateModels` | downloads, checks, adapters, specialisations; updates with backups; private models and consent | `StartupIsChecked`, `VerifiedWasMatched`, `DownloadSlotsKept`, `CheapestIsFound`; `BackedUpFirst`, `NoDowngrade`; `DeletedIsInaccessible`, `RequestsPerMinute`, `WithdrawnIsRefused` |
| `Ezkl` | batches, incremental proofs, verifier, proof and key caches | `CachedKeyIsValid`, `AcceptedIsOfTheWitness`, `BatchAccounted`, `VerificationsCounted`, `ProofsCanBeEvicted` |

### CheckpointManager

`tracker` is the map `job_trackers`, a function on the jobs that have one.
`stream[t]`, `sub[x]` and `settle[s]` are the calls in progress: of `track_tokens`,
of `submit_checkpoint_async` (by a background task or by a settler), and of
`complete_session_job`. `cached` is the proof cache. The other variables are
history: `served` counts the tokens tracked, `acked` and `mark` what accepted proofs
bill and reach, `closed` the jobs whose settlement has started, `failed` the jobs
whose last submission failed.

An action is what a task does between two awaits or inside one critical section.
`track_tokens` has two: `TrackCheck` (does the tracker exist? if not, query the
contract) and `TrackWrite` (count, and perhaps start a submission), between which
other streams and settlements run. `force_checkpoint` has two: the call, which only
spawns, and `ForceLock`, in the spawned task. A submission goes through `Prove`,
`PublishOk`/`PublishErr`, `QueryAndCache`, `SendProof`, each of which may fail, and
`Record`, in which its caller takes the lock and clears the flag, or also rolls
back. `complete_session_job` is `SettleStart` to `SettleCleanup`, with a nonce
retry (`SettleResend`) and a spawned task of retries in the dispute window
(`SettleRetry`, `SettleRetryConfirm`), each path with exactly the clean-up it has
in the code: some drop the tracker, some only the tracker and not the cache, and
some neither.

Abstractions: tokens are counted, not named; wall-clock time is the time spent at
a program counter; a transaction error means the chain did not take the
transaction; the contract and S5 appear only through their outcomes. u64
subtraction wraps at `U64`, as in a release build.

The constant `LateTokens` says whether a job's tokens may still be tracked once its
settlement has started. Both values are executions of the program: a client that
finishes its stream and then closes (`FALSE`), and a client that closes in mid-stream,
reconnects or uses HTTP beside the socket (`TRUE`; the producer task spawned at
`server.rs:1012` goes on after `handle_websocket` has spawned the settlement at
`server.rs:3590`). Some guarantees only hold in the first case, and the runs
say which.

### CheckpointPublisher

`state` is the session map, `call` the one `publish_checkpoint` that holds its lock,
`s5_delta` and `s5_index` are S5. Messages are numbered in the order in which they
are said, so that gaps, repetitions and reorderings show. `PublishBegin` takes the
lock and snapshots the buffer; `DeltaStored` and `IndexStored` are successful uploads,
`...AttemptFails` a failed attempt that `upload_with_retry` follows by another,
`...UploadFails` the last one. A failed attempt may have taken effect in S5. `Crash`
empties memory. A malformed recovery key makes encryption, and so publication,
fail (`PublishRefused`). An entry's `delta_cid` is the content of the delta, because
S5 addresses by content.

### SessionRecovery

It extends `CheckpointManager` and instantiates `CheckpointPublisher`; a submission
at its stage `publish` is a `publish_checkpoint` call (`owner`), and the stage ends
when the call does. On top it models the handlers: `ReqPrompt` (prompt hash),
`ReqUser` (message buffered), `ReqInference`, then for a stream `ReqToken`/`ReqTracked`
per token, `ReqFinalize`, `ReqForce` and `ReqAssistant`, and for a single response
`ReqWhole`, `ReqAssistant`, `ReqCount`. A content hash is what is hashed: a prompt
by its number, a response by the sequence of the prompts its tokens answer. Recovery
keys and restarts are left to `CheckpointPublisher`.

### JobLedger

Three functions of the job: tokens `served`, tokens `billed`, and `mark`, up to which
the bills cover the served tokens. A bill covers the next tokens, is exact, or,
for the first one, is padded to an interval that the contract or the fallback
prescribes. `CheckpointManager` implements it with `billed <- acked`.

## Runs

| run | instance | shows |
|---|---|---|
| `metering` | 1 job, 2 streams, 2 tasks, 2 settlers, no late tokens | `TypeOK`; `OneSubmission`: the flag serialises submissions; `NoUnderflow`; `CheckpointMatchesChain`: optimistic updates and rollbacks never drift from the accepted proofs; `IntervalIsQueried`: the placeholder interval is never used; `SettlementProvesAll`: at settlement only a remainder below the contract's minimum is unproven; `BillingIsCorrect`: refinement of `JobLedger` |
| `reconnect` | 1 job, 1 stream, 2 tasks, 1 settler, late tokens, fairness | `BusyHasSubmission`: a flag always has a submission behind it, although trackers are dropped and re-created under running submissions; `SettlementEnds`, `SubmissionIsRecorded` |
| `publisher` | 1 session, 2 messages, 3 entries, 1 restart, 2 attempts | `PublisherTypeOK`; `IndexedDeltaIsStored`; `PublishedIsIndexed`; `NoMessageLost`; `RecoveryIsContiguous`; `LockIsReleased` |
| `recovery` | 1 job, 1 stream, 2 tasks, 1 settler, 2 prompts | `ProofIsRecoverable`: no proof on the chain without its checkpoint in S5; `BilledPromptIsRecoverable` |
| `services` | the first table of modules, 1 to 3 of everything | `ServiceTypes`; `LimitsHold`; `TotalsCover`; `IndexesAgree`; `AnswersAreSound`; `OneStreamEnd`; `LateCancelIsHarmless`; `StatsNotTorn`; `ServedIsMetered`; `BatchedOnce`; `LatestCanBeLoaded` |
| `economy` | the second table of modules, 1 to 3 of everything, fairness | `EconomyTypes`; `MoneyConserved`; `JobsKept`; `RegistrationsAgree`; `ChainViewKept`; `CheckedBeforeUse`; `SettledOnce`; `SettlementsDrained`; `WorkersReturn`; `CallersReturn` |
| `reconnect_double` | as `reconnect` | violates `OneSubmission` |
| `settle_race` | as `metering`, 1 settler | violates `SettlementIsAlone` |
| `last_response` | as `recovery` | violates `SettledConversationIsRecoverable` |
| `content_binding` | as `recovery` | violates `ProofBindsItsResponse` |
| `cancel` | 1 connection, 2 prompts, 3 tokens | violates `CancelStopsGeneration` |
| `result_cache` | 2 keys, 1 task, fairness | violates `ResultCacheReturns` |

What the conjunctions of the two sums say:

- `LimitsHold`, of ten components: pools, caches, quotas and rates keep to their limits; where
  the code checks and acts under different locks, to the limit plus the tasks that can
  pass the check together, which is the bound the code really has.
- `TotalsCover`: the totals by which caches evict, GPUs allocate and reports are made
  are never below what is there.
- `IndexesAgree`, of nine components: two tables written one after the other agree whenever a
  reader can look. A destroyed session's file may remain only where its deletion failed;
  verifications leave results where `store_results` is set.
- `AnswersAreSound`: an answer is fresh, checked, the best one asked for, fits its
  context, and is recorded.
- `MoneyConserved`: fees, shares, splits, claims, withdrawals and revenue add up; of burning,
  up to the first burn.
- `JobsKept`: slots in use are accounted for by claims, recorded or under way, and a
  result that is named is stored.
- `RegistrationsAgree`, `ChainViewKept`: what the node believes follows the chain; nodes that a
  replay of old events put into the cache are excepted, and so are job events sent into a
  channel whose receiver is gone.
- `CheckedBeforeUse`: nothing is used before its check, where the check is configured, or after
  its withdrawal.
- `SettlementsDrained`, `SettledOnce`: with auto settlement nothing stays pending, without it
  nothing pending is unreachable; an id is settled no more often than sessions with it ended.

The six violations are disagreements between the code and what its comments say
of it; `PROJECT.json` quotes both sides under `findings`.

- `reconnect_double`. Settlement drops the tracker while a submission is in flight
  (after its wait timed out, or because the submission started later); the
  next token creates a tracker whose flag is false, and a second submission starts.
- `settle_race`. A `force_checkpoint` task that has been spawned and has not got the
  lock has not set the flag either, so the poll loop does not see it. If it gets the
  lock next, the final checkpoint finds the flag set and returns at once, and
  `completeSessionJob` is sent while the proof is still being made.
- `last_response`. The forced checkpoint at the end of a stream comes before the
  response is buffered. When it proves all tokens, no later checkpoint exists and
  the last response stays in memory.
- `content_binding`. The response buffer and the finalized hash are never cleared, so
  the proofs of a second prompt bind text of the first response.
- `cancel`. The next prompt of a session resets the cancel flag it shares with the
  inference that was just cancelled; if that one has not polled it, it goes on.
- `result_cache`. `put` waits for a lock it holds itself.

### Bounds

Every bound is a constant. `Tasks` limits the submissions of a job that exist at
once: two are enough for one in flight and one waiting for the lock, and for the
double submission. `Settlers` is the number of settlements: two may run for one job.
`MaxTokens` (3 to 5) exceeds the threshold (2 or 3) so that a job reaches a second
checkpoint, a remainder below the minimum, and, with intervals {1, 5}, both an
exact and a padded first bill. One job is enough for the properties of the manager
because jobs share nothing but the lock, whose critical sections are atomic here;
the proofs cover any number. `MaxEntries = 3` lets a failed index upload leave a
duplicate entry and two more follow. `MAX_RETRIES` and `MAX_S5_RETRIES` are
2 or 1 instead of 5 and 3: what matters is whether an attempt is the last.
Streams, tasks and settlers are interchangeable in `metering`, tasks in
`SessionRecovery`; no liveness is checked under symmetry. `CHECK_DEADLOCK FALSE` is
set because a run stops when its bounds are used up and its tasks are done.

In `services` and `economy` every shared resource has at least two tasks that
contend for it wherever the code allows two, every limit is reachable (one or two
entries, two or three that want in), every time to live is shorter than the clock's
bound, and every retry limit is at least one. `Max...Ops`, `Max...Now`, `MaxRequests`
and their like bound how often callers call. Numbers are chosen for their edges:
`FrameLengths` has both sides of 125, 126, 127 and 65535; `Fees` has an amount that the
percentages do not divide and of which one share can be claimed and the others not yet; `SettleId` has
two names that are no numbers and one that is; `RecAmounts`, `MarketFee` and `NetworkFee` make the fees
exceed the pay and not the pay with its bonus; `RoundedUp` holds the size of an image
whose bill the floating-point product rounds up. `Vision` is checked on every text map of
3x3 pixels, every text up to `MaxText` and every pair of image sides, against definitions
that do not follow the code: connected regions, the collapse of a CTC path, the cheapest of
all segmentations, the embedding of each text by itself.

### Fairness

`FairSpec` assumes weak fairness of every step of a submission and of a settlement:
tokio polls every task that is ready, proving ends, and RPC and S5 calls return
or fail (`wait_for_confirmation` gives up after 60 attempts; the uploads have three
attempts). Nothing is assumed of clients: no request, no token and no disconnect has
to happen. `PubSpec` assumes the same of upload attempts.

In `economy`, a worker of `JobPipeline` is a spawned task that tokio polls while it can
go on (`WF` of its steps), and so is the receiver of the node's event channel
(`TakeEvent`). A caller of the peer-to-peer node is served by `select!` among the ready
branches, which picks at random, so a branch that is ready again and again is taken:
`SF` of `ServeCall`. Nothing is assumed of peers, the network or the chain. `result_cache`
assumes `WF` of a task's steps.

## Proofs

The theorems hold for every value of the constants that satisfies the named assumptions
of the modules, one or more `ASSUME`s beside the `CONSTANTS` of each. They say that null
values are no tasks or sessions, that the sets which are counted (jobs, tasks, models,
clients) are finite, that limits, sizes and clocks are numbers, and positive where the code
divides by them or needs one element; nothing else. TLC evaluates each of them in a run.
`LateTokens = FALSE`, where the table says so, is the only further hypothesis of a theorem.

| theorem | statement | module, assumption |
|---|---|---|
| `TypeCorrect` | `Spec => []TypeOK` | `SessionRecoveryProofs` |
| `NoStaleFlag` | `Spec => []BusyHasSubmission` | |
| `SafetyInvariant` | `Spec => []SafetyInv` | `LateTokens = FALSE` |
| `SubmissionsAreSerial` | `Spec => []OneSubmission` | `LateTokens = FALSE` |
| `SubtractionIsSafe` | `Spec => []NoUnderflow` | `LateTokens = FALSE` |
| `CheckpointsMatchChain` | `Spec => []CheckpointMatchesChain` | `LateTokens = FALSE` |
| `IntervalsAreQueried` | `Spec => []IntervalIsQueried` | `LateTokens = FALSE` |
| `SettlementIsProven` | `Spec => []SettlementProvesAll` | `LateTokens = FALSE` |
| `ManagerImplementsLedger` | `Spec => BillingIsCorrect` | `LateTokens = FALSE` |
| `SystemInvariant` | `SystemSpec => []SystemInv` | |
| `ProofsAreRecoverable` | `SystemSpec => []ProofIsRecoverable` | |
| `BilledPromptsAreRecoverable` | `SystemSpec => []BilledPromptIsRecoverable` | |
| `PublisherTypes` | `PubSpec => []PublisherTypeOK` | `CheckpointPublisherProofs` |
| `PublisherInvariant` | `PubSpec => []PublisherInv` | |
| `IndexedDeltasStored` | `PubSpec => []IndexedDeltaIsStored` | |
| `PublishedEntriesIndexed` | `PubSpec => []PublishedIsIndexed` | |
| `MessagesNotLost` | `PubSpec => []NoMessageLost` | |
| `RecoveryHasNoGaps` | `PubSpec => []RecoveryIsContiguous` | |
| `SettlementInvariant` | `SettleSpec => []SettlementInv` | `SettlementProofs` |
| `SessionsSettledOnce` | `SettleSpec => []SettledOnce` | |
| `QueueIsDrained` | `SettleSpec => []SettlementsDrained` | |
| `MoneyIsConserved` | `SumSpec => []MoneyConserved` | `NodeEconomyProofs` |
| `JobsAreKept` | `SumSpec => []JobsKept` | |
| `RegistrationsFollowTheChain` | `SumSpec => []RegistrationsAgree` | |
| `ChainViewIsKept` | `SumSpec => []ChainViewKept` | |
| `NothingIsUsedUnchecked` | `SumSpec => []CheckedBeforeUse` | |
| `EconomyIsWellTyped` | `SumSpec => []EconomyTypes` | |
| `StatisticsNotTorn` | `MonSpec => []StatsNotTorn` | `ServicePartsProofs` |
| `LatestIsLoadable` | `StoSpec => []LatestCanBeLoaded` | |
| `TokensAreMetered` | `ServerSpec => []ServedIsMetered` | |
| `WebSocketInvariant` | `WsSpec => []WsInv` | |
| `StreamsEndOnce` | `WsSpec => []OneStreamEnd` | |
| `CancelsAreInTime` | `WsSpec => []LateCancelIsHarmless` | |
| `RequestsBatchedOnce` | `PerfSpec => []BatchedOnce` | |
| `PoolStaysBounded` | `PoolSpec => []PoolOvershoot` | |
| `ConnectionsAreLentOnce` | `ChainPoolSpec => []LentToOne` | |
| `RatesAreKept` | `RateSpec => []GrantedWithinRate` | |
| `IndexesStayInAgreement` | `SumSpec => []IndexesAgree` | `NodeServicesProofs` |
| `LimitsAreKept` | `SumSpec => []LimitsHold` | |

`reconnect_double` shows that `LateTokens = FALSE` cannot be dropped where it is assumed;
the theorems of `SessionRecoveryProofs` do not need it.

The arguments. Hardly any of the properties is inductive. The invariants of the core were
checked with TLC before they were proved; for the components around it TLC checks the
properties, and the invariants, each of one component, were found from failed proofs.

*Folds and filters.* The prover cannot do induction over data with the library's theorems,
and has no need to: `FiniteSums` derives what is needed from the recursive function behind a
fold by a least counterexample (a set of sizes at which a claim fails has a least element,
which is not zero and follows from the one before). From it come the sum of a function over a
set with one element added, removed or changed, the bounds of such sums, and what filtering
a sequence keeps, counts and leaves in order.

*Checkpoint manager.* `BusyHasSubmission` needs to know
that a settler has a submission exactly while it is at `submitting` (`SettleInv`),
because `Record` of a settler's submission must move that settler on; together with
types this is `BusyInv`. The token properties need `SafetyInv`: a submission
in flight knows its job's tracker (flagged, standing at `upto`) and the chain
(standing at `prev`, or at `upto` once accepted) (`SubInv`); a tracker counts exactly
the tokens served and, with no submission in flight, stands where the chain stands
(`TrackerInv`); an open job without tracker was never served (`FreshInv`), which
is why a new tracker may start at zero; and a `track_tokens` call that carries the
placeholder interval has a tracker to find (`StreamInv`), since trackers are dropped
only for closed jobs and a closed job has no such calls. From `SafetyInv` each step
serves tokens, bills the next ones, or does neither: the refinement. `SettlementProvesAll`
needs `ProvenInv` on top: once a settler has seen no submission in progress, what is
submitted for the closed job covers all its tokens, so that when nothing is in flight any
more all is proven or the last submission failed. The proof first states the effect of
every action on the parts that matter (`StageEffect`, `StartsEffect`, `SettleOnlyEffect`,
...), reduces `Next` to nine kinds of steps (`NextCases`), and then takes one kind at a time.

*Publisher.* `PublisherInv` relates the call in progress, memory and S5: an entry is in
the in-memory index only after its delta is stored (`DeltaFirst`); the call holds the lock,
so its delta still has all the messages of the buffer, and past the first upload it is
indexed (`CallIsCurrent`); what was published in this life of the node is in the
in-memory index, so that every later upload of the index names it, also one that took effect
although it failed (`PublishedInMemory`); and a message of this life is in the buffer or
in an indexed delta (`MessagesKept`).

*Composition.* `SystemInv` uses the publisher's invariant through an instance of
`CheckpointPublisherProofs` with the system's constants, without restarts, where memory
knows all that S5 has. It adds that trackers, calls and submissions carry their job's
session and count no token that was not served (`Metered`); that a request's prompt has been
buffered when its tokens are served (`RequestsOK`, `OriginsOK`); that the
`publish_checkpoint` in progress belongs to the submission that waits for it (`OwnerOK`);
and that the entry and the prompts of every submission past `publish` are in S5
(`Recoverable`), which the acceptance of the proof hands on to the chain's mark.

*Settlement queue.* A session is settled by the task that removed it from the live ones, under
the id its name parses to, so that the calls for an id are at most the sessions with it that
were destroyed (`OnceInv`). For the drain, `DrainInv` counts: as long as no worker gave a request
back, a pending request is in the heap or in the hands of a worker, and with auto settlement
there are at least as many tasks that still owe the queue a pass as requests that wait in the
heap.

*WebSocket.* A connection has one request at a time and all earlier ones are answered
(`OneAtATime`, `EarlierAnswered`); a flag that is raised was raised for the inference that
polls it, while it ran (`RaisedDuringInference`), because starting a prompt resets it.

*Histogram and model storage.* Who holds which lock follows from the program
counters; the sum is ahead of the count, and the observations behind it, by the one
observation that is between the locks. A reader gives the count back before it asks for the sum;
an observation that began in between holds the sum until the reader has ended, so that
whoever gets the sum has the count that belongs to it (`HistInv`). A store works on a version of its own and has put what comes before its step
(`OwnVersion`, `StoresAreOrdered`), until something is deleted.

*Recovery order.* The entries of an index, in memory, in S5 and of the call in progress, form a
chain: each begins at the message after those of the entry before, or is the repetition of it
under the same number that a failed index upload leaves (`OrderInv`). A client that puts all
entries together (`docs/API.md:3011`) therefore reads no message before the ones it follows, and
reads one twice only in entries of one number.

*Meters and batches.* `MeterInv`: what was served of a job is what the two meters counted and
what the requests under way still owe, a sum over requests in which each step changes one
summand. `BatchingInv`: an id is in one queue, at one place of it, or in the hands of the stream,
or done, or gone; `SelectSeq` keeps the rest of a queue as it was, and a stream whose receiver
was dropped ends with the first batch it cannot send.

*Limits.* Where the check and the insertion take a lock apart, the invariant counts the tasks
between them: the connections of a pool and the clients about to add one are at most the limit
and one less than the clients (`PoolInv`); the same for quotas (`QuotaInv`). A connection of a chain is idle at
one place, or owned by one task (`ChainInv`). A limiter's window has the stamps of the requests
it granted, so that any period of its length holds no more than the limit; a bucket's tokens and
what it granted since any moment after the last reset are at most a full bucket and what was
earned (`RateInv`). A cache's recorded total is the sum of its entries, so that an eviction by the total
is one by the entries (`IndexCacheInv`, `McInv`, `MemoryInv`), and each cached proof
is in the order by which proofs are dropped (`ProofsInv`).

*Tables in agreement.* Each of the nine parts of `IndexInv` says what a call that has
written the first table and not the second still has to do, and that no other call undoes it.
The session manager needs one chain for every id (`MgrInv`).

*Money.* Fees, shares and splits are shown to add up by integer division (`q * d <= n`), as
`ClInv`, `FeeInv` and `RecInv` of `SettlementProofs`, with the accumulator and the revenue as
sums over jobs. A withdrawal that is in the hands of a task is not pending and was not
cancelled (`WInv`).

*Jobs, registrations, chain.* `PipeInv` counts the jobs that hold a slot, per stage of the worker
that has them, and says that what was sent is stored. `RgInv` and `HostInv` relate the caches
to the transactions that were seen. `CcInv` orders the cursor of the job monitor, the blocks,
and the channel, so that a block is behind the cursor only if its events were sent;
`SubInv` says that a proof named by a transaction was stored first.

*Models and proofs.* `MsInv`, `UpdInv`, `PmInv` and `EzInv` say, for each call in progress, which
checks lie behind its program counter, and that what they found still holds or has been
withdrawn together with what depends on it; slots, batches and requests are counted.

`SumSpec` of the two sums: a step is a step of the component in focus and leaves the variables
of the others alone, so that the conjunction of the components' invariants, each under its
focus, is inductive (`EconomyInv`, `IndexInv`, `LimitsInv`).

Attempts to prove corrected the project in two places. `IndexUsedOnce` had claimed that an index of a
conversation is used once; two handlers can pass its check together, so it now counts those
that can. And `ContextFits` holds for conversations of up to fifty messages: a longer one is
summarised and not compared with the limit again. `MaxMsgs` keeps the run below that, so
the property is checked with the answers and not among the limits that are proved.

Only model-checked, and why:

- Liveness, under fairness: `SettlementEnds`, `SubmissionIsRecorded`, `LockIsReleased`,
  `WorkersReturn`, `CallersReturn`. The prover has no rules for it.
- `ServiceTypes`, the types of four components of the services; what the other
  invariants need of them is proved with them.
- `TotalsCover` and `AnswersAreSound` of the services; the conversation cache, the image
  limit, the router's indexes and the semantic store are among their parts. They range over many small components,
  among them the algorithms of `Vision` and the filtered search, whose definitions compare
  with the best of all candidates: proofs about them would be about data, not about the
  control of the node. Parts of `TotalsCover` are in the invariants named under *Limits*.

## Map

`PROJECT.json` names, for each piece of code, the definition that stands for it. A helper
whose lines border on those of a definition that uses it, or lie inside them, is covered
by that definition's range and has no entry of its own.

## Plan

The modules were written from the core outwards: checkpoint manager and publisher, their
composition, then the services and the economy, component by component; the proofs followed in
the same order. All of the plan is done but for what the list above leaves to TLC. What would
be worth proving next is `TotalsCover`, whose parts are sums like those of `LimitsHold`.

## What the modelling showed

Beside the findings in `PROJECT.json`, reading the code at this grain showed behaviour
that no document promises otherwise and that the models reproduce as it is:

- Images over HTTP are neither limited nor billed; the job id of the request is ignored.
  1024x768 with 4 steps bills 151 tokens instead of 150.
- The search cache is keyed by the query alone, not by the number of results asked for.
- Several parts take two locks in both orders or one lock twice: the connection pool's
  maintenance (`pool.rs:163`), `ChainAwareSessionManager` (`session_context.rs:123`, `148`),
  `PromptCache` (`cache/mod.rs:172`, `294`), `memory_manager.rs:142`, `health.rs:320`,
  `registration_metrics.rs:140`, `response_time.rs:146`, `accuracy.rs:365`.
- Registration does not look at the status of its receipt (`multi_chain_registrar.rs:406`).
- A failed load of a model leaves it `Loading` (`engine.rs:340`).
- The verification cache of `ezkl/verification.rs` is keyed by the proof alone.
- `set_capacity_config` forgets the jobs that are active.
- A session that was only resumed is unknown to `handle_prompt`: the resume handler keeps
  its own caches (`handlers/mod.rs:27`).
- `FlorenceModel::describe` logs the first 50 bytes of a description by slicing it, which
  panics inside a multi-byte character; `ModelEndpoints` has the outcome.
- An answer of the vision service without choices is returned as an empty text with
  confidence 1.0; the image is decoded only for the local fallback.
- An index upload that failed leaves its entry in memory, and the next checkpoint has the same
  number: the index then names two deltas of one number with the same messages
  (`publisher.rs:429`), which `docs/API.md:2957` and `3091` count among the errors.
  `RecoveryIsContiguous` says what still holds of it.
- Session names that are not numbers are all settled as session 0 (`disconnect.rs:40`,
  `auto_settlement.rs:128`); with `enable_auto_settlement = false` a request stays pending until
  someone calls the processor.
- The heap of the settlement queue holds copies, and one of an earlier state of a request can hand
  it to a second worker; `SettledOnce` counts the calls of the disconnect handler, not the passes
  of the workers.
- Every distribution of fees burns the amounts of all allocations again, and the percentages
  are not checked to add up to 100 (`fees.rs:174`).
- Nothing lowers `active_claims` when a job ends, so the slot of a finished job stays taken.
- Tokens of requests that name no job are counted by neither meter (`server.rs:763`, `1034`).
- A stream of batches sees that its receiver is gone only when a send fails: that batch is
  lost (`batching.rs:447`). `BatchedOnce` bounds the loss by one batch.
- The job monitor advances its cursor past events that the channel refused (`monitor.rs:252`).
- A replay of registry events may list nodes that are gone: its range is any, and a failing
  query ends it between insertions and removals (`registry_monitor.rs:196`).
- After a lost answer the registrar's status is `NotRegistered` while the transaction may still be
  mined (`multi_chain_registrar.rs:336`).
- The start-up check of models is off by default and then accepts every model
  (`model_validation.rs:514`).
- `destroy_session` ignores that the file could not be deleted, and a restart recovers such a
  session (`session_store.rs:226`).
- `get_statistics` of a histogram may wait for `observe` while that waits for it
  (`metrics.rs:344`, `372`); the model has this wait, no property is about it.
- `merge_horizontal_boxes` joins boxes within three quarters of the mean height, its
  comment says half (`detection.rs:331`).

## Not modelled

The contract and S5 themselves, beyond the outcomes their callers see; the contents of
proofs, signatures, encryption and session keys; llama.cpp, the vision and embedding
networks and the numerics of vector search, of which the models have the outcome;
libp2p; texts, formats, reports, percentiles and estimates, which have no effect on
state; configuration, command line, versions and the S5 bridge, which is a program of
its own. Of the pools and limiters, chains that are added or shut down while the node
runs and `SlidingWindow::try_acquire`, which nothing calls; of settlement,
`settle_session_with_chain`. `PROJECT.json` says for each component what of it is left out. In
`CheckpointManager` and `CheckpointPublisher`, operations without a production caller
(`clear_content_hashes`, `init_session`, `remove_session`, the streaming response) are
left out; `submit_checkpoint`, `cleanup_job` and `cleanup_expired`, which only tests
call, are in `ProofSubmission`. An ambiguous transaction error, sent but reported as
failed, is listed as a hazard and modelled only for results (`JobPipeline`), not for
proofs.

What remains of the implementation's lines after the map is to a large part of these
kinds: type and constant declarations, serialisation, logging, accessors, tests inside
source files, and library code whose operations repeat a pattern that a module already
has. Modelling it would restate data, not control.
