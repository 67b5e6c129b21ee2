----------------------------- MODULE WsServices -----------------------------
(***************************************************************************)
(* The services around a WebSocket connection: the authenticator (auth.rs) *)
(* and the job verifier (job_verification.rs) with their caches, the       *)
(* connection table (connection.rs, manager.rs), the session protocol      *)
(* (protocol.rs), the statistics per chain (connection_stats.rs), the      *)
(* health checker's circuit (health.rs) and the proof cache                *)
(* (proof_manager.rs).                                                     *)
(***************************************************************************)
EXTENDS Integers, Sequences, FiniteSets, FiniteSetsExt, SequencesExt

CONSTANTS SvcConns, SvcChains, SvcJobs, SvcTasks,
          SvcTtl,           \* cache_ttl, cache_duration, timeout, token_expiry
          ProofCacheSize,   \* ProofConfig::cache_size
          CircuitFailures,  \* failure_threshold
          MaxSvcNow,        \* bound on time
          MaxSvcOps         \* bound on the operations of a part

ASSUME SvcAssumption ==
    /\ SvcTtl \in Nat \ {0} /\ ProofCacheSize \in Nat \ {0} /\ CircuitFailures \in Nat \ {0}
    /\ MaxSvcNow \in Nat /\ MaxSvcOps \in Nat

VARIABLES svcPart,    \* the part a behaviour is about
          svcNow,     \* the clock
          svcTokens,  \* the authenticator's tokens and job cache
          jobCache,   \* the job verifier's cache and what it last answered
          wsConns,    \* the connection table and the stale ids a cleanup collected
          chainStats, \* connections and statistics of the chains
          circuit,    \* the circuit of a component, its failures and the timers
          proofs      \* the proof cache, its order and the proofs being made

svcVars == <<svcPart, svcNow, svcTokens, jobCache, wsConns, chainStats, circuit, proofs>>

NoEntry == [at |-> -1, chain |-> "none"]

NoTokens ==
    [store |-> [j \in SvcJobs |-> [until |-> -1, mfa |-> FALSE, perms |-> {}]],
     verified |-> [j \in SvcJobs |-> NoEntry], answer |-> "none", ops |-> 0]
NoJobDetails ==
    [entries |-> [c \in SvcChains |-> [j \in SvcJobs |-> NoEntry]],
     fetching |-> [t \in SvcTasks |-> "none"], served |-> NoEntry, at |-> 0, ops |-> 0]
NoConnections ==
    [table |-> [c \in SvcConns |-> "absent"], active |-> [c \in SvcConns |-> 0],
     stale |-> {}, callbacks |-> 0, ops |-> 0]
NoChainStats ==
    [conns |-> [c \in SvcChains |-> {}], total |-> [c \in SvcChains |-> 0],
     active |-> [c \in SvcChains |-> 0], peak |-> [c \in SvcChains |-> 0],
     sent |-> [c \in SvcChains |-> 0], reset |-> "no", torn |-> FALSE, ops |-> 0]
ClosedCircuit ==
    [state |-> "closed", failures |-> 0, timers |-> <<>>, ops |-> 0]
NoProofs ==
    [cache |-> {}, order |-> <<>>, making |-> [t \in SvcTasks |-> "none"], ops |-> 0]

SvcInit ==
    /\ svcPart \in {"tokens", "jobs", "conns", "stats", "circuit", "proofs"}
    /\ svcNow = 0
    /\ svcTokens = NoTokens
    /\ jobCache = NoJobDetails
    /\ wsConns = NoConnections
    /\ chainStats = NoChainStats
    /\ circuit = ClosedCircuit
    /\ proofs = NoProofs

SvcTick ==
    /\ svcNow < MaxSvcNow /\ svcPart \in {"tokens", "jobs", "conns"} /\ svcNow' = svcNow + 1
    /\ UNCHANGED <<svcPart, svcTokens, jobCache, wsConns, chainStats, circuit, proofs>>

-----------------------------------------------------------------------------
(* Authenticator. The token of a session and job is one name.              *)

TokenStep(s) == svcPart = "tokens" /\ svcTokens.ops < MaxSvcOps /\ svcTokens' = [s EXCEPT !.ops = @ + 1]
                /\ UNCHANGED <<svcPart, svcNow, jobCache, wsConns, chainStats, circuit, proofs>>

\* create_session_token; create_mfa_token stores it a second time, verified and without
\* permissions. An earlier token of the same session and job is replaced.
CreateSessionToken(j, perms) ==
    TokenStep([svcTokens EXCEPT !.store[j] = [until |-> svcNow + SvcTtl, mfa |-> FALSE, perms |-> perms]])
CreateMfaToken(j) ==
    TokenStep([svcTokens EXCEPT !.store[j] = [until |-> svcNow + SvcTtl, mfa |-> TRUE, perms |-> {}]])

\* verify_token, check_permission, is_user, is_host, is_admin
VerifyToken(j) ==
    TokenStep([svcTokens EXCEPT !.answer = IF svcTokens.store[j].until = -1 THEN "invalid"
                                           ELSE IF svcTokens.store[j].until < svcNow THEN "expired" ELSE "ok"])
HasPermission(j, p) == svcTokens.store[j].until >= svcNow /\ p \in svcTokens.store[j].perms
IsUser(j) == HasPermission(j, "read") /\ ~HasPermission(j, "execute")

\* verify_job_id: an answer, good or bad, is kept for the ttl.
VerifyJobId(j) ==
    LET e == svcTokens.verified[j]
    IN TokenStep([svcTokens EXCEPT !.verified[j] = IF e.at >= 0 /\ svcNow - e.at < SvcTtl THEN e
                                                   ELSE [at |-> svcNow, chain |-> "auth"]])

\* verify_signature of the authenticator answers false for what it cannot read; the
\* SignatureVerifier's answers an error.
SignatureAnswer(readable, matches) == IF ~readable THEN "unreadable" ELSE IF matches THEN "true" ELSE "false"

-----------------------------------------------------------------------------
(* JobVerifier: entries are kept by chain and job, and looked up by job.   *)

SvcJobStep(s) == svcPart = "jobs" /\ jobCache.ops < MaxSvcOps /\ jobCache' = [s EXCEPT !.ops = @ + 1]
              /\ UNCHANGED <<svcPart, svcNow, svcTokens, wsConns, chainStats, circuit, proofs>>

Young(e) == e.at >= 0 /\ svcNow - e.at < SvcTtl

\* Mutant: an entry is good until it is dropped from the cache.
CachedJobs_UntilDropped(j) == {jobCache.entries[c][j] : c \in SvcChains} \ {NoEntry}

\* get_cached_job: any chain's entry that is young.
CachedJobs(j) == {e \in {jobCache.entries[c][j] : c \in SvcChains} : Young(e)}

\* verify_job: a cached answer, or the fetch, which leaves the lock while it runs.
VerifyJob(t, j, c) ==
    /\ jobCache.fetching[t] = "none"
    /\ IF CachedJobs(j) # {}
       THEN \E e \in CachedJobs(j) : SvcJobStep([jobCache EXCEPT !.served = e, !.at = svcNow])
       ELSE SvcJobStep([jobCache EXCEPT !.fetching[t] = <<j, c, svcNow>>])

\* cache_job: what is older than twice the duration goes.
CacheJob(t) ==
    /\ jobCache.fetching[t] # "none"
    /\ LET f == jobCache.fetching[t]
           e == [at |-> svcNow, chain |-> f[2]]
           kept == [c \in SvcChains |-> [j \in SvcJobs |->
                       IF svcNow - jobCache.entries[c][j].at < 2 * SvcTtl THEN jobCache.entries[c][j] ELSE NoEntry]]
       IN SvcJobStep([jobCache EXCEPT !.entries = [kept EXCEPT ![f[2]][f[1]] = e],
                                   !.fetching[t] = "none", !.served = e, !.at = svcNow])

\* can_claim_job, is_job_expired; JobStatus::from
JobStatusOf(state) == IF state = "open" THEN "pending" ELSE IF state = "assigned" THEN "claimed"
                      ELSE IF state = "completed" THEN "completed" ELSE "failed"
CanClaimJob(state, deadline) == JobStatusOf(state) = "pending" /\ deadline >= svcNow

-----------------------------------------------------------------------------
(* ConnectionHandler.                                                      *)

ConnStep(s) == svcPart = "conns" /\ wsConns.ops < MaxSvcOps /\ wsConns' = [s EXCEPT !.ops = @ + 1]
               /\ UNCHANGED <<svcPart, svcNow, svcTokens, jobCache, chainStats, circuit, proofs>>

\* register_connection and its variants replace a connection of the same id.
RegisterConnection(c) == ConnStep([wsConns EXCEPT !.table[c] = "connected", !.active[c] = svcNow])

\* handle_message, route_message
ConnMessage(c) == wsConns.table[c] # "absent" /\ ConnStep([wsConns EXCEPT !.active[c] = svcNow])

\* authenticate_connection, disconnect, mark_unhealthy
SetConnState(c, s) == wsConns.table[c] # "absent" /\ ConnStep([wsConns EXCEPT !.table[c] = s])

\* remove_connection runs the callback under the lock.
RemoveConnection(c) ==
    wsConns.table[c] # "absent" /\ ConnStep([wsConns EXCEPT !.table[c] = "absent", !.callbacks = @ + 1])

\* cleanup_stale_connections: the ids are collected under one lock and removed under
\* others, without another look at the time.
CollectStale ==
    /\ wsConns.stale = {}
    /\ LET old == {c \in SvcConns : wsConns.table[c] # "absent" /\ svcNow - wsConns.active[c] > SvcTtl}
       IN old # {} /\ ConnStep([wsConns EXCEPT !.stale = old])
RemoveStale(c) ==
    /\ c \in wsConns.stale
    /\ ConnStep([wsConns EXCEPT !.stale = @ \ {c}, !.table[c] = "absent",
                                !.callbacks = IF wsConns.table[c] = "absent" THEN @ ELSE @ + 1])

-----------------------------------------------------------------------------
(* SessionProtocol: the answer to a message.                               *)

ProtocolReply(type, command, id, known) ==
    CASE type = "SessionControl" /\ command = "none" -> "error"
      [] type = "SessionControl" /\ command # "Init" /\ id = "none" -> "error"
      [] type = "SessionControl" /\ command = "Init" -> "InitAck"
      [] type = "SessionControl" /\ command = "Resume" -> IF known THEN "ResumeAck" ELSE "SESSION_NOT_FOUND"
      [] type = "SessionControl" /\ command = "Clear" -> IF known THEN "ClearAck" ELSE "error"
      [] type = "SessionControl" /\ command = "Handoff" -> IF known THEN "HandoffReady" ELSE "error"
      [] type = "SessionControl" /\ command = "Terminate" -> "TerminateAck"
      [] type = "StateSync" -> IF known THEN "StateSyncAck" ELSE "error"
      [] type \in {"Heartbeat", "Metadata", "Capabilities", "Version"} -> type \o "Ack"
      [] OTHER -> "Unsupported"

\* handle_capabilities
Negotiated(server, client) == SelectSeq(server, LAMBDA cap : cap \in client)

\* HandlerRegistry::handle; MessageHandler::process stops at the first error.
RegistryReply(type, registered) ==
    IF type \in registered THEN "handled" ELSE IF type = "Data" THEN "echo" ELSE "error"

-----------------------------------------------------------------------------
(* ChainConnectionStats.                                                   *)

StatsStep(s) == svcPart = "stats" /\ chainStats.ops < MaxSvcOps /\ chainStats' = [s EXCEPT !.ops = @ + 1]
                /\ UNCHANGED <<svcPart, svcNow, svcTokens, jobCache, wsConns, circuit, proofs>>

\* record_connection holds the connections' lock to the end.
RecordConnection(c, x) ==
    LET conns == chainStats.conns[c] \cup {x}
        peak == Max({chainStats.peak[c], Cardinality(conns)})
    IN StatsStep([chainStats EXCEPT !.conns[c] = conns, !.total[c] = @ + 1, !.active[c] = Cardinality(conns),
                                    !.peak[c] = peak, !.torn = @ \/ chainStats.reset # "no"])

\* Mutant: the count goes down for a connection that was not there.
RecordDisconnection_Twice(c, x) ==
    StatsStep([chainStats EXCEPT !.conns[c] = @ \ {x}, !.active[c] = @ - 1])

\* record_disconnection
RecordDisconnection(c, x) ==
    /\ x \in chainStats.conns[c]
    /\ StatsStep([chainStats EXCEPT !.conns[c] = @ \ {x}, !.active[c] = Cardinality(chainStats.conns[c] \ {x}),
                                    !.torn = @ \/ chainStats.reset # "no"])

\* record_message_sent, record_message_received, record_error: the chain counts it even
\* when the connection is gone.
RecordMessageSent(c) == StatsStep([chainStats EXCEPT !.sent[c] = @ + 1])

\* cleanup_idle_connections
CleanupIdle(c, idle) ==
    /\ idle # {} /\ idle \subseteq chainStats.conns[c]
    /\ StatsStep([chainStats EXCEPT !.conns[c] = @ \ idle, !.active[c] = Cardinality(chainStats.conns[c] \ idle),
                                    !.torn = @ \/ chainStats.reset # "no"])

\* reset_chain_stats, reset_all_stats: three maps, cleared one after the other.
ResetConnections(c) == chainStats.reset = "no" /\ StatsStep([chainStats EXCEPT !.conns[c] = {}, !.reset = c])
ResetStats(c) ==
    /\ chainStats.reset = c
    /\ StatsStep([chainStats EXCEPT !.total[c] = 0, !.active[c] = 0, !.sent[c] = 0, !.peak[c] = 0, !.reset = "no"])

\* GlobalStats::from_chain_stats
TotalActive == MapThenSumSet(LAMBDA c : chainStats.active[c], SvcChains)

-----------------------------------------------------------------------------
(* HealthChecker's circuit, ReadinessCheck and LivenessCheck.              *)

CircuitStep(s) == svcPart = "circuit" /\ circuit.ops < MaxSvcOps /\ circuit' = [s EXCEPT !.ops = @ + 1]
                  /\ UNCHANGED <<svcPart, svcNow, svcTokens, jobCache, wsConns, chainStats, proofs>>

\* Mutant: only the failure that opens the circuit starts a timer, by its count.
RecordFailure_OneTimer ==
    LET n == circuit.failures + 1
    IN CircuitStep([circuit EXCEPT !.failures = n,
                                   !.state = IF n >= CircuitFailures THEN "open" ELSE @,
                                   !.timers = IF n = CircuitFailures THEN Append(@, "reset") ELSE @])

\* record_failure: from the threshold on, each one opens the circuit and starts a timer.
RecordFailure ==
    LET n == circuit.failures + 1
        opens == n >= CircuitFailures
    IN CircuitStep([circuit EXCEPT !.failures = n, !.state = IF opens THEN "open" ELSE @,
                                   !.timers = IF opens THEN Append(@, "reset") ELSE @])

\* The timer writes HalfOpen whatever the state is by then.
TimerFires ==
    /\ svcPart = "circuit" /\ circuit.timers # <<>>
    /\ circuit' = [circuit EXCEPT !.timers = Tail(@), !.state = "half_open"]
    /\ UNCHANGED <<svcPart, svcNow, svcTokens, jobCache, wsConns, chainStats, proofs>>

\* record_success counts only in HalfOpen.
RecordSuccess ==
    /\ circuit.state = "half_open"
    /\ CircuitStep([circuit EXCEPT !.state = "closed", !.failures = 0])

\* allow_request
AllowRequest == circuit.state # "open"

\* is_ready, all_chains_ready, is_alive
SvcIsReady(ready) == {"websocket", "inference", "blockchain"} \subseteq ready
AllChainsReady(known, ready) == known # {} /\ known \subseteq ready
IsAlive(beats) == \A b \in beats : svcNow - b <= SvcTtl

-----------------------------------------------------------------------------
(* ProofManager.                                                           *)

ProofStep(s) == svcPart = "proofs" /\ proofs.ops < MaxSvcOps /\ proofs' = [s EXCEPT !.ops = @ + 1]
                /\ UNCHANGED <<svcPart, svcNow, svcTokens, jobCache, wsConns, chainStats, circuit>>

\* A hit moves the key to the end of the order; a miss makes the proof without a lock.
SvcGenerateProof(t, k) ==
    /\ proofs.making[t] = "none"
    /\ IF k \in proofs.cache
       THEN LET i == SelectInSeq(proofs.order, LAMBDA x : x = k)
            IN ProofStep([proofs EXCEPT !.order = IF i = 0 THEN @ ELSE Append(RemoveAt(@, i), k)])
       ELSE ProofStep([proofs EXCEPT !.making[t] = k])

\* The oldest keys go while the cache is too large; a key may be in the order twice.
EvictProofs(cache, order) ==
    LET gone(n) == {order[i] : i \in 1 .. n}
        n == Min({k \in 0 .. Len(order) : Cardinality(cache \ gone(k)) <= ProofCacheSize \/ k = Len(order)})
    IN [cache |-> cache \ gone(n), order |-> SubSeq(order, n + 1, Len(order))]

\* Mutant: a key already cached is not put in the order, nor moved in it.
StoreProof_Unordered(t) ==
    /\ proofs.making[t] # "none"
    /\ LET e == EvictProofs(proofs.cache \cup {proofs.making[t]}, proofs.order)
       IN ProofStep([proofs EXCEPT !.cache = e.cache, !.order = e.order, !.making[t] = "none"])

StoreProof(t) ==
    /\ proofs.making[t] # "none"
    /\ LET e == EvictProofs(proofs.cache \cup {proofs.making[t]}, Append(proofs.order, proofs.making[t]))
       IN ProofStep([proofs EXCEPT !.cache = e.cache, !.order = e.order, !.making[t] = "none"])

\* clear_cache leaves the order.
ClearProofs == proofs.cache # {} /\ ProofStep([proofs EXCEPT !.cache = {}])

-----------------------------------------------------------------------------

SvcNext ==
    \/ SvcTick
    \/ \E j \in SvcJobs : VerifyToken(j) \/ VerifyJobId(j) \/ CreateMfaToken(j)
    \/ \E j \in SvcJobs, perms \in {{"read"}, {"execute"}} : CreateSessionToken(j, perms)
    \/ \E t \in SvcTasks : CacheJob(t) \/ StoreProof(t)
    \/ \E t \in SvcTasks, j \in SvcJobs : SvcGenerateProof(t, j) \/ \E c \in SvcChains : VerifyJob(t, j, c)
    \/ \E c \in SvcConns : RegisterConnection(c) \/ ConnMessage(c) \/ RemoveConnection(c) \/ RemoveStale(c)
    \/ \E c \in SvcConns, s \in {"authenticated", "disconnected", "failed"} : SetConnState(c, s)
    \/ CollectStale
    \/ \E c \in SvcChains, x \in SvcConns : RecordConnection(c, x) \/ RecordDisconnection(c, x)
    \/ \E c \in SvcChains : RecordMessageSent(c) \/ ResetConnections(c) \/ ResetStats(c)
    \/ \E c \in SvcChains, idle \in SUBSET SvcConns : CleanupIdle(c, idle)
    \/ RecordFailure \/ TimerFires \/ RecordSuccess
    \/ ClearProofs

SvcSpec == SvcInit /\ [][SvcNext]_svcVars

-----------------------------------------------------------------------------

\* The details a job is answered with were fetched within the cache's duration, though
\* entries are kept for twice as long, and the fetch of another task may lie between.
JobDetailsAreFresh == jobCache.served.at >= 0 => jobCache.at - jobCache.served.at < SvcTtl

\* While no reset of a chain ran into another update, the active connections of a chain
\* are the ones recorded, however connects, disconnects and the idle cleanup follow each other.
ActiveIsCounted ==
    ~chainStats.torn /\ chainStats.reset = "no" =>
        \A c \in SvcChains : chainStats.active[c] = Cardinality(chainStats.conns[c])

\* An open circuit always has a timer that will end it, also when failures go on after
\* it opened and an earlier timer has fired in between.
OpenCircuitHasTimer == circuit.state = "open" => circuit.timers # <<>>

\* The proof cache stays within its size though two tasks may make the same proof at
\* once and a cleared cache leaves its order behind: every cached key can be evicted.
ProofCacheBounded ==
    Cardinality(proofs.cache) <= ProofCacheSize /\ proofs.cache \subseteq ToSet(proofs.order)
=============================================================================
