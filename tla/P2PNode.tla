------------------------------ MODULE P2PNode ------------------------------
(***************************************************************************)
(* The peer-to-peer node: the task that owns the swarm and serves the      *)
(* commands of its callers (p2p/node.rs), the queries to the hash table    *)
(* (dht.rs), and the requests between peers (protocol_impl.rs). The swarm  *)
(* and its hash table are libp2p's.                                        *)
(***************************************************************************)
EXTENDS Integers, Sequences, FiniteSets, FiniteSetsExt, SequencesExt

CONSTANTS P2pPeers,          \* other nodes
          P2pCallers,        \* callers of the node's methods, each with one call
          P2pKeys,           \* keys of the hash table
          EventCap,          \* the channel of 1000 events
          PeerExpiry,        \* peer_expiration_time
          MaxP2pNow,         \* bound on time
          MaxP2pEvents       \* bound on what the network does

ASSUME P2pAssumption ==
    EventCap \in Nat \ {0} /\ PeerExpiry \in Nat /\ MaxP2pNow \in Nat /\ MaxP2pEvents \in Nat

VARIABLES p2pTask,    \* "running" or "stopped"; what it waits for with a full event channel
          calls,      \* the call of each caller: idle, sent, query, answered
          events,     \* how many events wait in the channel
          peers,      \* connected, discovered, last seen
          reqResp,    \* requests tracked, timed out, channels of requests to answer, what was told
          dht,        \* records stored and published, whether a bootstrap is under way
          net         \* the clock and the count of network events

p2pVars == <<p2pTask, calls, events, peers, reqResp, dht, net>>

NoCall == [pc |-> "idle", what |-> "none", answers |-> 0]

P2pInit ==
    /\ p2pTask = "running"
    /\ calls = [c \in P2pCallers |-> NoCall]
    /\ events = 0
    /\ peers = [connected |-> {}, discovered |-> {}, seen |-> [p \in P2pPeers |-> -1]]
    /\ reqResp = [tracked |-> {}, timedOut |-> {}, completed |-> {}, pending |-> {}, told |-> {}, streams |-> {}]
    /\ dht = [stored |-> {}, expired |-> {}, published |-> {}, bootstrap |-> FALSE]
    /\ net = [now |-> 0, count |-> 0]

\* The select loop is at its head: it runs, and no send to the event channel is waiting.
Looping == p2pTask = "running"

\* event_tx.send(..).await: with a full channel the whole loop waits for the receiver.
Emit(n) == /\ events' = Min({events + n, EventCap})
           /\ p2pTask' = IF events + n > EventCap THEN "sending" ELSE p2pTask
NoEvent == UNCHANGED <<events, p2pTask>>

NetStep == Looping /\ net.count < MaxP2pEvents /\ net' = [net EXCEPT !.count = @ + 1]

-----------------------------------------------------------------------------
(* Callers and their commands.                                             *)

Commands == {"connect", "put", "get", "provide", "providers", "listeners", "event", "request", "response", "claim"}

\* connect, dht_put, dht_get, send_inference_request ...: the command is sent and the
\* answer awaited; after shutdown there is no sender any more.
Call(c, what) ==
    /\ calls[c].pc = "idle"
    /\ calls' = [calls EXCEPT ![c] = IF p2pTask = "stopped" THEN [pc |-> "answered", what |-> what, answers |-> 1]
                                     ELSE [pc |-> "sent", what |-> what, answers |-> 0]]
    /\ UNCHANGED <<p2pTask, events, peers, reqResp, dht, net>>

Answered(c) == [calls EXCEPT ![c].pc = "answered", ![c].answers = @ + 1]

\* Connect, GetListeners, SendJobClaim, SendJobResult are answered at once.
ServeAtOnce(c) ==
    /\ Looping /\ calls[c].pc = "sent" /\ calls[c].what \in {"connect", "listeners", "claim"}
    /\ calls' = Answered(c) /\ NoEvent /\ UNCHANGED <<peers, reqResp, dht, net>>

\* SendEvent, also how announce_capabilities tells of itself.
ServeEvent(c) ==
    /\ Looping /\ calls[c].pc = "sent" /\ calls[c].what = "event"
    /\ Emit(1) /\ calls' = Answered(c) /\ UNCHANGED <<peers, reqResp, dht, net>>

\* Mutant: a query the hash table refuses is not answered.
ServeQuery_Silent(c, k, refused) ==
    /\ Looping /\ calls[c].pc = "sent" /\ calls[c].what \in {"put", "get", "provide", "providers"}
    /\ calls' = [calls EXCEPT ![c].pc = IF refused THEN "forgotten" ELSE "query"]
    /\ dht' = IF refused \/ calls[c].what # "put" THEN dht
              ELSE [dht EXCEPT !.stored = @ \cup {k}, !.published = @ \cup {k}, !.expired = @ \ {k}]
    /\ NoEvent /\ UNCHANGED <<peers, reqResp, net>>

\* DhtPut, DhtGet, DhtStartProviding, DhtGetProviders: refused at once, or a query whose
\* sender is registered; a put is also stored, and published from then on.
ServeQuery(c, k, refused) ==
    /\ Looping /\ calls[c].pc = "sent" /\ calls[c].what \in {"put", "get", "provide", "providers"}
    /\ calls' = IF refused THEN Answered(c) ELSE [calls EXCEPT ![c].pc = "query"]
    /\ dht' = IF refused \/ calls[c].what # "put" THEN dht
              ELSE [dht EXCEPT !.stored = @ \cup {k}, !.published = @ \cup {k}, !.expired = @ \ {k}]
    /\ NoEvent /\ UNCHANGED <<peers, reqResp, net>>

\* handle_event: the end of a query answers whoever registered it, well or not; what was
\* found is also told, with try_send, which a full channel drops.
QueryEnds(c) ==
    /\ Looping /\ calls[c].pc = "query"
    /\ calls' = Answered(c)
    /\ events' = IF calls[c].what \in {"get", "providers"} THEN Min({events + 1, EventCap}) ELSE events
    /\ UNCHANGED <<p2pTask, peers, reqResp, dht, net>>

\* SendInferenceRequest: within the rate it is sent and tracked; the node's own id is
\* what the rate is kept for. Over it the caller is refused and an event sent.
ServeRequest(c, limited) ==
    /\ Looping /\ calls[c].pc = "sent" /\ calls[c].what = "request"
    /\ calls' = Answered(c)
    /\ IF limited THEN Emit(1) /\ UNCHANGED reqResp
       ELSE NoEvent /\ reqResp' = [reqResp EXCEPT !.tracked = @ \cup {<<c, net.now>>}]
    /\ UNCHANGED <<peers, dht, net>>

\* SendInferenceResponse goes through the channel kept for the request's id.
ServeResponse(c) ==
    /\ Looping /\ calls[c].pc = "sent" /\ calls[c].what = "response"
    /\ calls' = Answered(c)
    /\ \/ reqResp.pending = {} /\ UNCHANGED reqResp
       \/ \E p \in reqResp.pending : reqResp' = [reqResp EXCEPT !.pending = @ \ {p}]
    /\ NoEvent /\ UNCHANGED <<peers, dht, net>>

\* shutdown: the command breaks the loop; senders of unserved and unfinished calls are
\* dropped, which their callers see as an error.
Shutdown ==
    /\ Looping
    /\ p2pTask' = "stopped"
    /\ calls' = [c \in P2pCallers |-> IF calls[c].pc \in {"sent", "query"} THEN [calls[c] EXCEPT !.pc = "answered", !.answers = @ + 1]
                                      ELSE calls[c]]
    /\ UNCHANGED <<events, peers, reqResp, dht, net>>

-----------------------------------------------------------------------------
(* What the swarm reports.                                                 *)

ConnectionEstablished(p) ==
    /\ NetStep /\ Emit(1)
    /\ peers' = [peers EXCEPT !.connected = @ \cup {p}, !.seen[p] = net.now]
    /\ UNCHANGED <<calls, reqResp, dht>>

\* Mutant: a closed connection keeps its time.
ConnectionClosed_KeepSeen(p) ==
    /\ p \in peers.connected /\ NetStep /\ Emit(1)
    /\ peers' = [peers EXCEPT !.connected = @ \ {p}]
    /\ UNCHANGED <<calls, reqResp, dht>>

ConnectionClosed(p) ==
    /\ p \in peers.connected /\ NetStep /\ Emit(1)
    /\ peers' = [peers EXCEPT !.connected = @ \ {p}, !.seen[p] = -1]
    /\ UNCHANGED <<calls, reqResp, dht>>

MdnsDiscovered(p) ==
    /\ NetStep /\ Emit(1)
    /\ peers' = [peers EXCEPT !.discovered = @ \cup {p}, !.seen[p] = net.now]
    /\ UNCHANGED <<calls, reqResp, dht>>

MdnsExpired(p) ==
    /\ p \in peers.discovered /\ NetStep /\ Emit(1)
    /\ peers' = [peers EXCEPT !.discovered = @ \ {p}, !.seen[p] = -1]
    /\ UNCHANGED <<calls, reqResp, dht>>

\* A request of a peer: over its rate it is dropped with its channel; an inference request
\* keeps the channel until somebody answers, claims and results are acknowledged at once.
PeerRequest(p, limited, kind) ==
    /\ NetStep /\ Emit(1)
    /\ reqResp' = IF limited \/ kind # "inference" THEN reqResp ELSE [reqResp EXCEPT !.pending = @ \cup {p}]
    /\ UNCHANGED <<calls, peers, dht>>

\* A peer's response: the tracked request is completed. send_chunk succeeds for a request
\* without a stream too, so that the event of the other branch is never sent.
PeerResponse(r) ==
    /\ r \in {x[1] : x \in reqResp.tracked} \cup reqResp.timedOut
    /\ NetStep /\ NoEvent
    /\ reqResp' = [reqResp EXCEPT !.tracked = {x \in @ : x[1] # r}, !.completed = @ \cup {r},
                                  !.told = IF r \in reqResp.streams THEN @ \cup {r} ELSE @]
    /\ UNCHANGED <<calls, peers, dht>>

-----------------------------------------------------------------------------
(* The timers of the loop, and the receiver of the events.                 *)

\* peer_check_interval: a discovered peer that was not seen for long, or that has no time
\* and no connection, is expired.
PeerCheck ==
    LET old == {p \in peers.discovered : IF peers.seen[p] >= 0 THEN net.now - peers.seen[p] > PeerExpiry
                                         ELSE p \notin peers.connected}
    IN /\ Looping /\ old # {} /\ Emit(Cardinality(old))
       /\ peers' = [peers EXCEPT !.discovered = @ \ old,
                                 !.seen = [p \in P2pPeers |-> IF p \in old THEN -1 ELSE peers.seen[p]]]
       /\ UNCHANGED <<calls, reqResp, dht, net>>

\* check_timeouts
CheckTimeouts ==
    LET late == {x \in reqResp.tracked : net.now - x[2] > 0}
    IN /\ Looping /\ late # {} /\ Emit(Cardinality(late))
       /\ reqResp' = [reqResp EXCEPT !.tracked = @ \ late, !.timedOut = @ \cup {x[1] : x \in late}]
       /\ UNCHANGED <<calls, peers, dht, net>>

\* bootstrap_interval, and the bootstrap's end
StartBootstrap ==
    /\ ~dht.bootstrap /\ NetStep /\ Emit(1)
    /\ dht' = [dht EXCEPT !.bootstrap = TRUE] /\ UNCHANGED <<calls, peers, reqResp>>
BootstrapEnds ==
    /\ Looping /\ dht.bootstrap /\ NoEvent
    /\ dht' = [dht EXCEPT !.bootstrap = FALSE] /\ UNCHANGED <<calls, peers, reqResp, net>>

RecordExpires(k) ==
    /\ Looping /\ k \in dht.stored \ dht.expired
    /\ dht' = [dht EXCEPT !.expired = @ \cup {k}] /\ NoEvent /\ UNCHANGED <<calls, peers, reqResp, net>>

\* republish_interval: expired records are no longer stored, and still published again.
Republish ==
    /\ dht.published # {} /\ NetStep /\ Emit(Cardinality(dht.published))
    /\ dht' = [dht EXCEPT !.stored = @ \ dht.expired, !.expired = {}]
    /\ UNCHANGED <<calls, peers, reqResp>>

\* cleanup_expired_records
CleanupRecords ==
    /\ Looping /\ dht.expired # {} /\ NoEvent
    /\ dht' = [dht EXCEPT !.stored = @ \ dht.expired, !.expired = {}]
    /\ UNCHANGED <<calls, peers, reqResp, net>>

P2pTick ==
    /\ net.now < MaxP2pNow /\ net' = [net EXCEPT !.now = @ + 1]
    /\ UNCHANGED <<p2pTask, calls, events, peers, reqResp, dht>>

\* main's loop takes an event; a send that waited goes through.
TakeEvent ==
    /\ events > 0
    /\ IF p2pTask = "sending" THEN p2pTask' = "running" /\ UNCHANGED events
       ELSE events' = events - 1 /\ UNCHANGED p2pTask
    /\ UNCHANGED <<calls, peers, reqResp, dht, net>>

-----------------------------------------------------------------------------

ServeCall(c) ==
    \/ ServeAtOnce(c) \/ ServeEvent(c) \/ ServeResponse(c) \/ QueryEnds(c)
    \/ \E k \in P2pKeys, refused \in BOOLEAN : ServeQuery(c, k, refused)
    \/ \E limited \in BOOLEAN : ServeRequest(c, limited)

P2pNext ==
    \/ \E c \in P2pCallers : ServeCall(c) \/ PeerResponse(c) \/ \E what \in Commands : Call(c, what)
    \/ \E p \in P2pPeers : ConnectionEstablished(p) \/ ConnectionClosed(p) \/ MdnsDiscovered(p) \/ MdnsExpired(p)
    \/ \E p \in P2pPeers, limited \in BOOLEAN, kind \in {"inference", "claim"} : PeerRequest(p, limited, kind)
    \/ \E k \in P2pKeys : RecordExpires(k)
    \/ PeerCheck \/ CheckTimeouts \/ StartBootstrap \/ BootstrapEnds \/ Republish \/ CleanupRecords
    \/ Shutdown \/ P2pTick \/ TakeEvent

\* The select loop serves every branch that is ready, libp2p ends every query, and main
\* goes on receiving events.
P2pFairness ==
    /\ WF_p2pVars(TakeEvent)
    /\ \A c \in P2pCallers : SF_p2pVars(ServeCall(c))

P2pSpec == P2pInit /\ [][P2pNext]_p2pVars /\ P2pFairness

-----------------------------------------------------------------------------

\* A peer has a time only while it is connected or discovered: the table of times does
\* not grow with peers that come and go, whichever of the two ends first.
PeersNotLeaked == \A p \in P2pPeers : peers.seen[p] >= 0 => p \in peers.connected \cup peers.discovered

\* Every call of the node's methods returns, refused, answered by its query or told that
\* the node is gone, though a full event channel can hold the loop up, and never twice.  (A caller calls
\* once, so it is not left in a call for ever.)
CallersReturn ==
    \A c \in P2pCallers : []<>(calls[c].pc = "idle" \/ (calls[c].pc = "answered" /\ calls[c].answers = 1))

=============================================================================
