------------------------------ MODULE Registrars ------------------------------
(***************************************************************************)
(* Registration of the node: the registrar that stakes and registers on    *)
(* each chain (blockchain/multi_chain_registrar.rs) as the node and as the *)
(* command line (cli/registration.rs) use it, the monitor of the           *)
(* registrations (blockchain/registration_monitor.rs), their metrics       *)
(* (blockchain/registration_metrics.rs), and the cache that follows the    *)
(* registry's events (contracts/registry_monitor.rs).                      *)
(***************************************************************************)
EXTENDS Integers, Sequences, FiniteSets

CONSTANTS RgChains,     \* chain ids
          RgTasks,      \* tasks that register
          RgNodes,      \* nodes of the registry contract
          RgPricings,   \* setModelTokenPricing calls of one registration
          WarnBelow,    \* warning_threshold
          RenewBelow,   \* renewal_buffer
          MaxTx,        \* bound on the registration transactions
          MaxChecks,    \* bound on the health checks of a chain
          MaxBlocks     \* bound on the registry's events, one in a block

ASSUME RgAssumption ==
    /\ RgPricings \in Nat /\ WarnBelow \in Nat \ {0} /\ RenewBelow \in Nat
    /\ MaxTx \in Nat /\ MaxChecks \in Nat /\ MaxBlocks \in Nat /\ "free" \notin RgTasks

VARIABLES rgPart,     \* the part a behaviour is about
          registrar,  \* MultiChainRegistrar and the chains it talks to
          regmon,     \* RegistrationMonitor
          regcache,   \* RegistryMonitor and the contract's log
          regstats    \* AggregatedMetrics

rgVars == <<rgPart, registrar, regmon, regcache, regstats>>

\* A registration transaction; its answer is what send_transaction returned.
RegistrationTx == [chain : RgChains, answer : {"waiting", "ok", "lost"}, mined : {"no", "ok", "reverted"},
                   watched : {"no", "yes", "done"}]

RegistrarState ==
    [status : [RgChains -> {"NotRegistered", "Pending", "Confirmed"}], lock : RgTasks \cup {"free"},
     allowed : SUBSET RgChains, txs : Seq(RegistrationTx),
     priced : [RgChains -> Nat], cli : BOOLEAN, exited : BOOLEAN,
     task : [RgTasks -> [pc : {"idle", "approve", "lock", "send", "answer", "pricing"},
                         todo : Seq(RgChains), left : 0 .. RgPricings]]]

\* What check_health_internal finds of a chain.
RegistrationHealth == [known : BOOLEAN, healthy : BOOLEAN, rpcFailure : BOOLEAN, expiry : -1 .. WarnBelow]

MonitorState ==
    [handle : SUBSET RgChains, health : [RgChains -> RegistrationHealth],
     found : [RgChains -> RegistrationHealth], pc : [RgChains -> {"tick", "compare", "warn", "renew", "store"}],
     readers : SUBSET RgChains, auto : BOOLEAN, failing : SUBSET RgChains, expiries : [RgChains -> -1 .. WarnBelow],
     registered : SUBSET RgChains, warnings : [RgChains -> Nat], renewals : [RgChains -> Nat],
     recoveries : [RgChains -> Nat], checks : [RgChains -> Nat], expiring : [RgChains -> Nat]]

RegistryState ==
    [log : Seq([kind : {"registered", "updated", "unregistered"}, node : RgNodes]), cursor : Nat, to : Nat,
     cache : SUBSET RgNodes, pc : {"off", "sleep", "registered", "updated", "unregistered"}, missed : BOOLEAN,
     replay : {"off", "registered", "updated", "unregistered"}, first : Nat, last : Nat, replayed : SUBSET RgNodes]

NoHealth == [known |-> FALSE, healthy |-> FALSE, rpcFailure |-> FALSE, expiry |-> -1]
RgIdle == [pc |-> "idle", todo |-> <<>>, left |-> 0]

RgInit ==
    /\ rgPart \in {"registrar", "monitor", "registry", "metrics"}
    /\ \E cli \in IF rgPart = "registrar" THEN BOOLEAN ELSE {FALSE} :
          registrar = [status |-> [c \in RgChains |-> "NotRegistered"], lock |-> "free",
                       allowed |-> {}, txs |-> <<>>, priced |-> [c \in RgChains |-> 0], cli |-> cli,
                       exited |-> FALSE, task |-> [t \in RgTasks |-> RgIdle]]
    /\ regmon = [handle |-> {}, health |-> [c \in RgChains |-> NoHealth], found |-> [c \in RgChains |-> NoHealth],
                 pc |-> [c \in RgChains |-> "tick"], readers |-> {}, auto |-> FALSE, failing |-> {},
                 expiries |-> [c \in RgChains |-> -1], registered |-> {}, warnings |-> [c \in RgChains |-> 0],
                 renewals |-> [c \in RgChains |-> 0], recoveries |-> [c \in RgChains |-> 0],
                 checks |-> [c \in RgChains |-> 0], expiring |-> [c \in RgChains |-> 0]]
    /\ regcache = [log |-> <<>>, cursor |-> 0, to |-> 0, cache |-> {}, pc |-> "off", missed |-> FALSE,
                   replay |-> "off", first |-> 0, last |-> 0, replayed |-> {}]
    /\ regstats = [lock |-> "free", chains |-> {}]

-----------------------------------------------------------------------------
(* MultiChainRegistrar                                                     *)

RegistrarStep(s) ==
    /\ rgPart = "registrar" /\ ~registrar.exited
    /\ registrar' = s /\ UNCHANGED <<rgPart, regmon, regcache, regstats>>
RegistrarAt(t, pc) == rgPart = "registrar" /\ registrar.task[t].pc = pc
RegChain(t) == Head(registrar.task[t].todo)

\* A registration ends, with or without an error, and the next chain's begins.
NextChain(s, t) ==
    LET rest == Tail(s.task[t].todo)
    IN [s EXCEPT !.task[t] = [pc |-> IF rest = <<>> THEN "idle" ELSE "approve", todo |-> rest, left |-> 0],
                 !.exited = s.cli /\ rest = <<>>]

\* register_node, register_on_all_chains: the chains one after the other.  The
\* command line serves one call and ends with it, its spawned tasks too.
RegisterOnChain(t, chains) ==
    /\ RegistrarAt(t, "idle") /\ Len(registrar.txs) < MaxTx /\ chains # <<>>
    /\ registrar.cli => \A u \in RgTasks : registrar.task[u].pc = "idle"
    /\ RegistrarStep([registrar EXCEPT !.task[t] = [pc |-> "approve", todo |-> chains, left |-> 0]])

\* check_fab_balance: a balance below the required stake is an error.
CheckFabBalance(t) ==
    /\ RegistrarAt(t, "approve")
    /\ RegistrarStep(NextChain(registrar, t))

\* approve_fab_tokens: any receipt will do; none, or a failed call, is an error.
ApproveFabTokens(t) ==
    /\ RegistrarAt(t, "approve")
    /\ \/ RegistrarStep([registrar EXCEPT !.task[t].pc = "lock", !.allowed = @ \cup {RegChain(t)}])
       \/ RegistrarStep([registrar EXCEPT !.task[t].pc = "lock"])   \* reverted
       \/ RegistrarStep(NextChain(registrar, t))

\* Mutant: the lock is taken only to insert the new status.
LockStatus_Late(t) ==
    /\ RegistrarAt(t, "lock") /\ registrar.lock = "free"
    /\ RegistrarStep([registrar EXCEPT !.task[t].pc = "send"])

\* register_on_chain takes the status map before it sends.
LockStatus(t) ==
    /\ RegistrarAt(t, "lock") /\ registrar.lock = "free"
    /\ RegistrarStep([registrar EXCEPT !.lock = t, !.task[t].pc = "send"])

\* The transaction leaves the node, or it does not.
SendRegistration(t) ==
    /\ RegistrarAt(t, "send")
    /\ \/ /\ Len(registrar.txs) < MaxTx
          /\ RegistrarStep([registrar EXCEPT !.task[t].pc = "answer",
                 !.txs = Append(@, [chain |-> RegChain(t), answer |-> "waiting", mined |-> "no",
                                    watched |-> "no"])])
       \/ RegistrarStep(NextChain([registrar EXCEPT !.lock = "free"], t))

\* The transaction this task sent: the lock keeps others from sending between.
SentBy(t) == CHOOSE i \in DOMAIN registrar.txs :
                 registrar.txs[i].chain = RegChain(t) /\ registrar.txs[i].answer = "waiting"

\* send_transaction returns: Pending is inserted; or the answer is lost and the
\* status stays.
SendAnswered(t) ==
    /\ RegistrarAt(t, "answer")
    /\ \/ RegistrarStep([registrar EXCEPT !.txs[SentBy(t)].answer = "ok", !.status[RegChain(t)] = "Pending",
                                          !.lock = "free", !.task[t].pc = "pricing", !.task[t].left = RgPricings])
       \/ RegistrarStep(NextChain([registrar EXCEPT !.txs[SentBy(t)].answer = "lost", !.lock = "free"], t))

\* set_model_token_pricing_on_chain for each model and token; errors are logged.
SetModelTokenPricing(t) ==
    /\ RegistrarAt(t, "pricing") /\ registrar.task[t].left > 0
    /\ \E sent \in {0, 1} :
          RegistrarStep([registrar EXCEPT !.task[t].left = @ - 1, !.priced[RegChain(t)] = @ + sent])

\* The task that looks for the receipt is spawned and register_on_chain returns.
SpawnConfirmation(t) ==
    /\ RegistrarAt(t, "pricing") /\ registrar.task[t].left = 0
    /\ \E i \in DOMAIN registrar.txs :
          /\ registrar.txs[i].chain = RegChain(t) /\ registrar.txs[i].answer = "ok" /\ registrar.txs[i].watched = "no"
          /\ RegistrarStep(NextChain([registrar EXCEPT !.txs[i].watched = "yes"], t))

\* External: a sent transaction is mined; the stake needs the allowance.
TxMined(i) ==
    /\ i \in DOMAIN registrar.txs /\ registrar.txs[i].mined = "no"
    /\ RegistrarStep([registrar EXCEPT !.txs[i].mined =
           IF registrar.txs[i].chain \in registrar.allowed THEN "ok" ELSE "reverted"])

\* Mutant: the look-up counts as the receipt.
ConfirmRegistration_NoReceipt(i) ==
    /\ i \in DOMAIN registrar.txs /\ registrar.txs[i].watched = "yes" /\ registrar.lock = "free"
    /\ RegistrarStep([registrar EXCEPT !.txs[i].watched = "done",
                                       !.status[registrar.txs[i].chain] = "Confirmed"])

\* Five seconds later the receipt is looked for once: there, also of a reverted
\* transaction, it confirms; not there, the status stays Pending.
ConfirmRegistration(i) ==
    /\ i \in DOMAIN registrar.txs /\ registrar.txs[i].watched = "yes"
    /\ \/ /\ registrar.txs[i].mined # "no" /\ registrar.lock = "free"
          /\ RegistrarStep([registrar EXCEPT !.txs[i].watched = "done",
                                             !.status[registrar.txs[i].chain] = "Confirmed"])
       \/ RegistrarStep([registrar EXCEPT !.txs[i].watched = "done"])

\* verify_registration_on_chain, which check_status of the command line prints
\* beside the status of a registrar of its own.
VerifiedOnChain(c) ==
    \E i \in DOMAIN registrar.txs : registrar.txs[i].chain = c /\ registrar.txs[i].mined = "ok"

RegistrarNext ==
    \/ \E t \in RgTasks :
          \/ \E c, d \in RgChains : RegisterOnChain(t, IF c = d THEN <<c>> ELSE <<c, d>>)
          \/ CheckFabBalance(t) \/ ApproveFabTokens(t) \/ LockStatus(t) \/ SendRegistration(t)
          \/ SendAnswered(t) \/ SetModelTokenPricing(t) \/ SpawnConfirmation(t)
    \/ \E i \in 1 .. MaxTx : TxMined(i) \/ ConfirmRegistration(i)

\* A reader of the status map (the monitor, a client) never sees NotRegistered
\* between the sending of a registration transaction and its answer, and never
\* sees Confirmed of a chain where nothing was mined: the map stays locked from
\* before the transaction is sent until Pending is in it.  Once the answer is lost
\* the map says NotRegistered, though the transaction may still be mined.
RegistrarStatusIsReal ==
    registrar.lock = "free" =>
        \A c \in RgChains :
            /\ registrar.status[c] = "NotRegistered" =>
                   \A i \in DOMAIN registrar.txs : registrar.txs[i].chain = c => registrar.txs[i].answer # "waiting"
            /\ registrar.status[c] = "Confirmed" =>
                   \E i \in DOMAIN registrar.txs : registrar.txs[i].chain = c /\ registrar.txs[i].mined # "no"

-----------------------------------------------------------------------------
(* RegistrationMonitor                                                     *)

MonitorStep(s) == rgPart = "monitor" /\ regmon' = s /\ UNCHANGED <<rgPart, registrar, regcache, regstats>>
MonitorAt(c, pc) == rgPart = "monitor" /\ c \in regmon.handle /\ regmon.pc[c] = pc

\* start_monitoring, start_chain_monitor: one loop for a chain.
StartChainMonitor(c) ==
    /\ c \notin regmon.handle
    /\ MonitorStep([regmon EXCEPT !.handle = @ \cup {c}, !.pc[c] = "tick"])

\* stop_monitoring aborts every loop where it waits, its read lock with it.
StopRegMonitoring ==
    /\ regmon.handle # {}
    /\ MonitorStep([regmon EXCEPT !.handle = {}, !.readers = {}])

\* check_health_internal: Pending and Confirmed are healthy unless the RPC of a
\* Confirmed one fails; the expiry is known for mocked registrations only.
CheckHealth(c) ==
    /\ MonitorAt(c, "tick") /\ regmon.checks[c] < MaxChecks
    /\ MonitorStep([regmon EXCEPT
           !.found[c] = [known |-> TRUE, healthy |-> c \in regmon.registered \ regmon.failing,
                         rpcFailure |-> c \in regmon.failing, expiry |-> regmon.expiries[c]],
           !.checks[c] = @ + 1, !.pc[c] = "compare"])

\* Mutant: the health is stored before the warnings go out.
CompareHealth_StoresFirst(c) ==
    /\ MonitorAt(c, "compare")
    /\ MonitorStep([regmon EXCEPT !.health[c] = regmon.found[c],
           !.expiring[c] = IF regmon.found[c].expiry \in 0 .. WarnBelow - 1 THEN @ + 1 ELSE @,
           !.pc[c] = "tick"])

\* The comparison with the last health: a healed RPC and a recovery each count.
CompareHealth(c) ==
    /\ MonitorAt(c, "compare")
    /\ LET old == regmon.health[c]
           new == regmon.found[c]
           healed == old.known /\ old.rpcFailure /\ ~new.rpcFailure
           recovered == old.known /\ ~old.healthy /\ new.healthy
       IN MonitorStep([regmon EXCEPT
              !.recoveries[c] = @ + (IF healed THEN 1 ELSE 0) + (IF recovered THEN 1 ELSE 0),
              !.readers = IF new.expiry # -1 THEN @ \cup {c} ELSE @,
              !.pc[c] = IF new.expiry # -1 THEN "warn" ELSE "store"])

\* Under the read lock of the configuration: the callbacks of an expiring
\* registration run and the warning is counted.
WarnExpiry(c) ==
    /\ MonitorAt(c, "warn")
    /\ MonitorStep([regmon EXCEPT !.warnings[c] = IF regmon.found[c].expiry < WarnBelow THEN @ + 1 ELSE @,
                                  !.pc[c] = "renew"])

\* Auto renewal: in mock mode counted, otherwise register_on_chain, which may
\* fail.  Then the lock of the configuration goes.
RenewRegistration(c) ==
    /\ MonitorAt(c, "renew")
    /\ \E done \in {0, 1} :
          /\ done = 1 => regmon.auto /\ regmon.found[c].expiry < RenewBelow
          /\ MonitorStep([regmon EXCEPT !.renewals[c] = @ + done, !.readers = @ \ {c}, !.pc[c] = "store"])

\* The health is stored last.
StoreHealth(c) ==
    /\ MonitorAt(c, "store")
    /\ MonitorStep([regmon EXCEPT !.health[c] = regmon.found[c], !.pc[c] = "tick",
           !.expiring[c] = IF regmon.found[c].expiry \in 0 .. WarnBelow - 1 THEN @ + 1 ELSE @])

\* update_config, enable_auto_renewal wait for the readers of the configuration.
EnableAutoRenewal ==
    /\ regmon.readers = {} /\ ~regmon.auto
    /\ MonitorStep([regmon EXCEPT !.auto = TRUE])

\* mock_expiring_registration; expiry times come nearer.
MockExpiring(c, e) == regmon.expiries[c] = -1 /\ MonitorStep([regmon EXCEPT !.expiries[c] = e])
ExpiryNears(c) == regmon.expiries[c] > 0 /\ MonitorStep([regmon EXCEPT !.expiries[c] = @ - 1])

\* simulate_rpc_failure.
SimulateRpcFailure(c) ==
    MonitorStep([regmon EXCEPT !.failing = IF c \in @ THEN @ \ {c} ELSE @ \cup {c}])

\* External: the registrar's status of the chain becomes Pending or Confirmed.
BecomesRegistered(c) ==
    /\ c \notin regmon.registered
    /\ MonitorStep([regmon EXCEPT !.registered = @ \cup {c}])

MonitorNext ==
    \/ StopRegMonitoring \/ EnableAutoRenewal
    \/ \E c \in RgChains :
          \/ StartChainMonitor(c) \/ CheckHealth(c) \/ CompareHealth(c) \/ WarnExpiry(c) \/ RenewRegistration(c)
          \/ StoreHealth(c) \/ ExpiryNears(c) \/ SimulateRpcFailure(c) \/ BecomesRegistered(c)
          \/ \E e \in 0 .. WarnBelow : MockExpiring(c, e)

\* Whoever reads from get_health that a registration expires soon was preceded
\* by a warning: each check warns before its result is stored, also across a
\* stop and a new start of the monitor.
ExpiryIsWarned == \A c \in RgChains : regmon.expiring[c] <= regmon.warnings[c]

-----------------------------------------------------------------------------
(* RegistryMonitor                                                         *)

RegistryStep(s) == rgPart = "registry" /\ regcache' = s /\ UNCHANGED <<rgPart, registrar, regmon, regstats>>
NodesIn(kind, i, k) == {regcache.log[j].node : j \in {x \in i .. k : regcache.log[x].kind = kind}}
LogNodes(kind) == NodesIn(kind, regcache.cursor + 1, regcache.to)

\* The registry after the events of the blocks before n.
RegisteredAt(n) ==
    {x \in RgNodes : \E i \in 1 .. n : /\ regcache.log[i] = [kind |-> "registered", node |-> x]
                                       /\ \A j \in i + 1 .. n : regcache.log[j] # [kind |-> "unregistered", node |-> x]}

\* External: the contract logs an event, in a block of its own.
RegistryLogs(kind, x) ==
    /\ Len(regcache.log) < MaxBlocks
    /\ kind = "registered" <=> x \notin RegisteredAt(Len(regcache.log))
    /\ RegistryStep([regcache EXCEPT !.log = Append(@, [kind |-> kind, node |-> x])])

\* start_monitoring from a block, unless a handle is there; stop_monitoring aborts.
\* Both take &mut self: no replay is under way.  A start may skip blocks.
StartRegistryMonitor(n) ==
    /\ regcache.pc = "off" /\ regcache.replay = "off" /\ n <= Len(regcache.log)
    /\ RegistryStep([regcache EXCEPT !.pc = "sleep", !.cursor = n, !.missed = @ \/ n > regcache.cursor])
StopRegistryMonitor ==
    /\ regcache.pc # "off" /\ regcache.replay = "off"
    /\ RegistryStep([regcache EXCEPT !.pc = "off"])

\* The loop wakes; without new blocks, or without an answer, it sleeps again.
PollRegistry ==
    /\ regcache.pc = "sleep" /\ regcache.cursor < Len(regcache.log)
    /\ RegistryStep([regcache EXCEPT !.to = Len(regcache.log), !.pc = "registered"])

\* The registered events of the range; a failed query counts as no events.
HandleRegistered ==
    /\ regcache.pc = "registered"
    /\ \/ RegistryStep([regcache EXCEPT !.cache = @ \cup LogNodes("registered"), !.pc = "updated"])
       \/ RegistryStep([regcache EXCEPT !.missed = TRUE, !.pc = "updated"])

\* The updates change cached nodes only.
HandleUpdated ==
    /\ regcache.pc = "updated"
    /\ RegistryStep([regcache EXCEPT !.pc = "unregistered"])

\* Mutant: the removals are read from the next range on.
HandleUnregistered_Shifted ==
    /\ regcache.pc = "unregistered"
    /\ RegistryStep([regcache EXCEPT !.cache = @ \ NodesIn("unregistered", regcache.cursor + 2, regcache.to),
                                     !.cursor = regcache.to, !.pc = "sleep"])

\* The unregistered events, whatever the order in the log; the range is done.
HandleUnregistered ==
    /\ regcache.pc = "unregistered"
    /\ \/ RegistryStep([regcache EXCEPT !.cache = @ \ LogNodes("unregistered"), !.cursor = regcache.to,
                                        !.replayed = @ \ LogNodes("unregistered"), !.pc = "sleep"])
       \/ RegistryStep([regcache EXCEPT !.missed = TRUE, !.cursor = regcache.to, !.pc = "sleep"])

\* replay_events over a range of blocks, beside the loop.
ReplayEvents(i, k) ==
    /\ regcache.replay = "off" /\ i \in 1 .. k /\ k <= Len(regcache.log)
    /\ RegistryStep([regcache EXCEPT !.replay = "registered", !.first = i, !.last = k])

\* Its three queries one after the other.
ReplayRegistered ==
    LET ns == NodesIn("registered", regcache.first, regcache.last)
    IN /\ regcache.replay = "registered"
       /\ RegistryStep([regcache EXCEPT !.cache = @ \cup ns, !.replayed = @ \cup ns, !.replay = "updated"])
ReplayUpdated == regcache.replay = "updated" /\ RegistryStep([regcache EXCEPT !.replay = "unregistered"])
ReplayUnregistered ==
    LET ns == NodesIn("unregistered", regcache.first, regcache.last)
    IN /\ regcache.replay = "unregistered"
       /\ RegistryStep([regcache EXCEPT !.cache = @ \ ns, !.replayed = @ \ ns, !.replay = "off", !.first = 0, !.last = 0])

\* A failed query returns its error; what the earlier ones did stays.
ReplayFails ==
    regcache.replay # "off" /\ RegistryStep([regcache EXCEPT !.replay = "off", !.first = 0, !.last = 0])

RegistryNext ==
    \/ \E kind \in {"registered", "updated", "unregistered"}, x \in RgNodes : RegistryLogs(kind, x)
    \/ StopRegistryMonitor \/ PollRegistry \/ HandleRegistered \/ HandleUpdated \/ HandleUnregistered
    \/ ReplayRegistered \/ ReplayUpdated \/ ReplayUnregistered \/ ReplayFails
    \/ \E n \in 0 .. MaxBlocks : StartRegistryMonitor(n)
    \/ \E i, k \in 1 .. MaxBlocks : ReplayEvents(i, k)

\* Between two rounds, if no query of the loop failed and no start skipped blocks,
\* the cache lists only nodes that the contract had registered at the end of the last
\* round or later, though a range's events are handled by kind and not in order.
\* Nodes that a replay put there are excepted: its range may end before they left,
\* and a query that fails ends it before the removals.
ListedIsRegistered ==
    regcache.pc = "sleep" /\ ~regcache.missed =>
        \A x \in regcache.cache \ regcache.replayed :
            \E n \in regcache.cursor .. Len(regcache.log) : x \in RegisteredAt(n)

-----------------------------------------------------------------------------
(* AggregatedMetrics: update_chain_metrics waits for a read lock of the    *)
(* map it holds the write lock of, so the first update never returns.      *)

UpdateChainMetrics(c) ==
    /\ rgPart = "metrics" /\ regstats.lock = "free"
    /\ regstats' = [lock |-> "held", chains |-> regstats.chains \cup {c}]
    /\ UNCHANGED <<rgPart, registrar, regmon, regcache>>

-----------------------------------------------------------------------------

\* The types of the registrar, the monitor and the registry's cache.
RgTypeOK == registrar \in RegistrarState /\ regmon \in MonitorState /\ regcache \in RegistryState

RgNext == RegistrarNext \/ MonitorNext \/ RegistryNext \/ \E c \in RgChains : UpdateChainMetrics(c)

RgSpec == RgInit /\ [][RgNext]_rgVars


=============================================================================
