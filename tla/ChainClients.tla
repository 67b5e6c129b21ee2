----------------------------- MODULE ChainClients -----------------------------
(***************************************************************************)
(* The clients of the chain: Web3Client with its wallet, its wait for a    *)
(* receipt and its block stream (contracts/client.rs), the job monitor     *)
(* (contracts/monitor.rs), the proof submitter (contracts/proofs.rs), the  *)
(* check of models against the registry (contracts/model_registry.rs), and *)
(* the providers of several chains (config/provider.rs).                   *)
(***************************************************************************)
EXTENDS Integers, Sequences, FiniteSets

CONSTANTS CcChains,       \* chain ids
          CcFiles,        \* names of model files
          CcHashes,       \* contents of model files
          Confirmations,  \* confirmations
          MaxReceipts,    \* max_attempts of wait_for_confirmation
          ReceiptErrors,  \* the attempt from which an error ends the wait
          MaxSubmits,     \* max_resubmission_attempts
          EventBuffer,    \* event_buffer_size
          RetryLimit,     \* retries of execute_with_retry
          MaxCcBlocks,    \* bound on the blocks
          MaxJobBlocks,   \* bound on the blocks the job monitor reads
          MaxCcOps        \* bound on the operations of a part

ASSUME CcAssumption ==
    /\ CcChains # {} /\ Confirmations \in Nat \ {0} /\ MaxReceipts \in Nat \ {0} /\ ReceiptErrors \in Nat \ {0}
    /\ MaxSubmits \in Nat \ {0} /\ EventBuffer \in Nat \ {0} /\ RetryLimit \in Nat \ {0}
    /\ MaxCcBlocks \in Nat /\ MaxJobBlocks \in Nat /\ MaxCcOps \in Nat

VARIABLES ccPart,    \* the part a behaviour is about
          web3,      \* Web3Client
          jobmon,    \* JobMonitor
          submits,   \* ProofSubmitter
          approvals, \* ModelRegistryClient
          rpcs       \* MultiChainProvider

ccVars == <<ccPart, web3, jobmon, submits, approvals, rpcs>>

Web3State ==
    [chain : CcChains, endpoint : Nat, wallet : [chain : CcChains \cup {"none"}, endpoint : Nat], head : Nat,
     wait : [pc : {"idle", "poll", "depth", "ok", "failed"}, block : Nat, attempts : Nat],
     stream : [pc : {"off", "poll", "send"}, last : Nat, next : Nat, current : Nat], blocks : Seq(Nat), ops : Nat]

\* The loops of a monitor: a start spawns one, a stop tells all of them to end.
\* sent tells what became of the event of a block: taken by the channel, or refused
\* because the receiver was gone.
JobMonitorState ==
    [running : BOOLEAN, last : Nat, head : Nat, events : SUBSET Nat, sent : [1 .. MaxJobBlocks -> {"no", "taken", "refused"}],
     gone : BOOLEAN, buffered : Nat, errors : Nat,
     loop : [{"l1", "l2"} -> [pc : {"none", "idle", "send"}, from : Nat, to : Nat]], ops : Nat]

SubmitState == [attempts : Nat, retries : Nat, done : Nat, pc : {"idle", "submit", "failed"}, ops : Nat]

\* An approved model of the registry, a file on disk.
ApprovedModel == [file : CcFiles, hash : CcHashes]
ApprovalState == [models : Seq(ApprovedModel), disk : [CcFiles -> CcHashes \cup {"absent"}],
                  verdict : {"none", "ok", "error"}, ids : SUBSET Nat, checked : SUBSET CcFiles]

ProviderEntry == [health : {"healthy", "degraded", "unhealthy"}, primary : BOOLEAN]
ProviderState == [entry : [CcChains -> ProviderEntry], backup : SUBSET CcChains, failover : BOOLEAN,
                  requests : Nat, retries : 0 .. RetryLimit, index : Nat, ops : Nat]

CcInit ==
    /\ ccPart \in {"web3", "jobs", "proofs", "models", "providers"}
    /\ LET c == CHOOSE x \in CcChains : TRUE IN
          web3 = [chain |-> c, endpoint |-> 0, wallet |-> [chain |-> "none", endpoint |-> 0], head |-> 0,
                  wait |-> [pc |-> "idle", block |-> 0, attempts |-> 0],
                  stream |-> [pc |-> "off", last |-> 0, next |-> 0, current |-> 0], blocks |-> <<>>, ops |-> 0]
    /\ jobmon = [running |-> FALSE, last |-> 0, head |-> 0, events |-> {}, sent |-> [b \in 1 .. MaxJobBlocks |-> "no"],
                 gone |-> FALSE, buffered |-> 0, errors |-> 0,
                 loop |-> [l \in {"l1", "l2"} |-> [pc |-> "none", from |-> 0, to |-> 0]], ops |-> 0]
    /\ submits = [attempts |-> 0, retries |-> 0, done |-> 0, pc |-> "idle", ops |-> 0]
    /\ IF ccPart = "models"
       THEN \E n \in 1 .. 2 : \E ms \in [1 .. n -> ApprovedModel], d \in [CcFiles -> CcHashes \cup {"absent"}] :
               approvals = [models |-> ms, disk |-> d, verdict |-> "none", ids |-> {}, checked |-> {}]
       ELSE approvals = [models |-> <<>>, disk |-> [f \in CcFiles |-> "absent"], verdict |-> "none", ids |-> {}, checked |-> {}]
    /\ \E b \in IF ccPart = "providers" THEN SUBSET CcChains ELSE {{}}, on \in BOOLEAN :
          /\ ccPart # "providers" => ~on
          /\ rpcs = [entry |-> [c \in CcChains |-> [health |-> "healthy", primary |-> TRUE]], backup |-> b,
                     failover |-> on, requests |-> 0, retries |-> 0, index |-> 0, ops |-> 0]

-----------------------------------------------------------------------------
(* Web3Client.  What takes &mut self runs alone.                           *)

Web3Step(s) == ccPart = "web3" /\ web3' = s /\ UNCHANGED <<ccPart, jobmon, submits, approvals, rpcs>>
Web3Op(s) == web3.ops < MaxCcOps /\ Web3Step([s EXCEPT !.ops = @ + 1])

\* set_wallet: a signer for the client's chain over its provider.
SetWallet == Web3Op([web3 EXCEPT !.wallet = [chain |-> web3.chain, endpoint |-> web3.endpoint]])

\* update_rpc_url: a new provider; the signer keeps the old one.
UpdateRpcUrl == Web3Op([web3 EXCEPT !.endpoint = @ + 1])

\* Mutant: the wallet survives the switch.
SwitchNetwork_KeepWallet(c) ==
    Web3Op([web3 EXCEPT !.chain = c, !.endpoint = @ + 1])

\* switch_network: a new provider and no wallet.
SwitchNetwork(c) ==
    Web3Op([web3 EXCEPT !.chain = c, !.endpoint = @ + 1, !.wallet.chain = "none"])

\* External: the chain grows.
Web3Block == web3.head < MaxCcBlocks /\ Web3Step([web3 EXCEPT !.head = @ + 1])

\* send_transaction needs a wallet; its transaction is mined in the next block
\* or never (block 0).
SendTransaction ==
    /\ web3.wallet.chain # "none" /\ web3.wait.pc = "idle"
    /\ \E mined \in BOOLEAN :
          Web3Op([web3 EXCEPT !.wait = [pc |-> "poll", block |-> IF mined THEN web3.head + 1 ELSE 0,
                                        attempts |-> 0]])

\* wait_for_confirmation asks for the receipt: found, not found, or an error;
\* one counter bounds both kinds of failure.
PollReceipt ==
    LET w == web3.wait
        n == w.attempts + 1
        found == w.block # 0 /\ w.block <= web3.head
    IN /\ w.pc = "poll"
       /\ \/ found /\ Web3Step([web3 EXCEPT !.wait.pc = IF Confirmations > 1 THEN "depth" ELSE "ok"])
          \/ ~found /\ Web3Step([web3 EXCEPT !.wait.attempts = n,
                                             !.wait.pc = IF n >= MaxReceipts THEN "failed" ELSE "poll"])
          \/ Web3Step([web3 EXCEPT !.wait.attempts = n, !.wait.pc = IF n >= ReceiptErrors THEN "failed" ELSE "poll"])

\* Mutant: the block of the transaction counts as its first confirmation.
Deep_Inclusive == web3.head - web3.wait.block + 1 >= Confirmations

\* The confirmations of a receipt.
Deep == web3.head - web3.wait.block >= Confirmations

\* The inner loop has no bound; an error of the block number ends the wait.
PollDepth ==
    /\ web3.wait.pc = "depth"
    /\ \/ Deep /\ Web3Step([web3 EXCEPT !.wait.pc = "ok"])
       \/ Web3Step([web3 EXCEPT !.wait.pc = "failed"])

\* subscribe_blocks: a stream from block 1 on.
SubscribeBlocks ==
    /\ web3.stream.pc = "off"
    /\ Web3Op([web3 EXCEPT !.stream = [pc |-> "poll", last |-> 0, next |-> 0, current |-> 0]])
StreamPolls ==
    /\ web3.stream.pc = "poll" /\ web3.head > web3.stream.last
    /\ Web3Step([web3 EXCEPT !.stream = [@ EXCEPT !.pc = "send", !.current = web3.head,
                                                  !.next = web3.stream.last + 1]])

\* Mutant: the last block is the head seen after the sending.
StreamSends_Restart ==
    LET s == web3.stream
    IN /\ s.pc = "send"
       /\ Web3Step([web3 EXCEPT !.blocks = Append(@, s.next),
              !.stream = IF s.next = s.current THEN [s EXCEPT !.pc = "poll", !.last = s.current - 1]
                         ELSE [s EXCEPT !.next = @ + 1]])

\* Each block of the range is fetched and sent; one that cannot be fetched is
\* passed over for good.
StreamSends ==
    LET s == web3.stream
        rest == IF s.next = s.current THEN [s EXCEPT !.pc = "poll", !.last = s.current] ELSE [s EXCEPT !.next = @ + 1]
    IN /\ s.pc = "send"
       /\ \/ Web3Step([web3 EXCEPT !.blocks = Append(@, s.next), !.stream = rest])
          \/ Web3Step([web3 EXCEPT !.stream = rest])

Web3Next ==
    \/ SetWallet \/ UpdateRpcUrl \/ Web3Block \/ SendTransaction \/ PollReceipt \/ PollDepth
    \/ SubscribeBlocks \/ StreamPolls \/ StreamSends
    \/ \E c \in CcChains : SwitchNetwork(c)

\* The wallet signs for the chain of the client, whatever order switch_network
\* and set_wallet come in; a wait that returned a receipt saw it as deep as
\* configured; and the block stream delivers no block twice or out of order.
Web3Consistent ==
    /\ web3.wallet.chain \in {"none", web3.chain}
    /\ web3.wait.pc = "ok" /\ Confirmations > 1 => web3.head >= web3.wait.block + Confirmations
    /\ \A i, j \in DOMAIN web3.blocks : i < j => web3.blocks[i] < web3.blocks[j]

-----------------------------------------------------------------------------
(* JobMonitor                                                              *)

JobMonStep(s) == ccPart = "jobs" /\ jobmon' = s /\ UNCHANGED <<ccPart, web3, submits, approvals, rpcs>>

\* A loop waits for room in the channel and holds the read lock of the sender.
SendWaits(l) ==
    /\ jobmon.loop[l].pc = "send" /\ jobmon.loop[l].from <= jobmon.loop[l].to
    /\ jobmon.loop[l].from \in jobmon.events /\ jobmon.buffered = EventBuffer /\ ~jobmon.gone

\* start: a new channel and a new loop, also while an old loop still runs.
JobMonStart(l) ==
    /\ jobmon.loop[l].pc = "none" /\ jobmon.ops < MaxCcOps
    /\ \A m \in {"l1", "l2"} : ~SendWaits(m)
    /\ JobMonStep([jobmon EXCEPT !.running = TRUE, !.gone = FALSE, !.buffered = 0, !.loop[l].pc = "idle", !.ops = @ + 1])

\* stop: the loops end when they next look.
JobMonStop == jobmon.running /\ JobMonStep([jobmon EXCEPT !.running = FALSE])
LoopEnds(l) ==
    /\ jobmon.loop[l].pc = "idle" /\ ~jobmon.running
    /\ JobMonStep([jobmon EXCEPT !.loop[l].pc = "none"])

\* External: a block, with or without a job event; the receiver takes an event.
JobBlock ==
    /\ jobmon.head < MaxJobBlocks
    /\ \E event \in BOOLEAN :
          JobMonStep([jobmon EXCEPT !.head = @ + 1,
                                    !.events = IF event THEN @ \cup {jobmon.head + 1} ELSE @])
JobReceived == jobmon.buffered > 0 /\ JobMonStep([jobmon EXCEPT !.buffered = @ - 1])

\* External: the receiver is dropped, with what is in the channel.
DropJobReceiver == ~jobmon.gone /\ JobMonStep([jobmon EXCEPT !.gone = TRUE, !.buffered = 0])

\* Mutant: the range is marked processed before its events are sent.
ProcessEvents_MarksFirst(l) ==
    /\ jobmon.loop[l].pc = "idle" /\ jobmon.running /\ jobmon.head > jobmon.last
    /\ JobMonStep([jobmon EXCEPT !.loop[l] = [pc |-> "send", from |-> jobmon.last + 1, to |-> jobmon.head],
                                 !.last = jobmon.head])

\* process_events reads the head and the last block, then the logs between.
ProcessEvents(l) ==
    /\ jobmon.loop[l].pc = "idle" /\ jobmon.running /\ jobmon.head > jobmon.last
    /\ JobMonStep([jobmon EXCEPT !.loop[l] = [pc |-> "send", from |-> jobmon.last + 1, to |-> jobmon.head]])

\* A failed call, a simulated error: counted, and tried again with the next tick.
ProcessFails(l) ==
    /\ jobmon.loop[l].pc # "none" /\ jobmon.errors < MaxCcOps
    /\ JobMonStep([jobmon EXCEPT !.loop[l].pc = "idle", !.errors = @ + 1])

\* The next event goes into the channel, when there is room.  Without a receiver
\* the send fails, which is ignored.
SendEvent(l) ==
    LET m == jobmon.loop[l]
    IN /\ m.pc = "send" /\ m.from <= m.to
       /\ \/ /\ m.from \in jobmon.events /\ ~jobmon.gone /\ jobmon.buffered < EventBuffer
             /\ JobMonStep([jobmon EXCEPT !.sent[m.from] = "taken", !.buffered = @ + 1, !.loop[l].from = @ + 1])
          \/ /\ m.from \in jobmon.events /\ jobmon.gone
             /\ JobMonStep([jobmon EXCEPT !.sent[m.from] = IF @ = "no" THEN "refused" ELSE @, !.loop[l].from = @ + 1])
          \/ /\ m.from \notin jobmon.events
             /\ JobMonStep([jobmon EXCEPT !.loop[l].from = @ + 1])

\* The whole range is processed; another loop may have got further.
RangeDone(l) ==
    LET m == jobmon.loop[l]
    IN /\ m.pc = "send" /\ m.from > m.to
       /\ JobMonStep([jobmon EXCEPT !.last = m.to, !.loop[l].pc = "idle"])

JobMonNext ==
    \/ JobMonStop \/ JobBlock \/ JobReceived \/ DropJobReceiver
    \/ \E l \in {"l1", "l2"} :
          JobMonStart(l) \/ LoopEnds(l) \/ ProcessEvents(l) \/ ProcessFails(l) \/ SendEvent(l) \/ RangeDone(l)

\* Every job event up to last_processed_block has been sent: neither an error in
\* the middle of a range nor a second loop, started before the first has ended, lets
\* the checkpoint skip one.  What a send gives is not looked at: an event that the
\* channel refuses because its receiver is gone is lost, and the checkpoint passes it.
NoJobEventSkipped == \A b \in jobmon.events : b <= jobmon.last => jobmon.sent[b] # "no"

-----------------------------------------------------------------------------
(* ProofSubmitter: submit_proof_with_retry.                                *)

SubmitStep(s) == ccPart = "proofs" /\ submits' = s /\ UNCHANGED <<ccPart, web3, jobmon, approvals, rpcs>>
SubmitBegins ==
    /\ submits.pc # "submit" /\ submits.ops < MaxCcOps
    /\ SubmitStep([submits EXCEPT !.pc = "submit", !.attempts = 0, !.ops = @ + 1])
SubmitOk ==
    /\ submits.pc = "submit"
    /\ SubmitStep([submits EXCEPT !.pc = "idle", !.done = @ + 1])

\* Mutant: the last attempt is not counted.
SubmitError_OneMore ==
    /\ submits.pc = "submit"
    /\ SubmitStep([submits EXCEPT !.attempts = @ + 1, !.retries = @ + 1,
                                  !.pc = IF submits.attempts >= MaxSubmits THEN "failed" ELSE "submit"])

\* submit_proof fails; retry_count counts it, also the last one.
SubmitError ==
    /\ submits.pc = "submit"
    /\ SubmitStep([submits EXCEPT !.attempts = @ + 1, !.retries = @ + 1,
                                  !.pc = IF submits.attempts + 1 >= MaxSubmits THEN "failed" ELSE "submit"])

\* The number of failed submissions is within what the configuration allows the
\* calls that were made.
SubmitsBounded == submits.retries <= MaxSubmits * submits.ops

-----------------------------------------------------------------------------
(* ModelRegistryClient                                                     *)

\* The map of validate_models_for_registration from file names to models: with
\* two models of one name the later one stays.
FilenameMap(f) == LET is == {i \in DOMAIN approvals.models : approvals.models[i].file = f}
                  IN IF is = {} THEN 0 ELSE CHOOSE i \in is : \A j \in is : j <= i

\* Mutant: the hash of the file is not compared.
PathValid_NoHash(f) == FilenameMap(f) # 0

\* One path: registered, and if the file is there of the registered contents
\* (verify_model_hash).
PathValid(f) ==
    /\ FilenameMap(f) # 0
    /\ approvals.disk[f] \in {"absent", approvals.models[FilenameMap(f)].hash}

\* validate_models_for_registration: all paths or an error.
ValidateModels(fs) ==
    /\ ccPart = "models" /\ approvals.verdict = "none"
    /\ approvals' = [approvals EXCEPT !.checked = fs,
           !.verdict = IF \A f \in fs : PathValid(f) THEN "ok" ELSE "error",
           !.ids = IF \A f \in fs : PathValid(f) THEN {FilenameMap(f) : f \in fs} ELSE {}]
    /\ UNCHANGED <<ccPart, web3, jobmon, submits, rpcs>>

\* A list of ids that is returned names, for every file that is on disk, a model
\* of the registry with that name and these contents.
ValidatedIsApproved ==
    approvals.verdict = "ok" =>
        \A f \in approvals.checked :
            \E i \in approvals.ids : /\ approvals.models[i].file = f
                                        /\ approvals.disk[f] \in {"absent", approvals.models[i].hash}

-----------------------------------------------------------------------------
(* MultiChainProvider                                                      *)

RpcStep(s) == ccPart = "providers" /\ rpcs' = s /\ UNCHANGED <<ccPart, web3, jobmon, submits, approvals>>
RpcOp(s) == rpcs.ops < MaxCcOps /\ RpcStep([s EXCEPT !.ops = @ + 1])

\* check_provider_health: what the block number call gives within its timeout.
CheckProviderHealth(c) ==
    \E h \in {"healthy", "degraded", "unhealthy"} : RpcOp([rpcs EXCEPT !.entry[c].health = h])

\* trigger_failover_if_needed checks, then puts the backup in place for good.
TriggerFailover(c) ==
    /\ rpcs.failover
    /\ \/ \E h \in {"healthy", "degraded"} : RpcOp([rpcs EXCEPT !.entry[c].health = h])
       \/ RpcOp([rpcs EXCEPT !.entry[c] =
              IF c \in rpcs.backup THEN [health |-> "healthy", primary |-> FALSE]
              ELSE [@ EXCEPT !.health = "unhealthy"]])

\* get_provider_with_rotation counts; the provider it returns is always the same.
GetProviderWithRotation == RpcOp([rpcs EXCEPT !.requests = @ + 1, !.index = 1 - @])

\* execute_with_retry: an attempt fails or times out.
ExecuteWithRetry ==
    /\ rpcs.retries = 0
    /\ RpcOp([rpcs EXCEPT !.requests = @ + 1, !.retries = RetryLimit])
RetryFails == rpcs.retries > 0 /\ RpcStep([rpcs EXCEPT !.retries = @ - 1])
RetryOk == rpcs.retries > 0 /\ RpcStep([rpcs EXCEPT !.retries = 0])

ProviderNext ==
    \/ \E c \in CcChains : CheckProviderHealth(c) \/ TriggerFailover(c)
    \/ GetProviderWithRotation \/ ExecuteWithRetry \/ RetryFails \/ RetryOk

-----------------------------------------------------------------------------

\* The types of the clients.
CcTypeOK ==
    /\ web3 \in Web3State /\ jobmon \in JobMonitorState /\ submits \in SubmitState
    /\ approvals \in ApprovalState /\ rpcs \in ProviderState

CcNext ==
    \/ Web3Next \/ JobMonNext \/ SubmitBegins \/ SubmitOk \/ SubmitError \/ ProviderNext
    \/ \E fs \in SUBSET CcFiles : fs # {} /\ ValidateModels(fs)

CcSpec == CcInit /\ [][CcNext]_ccVars

=============================================================================
