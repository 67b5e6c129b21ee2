------------------------- MODULE SettlementRecords -------------------------
(***************************************************************************)
(* What settlement goes by: the packaged results (results/storage.rs), the *)
(* proofs and results that are validated before a payment is released      *)
(* (settlement/validator.rs, storage/proof_store.rs, results/proofs.rs),   *)
(* the payments seen on the chain (payments/tracker.rs) and the revenue of *)
(* jobs (payments/revenue.rs).  A behaviour is about one of them.          *)
(***************************************************************************)
EXTENDS Integers, Sequences, FiniteSets, FiniteSetsExt, Bags

CONSTANTS RecJobs,        \* jobs
          RecTasks,       \* tasks that call
          Outputs,        \* contents of results, here also their CIDs and hashes
          ProofSizes,     \* sizes of proofs
          Depth,          \* confirmation_blocks
          RecAmounts,     \* amounts of payments and jobs
          MarketFee,      \* marketplace_fee_percent
          NetworkFee,     \* network_fee_fixed
          BonusPct,       \* bonus_percent
          PenaltyPct,     \* penalty_percent
          MaxRecOps,      \* bound on the calls
          MaxRecBlocks    \* bound on the blocks

ASSUME RecAssumption ==
    /\ ProofSizes \subseteq Nat /\ RecAmounts \subseteq Nat \ {0} /\ Depth \in Nat
    /\ {MarketFee, NetworkFee, BonusPct, PenaltyPct, MaxRecOps, MaxRecBlocks} \subseteq Nat
    /\ IsFiniteSet(RecJobs) /\ IsFiniteSet(RecTasks) /\ "none" \notin RecTasks \cup RecJobs \cup Outputs

VARIABLES recPart,  \* the part this behaviour is about
          packed,   \* S5StorageClient: storage by path and by CID, metadata by job, the lock of storage
          valid,    \* SettlementValidator with its stores and metrics
          paidLog,  \* PaymentTracker and the chain
          revenue   \* RevenueCalculator

recVars == <<recPart, packed, valid, paidLog, revenue>>

NoOutput == "none"
NoProof == [of |-> NoOutput, size |-> 0]
ValIdle == [pc |-> "idle", job |-> NoOutput, proof |-> NoProof, result |-> NoOutput]

RecInit ==
    /\ recPart \in {"results", "validation", "payments", "revenue"}
    /\ packed = [path |-> [j \in RecJobs |-> NoOutput], cids |-> {}, meta |-> [j \in RecJobs |-> NoOutput],
                 lock |-> NoOutput, task |-> [t \in RecTasks |-> [pc |-> "idle", job |-> NoOutput, out |-> NoOutput]],
                 ops |-> 0]
    /\ valid = [proofs |-> [j \in RecJobs |-> NoProof], results |-> [j \in RecJobs |-> NoOutput],
                bytes |-> 0, total |-> 0, passed |-> 0, failed |-> 0, ops |-> 0,
                task |-> [t \in RecTasks |-> ValIdle]]
    /\ paidLog = [head |-> 0, chain |-> {}, events |-> EmptyBag, asked |-> [t \in RecTasks |-> -1], upto |-> 0, ops |-> 0]
    /\ revenue = [history |-> <<>>, byJob |-> [j \in RecJobs |-> 0], late |-> [t \in RecTasks |-> <<>>]]

-----------------------------------------------------------------------------
(* S5StorageClient: the lock of the data is held until the metadata are    *)
(* written, which have a lock of their own.                                *)

PackStep(s) == recPart = "results" /\ packed' = s /\ UNCHANGED <<recPart, valid, paidLog, revenue>>
PackOp(t) == packed.task[t].pc = "idle" /\ packed.lock = NoOutput /\ packed.ops < MaxRecOps

\* Mutant: the data are unlocked when they are written.
DataLock_Released(t) == NoOutput
DataLock(t) == t

StoreData(t, j, o) ==
    /\ PackOp(t)
    /\ PackStep([packed EXCEPT !.path[j] = o, !.cids = @ \cup {o}, !.lock = DataLock(t), !.ops = @ + 1,
                               !.task[t] = [pc |-> "meta", job |-> j, out |-> o]])
StoreMetadata(t) ==
    /\ packed.task[t].pc = "meta"
    /\ PackStep([packed EXCEPT !.meta[packed.task[t].job] = packed.task[t].out, !.lock = NoOutput,
                               !.task[t] = [pc |-> "idle", job |-> NoOutput, out |-> NoOutput]])

\* delete_result removes the data at the path of the job, and leaves them under their CID.
DeleteData(t, j) ==
    /\ PackOp(t)
    /\ PackStep([packed EXCEPT !.path[j] = NoOutput, !.lock = DataLock(t), !.ops = @ + 1,
                               !.task[t] = [pc |-> "unlist", job |-> j, out |-> NoOutput]])
DeleteMetadata(t) ==
    /\ packed.task[t].pc = "unlist"
    /\ PackStep([packed EXCEPT !.meta[packed.task[t].job] = NoOutput, !.lock = NoOutput,
                               !.task[t] = [pc |-> "idle", job |-> NoOutput, out |-> NoOutput]])

PackNext ==
    \E t \in RecTasks :
        \/ StoreMetadata(t) \/ DeleteMetadata(t)
        \/ \E j \in RecJobs : DeleteData(t, j) \/ \E o \in Outputs : StoreData(t, j, o)

-----------------------------------------------------------------------------
(* SettlementValidator                                                     *)

ValStep(s) == recPart = "validation" /\ valid' = s /\ UNCHANGED <<recPart, packed, paidLog, revenue>>
ValOp(s) == valid.ops < MaxRecOps /\ ValStep([s EXCEPT !.ops = @ + 1])
ValAt(t, pc) == valid.task[t].pc = pc

\* generate_proof and store_proof: the size of a proof that is replaced stays in the total.
StoreProofOf(j, o, n) ==
    ValOp([valid EXCEPT !.proofs[j] = [of |-> o, size |-> n], !.bytes = @ + n])
\* ResultStore::store_result, a call of its own.
StoreResultOf(j, o) == ValOp([valid EXCEPT !.results[j] = o])

ValidateBegins(t, j) ==
    /\ ValAt(t, "idle")
    /\ ValOp([valid EXCEPT !.total = @ + 1, !.task[t] = [ValIdle EXCEPT !.pc = "proof", !.job = j]])

ValidationFailed(t) == [valid EXCEPT !.failed = @ + 1, !.task[t] = [ValIdle EXCEPT !.pc = "refused"]]

RetrieveProof(t) ==
    LET p == valid.proofs[valid.task[t].job]
    IN /\ ValAt(t, "proof")
       /\ ValStep(IF p = NoProof THEN ValidationFailed(t)
                  ELSE [valid EXCEPT !.task[t].proof = p, !.task[t].pc = "result"])
RetrieveResult(t) ==
    LET r == valid.results[valid.task[t].job]
    IN /\ ValAt(t, "result")
       /\ ValStep(IF r = NoOutput THEN ValidationFailed(t)
                  ELSE [valid EXCEPT !.task[t].result = r, !.task[t].pc = "verify"])

\* Mutant: a proof that is there is taken for the proof of the result.
ProofHolds_Present(p, r) == p # NoProof

\* ProofGenerator::verify_proof: the hashes, then the form of the proof.
ProofHolds(p, r) == p.of = r

\* The verifier may fail for a proof whose hashes match.
VerifyAndCount(t, works) ==
    /\ ValAt(t, "verify")
    /\ ValStep(IF works /\ ProofHolds(valid.task[t].proof, valid.task[t].result)
               THEN [valid EXCEPT !.passed = @ + 1, !.task[t].pc = "released"]
               ELSE ValidationFailed(t))
ValidationOver(t) ==
    /\ ValAt(t, "released") \/ ValAt(t, "refused")
    /\ ValStep([valid EXCEPT !.task[t] = ValIdle])

\* cleanup_job: the proof, then the result; the total never falls below zero.
RemoveProofOf(t, j) ==
    /\ ValAt(t, "idle")
    /\ ValOp([valid EXCEPT !.proofs[j] = NoProof, !.task[t] = [ValIdle EXCEPT !.pc = "cleanup", !.job = j],
                           !.bytes = IF @ < valid.proofs[j].size THEN 0 ELSE @ - valid.proofs[j].size])
RemoveResultOf(t) ==
    /\ ValAt(t, "cleanup")
    /\ ValStep([valid EXCEPT !.results[valid.task[t].job] = NoOutput, !.task[t] = ValIdle])
ClearProofStore == ValOp([valid EXCEPT !.proofs = [j \in RecJobs |-> NoProof], !.bytes = 0])

ValNext ==
    \/ ClearProofStore
    \/ \E j \in RecJobs, o \in Outputs : StoreResultOf(j, o) \/ \E n \in ProofSizes : StoreProofOf(j, o, n)
    \/ \E t \in RecTasks :
          \/ RetrieveProof(t) \/ RetrieveResult(t) \/ RemoveResultOf(t) \/ ValidationOver(t)
          \/ \E works \in BOOLEAN : VerifyAndCount(t, works)
          \/ \E j \in RecJobs : ValidateBegins(t, j) \/ RemoveProofOf(t, j)

-----------------------------------------------------------------------------
(* PaymentTracker                                                          *)

PayLogStep(s) == recPart = "payments" /\ paidLog' = s /\ UNCHANGED <<recPart, packed, valid, revenue>>

\* External: a block with a payment of some job, to this node or to another.
PaymentBlock(j, a, mine) ==
    /\ paidLog.head < MaxRecBlocks
    /\ PayLogStep([paidLog EXCEPT !.head = @ + 1,
                     !.chain = @ \cup {[job |-> j, amount |-> a, block |-> paidLog.head + 1, mine |-> mine]}])

\* track_payments asks for the blocks up to the current one and awaits the answer.
TrackBegins(t) ==
    /\ paidLog.asked[t] = -1 /\ paidLog.ops < MaxRecOps
    /\ PayLogStep([paidLog EXCEPT !.asked[t] = paidLog.head, !.ops = @ + 1])

MatchesFilter(e, mine, least) == (mine => e.mine) /\ e.amount >= least

\* Mutant: the range of a tracking ends before the current block, not with it.
InRange_Open(t, e) == e.block < paidLog.asked[t]
InRange(t, e) == e.block <= paidLog.asked[t]

\* The events that match are added to the list, also those that are in it already.
\* upto is for the property: the last block some tracking without a least amount has
\* reached.
TrackPayments(t, mine, least) ==
    /\ paidLog.asked[t] >= 0
    /\ LET found == {e \in paidLog.chain : InRange(t, e) /\ MatchesFilter(e, mine, least)}
       IN PayLogStep([paidLog EXCEPT !.asked[t] = -1, !.events = @ (+) SetToBag(found),
                        !.upto = IF least = 0 /\ paidLog.asked[t] > @ THEN paidLog.asked[t] ELSE @])

\* The task of start_monitoring adds the events to this node as they come.
MonitorPayment(e) ==
    /\ e \in paidLog.chain /\ e.mine /\ paidLog.ops < MaxRecOps
    /\ PayLogStep([paidLog EXCEPT !.events = @ (+) SetToBag({e}), !.ops = @ + 1])

Confirmed(e) == paidLog.head >= e.block + Depth
ConfirmedPayments == {e \in BagToSet(paidLog.events) : Confirmed(e)}

PayLogNext ==
    \/ \E j \in RecJobs, a \in RecAmounts, mine \in BOOLEAN : PaymentBlock(j, a, mine)
    \/ \E e \in paidLog.chain : MonitorPayment(e)
    \/ \E t \in RecTasks : TrackBegins(t)
          \/ \E mine \in BOOLEAN, least \in {0} \cup RecAmounts : TrackPayments(t, mine, least)

-----------------------------------------------------------------------------
(* RevenueCalculator                                                       *)

RevStep(s) == recPart = "revenue" /\ revenue' = s /\ UNCHANGED <<recPart, packed, valid, paidLog>>

PercentOf(amount, pct) == (amount * pct) \div 100

\* Mutant: the fees are compared with the amount alone.
NetAmount_BeforeBonus(gross, bonus, fees) == IF fees > gross THEN 0 ELSE gross + bonus - fees
NetAmount(gross, bonus, fees) == IF fees > gross + bonus THEN 0 ELSE gross + bonus - fees

\* calculate_revenue: a bonus for many tokens, a penalty for a slow inference.
CalculateRevenue(gross, many, slow) ==
    LET bonus == IF many THEN PercentOf(gross, BonusPct) ELSE 0
        penalty == IF slow THEN PercentOf(gross, PenaltyPct) ELSE 0
        market == PercentOf(gross, MarketFee)
    IN [gross |-> gross, bonus |-> bonus, fees |-> market + NetworkFee + penalty,
        net |-> NetAmount(gross, bonus, market + NetworkFee + penalty)]

\* record_revenue writes the history, and then the revenue of the job.
RecordRevenue(t, j, r) ==
    /\ Len(revenue.history) < MaxRecOps /\ revenue.late[t] = <<>>
    /\ RevStep([revenue EXCEPT !.history = Append(@, r), !.late[t] = <<j, r.net>>])
RecordByJob(t) ==
    /\ revenue.late[t] # <<>>
    /\ RevStep([revenue EXCEPT !.byJob[revenue.late[t][1]] = revenue.late[t][2], !.late[t] = <<>>])

RevNext ==
    \E t \in RecTasks :
        \/ RecordByJob(t)
        \/ \E j \in RecJobs, a \in RecAmounts, many, slow \in BOOLEAN :
              RecordRevenue(t, j, CalculateRevenue(a, many, slow))

-----------------------------------------------------------------------------

RecNext == PackNext \/ ValNext \/ PayLogNext \/ RevNext
RecSpec == RecInit /\ [][RecNext]_recVars

\* Whenever nobody is at it, what the metadata name as the result of a job is the one
\* at its path and under its CID, however stores and deletions of the job overlap.
NamedResultIsStored ==
    packed.lock = NoOutput =>
        \A j \in RecJobs : packed.meta[j] # NoOutput => packed.path[j] = packed.meta[j] /\ packed.meta[j] \in packed.cids

ProofBytes == [j \in RecJobs |-> valid.proofs[j].size]

\* A payment is released only for a proof of the very result that was read, whatever is
\* stored, replaced and cleaned up between the two reads; every validation is counted
\* once; and the total size covers the proofs.
ReleasedIsProven ==
    /\ \A t \in RecTasks : ValAt(t, "released") => valid.task[t].proof.of = valid.task[t].result
    /\ valid.total = valid.passed + valid.failed
                   + Cardinality({t \in RecTasks : valid.task[t].pc \in {"proof", "result", "verify"}})
    /\ MapThenSumSet(LAMBDA j : ProofBytes[j], RecJobs) <= valid.bytes

\* However trackings with different filters and the monitor overlap, the confirmed
\* payments include every payment to this node that a tracking has reached and that is
\* deep enough, and no payment the chain does not hold at that depth.
ConfirmedIsComplete ==
    LET deep == {e \in paidLog.chain : Confirmed(e)}
    IN {e \in deep : e.mine /\ e.block <= paidLog.upto} \subseteq ConfirmedPayments /\ ConfirmedPayments \subseteq deep

NetOf == [i \in DOMAIN revenue.history |-> revenue.history[i].net]

\* Nothing is lost between a job's pay, its bonus and its fees, and a job earns nothing
\* only if the fees eat up both; the revenue by job is never more than the history.
RevenueAddsUp ==
    /\ \A i \in DOMAIN revenue.history : LET r == revenue.history[i] IN
          /\ r.net > 0 => r.net + r.fees = r.gross + r.bonus
          /\ r.net = 0 => r.fees >= r.gross + r.bonus
    /\ MapThenSumSet(LAMBDA j : revenue.byJob[j], RecJobs)
          <= MapThenSumSet(LAMBDA i : NetOf[i], DOMAIN revenue.history)
=============================================================================
