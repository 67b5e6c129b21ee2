------------------------------- MODULE Claims -------------------------------
(***************************************************************************)
(* What is worth claiming and where the money goes: the choice of jobs, the *)
(* retries and the assignments of JobClaimer (job_claim.rs), the splitting, *)
(* the accumulator and the withdrawal of PaymentClaimer (payment_claim.rs)  *)
(* and PaymentDistributor (settlement/payment_distribution.rs).  The slots  *)
(* of claim_job are in JobPipeline.  A behaviour is about one of the three. *)
(***************************************************************************)
EXTENDS Integers, Sequences, FiniteSets, FiniteSetsExt, SequencesExt

CONSTANTS ClJobs,         \* job ids
          ClHosts,        \* host addresses
          ClTasks,        \* tasks of the payment claimer
          ClAmounts,      \* escrow balances, payments and deposits
          ClGas,          \* costs of a claim: gas times gas price
          MaxGasPrice,    \* max_gas_price of the payment claimer
          ClaimAttempts,  \* claim_retry_attempts
          MinPerToken,    \* min_payment_per_token
          MinClaim,       \* min_claim_amount, and the accumulation threshold
          HostPct,        \* host_earnings_percentage; the treasury has the rest
          MaxClOps        \* bound on the operations

ASSUME ClAssumption ==
    /\ IsFiniteSet(ClJobs) /\ IsFiniteSet(ClTasks) /\ IsFiniteSet(ClHosts)
    /\ ClAmounts \subseteq Nat /\ ClAmounts # {} /\ ClGas \subseteq Nat /\ ClaimAttempts \in Nat \ {0}
    /\ MaxGasPrice \in Nat /\ MinPerToken \in Nat /\ MinClaim \in Nat /\ HostPct \in 0 .. 100 /\ MaxClOps \in Nat

VARIABLES clPart, claimer, payer, distributor

clVars == <<clPart, claimer, payer, distributor>>

-----------------------------------------------------------------------------
(* JobClaimer.  job is what the marketplace offers; the gas price may change *)
(* and other nodes claim whenever an attempt waits for an answer (stage).   *)

AssignmentStatus == {"Pending", "Confirmed", "Reassigned", "Completed"}

JobRequest == [payment : ClAmounts, tokens : {0, 1, 2}, supported : BOOLEAN]

NoAssignment == [known |-> FALSE, host |-> "none", at |-> 0, status |-> "Pending", priority |-> FALSE]

ClaimerInit(offers) ==
    \E offer \in offers, gas \in ClGas :
        claimer = [job |-> offer, gas |-> gas, registered |-> TRUE, rival |-> FALSE, mine |-> FALSE,
                   stage |-> "idle", seen |-> gas, attempts |-> 0, outcome |-> "none", hosts |-> {}, ops |-> 0,
                   assigned |-> [j \in ClJobs |-> NoAssignment]]

\* validate_job, in its order of checks; a price per token in a precision of one.
ValidateJob(job) ==
    CASE ~job.supported -> "UnsupportedModel"
      [] job.supported /\ job.tokens = 0 -> "InvalidJob"
      [] OTHER -> IF job.payment \div job.tokens < MinPerToken THEN "BelowMinimumThreshold" ELSE "ok"

\* is_profitable: a tenth of the payment must be left.
IsProfitable(job, gas) == job.payment > gas + job.payment \div 10

\* get_claimable_jobs: the checks of try_claim_job but the node's registration.
IsClaimable(gas) == ~claimer.rival /\ ValidateJob(claimer.job) = "ok" /\ IsProfitable(claimer.job, gas)

FinalErrors == {"NodeNotRegistered", "JobNotFound", "JobAlreadyClaimed", "UnsupportedModel"}

\* Mutant: every error is retried until the attempts are used up.
RetryEnds_Never(result, attempts) == result = "ok" \/ attempts > ClaimAttempts

\* claim_job_with_retry: success, an error that stays, or the last attempt.
RetryEnds(result, attempts) == result = "ok" \/ result \in FinalErrors \/ attempts >= ClaimAttempts

\* An attempt fails: the next one begins, or claim_job_with_retry returns.
AttemptFails(result) ==
    claimer' = [claimer EXCEPT !.stage = "idle", !.attempts = @ + 1,
                    !.outcome = IF RetryEnds(result, claimer.attempts + 1) THEN result ELSE @]

\* try_claim_job asks the marketplace whether the node is registered, ...
CheckRegistered ==
    /\ claimer.outcome = "none" /\ claimer.stage = "idle"
    /\ IF claimer.registered THEN claimer' = [claimer EXCEPT !.stage = "job"]
       ELSE AttemptFails("NodeNotRegistered")

\* ... whether the job is claimed, which it then validates, ...
CheckOffer ==
    /\ claimer.stage = "job"
    /\ IF claimer.rival THEN AttemptFails("JobAlreadyClaimed")
       ELSE IF ValidateJob(claimer.job) # "ok" THEN AttemptFails(ValidateJob(claimer.job))
       ELSE claimer' = [claimer EXCEPT !.stage = "gas"]

\* ... and what the gas costs now, ...
CheckProfitable ==
    /\ claimer.stage = "gas"
    /\ IF IsProfitable(claimer.job, claimer.gas)
       THEN claimer' = [claimer EXCEPT !.stage = "claim", !.seen = claimer.gas]
       ELSE AttemptFails("Other")

\* ... and claims the job, which the marketplace refuses if another node was faster
\* (external), or for any other reason.
ClaimAtMarketplace ==
    /\ claimer.stage = "claim"
    /\ \/ AttemptFails("ContractError")
       \/ /\ ~claimer.rival
          /\ claimer' = [claimer EXCEPT !.stage = "idle", !.mine = TRUE, !.outcome = "ok"]

\* The marketplace, while the claimer waits.
MarketChanges ==
    /\ claimer.outcome = "none"
    /\ \/ claimer' = [claimer EXCEPT !.rival = TRUE]
       \/ claimer' = [claimer EXCEPT !.registered = FALSE]
       \/ \E g \in ClGas : claimer' = [claimer EXCEPT !.gas = g]

AssignStep(j, record) ==
    /\ claimer.ops < MaxClOps
    /\ claimer' = [claimer EXCEPT !.ops = @ + 1, !.assigned[j] = record]

RegistryChanges(h) ==
    /\ claimer.ops < MaxClOps
    /\ claimer' = [claimer EXCEPT !.hosts = SymDiff(@, {h}), !.ops = @ + 1]

\* assign_job_to_host (batch_assign_jobs, auto_assign_job): only a registered host.
AssignJobToHost(j, h) ==
    /\ h \in claimer.hosts
    /\ AssignStep(j, [known |-> TRUE, host |-> h, at |-> 10 + claimer.ops, status |-> "Confirmed",
                      priority |-> FALSE])

\* reassign_job: the registry is not asked.
ReassignJob(j, h) ==
    /\ claimer.assigned[j].known
    /\ AssignStep(j, [claimer.assigned[j] EXCEPT !.host = h, !.status = "Reassigned", !.at = 10 + claimer.ops])

\* update_assignment_status
UpdateAssignmentStatus(j, status) ==
    claimer.assigned[j].known /\ AssignStep(j, [claimer.assigned[j] EXCEPT !.status = status])

\* add_priority_job: the priority takes the place of the time, and an assignment is replaced.
AddPriorityJob(j, priority) ==
    AssignStep(j, [known |-> TRUE, host |-> "none", at |-> priority, status |-> "Pending", priority |-> TRUE])

PendingJobs == {j \in ClJobs : claimer.assigned[j].known /\ claimer.assigned[j].status = "Pending"}

\* process_priority_assignments (sort_by): the highest first.
ComesFirst(i, j) == claimer.assigned[i].at >= claimer.assigned[j].at

\* process_priority_assignments: the first of the pending go to the host.
ProcessPriorityAssignments(h, limit) ==
    /\ PendingJobs # {}
    /\ \E order \in SetToSeqs(PendingJobs) :
          /\ \A i, k \in 1 .. Len(order) : i < k => ComesFirst(order[i], order[k])
          /\ LET taken == {order[i] : i \in 1 .. IF limit < Len(order) THEN limit ELSE Len(order)}
             IN claimer' = [claimer EXCEPT
                    !.assigned = [j \in ClJobs |-> IF j \in taken
                                    THEN [claimer.assigned[j] EXCEPT !.host = h, !.status = "Confirmed"]
                                    ELSE claimer.assigned[j]]]

ClaimerNext == CheckRegistered \/ CheckOffer \/ CheckProfitable \/ ClaimAtMarketplace \/ MarketChanges

AssignNext ==
    \/ \E h \in ClHosts : RegistryChanges(h)
    \/ \E j \in ClJobs, h \in ClHosts :
          AssignJobToHost(j, h) \/ ReassignJob(j, h) \/ ProcessPriorityAssignments(h, 1)
    \/ \E j \in ClJobs : UpdateAssignmentStatus(j, "Pending") \/ UpdateAssignmentStatus(j, "Completed")
    \/ \E j \in ClJobs, p \in {1, 2} : AddPriorityJob(j, p)

-----------------------------------------------------------------------------
(* PaymentClaimer: tasks add to the accumulator and claim what it holds,    *)
(* each lock for itself.                                                    *)

\* calculate_splits: 85, 10 and 5 of a hundred, each rounded down.
CalculateSplits(amount) == [host |-> (amount * 8500) \div 10000, treasury |-> (amount * 1000) \div 10000,
                            stakers |-> (amount * 500) \div 10000]

PayerIdle == [pc |-> "idle", jobs |-> <<>>, amount |-> 0, clear |-> FALSE]

PayerInit(amounts) ==
    \E e \in [ClJobs -> amounts] :
        payer = [escrow |-> e, open |-> ClJobs, balance |-> 0, withdrawn |-> 0,
                 jobs |-> <<>>, amount |-> 0, stats |-> [paid |-> 0, earned |-> 0, largest |-> 0],
                 task |-> [t \in ClTasks |-> PayerIdle], gas |-> 0, ops |-> 0]

\* is_claim_profitable_internal
ClaimProfitable(share, gas) == gas <= MaxGasPrice /\ share > gas

\* claim_payment, claim_batch (a task each, as many as there are permits), claim_with_retry
ClaimPayments(t, j) ==
    /\ payer.task[t].pc = "idle" /\ payer.ops < MaxClOps
    /\ payer' = [payer EXCEPT !.ops = @ + 1, !.task[t] = [PayerIdle EXCEPT !.pc = "claim", !.jobs = <<j>>]]

\* add_to_accumulator: the job ...
AddToAccumulator(t, j) ==
    /\ payer.task[t].pc = "idle" /\ payer.ops < MaxClOps /\ j \in payer.open
    /\ payer' = [payer EXCEPT !.ops = @ + 1, !.jobs = Append(@, j),
                    !.task[t] = [PayerIdle EXCEPT !.pc = "amount", !.amount = CalculateSplits(payer.escrow[j]).host]]

\* ... and, under another lock, its amount.
AddAmount(t) ==
    /\ payer.task[t].pc = "amount"
    /\ payer' = [payer EXCEPT !.amount = @ + payer.task[t].amount, !.task[t] = PayerIdle]

\* claim_accumulated: a copy of the jobs, if the amount reaches the threshold, ...
ClaimAccumulated(t) ==
    /\ payer.task[t].pc = "idle" /\ payer.jobs # <<>> /\ payer.amount >= MinClaim
    /\ payer' = [payer EXCEPT !.task[t] =
                    [PayerIdle EXCEPT !.pc = "claim", !.jobs = payer.jobs, !.clear = TRUE]]

\* ... and claim_payment of one after the other: not payable, below the minimum or not
\* profitable at the gas price of the moment, the failure is only logged, ...
CheckPayment(t) ==
    LET u == payer.task[t]
        share == CalculateSplits(payer.escrow[Head(u.jobs)]).host
    IN /\ u.pc = "claim" /\ u.jobs # <<>>
       /\ \/ payer' = [payer EXCEPT !.task[t] = [u EXCEPT !.jobs = Tail(u.jobs)]]
          \/ /\ Head(u.jobs) \in payer.open /\ share >= MinClaim /\ ClaimProfitable(share, payer.gas)
             /\ payer' = [payer EXCEPT !.task[t] = [u EXCEPT !.pc = "pay"]]

\* Mutant: a claim the contract refuses is counted as well.
ClaimPayment_CountsRefused(t) ==
    LET u == payer.task[t]
        j == Head(u.jobs)
        share == CalculateSplits(payer.escrow[j]).host
    IN /\ u.pc = "pay"
       /\ payer' = [payer EXCEPT !.open = @ \ {j}, !.balance = @ + IF j \in payer.open THEN share ELSE 0,
                       !.task[t] = [u EXCEPT !.pc = "stats", !.amount = share]]

\* ... else the contract (external) pays the host's share and closes the escrow, or refuses:
\* at once if the escrow was closed meanwhile.
ClaimPayment(t) ==
    LET u == payer.task[t]
        j == Head(u.jobs)
        share == CalculateSplits(payer.escrow[j]).host
    IN /\ u.pc = "pay"
       /\ \/ payer' = [payer EXCEPT !.task[t] = [u EXCEPT !.pc = "claim", !.jobs = Tail(u.jobs)]]
          \/ /\ j \in payer.open
             /\ payer' = [payer EXCEPT !.open = @ \ {j}, !.balance = @ + share,
                             !.task[t] = [u EXCEPT !.pc = "stats", !.amount = share]]

\* update_statistics (track_payment_stats is set; without it the statistics stay empty)
UpdatePaymentStatistics(t) ==
    LET u == payer.task[t]
    IN /\ u.pc = "stats"
       /\ payer' = [payer EXCEPT !.task[t] = [u EXCEPT !.pc = "claim", !.jobs = Tail(u.jobs), !.amount = 0],
             !.stats = [paid |-> @.paid + 1, earned |-> @.earned + u.amount,
                        largest |-> IF u.amount > @.largest THEN u.amount ELSE @.largest]]

\* At the end the accumulated jobs are cleared, with whatever was added in the meantime, ...
ClearJobs(t) ==
    LET u == payer.task[t]
    IN /\ u.pc = "claim" /\ u.jobs = <<>>
       /\ payer' = IF u.clear THEN [payer EXCEPT !.jobs = <<>>, !.task[t] = [u EXCEPT !.pc = "clear"]]
                   ELSE [payer EXCEPT !.task[t] = PayerIdle]

\* ... then their amount.
ClearAmount(t) ==
    /\ payer.task[t].pc = "clear"
    /\ payer' = [payer EXCEPT !.amount = 0, !.task[t] = PayerIdle]

\* withdraw_earnings: the whole balance, in one transaction.
WithdrawEarnings ==
    /\ payer.balance >= MinClaim /\ payer.balance > 0
    /\ payer' = [payer EXCEPT !.withdrawn = @ + payer.balance, !.balance = 0]

GasChanges(g) == g # payer.gas /\ payer.ops < MaxClOps /\ payer' = [payer EXCEPT !.gas = g, !.ops = @ + 1]

PayerNext ==
    \/ WithdrawEarnings
    \/ \E g \in ClGas : GasChanges(g)
    \/ \E j \in ClJobs : \E t \in ClTasks : ClaimPayments(t, j) \/ AddToAccumulator(t, j)
    \/ \E t \in ClTasks : AddAmount(t) \/ ClaimAccumulated(t) \/ CheckPayment(t) \/ ClaimPayment(t)
                           \/ UpdatePaymentStatistics(t) \/ ClearJobs(t) \/ ClearAmount(t)

-----------------------------------------------------------------------------
(* PaymentDistributor, of one chain.                                       *)

DistributorInit ==
    distributor = [treasury |-> 0, earnings |-> [h \in ClHosts |-> 0], paidOut |-> 0, taken |-> 0,
                   records |-> <<>>, stats |-> [payments |-> 0, volume |-> 0, fees |-> 0]]

\* Mutant: the refund is of the deposit less the host's earnings.
CalculatePaymentSplit_OfEarnings(deposit, total) ==
    [total |-> total, host |-> (total * HostPct) \div 100, treasury |-> (total * (100 - HostPct)) \div 100,
     refund |-> IF deposit > total THEN deposit - (total * HostPct) \div 100 ELSE 0]

\* calculate_payment_split, calculate_refund: total is tokens times price, which the deposit need not cover.
CalculatePaymentSplit(deposit, total) ==
    [total |-> total, host |-> (total * HostPct) \div 100, treasury |-> (total * (100 - HostPct)) \div 100,
     refund |-> IF deposit > total THEN deposit - total ELSE 0]

\* verify_payment_split: refuses a split of which rounding took something.
VerifyPaymentSplit(s) ==
    /\ s.host + s.treasury = s.total
    /\ s.host = (s.total * HostPct) \div 100 /\ s.treasury = (s.total * (100 - HostPct)) \div 100

\* accumulate_treasury_fee
AccumulateTreasuryFee(d, amount) == [d EXCEPT !.treasury = @ + amount]

\* accumulate_host_earnings
AccumulateHostEarnings(d, h, amount) == [d EXCEPT !.earnings[h] = @ + amount]

\* record_payment
RecordPayment(d, amount, fees) ==
    [d EXCEPT !.stats = [payments |-> @.payments + 1, volume |-> @.volume + amount, fees |-> @.fees + fees]]

\* process_payment keeps a record of the split; its caller keeps the accounts.
ProcessPayment(h, deposit, total) ==
    LET s == CalculatePaymentSplit(deposit, total)
        kept == [distributor EXCEPT !.records = Append(@, [split |-> s, deposit |-> deposit])]
    IN /\ Len(distributor.records) < MaxClOps
       /\ distributor' = RecordPayment(AccumulateHostEarnings(AccumulateTreasuryFee(kept, s.treasury), h, s.host),
                                       s.total, s.treasury)

\* withdraw_treasury_fees
WithdrawTreasuryFees ==
    distributor' = [distributor EXCEPT !.treasury = 0, !.taken = @ + distributor.treasury]

\* withdraw_host_earnings
WithdrawHostEarnings(h) ==
    distributor' = [distributor EXCEPT !.earnings[h] = 0, !.paidOut = @ + distributor.earnings[h]]

DistributorNext ==
    \/ WithdrawTreasuryFees
    \/ \E h \in ClHosts : WithdrawHostEarnings(h)
                          \/ \E deposit, total \in ClAmounts : ProcessPayment(h, deposit, total)

-----------------------------------------------------------------------------

ClInit ==
    /\ clPart \in {"claim", "assign", "pay", "distribute"}
    /\ ClaimerInit(IF clPart = "claim" THEN JobRequest ELSE {CHOOSE r \in JobRequest : TRUE})
    /\ PayerInit(IF clPart = "pay" THEN ClAmounts ELSE {0})
    /\ DistributorInit

ClNext ==
    /\ UNCHANGED clPart
    /\ \/ clPart = "claim" /\ ClaimerNext /\ UNCHANGED <<payer, distributor>>
       \/ clPart = "assign" /\ AssignNext /\ UNCHANGED <<payer, distributor>>
       \/ clPart = "pay" /\ PayerNext /\ UNCHANGED <<claimer, distributor>>
       \/ clPart = "distribute" /\ DistributorNext /\ UNCHANGED <<claimer, payer>>

ClSpec == ClInit /\ [][ClNext]_clVars

-----------------------------------------------------------------------------

ClTypeOK ==
    /\ claimer.job \in JobRequest /\ claimer.attempts \in Nat
    /\ \A j \in ClJobs : claimer.assigned[j].status \in AssignmentStatus
    /\ payer.balance \in Nat /\ payer.amount \in Nat /\ distributor.treasury \in Nat

\* Whatever the marketplace does while an attempt waits, a job is claimed only on a price
\* of gas at which get_claimable_jobs lists it, read by the attempt that claims it, and never
\* from another node; and retrying ends after the configured attempts.  (The price may have
\* risen since: the code does not look again.)
ClaimIsWorthwhile == claimer.attempts <= ClaimAttempts /\ (claimer.mine => IsClaimable(claimer.seen))

\* Every amount that is split is paid out, kept or refunded, but for what rounding takes, at
\* most one unit a payment, and a deposit that covers the payment is used up exactly.
SplitsConserve ==
    /\ \A i \in DOMAIN distributor.records :
          LET r == distributor.records[i]
          IN /\ r.split.host + r.split.treasury \in {r.split.total - 1, r.split.total}
             /\ r.deposit >= r.split.total => r.split.total + r.split.refund = r.deposit
             /\ VerifyPaymentSplit(r.split) \/ r.split.host + r.split.treasury < r.split.total
    /\ distributor.treasury + distributor.taken = distributor.stats.fees
    /\ LET held == MapThenSumSet(LAMBDA h : distributor.earnings[h], ClHosts)
       IN held + distributor.paidOut + distributor.stats.fees
             \in distributor.stats.volume - distributor.stats.payments .. distributor.stats.volume

\* The payment a task is about to count.
AboutToCount == [t \in ClTasks |-> IF payer.task[t].pc = "stats" THEN payer.task[t].amount ELSE 0]

\* What the statistics of the payment claimer say was earned is what the contract paid, on
\* the balance or withdrawn, but for the claims that are about to be counted: also when claims
\* of one job and of the accumulator overlap, a payment is counted once.
EarnedIsPaid ==
    payer.stats.earned + MapThenSumSet(LAMBDA t : AboutToCount[t], ClTasks) = payer.balance + payer.withdrawn
=============================================================================
