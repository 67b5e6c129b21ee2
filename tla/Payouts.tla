------------------------------ MODULE Payouts ------------------------------
(***************************************************************************)
(* What the node pays out: withdrawals of the host, and the fees of jobs   *)
(* by role.  The two share no state.                                       *)
(***************************************************************************)
EXTENDS Integers, Sequences, FiniteSets, FiniteSetsExt

-----------------------------------------------------------------------------
(***************************************************************************)
(* WithdrawalManager (payments/withdrawal.rs): requests, concurrent and    *)
(* repeated executions, batches and cancellations, around a contract whose *)
(* calls may fail.  pending_withdrawals is not locked during those calls.  *)
(***************************************************************************)

CONSTANTS WTasks,       \* tasks that call the manager
          MaxRequestId, \* bound on the number of withdrawal requests
          MaxPending,   \* WithdrawalConfig.max_pending_withdrawals
          WBatch,       \* WithdrawalConfig.batch_size
          MaxWOps       \* bound on the operations of one task

ASSUME WAssumption ==
    /\ MaxRequestId \in Nat /\ MaxPending \in Nat \ {0} /\ WBatch \in Nat \ {0}
    /\ MaxWOps \in Nat

VARIABLES
    made,      \* requests the contract has given an id
    waiting,   \* pending_withdrawals, in the order of the ids: waiting[i] is the
               \* status of request i, or "out"
    history,   \* withdrawal_history, a sequence of [id, status]
    cooling,   \* the cooldown after the last execution is not over
    paid,      \* paid[i]: executions of request i the contract accepted
    wtask      \* wtask[t]: program counter and locals

wVars == <<made, waiting, history, cooling, paid, wtask>>

RequestIds == 1 .. MaxRequestId

WInit ==
    /\ made = 0 /\ waiting = [i \in RequestIds |-> "out"] /\ history = <<>> /\ cooling = FALSE
    /\ paid = [i \in RequestIds |-> 0]
    /\ wtask = [t \in WTasks |-> [pc |-> "out", id |-> 0, batch |-> {}, ops |-> 0]]

Listed == {i \in RequestIds : waiting[i] # "out"}
SetWithdrawalStatus(i, st) == [waiting EXCEPT ![i] = IF i \in Listed THEN st ELSE "out"]
WithoutRequest(i) == [waiting EXCEPT ![i] = "out"]
Record(i, st) == history' = Append(history, [id |-> i, status |-> st])

Begin(t, pc, i, batch) ==
    /\ wtask[t].pc = "out" /\ wtask[t].ops < MaxWOps
    /\ wtask' = [wtask EXCEPT ![t] = [pc |-> pc, id |-> i, batch |-> batch, ops |-> wtask[t].ops + 1]]

Continue(t, pc, i, batch) ==
    wtask' = [wtask EXCEPT ![t] = [pc |-> pc, id |-> i, batch |-> batch, ops |-> wtask[t].ops]]
Returns(t) == Continue(t, "out", 0, {})

\* request_withdrawal: an amount that is large enough and covered; the cooldown
\* and the number of pending requests are checked before the contract is called.
RequestWithdrawal(t) ==
    /\ ~cooling /\ Cardinality(Listed) < MaxPending
    /\ Begin(t, "request", 0, {})
    /\ UNCHANGED <<made, waiting, history, cooling, paid>>

RequestGranted(t) ==
    /\ wtask[t].pc = "request" /\ made < MaxRequestId
    /\ made' = made + 1
    /\ waiting' = [waiting EXCEPT ![made + 1] = "Pending"]
    /\ Returns(t)
    /\ UNCHANGED <<history, cooling, paid>>

RequestRefused(t) ==
    /\ wtask[t].pc = "request"
    /\ Returns(t)
    /\ UNCHANGED <<made, waiting, history, cooling, paid>>

\* execute_withdrawal: whatever its status, a request that is still pending is
\* marked Processing, the guard is dropped, and the contract is called.
ExecuteWithdrawal(t, i) ==
    /\ i \in Listed
    /\ Begin(t, "call", i, {})
    /\ waiting' = SetWithdrawalStatus(i, "Processing")
    /\ UNCHANGED <<made, history, cooling, paid>>

\* process_batch_withdrawals: the pending ids are collected under a read guard
\* and executed one after the other.
ProcessBatch(t) ==
    LET pending == {i \in RequestIds : waiting[i] = "Pending"}
    IN /\ pending # {}
       /\ Begin(t, "batch", 0, {i \in pending : Cardinality({j \in pending : j <= i}) <= WBatch})
       /\ UNCHANGED <<made, waiting, history, cooling, paid>>

WithdrawalBatchNext(t) ==
    LET batch == wtask[t].batch
        i == Min(batch)
    IN /\ wtask[t].pc = "batch"
       /\ \/ batch = {} /\ Returns(t) /\ UNCHANGED waiting
          \/ /\ batch # {} /\ i \notin Listed
             /\ Continue(t, "batch", 0, batch \ {i}) /\ UNCHANGED waiting
          \/ /\ batch # {} /\ i \in Listed
             /\ Continue(t, "call", i, batch \ {i}) /\ waiting' = SetWithdrawalStatus(i, "Processing")
       /\ UNCHANGED <<made, history, cooling, paid>>

Back(t) == Continue(t, "batch", 0, wtask[t].batch)

\* The contract executes a request (once), and the time of it is noted ...
ContractPays(t) ==
    /\ wtask[t].pc = "call" /\ paid[wtask[t].id] = 0
    /\ paid' = [paid EXCEPT ![wtask[t].id] = 1]
    /\ cooling' = TRUE
    /\ Continue(t, "paid", wtask[t].id, wtask[t].batch)
    /\ UNCHANGED <<made, waiting, history>>

\* ... before the request leaves the pending list.
ExecuteCompleted(t) ==
    /\ wtask[t].pc = "paid"
    /\ waiting' = WithoutRequest(wtask[t].id)
    /\ Record(wtask[t].id, "Completed")
    /\ Back(t)
    /\ UNCHANGED <<made, cooling, paid>>

\* The contract refuses: the request stays pending, marked Failed, if it is still
\* there.
ExecuteFailed(t) ==
    /\ wtask[t].pc = "call"
    /\ waiting' = SetWithdrawalStatus(wtask[t].id, "Failed")
    /\ Record(wtask[t].id, "Failed")
    /\ Back(t)
    /\ UNCHANGED <<made, cooling, paid>>

\* Mutant: a request that is being executed can be cancelled.
CancelWithdrawal_Any(t, i) ==
    /\ i \in Listed
    /\ Begin(t, "out", 0, {})
    /\ waiting' = WithoutRequest(i)
    /\ Record(i, "Cancelled")
    /\ UNCHANGED <<made, cooling, paid>>

\* cancel_withdrawal: only Pending ones, checked and removed under one guard.
CancelWithdrawal(t, i) ==
    /\ waiting[i] = "Pending"
    /\ Begin(t, "out", 0, {})
    /\ waiting' = WithoutRequest(i)
    /\ Record(i, "Cancelled")
    /\ UNCHANGED <<made, cooling, paid>>

CooldownEnds ==
    /\ cooling
    /\ cooling' = FALSE
    /\ UNCHANGED <<made, waiting, history, paid, wtask>>

WNext ==
    \/ CooldownEnds
    \/ \E t \in WTasks :
         \/ RequestWithdrawal(t) \/ RequestGranted(t) \/ RequestRefused(t)
         \/ ProcessBatch(t) \/ WithdrawalBatchNext(t)
         \/ ContractPays(t) \/ ExecuteCompleted(t) \/ ExecuteFailed(t)
         \/ \E i \in 1 .. made : ExecuteWithdrawal(t, i) \/ CancelWithdrawal(t, i)

WSpec == WInit /\ [][WNext]_wVars

-----------------------------------------------------------------------------

InHistory(i, st) == \E k \in 1 .. Len(history) : history[k] = [id |-> i, status |-> st]

\* A cancelled withdrawal is never paid, whatever executions and batches were
\* under way when it was cancelled (cancel_withdrawal against execute_withdrawal).
CancelledNeverPaid == \A i \in 1 .. made : InHistory(i, "Cancelled") => paid[i] = 0

-----------------------------------------------------------------------------
(***************************************************************************)
(* FeeDistributor (payments/fees.rs): a job's fee is divided between roles *)
(* in percentages held in a u8, credited to the registered recipients, and *)
(* paid in batches or one by one.  distribute_pending_fees and claim_fees  *)
(* hold the guard of pending_fees over the contract call.                  *)
(***************************************************************************)

CONSTANTS Addresses,       \* addresses of recipients and referrers
          Fees,            \* fees of jobs
          MarketplacePct, NetworkPct, ReferrerPct, BurnPct,  \* u8 percentages
          MinimumClaim,    \* minimum_claim_amount
          MaxFeeAllocations,  \* bound on the number of jobs
          MaxBurns            \* bound on the burns

NoAddress == "none"

\* Nothing in fees.rs checks the percentages: of more than 100 the shares exceed the fee,
\* and without a share beside the referrer's calculate_shares divides by zero.
ASSUME FeeAssumption ==
    /\ IsFiniteSet(Addresses) /\ Fees \subseteq Nat /\ MinimumClaim \in Nat
    /\ MaxFeeAllocations \in Nat /\ MaxBurns \in Nat
    /\ {MarketplacePct, NetworkPct, ReferrerPct, BurnPct} \subseteq 0 .. 100
    /\ MarketplacePct + NetworkPct + ReferrerPct + BurnPct <= 100
    /\ MarketplacePct + NetworkPct + BurnPct > 0 /\ NoAddress \notin Addresses

VARIABLES
    recipient,  \* recipient[role]: the registered address, or NoAddress
    owed,       \* pending_fees: owed[a]
    sent,       \* sent[a]: what the contract has paid to a
    allocated,  \* total_fee over the allocations
    toBurn,     \* burn_amount over the allocations, which are never removed
    burned,     \* what the contract has burned
    burns,      \* burns that succeeded
    kept,       \* shares of roles that had no recipient
    jobs        \* number of allocations

feeVars == <<recipient, owed, sent, allocated, toBurn, burned, burns, kept, jobs>>

Roles == {"marketplace", "network"}

FeeInit ==
    /\ recipient = [r \in Roles |-> NoAddress]
    /\ owed = [a \in Addresses |-> 0]
    /\ sent = [a \in Addresses |-> 0]
    /\ allocated = 0 /\ toBurn = 0 /\ burned = 0 /\ burns = 0 /\ kept = 0 /\ jobs = 0

Wrap8(n) == n % 256
Share(total, pct) == (total * pct) \div 100

\* The share of a role when the referrer's part is redistributed.  The product of
\* two percentages is a u8 and wraps (a debug build panics instead).
Redistributed(pct) ==
    Wrap8(pct + Wrap8(ReferrerPct * pct) \div Wrap8(MarketplacePct + NetworkPct + BurnPct))

\* Mutant: the remainder of the division is forgotten.
CalculateShares_Floor(total, referred) ==
    IF referred
    THEN [m |-> Share(total, MarketplacePct), n |-> Share(total, NetworkPct),
          r |-> Share(total, ReferrerPct), b |-> Share(total, BurnPct)]
    ELSE [m |-> Share(total, Redistributed(MarketplacePct)), r |-> 0,
          n |-> Share(total, Redistributed(NetworkPct)), b |-> Share(total, Redistributed(BurnPct))]

\* calculate_shares: rounded down, the remainder goes to the marketplace.
CalculateShares(total, referred) ==
    LET pct(p) == IF referred THEN p ELSE Redistributed(p)
        m == Share(total, pct(MarketplacePct))
        n == Share(total, pct(NetworkPct))
        r == IF referred THEN Share(total, ReferrerPct) ELSE 0
        b == Share(total, pct(BurnPct))
        sum == m + n + r + b
    IN [m |-> m + (IF sum < total THEN total - sum ELSE 0), n |-> n, r |-> r, b |-> b]

RegisterRecipient(role, a) ==
    /\ recipient[role] # a
    /\ recipient' = [recipient EXCEPT ![role] = a]
    /\ UNCHANGED <<owed, sent, allocated, toBurn, burned, burns, kept, jobs>>

Credit(a, to, amount) == IF a = to THEN amount ELSE 0
Kept(role, amount) == IF recipient[role] = NoAddress THEN amount ELSE 0

\* allocate_fee: a share whose role has no recipient is not credited to anyone.
AllocateFee(total, referrer) ==
    /\ jobs < MaxFeeAllocations
    /\ LET s == CalculateShares(total, referrer # NoAddress)
       IN /\ owed' = [a \in Addresses |-> owed[a]
                        + Credit(a, recipient["marketplace"], s.m)
                        + Credit(a, recipient["network"], s.n)
                        + Credit(a, referrer, s.r)]
          /\ toBurn' = toBurn + s.b
          /\ kept' = kept + Kept("marketplace", s.m) + Kept("network", s.n)
    /\ allocated' = allocated + total
    /\ jobs' = jobs + 1
    /\ UNCHANGED <<recipient, sent, burned, burns>>

Due == {a \in Addresses : owed[a] > 0 /\ owed[a] >= MinimumClaim}

\* burn_tokens of the burn amounts of all allocations so far, which are never removed:
\* each distribution burns them again.
Burn(succeeds) ==
    /\ burned' = IF succeeds THEN burned + toBurn ELSE burned
    /\ burns' = IF succeeds /\ toBurn > 0 THEN burns + 1 ELSE burns

\* Mutant: the batch stays pending when burning fails.
DistributePendingFees_KeepOnError ==
    /\ Due # {} \/ toBurn > 0
    /\ burns < MaxBurns
    /\ sent' = [a \in Addresses |-> IF a \in Due THEN sent[a] + owed[a] ELSE sent[a]]
    /\ \E succeeds \in BOOLEAN :
         /\ Burn(succeeds)
         /\ owed' = [a \in Addresses |-> IF a \in Due /\ succeeds THEN 0 ELSE owed[a]]
    /\ UNCHANGED <<recipient, allocated, toBurn, kept, jobs>>

\* distribute_pending_fees: those due are paid in one batch and removed (a batch
\* that fails changes nothing), then the tokens are burned; if that fails the call is
\* an error, but the batch has been paid and removed.
DistributePendingFees ==
    /\ Due # {} \/ toBurn > 0
    /\ burns < MaxBurns
    /\ sent' = [a \in Addresses |-> IF a \in Due THEN sent[a] + owed[a] ELSE sent[a]]
    /\ owed' = [a \in Addresses |-> IF a \in Due THEN 0 ELSE owed[a]]
    /\ \E succeeds \in BOOLEAN : Burn(succeeds)
    /\ UNCHANGED <<recipient, allocated, toBurn, kept, jobs>>

\* claim_fees of one recipient (a call that fails changes nothing).
ClaimFees(a) ==
    /\ a \in Due
    /\ sent' = [sent EXCEPT ![a] = @ + owed[a]]
    /\ owed' = [owed EXCEPT ![a] = 0]
    /\ UNCHANGED <<recipient, allocated, toBurn, burned, burns, kept, jobs>>

FeeNext ==
    \/ \E role \in Roles, a \in Addresses : RegisterRecipient(role, a)
    \/ \E total \in Fees, r \in Addresses \cup {NoAddress} : AllocateFee(total, r)
    \/ DistributePendingFees
    \/ \E a \in Addresses : ClaimFees(a)

FeeSpec == FeeInit /\ [][FeeNext]_feeVars

-----------------------------------------------------------------------------

FeeTotal(f) == MapThenSumSet(LAMBDA a : f[a], Addresses)

\* Every fee is accounted for, to the last unit and under any order of batches,
\* claims and changes of recipients: what was allocated is owed, sent, set aside
\* for burning, or was the share of a role nobody held.  The first burn is of no more
\* than was set aside; later ones burn the same amounts again, so nothing is said of
\* what they add up to.
FeesConserved ==
    /\ allocated = FeeTotal(owed) + FeeTotal(sent) + toBurn + kept
    /\ burns <= 1 => burned <= toBurn
=============================================================================
