------------------------------- MODULE MCNodeEconomy -------------------------------
(***************************************************************************)
(* The components around jobs, money, the chain, peers and models, each on *)
(* a small instance of its own; as in MCNodeServices a behaviour is one of *)
(* the component in `focus'.                                               *)
(***************************************************************************)
EXTENDS Settlement, Payouts, Claims, JobPipeline, P2PNode,
        HostManagement, Registrars, ChainClients, ModelStore, PrivateModels,
        Ezkl, ProofSubmission, SettlementRecords

\* Two sessions whose names are not numbers, and one whose name is 7.
SettleIdOf == [s \in {"s1", "s2", "s7"} |-> IF s = "s7" THEN 7 ELSE 0]

VARIABLE focus   \* the component a behaviour is about

sumVars == <<focus, settleVars, wVars, feeVars, clVars, pipeVars, p2pVars,
             hostVars, rgVars, ccVars, msVars, updater, pmVars,
             ezVars, subVars, recVars>>

\* A component that is not in focus stays in one initial state of its own.
SumInit ==
    /\ focus \in {"settlement", "withdrawals", "fees", "claims", "jobs", "p2p",
                 "host", "registrars", "chain", "files", "updates", "private",
                 "proofs", "submission", "records"}
    /\ SettleInit /\ (focus = "settlement" \/ (auto /\ manager))
    /\ WInit
    /\ FeeInit
    /\ ClInit /\ (focus = "claims" \/ (clPart = "assign" /\ claimer.gas = 0))
    /\ PipeInit
    /\ P2pInit
    /\ HostInit /\ (focus = "host" \/ (hostPart = "reg"))
    /\ RgInit /\ (focus = "registrars" \/ (rgPart = "metrics"))
    /\ CcInit /\ (focus = "chain" \/ (ccPart = "web3"))
    /\ MsInit /\ (focus = "files" \/ (msPart = "files"))
    /\ UpdInit
    /\ PmSpecInit /\ (focus = "private" \/ (pmPart = "limits"))
    /\ EzInit /\ (focus = "proofs" \/ (ezPart = "batch"))
    /\ SubInit
    /\ RecInit /\ (focus = "records" \/ (recPart = "revenue"))

\* The steps of the component in focus.
SumNext ==
    \/ /\ focus = "settlement" /\ SettleNext
       /\ UNCHANGED <<focus, wVars, feeVars, clVars, pipeVars, p2pVars, hostVars, rgVars, ccVars,
                      msVars, updater, pmVars, ezVars, subVars, recVars>>
    \/ /\ focus = "withdrawals" /\ WNext
       /\ UNCHANGED <<focus, settleVars, feeVars, clVars, pipeVars, p2pVars, hostVars, rgVars, ccVars,
                      msVars, updater, pmVars, ezVars, subVars, recVars>>
    \/ /\ focus = "fees" /\ FeeNext
       /\ UNCHANGED <<focus, settleVars, wVars, clVars, pipeVars, p2pVars, hostVars, rgVars, ccVars,
                      msVars, updater, pmVars, ezVars, subVars, recVars>>
    \/ /\ focus = "claims" /\ ClNext
       /\ UNCHANGED <<focus, settleVars, wVars, feeVars, pipeVars, p2pVars, hostVars, rgVars, ccVars,
                      msVars, updater, pmVars, ezVars, subVars, recVars>>
    \/ /\ focus = "jobs" /\ PipeNext
       /\ UNCHANGED <<focus, settleVars, wVars, feeVars, clVars, p2pVars, hostVars, rgVars, ccVars,
                      msVars, updater, pmVars, ezVars, subVars, recVars>>
    \/ /\ focus = "p2p" /\ P2pNext
       /\ UNCHANGED <<focus, settleVars, wVars, feeVars, clVars, pipeVars, hostVars, rgVars, ccVars,
                      msVars, updater, pmVars, ezVars, subVars, recVars>>
    \/ /\ focus = "host" /\ HostNext
       /\ UNCHANGED <<focus, settleVars, wVars, feeVars, clVars, pipeVars, p2pVars, rgVars, ccVars,
                      msVars, updater, pmVars, ezVars, subVars, recVars>>
    \/ /\ focus = "registrars" /\ RgNext
       /\ UNCHANGED <<focus, settleVars, wVars, feeVars, clVars, pipeVars, p2pVars, hostVars, ccVars,
                      msVars, updater, pmVars, ezVars, subVars, recVars>>
    \/ /\ focus = "chain" /\ CcNext
       /\ UNCHANGED <<focus, settleVars, wVars, feeVars, clVars, pipeVars, p2pVars, hostVars, rgVars,
                      msVars, updater, pmVars, ezVars, subVars, recVars>>
    \/ /\ focus = "files" /\ MsNext
       /\ UNCHANGED <<focus, settleVars, wVars, feeVars, clVars, pipeVars, p2pVars, hostVars, rgVars,
                      ccVars, updater, pmVars, ezVars, subVars, recVars>>
    \/ /\ focus = "updates" /\ UpdNext
       /\ UNCHANGED <<focus, settleVars, wVars, feeVars, clVars, pipeVars, p2pVars, hostVars, rgVars,
                      ccVars, msVars, pmVars, ezVars, subVars, recVars>>
    \/ /\ focus = "private" /\ PmNext
       /\ UNCHANGED <<focus, settleVars, wVars, feeVars, clVars, pipeVars, p2pVars, hostVars, rgVars,
                      ccVars, msVars, updater, ezVars, subVars, recVars>>
    \/ /\ focus = "proofs" /\ EzNext
       /\ UNCHANGED <<focus, settleVars, wVars, feeVars, clVars, pipeVars, p2pVars, hostVars, rgVars,
                      ccVars, msVars, updater, pmVars, subVars, recVars>>
    \/ /\ focus = "submission" /\ SubNext
       /\ UNCHANGED <<focus, settleVars, wVars, feeVars, clVars, pipeVars, p2pVars, hostVars, rgVars,
                      ccVars, msVars, updater, pmVars, ezVars, recVars>>
    \/ /\ focus = "records" /\ RecNext
       /\ UNCHANGED <<focus, settleVars, wVars, feeVars, clVars, pipeVars, p2pVars, hostVars, rgVars,
                      ccVars, msVars, updater, pmVars, ezVars, subVars>>

-----------------------------------------------------------------------------
\* Workers and the task of the peer-to-peer node are spawned tasks that the runtime
\* polls as long as they can go on.
SumFairness ==
    /\ \A w \in Workers : WF_pipeVars(focus = "jobs" /\ WorkerStep(w))
    /\ WF_p2pVars(focus = "p2p" /\ TakeEvent)
    /\ \A c \in P2pCallers : SF_p2pVars(focus = "p2p" /\ ServeCall(c))

SumSpec == SumInit /\ [][SumNext]_sumVars /\ SumFairness

-----------------------------------------------------------------------------

\* The types of the claims, the updater, the private models, the proofs, the clients of
\* the chain and the registrars.
EconomyTypes ==
    /\ focus = "claims" => ClTypeOK
    /\ focus = "updates" => UpdTypeOK
    /\ focus = "private" => PmTypeOK
    /\ focus = "proofs" => EzTypeOK
    /\ focus = "submission" => SubTypeOK
    /\ focus = "registrars" => RgTypeOK
    /\ focus = "chain" => CcTypeOK
    /\ focus = "files" => MsTypeOK

\* No unit is made or lost: fees and their shares add up (the first burn included; later
\* ones repeat it, see FeesConserved), splits add up to the payment,
\* what a host is told it earned was paid, a withdrawal that was cancelled is never
\* paid, no claim is made below its cost, and revenue and confirmed payments are those
\* of the jobs and the chain (fees.rs, payment_distribution.rs, payment_claim.rs,
\* withdrawals.rs, job_claim.rs, revenue.rs, tracker.rs).
MoneyConserved ==
    /\ focus = "fees" => FeesConserved
    /\ focus = "claims" => SplitsConserve /\ EarnedIsPaid /\ ClaimIsWorthwhile
    /\ focus = "withdrawals" => CancelledNeverPaid
    /\ focus = "records" => RevenueAddsUp /\ ConfirmedIsComplete

\* Through failing claims, inferences, uploads and submissions of several workers, the
\* slots in use are the jobs that hold one, and a job whose result was submitted has
\* its output stored (job_processor.rs, job_claim.rs, availability.rs, results/storage.rs).
JobsKept ==
    /\ focus = "jobs" => SlotsMatchClaims /\ ResultIsStored
    /\ focus = "host" => SlotsAddUp
    /\ focus = "records" => NamedResultIsStored

\* What the node believes of registrations follows the chain: no status without its
\* transaction, no expiry without its warning, no node listed after it left, no healthy
\* node that is not registered.
RegistrationsAgree ==
    /\ focus = "registrars" => RegistrarStatusIsReal /\ ExpiryIsWarned /\ ListedIsRegistered
    /\ focus = "host" => HealthyIsRegistered

\* Between a node that restarts its loops, switches networks and retries and a chain
\* that grows, no event of a job is passed over, a confirmed transaction is as deep as
\* asked, retries are bounded, and a proof the chain names is stored.
ChainViewKept ==
    /\ focus = "chain" => NoJobEventSkipped /\ Web3Consistent /\ SubmitsBounded
    /\ focus = "submission" => NamedProofIsStored

\* Nothing is used before its check, or after it was withdrawn: models at start-up and
\* on disk, keys, proofs (also those a payment is released for), updates and their backups,
\* private models, consent, download slots and the cheapest model.
CheckedBeforeUse ==
    /\ focus = "files" => StartupIsChecked /\ VerifiedWasMatched /\ DownloadSlotsKept /\ CheapestIsFound
    /\ focus = "chain" => ValidatedIsApproved
    /\ focus = "proofs" => CachedKeyIsValid /\ AcceptedIsOfTheWitness /\ BatchAccounted /\ VerificationsCounted /\ ProofsCanBeEvicted
    /\ focus = "updates" => BackedUpFirst /\ NoDowngrade
    /\ focus = "private" => DeletedIsInaccessible /\ RequestsPerMinute /\ WithdrawnIsRefused
    /\ focus = "p2p" => PeersNotLeaked
    /\ focus = "records" => ReleasedIsProven
=============================================================================
