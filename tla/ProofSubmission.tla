---------------------------- MODULE ProofSubmission ----------------------------
(***************************************************************************)
(* What a submission of CheckpointManager hands on (contracts/             *)
(* checkpoint_manager.rs): the proof is generated, uploaded to S5, cached  *)
(* and named by hash and CID in a transaction.  submit_checkpoint_async    *)
(* returns once the transaction is sent and only logs its receipt;         *)
(* submit_checkpoint, which nothing calls, waits for it.  The metering     *)
(* around the submissions is the module CheckpointManager.                 *)
(***************************************************************************)
EXTENDS Integers, FiniteSets

CONSTANTS SubJobs,     \* jobs
          SubTasks,    \* submissions under way
          SubTtl,      \* ttl of the proof cache (3600 s)
          MaxProofs,   \* bound on the proofs generated
          MaxSubNow    \* bound on the clock

ASSUME SubAssumption == SubTtl \in Nat /\ MaxProofs \in Nat /\ MaxSubNow \in Nat

VARIABLES subTask,    \* subTask[t]: the submission a task runs
          proofCount, \* proofs generated so far; a proof is its number
          uploaded,   \* proofs S5 returned a CID for
          proofPath,  \* proofPath[j]: what home/proofs/job_<j>_proof.bin holds
          subCache,   \* ProofSubmissionCache: the entries of each job, each of a proof of its own
          txs,        \* the transactions the chain was given
          subNow      \* the clock

subVars == <<subTask, proofCount, uploaded, proofPath, subCache, txs, subNow>>

Proofs == 0 .. MaxProofs   \* 0: none
SubTaskIdle == [pc |-> "idle", job |-> "none", waits |-> FALSE, proof |-> 0, cid |-> 0, result |-> "none"]
SubTaskType ==
    [pc : {"idle", "upload", "query", "cache", "send", "receipt", "done"}, job : SubJobs \cup {"none"},
     waits : BOOLEAN, proof : Proofs, cid : Proofs, result : {"none", "ok", "late", "error"}]

\* The call submitProofOfWork is given: the job, the hash of the proof and its CID.
CheckpointCall(j, proof, cid) == [job |-> j, hash |-> proof, cid |-> cid]
Txs == [call : [job : SubJobs, hash : Proofs, cid : Proofs], status : {"pending", "mined", "reverted"}, by : SubTasks]

SubTypeOK ==
    /\ subTask \in [SubTasks -> SubTaskType] /\ proofCount \in Proofs /\ uploaded \subseteq Proofs
    /\ proofPath \in [SubJobs -> Proofs] /\ txs \subseteq Txs /\ subNow \in 0 .. MaxSubNow
    /\ subCache \in [SubJobs -> SUBSET [hash : Proofs, cid : Proofs, at : 0 .. MaxSubNow]]

SubInit ==
    /\ subTask = [t \in SubTasks |-> SubTaskIdle] /\ proofCount = 0 /\ uploaded = {}
    /\ proofPath = [j \in SubJobs |-> 0] /\ subCache = [j \in SubJobs |-> {}] /\ txs = {} /\ subNow = 0

SubAt(t, pc) == subTask[t].pc = pc
SubGo(t, pc) == subTask' = [subTask EXCEPT ![t].pc = pc]
SubReturns(t, result) == subTask' = [subTask EXCEPT ![t] = [@ EXCEPT !.pc = "done", !.result = result]]

\* generate_proof, generate_proof_static, and the hash of the proof; an error of the
\* prover ends the submission before anything is stored.
GenerateProof(t, j, waits) ==
    /\ SubAt(t, "idle") /\ proofCount < MaxProofs
    /\ proofCount' = proofCount + 1
    /\ subTask' = [subTask EXCEPT ![t] = [SubTaskIdle EXCEPT !.pc = "upload", !.job = j, !.waits = waits,
                                                             !.proof = proofCount + 1]]
    /\ UNCHANGED <<uploaded, proofPath, subCache, txs, subNow>>

\* Mutant: an upload that fails is logged and the submission goes on.
UploadProof_Logged(t, ok) ==
    /\ SubAt(t, "upload")
    /\ uploaded' = IF ok THEN uploaded \cup {subTask[t].proof} ELSE uploaded
    /\ proofPath' = IF ok THEN [proofPath EXCEPT ![subTask[t].job] = subTask[t].proof] ELSE proofPath
    /\ subTask' = [subTask EXCEPT ![t] = [@ EXCEPT !.pc = "query", !.cid = subTask[t].proof]]
    /\ UNCHANGED <<proofCount, subCache, txs, subNow>>

\* upload_proof_to_s5, upload_proof_to_s5_static: every proof of a job is put at the
\* same path; the CID names the content.
UploadProof(t, ok) ==
    /\ SubAt(t, "upload")
    /\ IF ok
       THEN /\ uploaded' = uploaded \cup {subTask[t].proof}
            /\ proofPath' = [proofPath EXCEPT ![subTask[t].job] = subTask[t].proof]
            /\ subTask' = [subTask EXCEPT ![t] = [@ EXCEPT !.pc = "query", !.cid = subTask[t].proof]]
       ELSE SubReturns(t, "error") /\ UNCHANGED <<uploaded, proofPath>>
    /\ UNCHANGED <<proofCount, subCache, txs, subNow>>

\* submit_checkpoint_async publishes the checkpoint first (CheckpointPublisher), and
\* ends here when it cannot.  sessionModel: an answer of another length is an error of query_session_model, and
\* the zero model of submit_checkpoint_async.
QuerySessionModel(t, answer) ==
    /\ SubAt(t, "query")
    /\ IF answer = "error" \/ (answer = "short" /\ subTask[t].waits) THEN SubReturns(t, "error")
       ELSE SubGo(t, IF subTask[t].waits THEN "send" ELSE "cache")
    /\ UNCHANGED <<proofCount, uploaded, proofPath, subCache, txs, subNow>>

\* cache_proof, before the transaction.
CacheProof(t) ==
    /\ SubAt(t, "cache") /\ SubGo(t, "send")
    /\ subCache' = [subCache EXCEPT ![subTask[t].job] =
                       @ \cup {[hash |-> subTask[t].proof, cid |-> subTask[t].cid, at |-> subNow]}]
    /\ UNCHANGED <<proofCount, uploaded, proofPath, txs, subNow>>

\* send_transaction: the chain may have the transaction although the call failed.
SendCall(t, taken, ok) ==
    /\ SubAt(t, "send") /\ (ok => taken)
    /\ txs' = IF taken THEN txs \cup {[call |-> CheckpointCall(subTask[t].job, subTask[t].proof, subTask[t].cid),
                                      status |-> "pending", by |-> t]} ELSE txs
    /\ IF ~ok THEN SubReturns(t, "error")
       ELSE IF subTask[t].waits THEN SubGo(t, "receipt") ELSE SubReturns(t, "ok")
    /\ UNCHANGED <<proofCount, uploaded, proofPath, subCache, subNow>>

\* The chain mines a transaction, or reverts it.
TxIsMined(tx, status) ==
    /\ tx.status = "pending"
    /\ txs' = (txs \ {tx}) \cup {[tx EXCEPT !.status = status]}
    /\ UNCHANGED <<subTask, proofCount, uploaded, proofPath, subCache, subNow>>

TxOf(t) == {tx \in txs : tx.by = t /\ tx.call.hash = subTask[t].proof}

\* Mutant: any receipt is a success.
ReceiptResult_Any(status) == "ok"

\* submit_checkpoint: a receipt that reports no success is an error.
ReceiptResult(status) == IF status = "mined" THEN "ok" ELSE "error"

WaitForReceipt(t) ==
    /\ SubAt(t, "receipt")
    /\ \E tx \in TxOf(t) : tx.status # "pending" /\ SubReturns(t, ReceiptResult(tx.status))
    /\ UNCHANGED <<proofCount, uploaded, proofPath, subCache, txs, subNow>>

\* After 60 s the submission is a success all the same.
ReceiptTimeout(t) ==
    /\ SubAt(t, "receipt") /\ SubReturns(t, "late")
    /\ UNCHANGED <<proofCount, uploaded, proofPath, subCache, txs, subNow>>

SubmissionEnds(t) ==
    /\ SubAt(t, "done") /\ subTask' = [subTask EXCEPT ![t] = SubTaskIdle]
    /\ UNCHANGED <<proofCount, uploaded, proofPath, subCache, txs, subNow>>

\* cleanup_job, when settlement is confirmed.
CleanupProofs(j) ==
    /\ subCache[j] # {} /\ subCache' = [subCache EXCEPT ![j] = {}]
    /\ UNCHANGED <<subTask, proofCount, uploaded, proofPath, txs, subNow>>

ProofExpired(e) == subNow - e.at >= SubTtl

\* cleanup_expired
CleanupExpiredProofs ==
    /\ subCache' = [j \in SubJobs |-> {e \in subCache[j] : ~ProofExpired(e)}]
    /\ subCache' # subCache
    /\ UNCHANGED <<subTask, proofCount, uploaded, proofPath, txs, subNow>>

SubTick ==
    /\ subNow < MaxSubNow /\ subNow' = subNow + 1
    /\ UNCHANGED <<subTask, proofCount, uploaded, proofPath, subCache, txs>>

SubNext ==
    \/ SubTick \/ CleanupExpiredProofs
    \/ \E j \in SubJobs : CleanupProofs(j)
    \/ \E tx \in txs, status \in {"mined", "reverted"} : TxIsMined(tx, status)
    \/ \E t \in SubTasks :
          \/ CacheProof(t) \/ WaitForReceipt(t) \/ ReceiptTimeout(t) \/ SubmissionEnds(t)
          \/ \E j \in SubJobs, waits \in BOOLEAN : GenerateProof(t, j, waits)
          \/ \E ok \in BOOLEAN : UploadProof(t, ok) \/ \E taken \in BOOLEAN : SendCall(t, taken, ok)
          \/ \E answer \in {"model", "short", "error"} : QuerySessionModel(t, answer)

SubSpec == SubInit /\ [][SubNext]_subVars

-----------------------------------------------------------------------------

\* Whatever fails, and however submissions of a job overlap, the chain and the cache
\* name only proofs that S5 holds, and by the CID of the proof whose hash they carry;
\* a submission that waited for its receipt and succeeded in time is mined.
NamedProofIsStored ==
    /\ \A tx \in txs : tx.call.hash \in uploaded /\ tx.call.cid = tx.call.hash
    /\ \A j \in SubJobs : \A e \in subCache[j] : e.hash \in uploaded /\ e.cid = e.hash
    /\ \A t \in SubTasks : subTask[t].waits /\ subTask[t].result = "ok" => \E tx \in TxOf(t) : tx.status = "mined"
=============================================================================
