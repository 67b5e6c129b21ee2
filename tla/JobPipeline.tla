---------------------------- MODULE JobPipeline ----------------------------
(***************************************************************************)
(* A job on its way through the node: JobProcessor (job_processor.rs)      *)
(* queues it, JobClaimer (job_claim.rs) claims it on the marketplace,      *)
(* ResultSubmitter (result_submission.rs) stores and submits the result,   *)
(* PaymentClaimer (payment_claim.rs) collects the payment.  Workers run    *)
(* these calls concurrently; the marketplace is external, may refuse any   *)
(* call, and may accept a submission whose answer is lost.                 *)
(***************************************************************************)
EXTENDS Integers, Sequences, FiniteSets

CONSTANTS Jobs,          \* job ids
          Workers,       \* tasks of the node
          MaxJobs,       \* max_concurrent_jobs
          SubmitRetries, \* submission_retry_attempts
          Escrow,        \* host share of a job's escrow
          MaxEvents      \* bound on the job jobEvents delivered

ASSUME PipelineAssumption ==
    /\ MaxJobs \in Nat \ {0} /\ SubmitRetries \in Nat \ {0}
    /\ Escrow \in Nat \ {0} /\ MaxEvents \in Nat

VARIABLES
    market,    \* market[j]: open, ours, rival, done or paid
    jobEvents,    \* job jobEvents delivered
    queue,     \* pending_jobs
    status,    \* job_status
    running,   \* active_jobs
    slots,     \* active_claims
    mine,      \* claimed_jobs
    unlisted,  \* claims held with no entry of their own in claimed_jobs
    storedOutputs,    \* jobs whose output is in storage
    received,  \* what the payment system has paid
    earned,    \* payment_stats.total_earned
    worker     \* worker[w]: program counter, job, attempts

pipeVars == <<market, jobEvents, queue, status, running, slots, mine, unlisted,
              storedOutputs, received, earned, worker>>

PipeInit ==
    /\ market = [j \in Jobs |-> "open"]
    /\ jobEvents = 0 /\ queue = <<>>
    /\ status = [j \in Jobs |-> "none"]
    /\ running = 0 /\ slots = 0 /\ mine = {} /\ unlisted = 0 /\ storedOutputs = {}
    /\ received = 0 /\ earned = 0
    /\ worker = [w \in Workers |-> [pc |-> "out", job |-> CHOOSE j \in Jobs : TRUE, n |-> 0]]

At(w, pc) == worker[w].pc = pc
Job(w) == worker[w].job
Jump(w, pc) == worker' = [worker EXCEPT ![w].pc = pc]

\* process_job_event for a supported model that pays enough; an event may come
\* again, and resets the status.
ProcessJobEvent(j) ==
    /\ jobEvents < MaxEvents
    /\ jobEvents' = jobEvents + 1
    /\ queue' = Append(queue, j)
    /\ status' = [status EXCEPT ![j] = "Pending"]
    /\ UNCHANGED <<market, running, slots, mine, unlisted, storedOutputs, received, earned, worker>>

\* Another node claims the job.
RivalClaims(j) ==
    /\ market[j] = "open"
    /\ market' = [market EXCEPT ![j] = "rival"]
    /\ UNCHANGED <<jobEvents, queue, status, running, slots, mine, unlisted, storedOutputs, received, earned, worker>>

\* get_next_job without the priority queue: the newest job first.
GetNextJob(w) ==
    /\ At(w, "out") /\ queue # <<>>
    /\ queue' = SubSeq(queue, 1, Len(queue) - 1)
    /\ worker' = [worker EXCEPT ![w] = [pc |-> "slot", job |-> queue[Len(queue)], n |-> 0]]
    /\ UNCHANGED <<market, jobEvents, status, running, slots, mine, unlisted, storedOutputs, received, earned>>

\* claim_job: a slot is taken under the guard, or the claim is refused.
TakeSlot(w) ==
    /\ At(w, "slot")
    /\ IF slots >= MaxJobs THEN slots' = slots /\ Jump(w, "out")
       ELSE slots' = slots + 1 /\ Jump(w, "check")
    /\ UNCHANGED <<market, jobEvents, queue, status, running, mine, unlisted, storedOutputs, received, earned>>

\* try_claim_job: registered, known, not claimed, supported, profitable.
CheckJob(w) ==
    /\ At(w, "check")
    /\ \/ market[Job(w)] = "open" /\ Jump(w, "claim")
       \/ Jump(w, "unslot")
    /\ UNCHANGED <<market, jobEvents, queue, status, running, slots, mine, unlisted, storedOutputs, received, earned>>

\* The marketplace accepts the first claim of a job, and may refuse any.
ClaimOnMarket(w) ==
    /\ At(w, "claim")
    /\ \/ /\ market[Job(w)] = "open"
          /\ market' = [market EXCEPT ![Job(w)] = "ours"]
          /\ Jump(w, "record")
       \/ market' = market /\ Jump(w, "unslot")
    /\ UNCHANGED <<jobEvents, queue, status, running, slots, mine, unlisted, storedOutputs, received, earned>>

\* claimed_jobs.insert; the set already holds a job that another task is giving
\* back and has not yet removed.
RecordClaim(w) ==
    /\ At(w, "record")
    /\ mine' = mine \cup {Job(w)}
    /\ unlisted' = unlisted + (IF Job(w) \in mine THEN 1 ELSE 0)
    /\ Jump(w, "claimed")
    /\ UNCHANGED <<market, jobEvents, queue, status, running, slots, storedOutputs, received, earned>>

\* Mutant: a claim that fails keeps its slot.
ReturnSlot_Keep(w) ==
    /\ At(w, "unslot")
    /\ Jump(w, "out")
    /\ UNCHANGED <<market, jobEvents, queue, status, running, slots, mine, unlisted, storedOutputs, received, earned>>

\* The claim failed: the slot is given back.
ReturnSlot(w) ==
    /\ At(w, "unslot")
    /\ slots' = slots - 1
    /\ Jump(w, "out")
    /\ UNCHANGED <<market, jobEvents, queue, status, running, mine, unlisted, storedOutputs, received, earned>>

\* unclaim_job awaits the marketplace first: the job is open to everybody ...
UnclaimJob(w) ==
    /\ At(w, "claimed") /\ market[Job(w)] = "ours"
    /\ market' = [market EXCEPT ![Job(w)] = "open"]
    /\ Jump(w, "remove")
    /\ UNCHANGED <<jobEvents, queue, status, running, slots, mine, unlisted, storedOutputs, received, earned>>

\* ... before its entry is removed, which may by then stand for a new claim, and
\* the slot given back.
RemoveClaim(w) ==
    /\ At(w, "remove")
    /\ mine' = mine \ {Job(w)}
    /\ unlisted' = unlisted - (IF Job(w) \in mine THEN 0 ELSE 1)
    /\ Jump(w, "unslot")
    /\ UNCHANGED <<market, jobEvents, queue, status, running, slots, storedOutputs, received, earned>>

\* update_job_status(Processing) counts the job as active ...
StartProcessing(w) ==
    /\ At(w, "claimed")
    /\ running' = running + (IF status[Job(w)] \in {"Pending", "Claimed"} THEN 1 ELSE 0)
    /\ status' = [status EXCEPT ![Job(w)] = "Processing"]
    /\ Jump(w, "run")
    /\ UNCHANGED <<market, jobEvents, queue, slots, mine, unlisted, storedOutputs, received, earned>>

\* ... and Completed or Failed ends it.
EndProcessing(w) ==
    /\ At(w, "run")
    /\ running' = running - (IF status[Job(w)] = "Processing" THEN 1 ELSE 0)
    /\ \E s \in {"Completed", "Failed"} :
         /\ status' = [status EXCEPT ![Job(w)] = s]
         /\ Jump(w, IF s = "Completed" THEN "submit" ELSE "out")
    /\ UNCHANGED <<market, jobEvents, queue, slots, mine, unlisted, storedOutputs, received, earned>>

\* submit_result: valid, claimed by this node, not completed (else an error that
\* is not retried).
SubmitCheck(w) ==
    /\ At(w, "submit")
    /\ IF market[Job(w)] = "ours" THEN Jump(w, "store") ELSE Jump(w, "pay")
    /\ UNCHANGED <<market, jobEvents, queue, status, running, slots, mine, unlisted, storedOutputs, received, earned>>

\* Mutant: the attempts are not counted.
Retry_Uncounted(w) == worker' = [worker EXCEPT ![w].pc = "submit"]

\* submit_with_retry: an error that can be retried, up to max_retries attempts.
Retry(w) == worker' = [worker EXCEPT ![w].n = @ + 1,
    ![w].pc = IF worker[w].n + 1 < SubmitRetries THEN "submit" ELSE "out"]

\* Mutant: a storage error does not stop the submission.
StoreOutput_Ignored(w) ==
    /\ At(w, "store")
    /\ \/ storedOutputs' = storedOutputs \cup {Job(w)} /\ Jump(w, "send")
       \/ storedOutputs' = storedOutputs /\ Jump(w, "send")
    /\ UNCHANGED <<market, jobEvents, queue, status, running, slots, mine, unlisted, received, earned>>

\* store_output and store_metadata; a storage error is retried.
StoreOutput(w) ==
    /\ At(w, "store")
    /\ \/ storedOutputs' = storedOutputs \cup {Job(w)} /\ Jump(w, "send")
       \/ storedOutputs' = storedOutputs /\ Retry(w)
    /\ UNCHANGED <<market, jobEvents, queue, status, running, slots, mine, unlisted, received, earned>>

\* marketplace.submit_result: accepted, accepted with the answer lost, refused.
SubmitResult(w) ==
    /\ At(w, "send")
    /\ \/ /\ market[Job(w)] = "ours"
          /\ market' = [market EXCEPT ![Job(w)] = "done"]
          /\ Jump(w, "pay") \/ Retry(w)
       \/ market' = market /\ Retry(w)
    /\ UNCHANGED <<jobEvents, queue, status, running, slots, mine, unlisted, storedOutputs, received, earned>>

\* claim_payment: payable, escrow above the minimum, profitable, paid once.
ClaimEscrow(w) ==
    /\ At(w, "pay")
    /\ \/ /\ market[Job(w)] = "done"
          /\ market' = [market EXCEPT ![Job(w)] = "paid"]
          /\ received' = received + Escrow
          /\ Jump(w, "stats")
       \/ UNCHANGED <<market, received>> /\ Jump(w, "out")
    /\ UNCHANGED <<jobEvents, queue, status, running, slots, mine, unlisted, storedOutputs, earned>>

\* update_statistics, after the payment has been received.
UpdateStatistics(w) ==
    /\ At(w, "stats")
    /\ earned' = earned + Escrow
    /\ Jump(w, "out")
    /\ UNCHANGED <<market, jobEvents, queue, status, running, slots, mine, unlisted, storedOutputs, received>>

WorkerStep(w) ==
    \/ GetNextJob(w) \/ TakeSlot(w) \/ CheckJob(w) \/ ClaimOnMarket(w) \/ RecordClaim(w)
    \/ ReturnSlot(w) \/ UnclaimJob(w) \/ RemoveClaim(w)
    \/ StartProcessing(w) \/ EndProcessing(w)
    \/ SubmitCheck(w) \/ StoreOutput(w) \/ SubmitResult(w)
    \/ ClaimEscrow(w) \/ UpdateStatistics(w)

PipeNext ==
    \/ \E j \in Jobs : ProcessJobEvent(j) \/ RivalClaims(j)
    \/ \E w \in Workers : WorkerStep(w)

PipeFairness == \A w \in Workers : WF_pipeVars(WorkerStep(w))

PipeSpec == PipeInit /\ [][PipeNext]_pipeVars /\ PipeFairness

-----------------------------------------------------------------------------

\* Every slot of active_claims is accounted for by an entry of claimed_jobs, by a
\* claim under way, or by a claim whose entry an overlapping unclaim_job took with
\* it: no refusal between the marketplace and the local sets leaks or frees a slot.
\* A job that ends keeps its slot, as no code lowers active_claims then.
SlotsMatchClaims ==
    slots = Cardinality(mine) + unlisted
          + Cardinality({w \in Workers : worker[w].pc \in {"check", "claim", "record", "unslot"}})

\* A job the marketplace holds as completed has its output in storage, and a
\* payment is only received for such a job (submit_result stores before it submits).
ResultIsStored == \A j \in Jobs : market[j] \in {"done", "paid"} => j \in storedOutputs

\* Every worker comes to the end of its job, again and again, whatever the marketplace
\* refuses.
WorkersReturn == \A w \in Workers : []<>(worker[w].pc = "out")
=============================================================================
