-------------------------- MODULE CheckpointManager --------------------------
(***************************************************************************)
(* Token metering, checkpoint submission and session settlement of a host: *)
(* src/contracts/checkpoint_manager.rs.                                    *)
(*                                                                         *)
(* Every job the host serves has a tracker in the map job_trackers, behind *)
(* one RwLock.  Three kinds of tokio tasks work on it concurrently:        *)
(*   - streams call track_tokens for every piece of generated text;        *)
(*   - background tasks prove a checkpoint and submit it to the chain      *)
(*     (submit_checkpoint_async, spawned by track_tokens and               *)
(*     force_checkpoint), and then update the tracker with the outcome;    *)
(*   - settlers run complete_session_job when a connection closes.         *)
(* An action is what a task does between two await points, or inside one   *)
(* critical section of the lock.  Wall-clock time is abstracted: a sleep   *)
(* is the time a task spends at a program counter.                         *)
(***************************************************************************)
EXTENDS Integers, FiniteSets, Functions
LOCAL INSTANCE TLC

CONSTANTS
    Jobs,                  \* on-chain session jobs
    Streams,               \* concurrent callers of track_tokens
    Tasks,                 \* slots for spawned background submissions (a bound)
    Settlers,              \* calls of complete_session_job (a bound)
    SessionIds,            \* session ids that requests carry
    NoJob, NoSession,      \* "none" values
    CHECKPOINT_THRESHOLD,
    MIN_PROVEN_TOKENS,
    MAX_RETRIES,           \* retries of completeSessionJob in the dispute window
    ContractIntervals,     \* proofInterval values sessionJobs() may answer
    TokenCounts,           \* tokens counted by one track_tokens call
    MaxTokens,             \* bound on the tokens served per job
    U64,                   \* modulus of u64 arithmetic
    LateTokens             \* may a job's tokens still be tracked once
                           \* complete_session_job has started for it: a client
                           \* that reconnects, a second connection, an HTTP call

ASSUME ProcessAssumption ==
    /\ NoJob \notin Jobs
    /\ NoSession \notin SessionIds
    /\ Tasks \cap Settlers = {}

ASSUME NumberAssumption ==
    /\ CHECKPOINT_THRESHOLD \in Nat \ {0}
    /\ MIN_PROVEN_TOKENS \in Nat \ {0}
    /\ MAX_RETRIES \in Nat \ {0}
    /\ ContractIntervals \subseteq Nat
    /\ TokenCounts \subseteq Nat
    /\ MaxTokens \in Nat
    /\ U64 \in Nat
    /\ LateTokens \in BOOLEAN

VARIABLES
    tracker,   \* job_trackers: a function on the jobs that have a tracker
    stream,    \* the call of track_tokens each stream is in
    sub,       \* submit_checkpoint_async, per background task and per settler
    settle,    \* complete_session_job, per settler
    cached,    \* jobs with entries in the proof submission cache
    closed,    \* jobs whose settlement has started (history)
    served,    \* tokens tracked for a job so far (history)
    acked,     \* tokens in proof transactions the chain accepted (history)
    mark,      \* the token up to which accepted proofs reach (history)
    failed     \* jobs whose last recorded submission failed (history)

vars ==
    <<tracker, stream, sub, settle, cached, closed, served, acked, mark, failed>>

Submitters == Tasks \cup Settlers

JobTokenTracker ==
    [tokens_generated       : Nat,
     last_checkpoint        : Nat,
     submission_in_progress : BOOLEAN,
     proof_interval         : Nat,
     session_id             : SessionIds \cup {NoSession}]

IdleStream ==
    [pc |-> "idle", job |-> NoJob, tokens |-> 0, proof_interval |-> 0,
     session_id |-> NoSession]

IdleSub ==
    [pc |-> "idle", job |-> NoJob, tokens |-> 0, prev |-> 0, upto |-> 0,
     session_id |-> NoSession]

IdleSettle == [pc |-> "idle", job |-> NoJob, retry_count |-> 0, timed_out |-> FALSE]

\* Stages of submit_checkpoint_async; "lock" is a force_checkpoint task that has
\* not entered its critical section, "done_ok" and "done_err" wait for the lock
\* to record the outcome.
Submitting == {"prove", "publish", "query", "send"}
InFlight == Submitting \cup {"done_ok", "done_err"}

\* The submissions of job j that have been started and not recorded.
InFlightOf(j) == {x \in Submitters : sub[x].job = j /\ sub[x].pc \in InFlight}

\* HashMap insert and remove.
Put(f, k, v) == [x \in DOMAIN f \cup {k} |-> IF x = k THEN v ELSE f[x]]
Remove(f, k) == Restrict(f, DOMAIN f \ {k})

\* u64 subtraction of a release build: it wraps around.
SubU64(a, b) == IF a >= b THEN a - b ELSE a - b + U64

-----------------------------------------------------------------------------
(* track_tokens *)

NewTracker(interval, sid) ==
    [tokens_generated |-> 0, last_checkpoint |-> 0,
     submission_in_progress |-> FALSE, proof_interval |-> interval,
     session_id |-> sid]

\* What query_session_proof_interval may return: the contract's value, at least
\* MIN_PROVEN_TOKENS, or the checkpoint threshold when the call fails.
QueriedIntervals ==
    {IF c >= MIN_PROVEN_TOKENS THEN c ELSE MIN_PROVEN_TOKENS : c \in ContractIntervals}
        \cup {CHECKPOINT_THRESHOLD}

TokensSinceCheckpoint(r) == SubU64(r.tokens_generated, r.last_checkpoint)

\* Mutant: every checkpoint is padded, not only the first.
TokensToSubmit_PadAlways(r) ==
    IF TokensSinceCheckpoint(r) < r.proof_interval THEN r.proof_interval
    ELSE TokensSinceCheckpoint(r)

\* The first checkpoint of a tracker is padded to the session's proofInterval.
TokensToSubmit(r) ==
    IF r.last_checkpoint = 0 /\ TokensSinceCheckpoint(r) < r.proof_interval
    THEN r.proof_interval
    ELSE TokensSinceCheckpoint(r)

Submission(j, r) ==
    [pc |-> "prove", job |-> j, tokens |-> TokensToSubmit(r),
     prev |-> r.last_checkpoint, upto |-> r.tokens_generated,
     session_id |-> r.session_id]

\* Mutant: the checkpoint moves by the tokens billed, padding included.
Submitted_Padded(r) ==
    [r EXCEPT !.submission_in_progress = TRUE, !.last_checkpoint = @ + TokensToSubmit(r)]

\* The tracker when a submission starts: flagged, and moved optimistically.
Submitted(r) ==
    [r EXCEPT !.submission_in_progress = TRUE, !.last_checkpoint = r.tokens_generated]

\* Does the tracker exist? If not, ask the contract, holding no lock.
TrackCheck(t, j, n, sid) ==
    /\ stream[t].pc = "idle"
    /\ served[j] + n <= MaxTokens
    /\ LateTokens \/ j \notin closed
    /\ \E i \in IF j \in DOMAIN tracker THEN {0} ELSE QueriedIntervals :
          stream' = [stream EXCEPT ![t] =
                        [pc |-> "checked", job |-> j, tokens |-> n,
                         proof_interval |-> i, session_id |-> sid]]
    /\ UNCHANGED <<tracker, sub, settle, cached, closed, served, acked, mark, failed>>

\* entry(job_id).or_insert_with(...)
TrackerOf(t) ==
    IF stream[t].job \in DOMAIN tracker THEN tracker[stream[t].job]
    ELSE NewTracker(stream[t].proof_interval, stream[t].session_id)

\* A tracker after the session_id update and the addition.
AddTokens(r, n, sid) ==
    [r EXCEPT !.session_id = IF @ = NoSession THEN sid ELSE @,
              !.tokens_generated = @ + n]

Counted(t) == AddTokens(TrackerOf(t), stream[t].tokens, stream[t].session_id)

CheckpointDue(r) ==
    TokensSinceCheckpoint(r) >= CHECKPOINT_THRESHOLD /\ ~r.submission_in_progress

\* The critical section: count the tokens and, at the threshold, spawn a
\* background submission.
TrackWrite(t) ==
    /\ stream[t].pc = "checked"
    /\ LET j == stream[t].job
           r == Counted(t)
       IN  /\ \/ /\ ~CheckpointDue(r)
                 /\ tracker' = Put(tracker, j, r)
                 /\ sub' = sub
              \/ /\ CheckpointDue(r)
                 /\ tracker' = Put(tracker, j, Submitted(r))
                 /\ \E k \in Tasks : /\ sub[k].pc = "idle"
                                     /\ sub' = [sub EXCEPT ![k] = Submission(j, r)]
           /\ served' = [served EXCEPT ![j] = @ + stream[t].tokens]
    /\ stream' = [stream EXCEPT ![t] = IdleStream]
    /\ UNCHANGED <<settle, cached, closed, acked, mark, failed>>

-----------------------------------------------------------------------------
(* force_checkpoint *)

\* The call spawns a task and returns; the task takes the lock later.
ForceCheckpoint(j) ==
    /\ LateTokens \/ j \notin closed
    /\ \E k \in Tasks :
          /\ sub[k].pc = "idle"
          /\ sub' = [sub EXCEPT ![k] =
                        [pc |-> "lock", job |-> j, tokens |-> 0, prev |-> 0, upto |-> 0,
                         session_id |-> NoSession]]
    /\ UNCHANGED <<tracker, stream, settle, cached, closed, served, acked, mark, failed>>

\* Mutant: a forced checkpoint does not look at the flag.
ForceDue_IgnoresFlag(r) == TokensSinceCheckpoint(r) >= MIN_PROVEN_TOKENS

ForceDue(r) ==
    ~r.submission_in_progress /\ TokensSinceCheckpoint(r) >= MIN_PROVEN_TOKENS

\* Mutant: the tracker is dropped at the end of a stream that left nothing to
\* submit, although the session goes on.
ForceLock_Cleanup(k) ==
    /\ sub[k].pc = "lock"
    /\ LET j == sub[k].job
           due == j \in DOMAIN tracker /\ ForceDue(tracker[j])
       IN  /\ sub' = [sub EXCEPT ![k] = IF due THEN Submission(j, tracker[j]) ELSE IdleSub]
           /\ tracker' = IF due THEN Put(tracker, j, Submitted(tracker[j]))
                         ELSE Remove(tracker, j)
    /\ UNCHANGED <<stream, settle, cached, closed, served, acked, mark, failed>>

ForceLock(k) ==
    /\ sub[k].pc = "lock"
    /\ LET j == sub[k].job
           due == j \in DOMAIN tracker /\ ForceDue(tracker[j])
       IN  /\ sub' = [sub EXCEPT ![k] = IF due THEN Submission(j, tracker[j]) ELSE IdleSub]
           /\ tracker' = IF due THEN Put(tracker, j, Submitted(tracker[j])) ELSE tracker
    /\ UNCHANGED <<stream, settle, cached, closed, served, acked, mark, failed>>

-----------------------------------------------------------------------------
(* submit_checkpoint_async.  Each stage may fail and end the call. *)

Advance(x, from, to) ==
    /\ sub[x].pc = from
    /\ sub' = [sub EXCEPT ![x].pc = to]

\* STARK proof in spawn_blocking, proof upload to S5, private key.
Prove(x) ==
    /\ \E to \in {"publish", "done_err"} : Advance(x, "prove", to)
    /\ UNCHANGED <<tracker, stream, settle, cached, closed, served, acked, mark, failed>>

\* The conversation checkpoint goes to S5 before the proof goes to the chain;
\* without a session id there is nothing to publish.
PublishOk(x) ==
    /\ Advance(x, "publish", "query")
    /\ UNCHANGED <<tracker, stream, settle, cached, closed, served, acked, mark, failed>>

PublishErr(x) ==
    /\ sub[x].session_id # NoSession
    /\ Advance(x, "publish", "done_err")
    /\ UNCHANGED <<tracker, stream, settle, cached, closed, served, acked, mark, failed>>

\* sessionModel query, then cache_proof, before the transaction is sent.
QueryAndCache(x) ==
    /\ \/ Advance(x, "query", "send") /\ cached' = cached \cup {sub[x].job}
       \/ Advance(x, "query", "done_err") /\ cached' = cached
    /\ UNCHANGED <<tracker, stream, settle, closed, served, acked, mark, failed>>

\* send_transaction(submitProofOfWork); its confirmation is only logged.
SendProof(x) ==
    /\ \/ /\ Advance(x, "send", "done_ok")
          /\ acked' = [acked EXCEPT ![sub[x].job] = @ + sub[x].tokens]
          /\ mark' = [mark EXCEPT ![sub[x].job] = sub[x].upto]
       \/ Advance(x, "send", "done_err") /\ UNCHANGED <<acked, mark>>
    /\ UNCHANGED <<tracker, stream, settle, cached, closed, served, failed>>

\* Mutants: the rollback subtracts what was billed, or restores zero; the flag is
\* only cleared by a success.
Outcome_SubtractBilled(r, s) ==
    [r EXCEPT !.submission_in_progress = FALSE,
              !.last_checkpoint = IF s.pc = "done_err" THEN @ - s.tokens ELSE @]
Outcome_RestoreZero(r, s) ==
    [r EXCEPT !.submission_in_progress = FALSE,
              !.last_checkpoint = IF s.pc = "done_err" THEN 0 ELSE @]
Outcome_FlagKept(r, s) ==
    [r EXCEPT !.submission_in_progress = (s.pc = "done_err"),
              !.last_checkpoint = IF s.pc = "done_err" THEN s.prev ELSE @]

\* The tracker after a submission's outcome: a failure rolls the optimistic
\* checkpoint back.
Outcome(r, s) ==
    [r EXCEPT !.submission_in_progress = FALSE,
              !.last_checkpoint = IF s.pc = "done_err" THEN s.prev ELSE @]

\* The caller of submit_checkpoint_async takes the lock and records the outcome.
\* A settler goes on to the dispute window; its error is only logged.
Record(x) ==
    /\ sub[x].pc \in {"done_ok", "done_err"}
    /\ LET j == sub[x].job
       IN  tracker' = IF j \in DOMAIN tracker
                      THEN Put(tracker, j, Outcome(tracker[j], sub[x]))
                      ELSE tracker
    /\ sub' = [sub EXCEPT ![x] = IdleSub]
    /\ settle' = IF x \in Settlers THEN [settle EXCEPT ![x].pc = "window"] ELSE settle
    /\ failed' = IF sub[x].pc = "done_err" THEN failed \cup {sub[x].job}
                 ELSE failed \ {sub[x].job}
    /\ UNCHANGED <<stream, cached, closed, served, acked, mark>>

-----------------------------------------------------------------------------
(* complete_session_job *)

SettleGoto(s, from, to) ==
    /\ settle[s].pc = from
    /\ settle' = [settle EXCEPT ![s].pc = to]

Quiet(j) == \A t \in Streams : stream[t].job # j

SettleStart(s, j) ==
    /\ settle[s].pc = "idle"
    /\ LateTokens \/ Quiet(j)
    /\ settle' = [settle EXCEPT ![s] =
                     [pc |-> "waiting", job |-> j, retry_count |-> 0, timed_out |-> FALSE]]
    /\ closed' = closed \cup {j}
    /\ UNCHANGED <<tracker, stream, sub, cached, served, acked, mark, failed>>

Busy(j) == j \in DOMAIN tracker /\ tracker[j].submission_in_progress

\* The poll loop: proceed once no submission is in progress ...
SettlePoll(s) ==
    /\ SettleGoto(s, "waiting", "final")
    /\ ~Busy(settle[s].job)
    /\ UNCHANGED <<tracker, stream, sub, cached, closed, served, acked, mark, failed>>

\* ... or after two minutes anyway.
SettleTimeout(s) ==
    /\ settle[s].pc = "waiting"
    /\ Busy(settle[s].job)
    /\ settle' = [settle EXCEPT ![s].pc = "final", ![s].timed_out = TRUE]
    /\ UNCHANGED <<tracker, stream, sub, cached, closed, served, acked, mark, failed>>

\* Mutant: off by one at the contract's minimum.
FinalDue_AboveMinimum(r) ==
    /\ ~r.submission_in_progress
    /\ TokensSinceCheckpoint(r) > 0
    /\ r.last_checkpoint = 0 \/ TokensToSubmit(r) > MIN_PROVEN_TOKENS

\* Tokens below the contract's minimum are given up, unless they are the first.
FinalDue(r) ==
    /\ ~r.submission_in_progress
    /\ TokensSinceCheckpoint(r) > 0
    /\ r.last_checkpoint = 0 \/ TokensToSubmit(r) >= MIN_PROVEN_TOKENS

\* force_checkpoint_on_completion: its critical section.
SettleFinal(s) ==
    LET j == settle[s].job
        due == j \in DOMAIN tracker /\ FinalDue(tracker[j])
    IN  /\ SettleGoto(s, "final", IF due THEN "submitting" ELSE "window")
        /\ sub' = IF due THEN [sub EXCEPT ![s] = Submission(j, tracker[j])] ELSE sub
        /\ tracker' = IF due THEN Put(tracker, j, Submitted(tracker[j])) ELSE tracker
        /\ UNCHANGED <<stream, cached, closed, served, acked, mark, failed>>

\* Read the tracker's last_proof_timestamp and sleep until the window is over.
SettleWindow(s) ==
    /\ SettleGoto(s, "window", "sending")
    /\ UNCHANGED <<tracker, stream, sub, cached, closed, served, acked, mark, failed>>

\* send_transaction(completeSessionJob): sent, or rejected with a nonce conflict,
\* the dispute window or another error, which drops the tracker.
SettleSend(s) ==
    /\ \/ /\ \E to \in {"confirming", "resending", "retrying"} : SettleGoto(s, "sending", to)
          /\ tracker' = tracker
       \/ /\ SettleGoto(s, "sending", "done")
          /\ tracker' = Remove(tracker, settle[s].job)
    /\ UNCHANGED <<stream, sub, cached, closed, served, acked, mark, failed>>

\* The second attempt after a nonce conflict.
SettleResend(s) ==
    /\ \/ SettleGoto(s, "resending", "confirming") /\ tracker' = tracker
       \/ /\ SettleGoto(s, "resending", "done")
          /\ tracker' = Remove(tracker, settle[s].job)
    /\ UNCHANGED <<stream, sub, cached, closed, served, acked, mark, failed>>

\* Whatever the receipt says, the tracker is removed ...
SettleConfirm(s) ==
    /\ SettleGoto(s, "confirming", "cleanup")
    /\ tracker' = Remove(tracker, settle[s].job)
    /\ UNCHANGED <<stream, sub, cached, closed, served, acked, mark, failed>>

\* ... and then the job's cached proofs.
SettleCleanup(s) ==
    /\ SettleGoto(s, "cleanup", "done")
    /\ cached' = cached \ {settle[s].job}
    /\ UNCHANGED <<tracker, stream, sub, closed, served, acked, mark, failed>>

\* Mutant: the retries start over instead of ending.
SettleRetry_Forever(s) ==
    LET n == settle[s].retry_count + 1
    IN  /\ settle[s].pc = "retrying"
        /\ settle' = [settle EXCEPT ![s].retry_count = n % MAX_RETRIES]
        /\ UNCHANGED <<tracker, stream, sub, cached, closed, served, acked, mark, failed>>

\* One round of the task that retries inside the dispute window.
SettleRetry(s) ==
    LET n == settle[s].retry_count + 1
    IN  /\ settle[s].pc = "retrying"
        /\ \/ SettleGoto(s, "retrying", "retry_confirming") /\ tracker' = tracker
           \/ SettleGoto(s, "retrying", "done") /\ tracker' = tracker
           \/ /\ n < MAX_RETRIES
              /\ settle' = [settle EXCEPT ![s].retry_count = n]
              /\ tracker' = tracker
           \/ /\ n >= MAX_RETRIES
              /\ settle' = [settle EXCEPT ![s].pc = "done"]
              /\ tracker' = Remove(tracker, settle[s].job)
        /\ UNCHANGED <<stream, sub, cached, closed, served, acked, mark, failed>>

\* The retried transaction's receipt: only success removes the tracker.
SettleRetryConfirm(s) ==
    /\ SettleGoto(s, "retry_confirming", "done")
    /\ \/ tracker' = tracker
       \/ tracker' = Remove(tracker, settle[s].job)
    /\ UNCHANGED <<stream, sub, cached, closed, served, acked, mark, failed>>

-----------------------------------------------------------------------------
Init ==
    /\ tracker = [j \in {} |-> NewTracker(0, NoSession)]
    /\ stream = [t \in Streams |-> IdleStream]
    /\ sub = [x \in Submitters |-> IdleSub]
    /\ settle = [s \in Settlers |-> IdleSettle]
    /\ cached = {}
    /\ closed = {}
    /\ served = [j \in Jobs |-> 0]
    /\ acked = [j \in Jobs |-> 0]
    /\ mark = [j \in Jobs |-> 0]
    /\ failed = {}

StreamCall(t) ==
    \E j \in Jobs, n \in TokenCounts, sid \in SessionIds \cup {NoSession} :
        TrackCheck(t, j, n, sid)

SubmitStep(x) ==
    \/ ForceLock(x) \/ Prove(x) \/ PublishOk(x) \/ PublishErr(x)
    \/ QueryAndCache(x) \/ SendProof(x) \/ Record(x)

SettleStep(s) ==
    \/ SettlePoll(s) \/ SettleTimeout(s) \/ SettleFinal(s) \/ SettleWindow(s) \/ SettleSend(s)
    \/ SettleResend(s) \/ SettleConfirm(s) \/ SettleCleanup(s)
    \/ SettleRetry(s) \/ SettleRetryConfirm(s)

Next ==
    \/ \E t \in Streams : StreamCall(t) \/ TrackWrite(t)
    \/ \E j \in Jobs : ForceCheckpoint(j)
    \/ \E x \in Submitters : SubmitStep(x)
    \/ \E s \in Settlers :
          \/ \E j \in Jobs : SettleStart(s, j)
          \/ SettleStep(s)

Spec == Init /\ [][Next]_vars

\* The runtime polls every ready task, and proofs, uploads and RPC calls answer
\* or fail (they carry timeouts).  Nothing forces a client to send a request or a
\* connection to close.
Fairness ==
    /\ \A x \in Submitters : WF_vars(SubmitStep(x))
    /\ \A s \in Settlers : WF_vars(SettleStep(s))

FairSpec == Spec /\ Fairness
-----------------------------------------------------------------------------
(* Properties *)

StreamRecord ==
    [pc : {"idle", "checked"}, job : Jobs \cup {NoJob}, tokens : Nat,
     proof_interval : Nat, session_id : SessionIds \cup {NoSession}]

SubRecord ==
    [pc : {"idle", "lock"} \cup InFlight, job : Jobs \cup {NoJob}, tokens : Int,
     prev : Nat, upto : Nat, session_id : SessionIds \cup {NoSession}]

SettleRecord ==
    [pc : {"idle", "waiting", "final", "submitting", "window", "sending", "resending",
           "confirming", "cleanup", "retrying", "retry_confirming", "done"},
     job : Jobs \cup {NoJob}, retry_count : 0 .. MAX_RETRIES, timed_out : BOOLEAN]

TrackerOK ==
    /\ DOMAIN tracker \subseteq Jobs
    /\ tracker \in [DOMAIN tracker -> JobTokenTracker]

HistoryOK ==
    /\ cached \subseteq Jobs /\ closed \subseteq Jobs /\ failed \subseteq Jobs
    /\ served \in [Jobs -> Nat] /\ acked \in [Jobs -> Int] /\ mark \in [Jobs -> Nat]

\* Every variable has its type: in particular trackers, calls and histories only
\* ever name jobs, whatever tasks outlive their tracker.
TypeOK ==
    /\ TrackerOK
    /\ stream \in [Streams -> StreamRecord]
    /\ sub \in [Submitters -> SubRecord]
    /\ settle \in [Settlers -> SettleRecord]
    /\ HistoryOK

\* A tracker that says submission_in_progress has a submission under way, whose
\* end will clear the flag: however trackers are dropped and created anew, no
\* flag is left behind that would stop checkpoints and settlement for good.
BusyHasSubmission ==
    \A j \in DOMAIN tracker :
        tracker[j].submission_in_progress => InFlightOf(j) # {}

\* The flag serialises the submissions of a job: no two are in flight at once,
\* whichever of track_tokens, force_checkpoint and force_checkpoint_on_completion
\* started them.
OneSubmission ==
    \A x, y \in Submitters :
        /\ sub[x].pc \in InFlight /\ sub[y].pc \in InFlight
        /\ sub[x].job = sub[y].job
        => x = y

\* The u64 subtraction tokens_generated - last_checkpoint never wraps.
NoUnderflow ==
    \A j \in DOMAIN tracker : tracker[j].last_checkpoint <= tracker[j].tokens_generated

\* With nothing in flight, last_checkpoint is exactly what the chain accepted:
\* optimistic updates and rollbacks never let it drift from the proofs.
CheckpointMatchesChain ==
    \A j \in DOMAIN tracker :
        InFlightOf(j) = {} => tracker[j].last_checkpoint = mark[j]

\* The placeholder interval 0 of track_tokens ("Will be ignored, existing tracker
\* has its own value") never ends up in a tracker.
IntervalIsQueried ==
    \A j \in DOMAIN tracker : tracker[j].proof_interval \in QueriedIntervals

\* When complete_session_job reaches the chain without having given up waiting,
\* while the job is still tracked, its last submission did not fail and none is in
\* flight, fewer than MIN_PROVEN_TOKENS tokens of the job remain unproven, and none
\* of a job without an earlier checkpoint.
SettlementProvesAll ==
    \A s \in Settlers :
        LET j == settle[s].job
        IN  /\ settle[s].pc \in {"sending", "resending", "retrying"}
            /\ ~settle[s].timed_out
            /\ j \in DOMAIN tracker
            /\ j \notin failed
            /\ InFlightOf(j) = {}
            => /\ served[j] - mark[j] < MIN_PROVEN_TOKENS
               /\ mark[j] = 0 => served[j] = 0

\* The comment in complete_session_job: waiting "prevents the race condition where
\* settlement proceeds while a background proof task is still running".
SettlementIsAlone ==
    \A s \in Settlers :
        settle[s].pc \in {"sending", "resending"} /\ ~settle[s].timed_out
            => InFlightOf(settle[s].job) = {}

\* Tokens are billed in order, once, with one padded first bill at most: the
\* abstract ledger is implemented across failures, rollbacks and retries.
Ledger == INSTANCE JobLedger WITH Intervals <- QueriedIntervals, billed <- acked
BillingIsCorrect == Ledger!Spec

\* Every complete_session_job ends, although it waits for submissions and retries.
SettlementEnds ==
    \A s \in Settlers : settle[s].pc # "idle" ~> settle[s].pc = "done"

\* A checkpoint that was started is recorded: its job can submit the next one.
SubmissionIsRecorded ==
    \A j \in Jobs : Busy(j) ~> ~Busy(j)

-----------------------------------------------------------------------------
(* The inductive invariants.  KnownJobs and SettleInv hold in every behaviour; *)
(* the others are about the job's tokens and hold when none are tracked for a *)
(* job whose settlement has started (LateTokens = FALSE).                     *)

\* A call of track_tokens and a submission are for some job.
KnownJobs ==
    /\ \A t \in Streams : stream[t].pc = "checked" => stream[t].job \in Jobs
    /\ \A x \in Submitters : sub[x].pc # "idle" => sub[x].job \in Jobs

\* A call of track_tokens is for a job that is still open; the placeholder
\* interval is only carried for a job that has a tracker.
StreamInv ==
    \A t \in Streams :
        /\ stream[t].pc = "idle" => stream[t].job = NoJob
        /\ stream[t].pc = "checked" =>
              /\ stream[t].job \in Jobs \ closed
              /\ stream[t].job \notin DOMAIN tracker =>
                    stream[t].proof_interval \in QueriedIntervals

\* Trackers are only dropped for closed jobs, and a settler runs a submission
\* exactly while it is at "submitting".
SettleInv ==
    \A s \in Settlers :
        /\ settle[s].pc # "idle" => settle[s].job \in closed
        /\ settle[s].pc # "submitting" => sub[s].pc = "idle"
        /\ settle[s].pc = "submitting" => sub[s].pc \in InFlight

\* An open job without a tracker has never been served.
FreshInv ==
    \A j \in Jobs :
        j \notin closed /\ j \notin DOMAIN tracker =>
            /\ served[j] = 0 /\ mark[j] = 0
            /\ \A x \in Submitters : ~(sub[x].job = j /\ sub[x].pc \in InFlight)

\* What a submission in flight knows about its job.
SubInv ==
    \A x \in Submitters :
        sub[x].pc \in InFlight =>
              LET j == sub[x].job
              IN  /\ sub[x].prev < sub[x].upto /\ sub[x].upto <= served[j]
                  /\ mark[j] = IF sub[x].pc = "done_ok" THEN sub[x].upto ELSE sub[x].prev
                  /\ j \in DOMAIN tracker =>
                        /\ tracker[j].submission_in_progress
                        /\ tracker[j].last_checkpoint = sub[x].upto
                  /\ \/ sub[x].tokens = sub[x].upto - sub[x].prev
                     \/ /\ sub[x].prev = 0 /\ sub[x].upto < sub[x].tokens
                        /\ sub[x].tokens \in QueriedIntervals

\* What a tracker knows about its job.
TrackerInv ==
    \A j \in DOMAIN tracker :
        /\ tracker[j].tokens_generated = served[j]
        /\ tracker[j].last_checkpoint <= served[j]
        /\ tracker[j].proof_interval \in QueriedIntervals
        /\ \/ \E x \in Submitters : sub[x].job = j /\ sub[x].pc \in InFlight
           \/ ~tracker[j].submission_in_progress /\ tracker[j].last_checkpoint = mark[j]

\* The tokens served for a job are proven, up to what the contract would refuse.
Proven(j) ==
    /\ served[j] - mark[j] < MIN_PROVEN_TOKENS
    /\ mark[j] = 0 => served[j] = 0

\* What is in flight for a job proves all that was served for it ...
InFlightIsCurrent(j) == \A x \in InFlightOf(j) : sub[x].upto = served[j]

\* ... so that once nothing is, all is proven, unless the last submission failed.
ProvenWhenQuiet(j) == InFlightOf(j) = {} /\ j \notin failed => Proven(j)

AfterWaiting == {"final", "submitting", "window", "sending", "resending", "retrying"}

\* A settler that saw no submission in progress lets no older one through: what is
\* submitted from then on covers all the tokens of the closed job.
ProvenInv ==
    \A s \in Settlers :
        /\ settle[s].pc \in AfterWaiting
        /\ ~settle[s].timed_out
        /\ settle[s].job \in DOMAIN tracker
        => /\ InFlightIsCurrent(settle[s].job)
           /\ settle[s].pc # "final" => ProvenWhenQuiet(settle[s].job)

BusyInv == TypeOK /\ KnownJobs /\ SettleInv /\ BusyHasSubmission

SafetyInv ==
    /\ TypeOK /\ KnownJobs /\ SettleInv
    /\ StreamInv /\ FreshInv /\ SubInv /\ OneSubmission /\ TrackerInv

-----------------------------------------------------------------------------
\* For TLC: streams, background tasks and settlers are interchangeable.
TaskSymmetry == Permutations(Tasks)
Symmetry == Permutations(Streams) \cup TaskSymmetry \cup Permutations(Settlers)
=============================================================================
