------------------------ MODULE SessionRecoveryProofs ------------------------
(***************************************************************************)
(* Theorems about CheckpointManager by itself, and then about              *)
(* SessionRecovery: the manager and the publisher together, for any jobs,  *)
(* sessions, requests, background tasks and settlers.  What                *)
(* CheckpointPublisherProofs proves of the publisher is used here,         *)
(* instantiated for the publisher inside the system.                       *)
(***************************************************************************)
EXTENDS SessionRecovery, TLAPS

-----------------------------------------------------------------------------
(* The map of trackers and the records it holds *)

\* HashMap insert keeps a map well typed.
LEMMA PutType ==
    ASSUME NEW f, NEW k, NEW v, NEW D, NEW R,
           DOMAIN f \subseteq D, f \in [DOMAIN f -> R], k \in D, v \in R
    PROVE  /\ DOMAIN Put(f, k, v) = DOMAIN f \cup {k}
           /\ DOMAIN Put(f, k, v) \subseteq D
           /\ Put(f, k, v) \in [DOMAIN Put(f, k, v) -> R]
  BY DEF Put

\* Intervals are positive: at least the contract's minimum or the threshold.
LEMMA IntervalsArePositive == QueriedIntervals \subseteq Nat \ {0}  BY NumberAssumption DEF QueriedIntervals

\* A submission read off a well-typed tracker, the tracker it leaves behind and the
\* tracker its outcome produces are well typed.
LEMMA RecordTypes ==
    ASSUME NEW r \in JobTokenTracker, NEW j \in Jobs
    PROVE  /\ Submitted(r) \in JobTokenTracker
           /\ Submission(j, r) \in SubRecord
           /\ Submission(j, r).pc = "prove" /\ Submission(j, r).job = j
           /\ Submitted(r).submission_in_progress
           /\ \A s \in SubRecord : Outcome(r, s) \in JobTokenTracker
<1>1. Submitted(r) \in JobTokenTracker /\ Submitted(r).submission_in_progress  BY DEF Submitted, JobTokenTracker
<1>2. TokensToSubmit(r) \in Int  BY NumberAssumption DEF TokensToSubmit, TokensSinceCheckpoint, SubU64, JobTokenTracker
<1>3. Submission(j, r) \in SubRecord  BY <1>2 DEF Submission, SubRecord, InFlight, Submitting, JobTokenTracker
<1>4. \A s \in SubRecord : Outcome(r, s) \in JobTokenTracker  BY DEF Outcome, JobTokenTracker, SubRecord
<1> QED BY <1>1, <1>3, <1>4 DEF Submission

\* The idle values of the three kinds of tasks have their types.
LEMMA IdleTypes ==
    /\ IdleStream \in StreamRecord
    /\ IdleSub \in SubRecord
    /\ IdleSettle \in SettleRecord
  BY NumberAssumption DEF IdleStream, IdleSub, IdleSettle, StreamRecord, SubRecord, SettleRecord

\* track_tokens writes a well-typed tracker.
LEMMA CountedType ==
    ASSUME TypeOK, NEW t \in Streams
    PROVE  Counted(t) \in JobTokenTracker
<1>1. stream[t] \in StreamRecord  BY DEF TypeOK
<1>2. TrackerOf(t) \in JobTokenTracker
  BY <1>1 DEF TypeOK, TrackerOK, TrackerOf, NewTracker, JobTokenTracker, StreamRecord
<1>3. \A r \in JobTokenTracker, n \in Nat, sid \in SessionIds \cup {NoSession} :
          AddTokens(r, n, sid) \in JobTokenTracker
  <2> SUFFICES ASSUME NEW r \in JobTokenTracker, NEW n \in Nat,
                      NEW sid \in SessionIds \cup {NoSession}
               PROVE  AddTokens(r, n, sid) \in JobTokenTracker  OBVIOUS
  <2> DEFINE id == IF r.session_id = NoSession THEN sid ELSE r.session_id
             sum == r.tokens_generated + n
  <2>1. id \in SessionIds \cup {NoSession} /\ sum \in Nat  BY DEF JobTokenTracker
  <2>2. AddTokens(r, n, sid) = [r EXCEPT !.session_id = id, !.tokens_generated = sum]  BY DEF AddTokens, JobTokenTracker
  <2> HIDE DEF id, sum
  <2> QED BY <2>1, <2>2 DEF JobTokenTracker
<1> QED BY <1>1, <1>2, <1>3 DEF Counted, StreamRecord

-----------------------------------------------------------------------------
(* Steps of one task, seen from the others *)

\* complete_session_job between its submission and its end touches its own
\* record, and the map of trackers only by removing its job.
SettleOnly(s) ==
    \/ SettlePoll(s) \/ SettleTimeout(s) \/ SettleWindow(s) \/ SettleSend(s)
    \/ SettleResend(s) \/ SettleConfirm(s) \/ SettleCleanup(s)
    \/ SettleRetry(s) \/ SettleRetryConfirm(s)

\* The settlement actions that start no submission leave streams, submissions and
\* the chain alone, and do no more to a tracker than drop it.
LEMMA SettleOnlyEffect ==
    ASSUME TypeOK, NEW s \in Settlers, SettleOnly(s)
    PROVE  /\ UNCHANGED <<stream, sub, closed, served, acked, mark, failed>>
           /\ tracker' \in {tracker, Remove(tracker, settle[s].job)}
           /\ cached' \subseteq cached
           /\ settle[s].pc \notin {"idle", "submitting"}
           /\ settle' \in [Settlers -> SettleRecord]
           /\ \A z \in Settlers \ {s} : settle'[z] = settle[z]
           /\ settle'[s].pc \notin {"idle", "submitting"}
           /\ settle'[s].job = settle[s].job
<1>0. settle \in [Settlers -> SettleRecord] /\ settle[s] \in SettleRecord  BY DEF TypeOK
<1> USE DEF SettleGoto, SettleRecord
<1>1. CASE SettlePoll(s)     BY <1>0, <1>1 DEF SettlePoll
<1>2. CASE SettleTimeout(s)  BY <1>0, <1>2 DEF SettleTimeout
<1>3. CASE SettleWindow(s)   BY <1>0, <1>3 DEF SettleWindow
<1>4. CASE SettleSend(s)     BY <1>0, <1>4 DEF SettleSend
<1>5. CASE SettleResend(s)   BY <1>0, <1>5 DEF SettleResend
<1>6. CASE SettleConfirm(s)  BY <1>0, <1>6 DEF SettleConfirm
<1>7. CASE SettleCleanup(s)  BY <1>0, <1>7 DEF SettleCleanup
<1>8. CASE SettleRetry(s)    BY <1>0, <1>8, NumberAssumption DEF SettleRetry
<1>9. CASE SettleRetryConfirm(s) BY <1>0, <1>9 DEF SettleRetryConfirm
<1> QED BY <1>1, <1>2, <1>3, <1>4, <1>5, <1>6, <1>7, <1>8, <1>9 DEF SettleOnly

\* A stage of submit_checkpoint_async touches its own call, the proof cache and,
\* when the chain accepts the proof, what the chain knows.
Stage(x) ==
    Prove(x) \/ PublishOk(x) \/ PublishErr(x) \/ QueryAndCache(x) \/ SendProof(x)

\* A stage of submit_checkpoint_async moves one submission on and may reach the
\* chain; the trackers stay as they are.
LEMMA StageEffect ==
    ASSUME TypeOK, KnownJobs, NEW x \in Submitters, Stage(x)
    PROVE  /\ UNCHANGED <<tracker, stream, settle, closed, served, failed>>
           /\ sub[x].pc \in Submitting
           /\ sub' \in [Submitters -> SubRecord]
           /\ \A z \in Submitters \ {x} : sub'[z] = sub[z]
           /\ sub'[x].pc \in InFlight
           /\ sub'[x] = [sub[x] EXCEPT !.pc = sub'[x].pc]
           /\ sub[x].job \in Jobs
           /\ \/ sub'[x].pc # "done_ok" /\ UNCHANGED <<acked, mark>>
              \/ /\ sub'[x].pc = "done_ok"
                 /\ acked' = [acked EXCEPT ![sub[x].job] = @ + sub[x].tokens]
                 /\ mark' = [mark EXCEPT ![sub[x].job] = sub[x].upto]
           /\ cached' \subseteq Jobs
<1>0. /\ sub \in [Submitters -> SubRecord] /\ sub[x] \in SubRecord
      /\ sub[x].pc # "idle" => sub[x].job \in Jobs
      /\ cached \subseteq Jobs
  BY DEF TypeOK, KnownJobs, HistoryOK
<1> USE DEF Advance, SubRecord, InFlight, Submitting
<1>1. CASE Prove(x)         BY <1>0, <1>1 DEF Prove
<1>2. CASE PublishOk(x)     BY <1>0, <1>2 DEF PublishOk
<1>3. CASE PublishErr(x)    BY <1>0, <1>3 DEF PublishErr
<1>4. CASE QueryAndCache(x) BY <1>0, <1>4 DEF QueryAndCache
<1>5. CASE SendProof(x)     BY <1>0, <1>5 DEF SendProof
<1> QED BY <1>1, <1>2, <1>3, <1>4, <1>5 DEF Stage

\* A critical section that starts a submission for job j in slot x of a tracker
\* whose contents are r.
Starts(x, j, r) ==
    /\ tracker' = Put(tracker, j, Submitted(r))
    /\ sub' = [sub EXCEPT ![x] = Submission(j, r)]

\* Starting a submission changes one tracker and one submission.
LEMMA StartsEffect ==
    ASSUME TypeOK, NEW x \in Submitters, NEW j \in Jobs, NEW r \in JobTokenTracker,
           Starts(x, j, r)
    PROVE  /\ TrackerOK' /\ sub' \in [Submitters -> SubRecord]
           /\ DOMAIN tracker' = DOMAIN tracker \cup {j}
           /\ tracker'[j] = Submitted(r)
           /\ \A i \in DOMAIN tracker : i # j => tracker'[i] = tracker[i]
           /\ sub'[x] = Submission(j, r)
           /\ sub'[x].pc = "prove" /\ sub'[x].job = j
           /\ tracker'[j].submission_in_progress
           /\ \A z \in Submitters \ {x} : sub'[z] = sub[z]
<1>1. Submitted(r) \in JobTokenTracker /\ Submission(j, r) \in SubRecord  BY RecordTypes
<1>2. TrackerOK'  BY <1>1, PutType DEF TypeOK, TrackerOK, Starts
<1>3. /\ sub' \in [Submitters -> SubRecord]
      /\ sub'[x] = Submission(j, r)
      /\ \A z \in Submitters \ {x} : sub'[z] = sub[z]
  BY <1>1 DEF TypeOK, Starts
<1>4. /\ DOMAIN tracker' = DOMAIN tracker \cup {j}
      /\ tracker'[j] = Submitted(r)
      /\ \A i \in DOMAIN tracker : i # j => tracker'[i] = tracker[i]
  BY DEF Starts, Put
<1>5. /\ Submission(j, r).pc = "prove" /\ Submission(j, r).job = j
      /\ Submitted(r).submission_in_progress
  BY RecordTypes
<1> QED BY <1>2, <1>3, <1>4, <1>5

\* The critical section of track_tokens counts tokens and may start a submission.
LEMMA TrackWriteEffect ==
    ASSUME TypeOK, KnownJobs, NEW t \in Streams, TrackWrite(t)
    PROVE  LET j == stream[t].job
           IN  /\ stream[t].pc = "checked" /\ j \in Jobs
               /\ stream' = [stream EXCEPT ![t] = IdleStream]
               /\ served' = [served EXCEPT ![j] = @ + stream[t].tokens]
               /\ Counted(t) \in JobTokenTracker
               /\ UNCHANGED <<settle, cached, closed, acked, mark, failed>>
               /\ \/ tracker' = Put(tracker, j, Counted(t)) /\ sub' = sub
                  \/ /\ CheckpointDue(Counted(t))
                     /\ \E k \in Tasks : sub[k].pc = "idle" /\ Starts(k, j, Counted(t))
  BY CountedType DEF TrackWrite, Starts, KnownJobs

\* The first half of track_tokens only fills in the stream's call.
LEMMA TrackCheckEffect ==
    ASSUME TypeOK, NEW t \in Streams, NEW j \in Jobs, NEW n \in Nat,
           NEW sid \in SessionIds \cup {NoSession}, TrackCheck(t, j, n, sid)
    PROVE  /\ UNCHANGED <<tracker, sub, settle, cached, closed, served, acked, mark, failed>>
           /\ stream' \in [Streams -> StreamRecord]
           /\ \A z \in Streams \ {t} : stream'[z] = stream[z]
           /\ stream[t].pc = "idle" /\ stream'[t].pc = "checked"
           /\ stream'[t].job = j /\ stream'[t].tokens = n /\ stream'[t].session_id = sid
           /\ j \notin DOMAIN tracker => stream'[t].proof_interval \in QueriedIntervals
           /\ LateTokens \/ j \notin closed
<1>1. PICK i \in (IF j \in DOMAIN tracker THEN {0} ELSE QueriedIntervals) :
          stream' = [stream EXCEPT ![t] =
                        [pc |-> "checked", job |-> j, tokens |-> n,
                         proof_interval |-> i, session_id |-> sid]]  BY DEF TrackCheck
<1>2. i \in Nat /\ stream \in [Streams -> StreamRecord]  BY IntervalsArePositive, NumberAssumption DEF TypeOK
<1>3. [pc |-> "checked", job |-> j, tokens |-> n,
       proof_interval |-> i, session_id |-> sid] \in StreamRecord  BY <1>2 DEF StreamRecord
<1> QED BY <1>1, <1>2, <1>3 DEF TrackCheck

\* force_checkpoint occupies a free slot with a task that waits for the lock.
LEMMA ForceCheckpointEffect ==
    ASSUME TypeOK, NEW j \in Jobs, ForceCheckpoint(j)
    PROVE  /\ UNCHANGED <<tracker, stream, settle, cached, closed, served, acked, mark, failed>>
           /\ \E k \in Tasks :
                 /\ sub[k].pc = "idle"
                 /\ sub' \in [Submitters -> SubRecord]
                 /\ \A z \in Submitters \ {k} : sub'[z] = sub[z]
                 /\ sub'[k].pc = "lock" /\ sub'[k].job = j
<1>1. PICK k \in Tasks :
          /\ sub[k].pc = "idle"
          /\ sub' = [sub EXCEPT ![k] =
                        [pc |-> "lock", job |-> j, tokens |-> 0, prev |-> 0, upto |-> 0,
                         session_id |-> NoSession]]  BY DEF ForceCheckpoint
<1>2. [pc |-> "lock", job |-> j, tokens |-> 0, prev |-> 0, upto |-> 0,
       session_id |-> NoSession] \in SubRecord  BY DEF SubRecord
<1>3. k \in Submitters /\ sub \in [Submitters -> SubRecord]  BY DEF Submitters, TypeOK
<1> QED BY <1>1, <1>2, <1>3 DEF ForceCheckpoint

\* A forced checkpoint is started or dropped.
LEMMA ForceLockEffect ==
    ASSUME TypeOK, KnownJobs, NEW x \in Submitters, ForceLock(x)
    PROVE  LET j == sub[x].job
           IN  /\ sub[x].pc = "lock" /\ j \in Jobs
               /\ UNCHANGED <<stream, settle, cached, closed, served, acked, mark, failed>>
               /\ \/ tracker' = tracker /\ sub' = [sub EXCEPT ![x] = IdleSub]
                  \/ /\ j \in DOMAIN tracker /\ ForceDue(tracker[j])
                     /\ tracker[j] \in JobTokenTracker
                     /\ Starts(x, j, tracker[j])
  BY DEF ForceLock, KnownJobs, Starts, TypeOK, TrackerOK

\* force_checkpoint_on_completion submits the rest, or leaves everything alone.
LEMMA SettleFinalEffect ==
    ASSUME TypeOK, NEW s \in Settlers, SettleFinal(s)
    PROVE  LET j == settle[s].job
           IN  /\ settle[s].pc = "final"
               /\ UNCHANGED <<stream, cached, closed, served, acked, mark, failed>>
               /\ settle' \in [Settlers -> SettleRecord]
               /\ \A z \in Settlers \ {s} : settle'[z] = settle[z]
               /\ settle'[s].job = j
               /\ \/ settle'[s].pc = "window" /\ UNCHANGED <<tracker, sub>>
                  \/ /\ settle'[s].pc = "submitting"
                     /\ j \in Jobs /\ j \in DOMAIN tracker /\ FinalDue(tracker[j])
                     /\ tracker[j] \in JobTokenTracker
                     /\ Starts(s, j, tracker[j])
<1> DEFINE j == settle[s].job
           due == j \in DOMAIN tracker /\ FinalDue(tracker[j])
<1>1. settle \in [Settlers -> SettleRecord] /\ settle[s] \in SettleRecord  BY DEF TypeOK
<1>2. /\ settle[s].pc = "final"
      /\ settle' = [settle EXCEPT ![s].pc = IF due THEN "submitting" ELSE "window"]
      /\ UNCHANGED <<stream, cached, closed, served, acked, mark, failed>>
  BY DEF SettleFinal, SettleGoto
<1>3. /\ settle' \in [Settlers -> SettleRecord]
      /\ \A z \in Settlers \ {s} : settle'[z] = settle[z]
      /\ settle'[s].job = j
      /\ settle'[s].pc = IF due THEN "submitting" ELSE "window"
  BY <1>1, <1>2 DEF SettleRecord
<1>4. CASE ~due  BY <1>2, <1>3, <1>4 DEF SettleFinal
<1>5. CASE due  BY <1>2, <1>3, <1>5 DEF SettleFinal, Starts, TypeOK, TrackerOK
<1> QED BY <1>4, <1>5

\* complete_session_job closes the job for good.
LEMMA SettleStartEffect ==
    ASSUME TypeOK, NEW s \in Settlers, NEW j \in Jobs, SettleStart(s, j)
    PROVE  /\ UNCHANGED <<tracker, stream, sub, cached, served, acked, mark, failed>>
           /\ closed' = closed \cup {j}
           /\ LateTokens \/ Quiet(j)
           /\ settle' \in [Settlers -> SettleRecord]
           /\ \A z \in Settlers \ {s} : settle'[z] = settle[z]
           /\ settle[s].pc = "idle"
           /\ settle'[s].pc = "waiting" /\ settle'[s].job = j
<1>1. [pc |-> "waiting", job |-> j, retry_count |-> 0, timed_out |-> FALSE] \in SettleRecord
  BY NumberAssumption DEF SettleRecord
<1> QED BY <1>1 DEF SettleStart, TypeOK

\* The outcome of a submission reaches the tracker that is there now, if any.
LEMMA RecordEffect ==
    ASSUME TypeOK, KnownJobs, NEW x \in Submitters, Record(x)
    PROVE  LET j == sub[x].job
           IN  /\ sub[x].pc \in {"done_ok", "done_err"} /\ j \in Jobs
               /\ UNCHANGED <<stream, cached, closed, served, acked, mark>>
               /\ TrackerOK' /\ DOMAIN tracker' = DOMAIN tracker
               /\ \A i \in DOMAIN tracker : i # j => tracker'[i] = tracker[i]
               /\ j \in DOMAIN tracker => tracker'[j] = Outcome(tracker[j], sub[x])
               /\ sub' \in [Submitters -> SubRecord]
               /\ sub'[x] = IdleSub
               /\ \A z \in Submitters \ {x} : sub'[z] = sub[z]
               /\ settle' \in [Settlers -> SettleRecord]
               /\ \A z \in Settlers : settle'[z].job = settle[z].job
               /\ \A z \in Settlers \ {x} : settle'[z] = settle[z]
               /\ x \in Settlers => settle'[x].pc = "window"
               /\ failed' \subseteq Jobs
<1> DEFINE j == sub[x].job
<1>1. /\ sub[x].pc \in {"done_ok", "done_err"} /\ j \in Jobs
      /\ sub \in [Submitters -> SubRecord] /\ sub[x] \in SubRecord
      /\ failed \subseteq Jobs
  BY DEF Record, KnownJobs, TypeOK, HistoryOK
<1>2. ASSUME j \in DOMAIN tracker
      PROVE  /\ TrackerOK' /\ DOMAIN tracker' = DOMAIN tracker
             /\ tracker'[j] = Outcome(tracker[j], sub[x])
             /\ \A i \in DOMAIN tracker : i # j => tracker'[i] = tracker[i]
  <2>1. tracker' = Put(tracker, j, Outcome(tracker[j], sub[x]))  BY <1>2 DEF Record
  <2>2. Outcome(tracker[j], sub[x]) \in JobTokenTracker  BY <1>1, <1>2, RecordTypes DEF TypeOK, TrackerOK
  <2>3. TrackerOK'  BY <1>1, <2>1, <2>2 DEF TypeOK, TrackerOK, Put
  <2>4. /\ DOMAIN tracker' = DOMAIN tracker \cup {j}
        /\ tracker'[j] = Outcome(tracker[j], sub[x])
        /\ \A i \in DOMAIN tracker : i # j => tracker'[i] = tracker[i]
    BY <2>1 DEF Put
  <2> QED BY <1>2, <2>3, <2>4
<1>3. ASSUME j \notin DOMAIN tracker
      PROVE  TrackerOK' /\ tracker' = tracker  BY <1>3 DEF Record, TypeOK, TrackerOK
<1>4. /\ TrackerOK' /\ DOMAIN tracker' = DOMAIN tracker
      /\ \A i \in DOMAIN tracker : i # j => tracker'[i] = tracker[i]
      /\ j \in DOMAIN tracker => tracker'[j] = Outcome(tracker[j], sub[x])
  BY <1>2, <1>3
<1>5. /\ sub' \in [Submitters -> SubRecord] /\ sub'[x] = IdleSub
      /\ \A z \in Submitters \ {x} : sub'[z] = sub[z]
  BY <1>1, IdleTypes DEF Record
<1>6. /\ settle' \in [Settlers -> SettleRecord]
      /\ \A z \in Settlers : settle'[z].job = settle[z].job
      /\ \A z \in Settlers \ {x} : settle'[z] = settle[z]
      /\ x \in Settlers => settle'[x].pc = "window"
  BY DEF Record, TypeOK, SettleRecord
<1>7. failed' \subseteq Jobs  BY <1>1 DEF Record
<1> QED BY <1>1, <1>4, <1>5, <1>6, <1>7 DEF Record

-----------------------------------------------------------------------------
(* Next, regrouped by what its steps touch *)

\* Every step is one of nine kinds, each with the effect proved above.
LEMMA NextCases ==
    ASSUME Next
    PROVE  \/ \E t \in Streams, j \in Jobs, n \in TokenCounts,
                 sid \in SessionIds \cup {NoSession} : TrackCheck(t, j, n, sid)
           \/ \E t \in Streams : TrackWrite(t)
           \/ \E j \in Jobs : ForceCheckpoint(j)
           \/ \E x \in Submitters : ForceLock(x)
           \/ \E x \in Submitters : Stage(x)
           \/ \E x \in Submitters : Record(x)
           \/ \E s \in Settlers, j \in Jobs : SettleStart(s, j)
           \/ \E s \in Settlers : SettleFinal(s)
           \/ \E s \in Settlers : SettleOnly(s)
  BY DEF Next, StreamCall, SubmitStep, SettleStep, Stage, SettleOnly

-----------------------------------------------------------------------------
(* Type correctness *)

TypeInv == TypeOK /\ KnownJobs

\* The initial state is well typed.
LEMMA TypeInit == Init => TypeInv
<1> SUFFICES ASSUME Init PROVE TypeInv  OBVIOUS
<1>1. TrackerOK  BY DEF Init, TrackerOK
<1>2. HistoryOK  BY DEF Init, HistoryOK
<1>3. TypeOK  BY <1>1, <1>2, IdleTypes DEF Init, TypeOK
<1>4. KnownJobs  BY DEF Init, KnownJobs, IdleStream, IdleSub
<1> QED BY <1>3, <1>4 DEF TypeInv

\* Every step keeps the types.
LEMMA TypeNext ==
    ASSUME TypeInv, [Next]_vars
    PROVE  TypeInv'
<1>0. TypeOK /\ KnownJobs  BY DEF TypeInv
<1> USE DEF TypeInv, HistoryOK, KnownJobs
<1>1. ASSUME NEW t \in Streams, NEW j \in Jobs, NEW n \in TokenCounts,
             NEW sid \in SessionIds \cup {NoSession}, TrackCheck(t, j, n, sid)
      PROVE  TypeInv'  BY SMTT(40), <1>0, <1>1, TrackCheckEffect, NumberAssumption DEF TypeOK, TrackerOK
<1>2. ASSUME NEW t \in Streams, TrackWrite(t)
      PROVE  TypeInv'
  <2> DEFINE j == stream[t].job
  <2>1. /\ j \in Jobs /\ Counted(t) \in JobTokenTracker
        /\ stream' = [stream EXCEPT ![t] = IdleStream]
        /\ served' = [served EXCEPT ![j] = @ + stream[t].tokens]
        /\ UNCHANGED <<settle, cached, closed, acked, mark, failed>>
        /\ \/ tracker' = Put(tracker, j, Counted(t)) /\ sub' = sub
           \/ \E k \in Tasks : Starts(k, j, Counted(t))
    BY <1>0, <1>2, TrackWriteEffect
  <2>2. /\ stream' \in [Streams -> StreamRecord] /\ stream'[t].pc = "idle"
        /\ \A z \in Streams \ {t} : stream'[z] = stream[z]
    BY <1>0, <2>1, IdleTypes DEF TypeOK, IdleStream
  <2>3. HistoryOK'  BY <1>0, <2>1 DEF TypeOK, StreamRecord
  <2>4. ASSUME tracker' = Put(tracker, j, Counted(t)), sub' = sub
        PROVE  TypeInv'
    <3>1. TrackerOK'  BY <1>0, <2>1, <2>4 DEF TypeOK, TrackerOK, Put
    <3> QED BY <1>0, <2>1, <2>2, <2>3, <2>4, <3>1 DEF TypeOK
  <2>5. ASSUME NEW k \in Tasks, Starts(k, j, Counted(t))
        PROVE  TypeInv'
    <3>1. k \in Submitters  BY DEF Submitters
    <3>2. /\ TrackerOK' /\ sub' \in [Submitters -> SubRecord]
          /\ sub'[k].job = j
          /\ \A z \in Submitters \ {k} : sub'[z] = sub[z]
      BY <1>0, <2>1, <2>5, <3>1, StartsEffect
    <3> QED BY <1>0, <2>1, <2>2, <2>3, <3>2 DEF TypeOK
  <2> QED BY <2>1, <2>4, <2>5
<1>3. ASSUME NEW j \in Jobs, ForceCheckpoint(j)
      PROVE  TypeInv'
  <2>1. PICK k \in Tasks :
            /\ sub' \in [Submitters -> SubRecord]
            /\ \A z \in Submitters \ {k} : sub'[z] = sub[z]
            /\ sub'[k].job = j
    BY <1>0, <1>3, ForceCheckpointEffect
  <2>2. UNCHANGED <<tracker, stream, settle, cached, closed, served, acked, mark, failed>>  BY <1>3 DEF ForceCheckpoint
  <2> QED BY <1>0, <2>1, <2>2 DEF TypeOK, TrackerOK
<1>4. ASSUME NEW x \in Submitters, ForceLock(x)
      PROVE  TypeInv'
  <2> DEFINE j == sub[x].job
  <2>1. /\ j \in Jobs
        /\ UNCHANGED <<stream, settle, cached, closed, served, acked, mark, failed>>
        /\ \/ tracker' = tracker /\ sub' = [sub EXCEPT ![x] = IdleSub]
           \/ tracker[j] \in JobTokenTracker /\ Starts(x, j, tracker[j])
    BY <1>0, <1>4, ForceLockEffect
  <2>2. CASE tracker' = tracker /\ sub' = [sub EXCEPT ![x] = IdleSub]
    BY <1>0, <2>1, <2>2, IdleTypes DEF TypeOK, TrackerOK, IdleSub
  <2>3. ASSUME tracker[j] \in JobTokenTracker, Starts(x, j, tracker[j])
        PROVE  TypeInv'
    <3>1. /\ TrackerOK' /\ sub' \in [Submitters -> SubRecord]
          /\ sub'[x].job = j
          /\ \A z \in Submitters \ {x} : sub'[z] = sub[z]
      BY <1>0, <2>1, <2>3, StartsEffect
    <3> QED BY <1>0, <2>1, <3>1 DEF TypeOK
  <2> QED BY <2>1, <2>2, <2>3
<1>5. ASSUME NEW x \in Submitters, Stage(x)
      PROVE  TypeInv'
  <2>1. /\ UNCHANGED <<tracker, stream, settle, closed, served, failed>>
        /\ sub' \in [Submitters -> SubRecord]
        /\ \A z \in Submitters \ {x} : sub'[z] = sub[z]
        /\ sub'[x] = [sub[x] EXCEPT !.pc = sub'[x].pc]
        /\ sub[x].job \in Jobs
        /\ \/ UNCHANGED <<acked, mark>>
           \/ /\ acked' = [acked EXCEPT ![sub[x].job] = @ + sub[x].tokens]
              /\ mark' = [mark EXCEPT ![sub[x].job] = sub[x].upto]
        /\ cached' \subseteq Jobs
    BY <1>0, <1>5, StageEffect
  <2>2. HistoryOK'  BY <1>0, <2>1 DEF TypeOK, SubRecord
  <2>3. TrackerOK' /\ sub'[x].job = sub[x].job  BY <1>0, <2>1 DEF TypeOK, TrackerOK, SubRecord
  <2> QED BY <1>0, <2>1, <2>2, <2>3 DEF TypeOK
<1>6. ASSUME NEW x \in Submitters, Record(x)
      PROVE  TypeInv'  BY <1>0, <1>6, RecordEffect DEF TypeOK, IdleSub
<1>7. ASSUME NEW s \in Settlers, NEW j \in Jobs, SettleStart(s, j)
      PROVE  TypeInv'  BY <1>0, <1>7, SettleStartEffect DEF TypeOK, TrackerOK
<1>8. ASSUME NEW s \in Settlers, SettleFinal(s)
      PROVE  TypeInv'
  <2> DEFINE j == settle[s].job
  <2>1. /\ UNCHANGED <<stream, cached, closed, served, acked, mark, failed>>
        /\ settle' \in [Settlers -> SettleRecord]
        /\ \/ UNCHANGED <<tracker, sub>>
           \/ j \in Jobs /\ tracker[j] \in JobTokenTracker /\ Starts(s, j, tracker[j])
    BY <1>0, <1>8, SettleFinalEffect
  <2>2. CASE UNCHANGED <<tracker, sub>>  BY <1>0, <2>1, <2>2 DEF TypeOK, TrackerOK
  <2>3. ASSUME j \in Jobs, tracker[j] \in JobTokenTracker, Starts(s, j, tracker[j])
        PROVE  TypeInv'
    <3>1. s \in Submitters  BY DEF Submitters
    <3>2. /\ TrackerOK' /\ sub' \in [Submitters -> SubRecord]
          /\ sub'[s].job = j
          /\ \A z \in Submitters \ {s} : sub'[z] = sub[z]
      BY <1>0, <2>3, <3>1, StartsEffect
    <3> QED BY <1>0, <2>1, <2>3, <3>2 DEF TypeOK
  <2> QED BY <2>1, <2>2, <2>3
<1>9. ASSUME NEW s \in Settlers, SettleOnly(s)
      PROVE  TypeInv'
  <2>1. /\ UNCHANGED <<stream, sub, closed, served, acked, mark, failed>>
        /\ tracker' \in {tracker, Remove(tracker, settle[s].job)}
        /\ cached' \subseteq cached
        /\ settle' \in [Settlers -> SettleRecord]
    BY <1>0, <1>9, SettleOnlyEffect
  <2>2. TrackerOK'  BY <1>0, <2>1 DEF TypeOK, TrackerOK, Remove, Restrict
  <2> QED BY <1>0, <2>1, <2>2 DEF TypeOK
<1>10. CASE UNCHANGED vars  BY <1>0, <1>10 DEF vars, TypeOK, TrackerOK
<1> QED BY NextCases, <1>1, <1>2, <1>3, <1>4, <1>5, <1>6, <1>7, <1>8, <1>9, <1>10

\* Every variable keeps its type, for any number of streams, tasks and settlers.
THEOREM TypeCorrect == Spec => []TypeOK
<1>1. TypeInv => TypeOK  BY DEF TypeInv
<1> QED BY TypeInit, TypeNext, <1>1, PTL DEF Spec

-----------------------------------------------------------------------------
(* No flag is left behind *)

\* Every step keeps settlers and their submissions in step.
LEMMA SettleInvNext ==
    ASSUME TypeInv, SettleInv, [Next]_vars
    PROVE  SettleInv'
<1>0. TypeOK /\ KnownJobs  BY DEF TypeInv
<1>a. Tasks \subseteq Submitters /\ Settlers \subseteq Submitters /\ Tasks \cap Settlers = {}
  BY ProcessAssumption DEF Submitters
<1> USE DEF SettleInv
<1>1. ASSUME NEW t \in Streams, NEW j \in Jobs, NEW n \in TokenCounts,
             NEW sid \in SessionIds \cup {NoSession}, TrackCheck(t, j, n, sid)
      PROVE  SettleInv'  BY <1>0, <1>1 DEF TrackCheck
<1>2. ASSUME NEW t \in Streams, TrackWrite(t)
      PROVE  SettleInv'
  <2>1. UNCHANGED <<settle, closed>>  BY <1>2 DEF TrackWrite
  <2>2. \A s \in Settlers : sub'[s] = sub[s]  BY <1>0, <1>2, <1>a DEF TrackWrite, TypeOK
  <2> QED BY <2>1, <2>2
<1>3. ASSUME NEW j \in Jobs, ForceCheckpoint(j)
      PROVE  SettleInv'
  <2>1. UNCHANGED <<settle, closed>>  BY <1>3 DEF ForceCheckpoint
  <2>2. \A s \in Settlers : sub'[s] = sub[s]  BY <1>0, <1>3, <1>a DEF ForceCheckpoint, TypeOK
  <2> QED BY <2>1, <2>2
<1>4. ASSUME NEW x \in Submitters, ForceLock(x)
      PROVE  SettleInv'
  <2>1. UNCHANGED <<settle, closed>>  BY <1>4 DEF ForceLock
  <2>2. x \notin Settlers  BY <1>4 DEF ForceLock, InFlight, Submitting
  <2>3. \A s \in Settlers : sub'[s] = sub[s]  BY <1>0, <1>4, <1>a, <2>2 DEF ForceLock, TypeOK
  <2> QED BY <2>1, <2>3
<1>5. ASSUME NEW x \in Submitters, Stage(x)
      PROVE  SettleInv'
  <2>1. /\ UNCHANGED <<settle, closed>>
        /\ sub[x].pc \in Submitting /\ sub'[x].pc \in InFlight
        /\ \A z \in Submitters \ {x} : sub'[z] = sub[z]
    BY <1>0, <1>5, StageEffect
  <2>2. sub[x].pc # "idle"  BY <2>1 DEF Submitting
  <2> QED BY <1>a, <2>1, <2>2
<1>6. ASSUME NEW x \in Submitters, Record(x)
      PROVE  SettleInv'
  <2>1. /\ sub[x].pc # "idle" /\ sub'[x].pc = "idle"
        /\ closed' = closed
        /\ \A z \in Submitters \ {x} : sub'[z] = sub[z]
        /\ \A z \in Settlers : settle'[z].job = settle[z].job
        /\ \A z \in Settlers \ {x} : settle'[z] = settle[z]
        /\ x \in Settlers => settle'[x].pc = "window"
    BY <1>0, <1>6, RecordEffect DEF IdleSub
  <2> QED BY <1>a, <2>1
<1>7. ASSUME NEW s \in Settlers, NEW j \in Jobs, SettleStart(s, j)
      PROVE  SettleInv'  BY <1>0, <1>7, SettleStartEffect
<1>8. ASSUME NEW s \in Settlers, SettleFinal(s)
      PROVE  SettleInv'
  <2> DEFINE j == settle[s].job
  <2>1. /\ settle[s].pc = "final" /\ closed' = closed
        /\ \A z \in Settlers \ {s} : settle'[z] = settle[z]
        /\ settle'[s].job = j
        /\ \/ settle'[s].pc = "window" /\ UNCHANGED <<tracker, sub>>
           \/ /\ settle'[s].pc = "submitting"
              /\ j \in Jobs /\ tracker[j] \in JobTokenTracker /\ Starts(s, j, tracker[j])
    BY <1>0, <1>8, SettleFinalEffect
  <2>2. ASSUME j \in Jobs, tracker[j] \in JobTokenTracker, Starts(s, j, tracker[j])
        PROVE  sub'[s].pc = "prove" /\ \A z \in Submitters \ {s} : sub'[z] = sub[z]  BY <1>0, <1>a, <2>2, StartsEffect
  <2> QED BY <1>a, <2>1, <2>2 DEF InFlight, Submitting
<1>9. ASSUME NEW s \in Settlers, SettleOnly(s)
      PROVE  SettleInv'  BY <1>0, <1>9, SettleOnlyEffect
<1>10. CASE UNCHANGED vars  BY <1>10 DEF vars
<1> QED BY NextCases, <1>1, <1>2, <1>3, <1>4, <1>5, <1>6, <1>7, <1>8, <1>9, <1>10

\* A started submission makes its tracker busy and is in flight itself; the other
\* trackers and submissions stay as they are.
LEMMA StartsBusy ==
    ASSUME TypeOK, BusyHasSubmission, NEW x \in Submitters, NEW j \in Jobs,
           NEW r \in JobTokenTracker, Starts(x, j, r), sub[x].pc \notin InFlight
    PROVE  BusyHasSubmission'
<1>1. /\ DOMAIN tracker' = DOMAIN tracker \cup {j}
      /\ \A i \in DOMAIN tracker : i # j => tracker'[i] = tracker[i]
      /\ sub'[x].pc = "prove" /\ sub'[x].job = j
      /\ \A z \in Submitters \ {x} : sub'[z] = sub[z]
  BY StartsEffect
<1> QED BY <1>1 DEF BusyHasSubmission, InFlightOf, InFlight, Submitting

\* Every step keeps a submission in flight behind every flag.
LEMMA BusyNext ==
    ASSUME BusyInv, [Next]_vars
    PROVE  BusyHasSubmission'
<1>0. TypeOK /\ KnownJobs /\ SettleInv /\ BusyHasSubmission  BY DEF BusyInv
<1>a. Tasks \subseteq Submitters /\ Settlers \subseteq Submitters  BY DEF Submitters
<1>1. ASSUME NEW t \in Streams, NEW j \in Jobs, NEW n \in TokenCounts,
             NEW sid \in SessionIds \cup {NoSession}, TrackCheck(t, j, n, sid)
      PROVE  BusyHasSubmission'  BY <1>0, <1>1 DEF TrackCheck, BusyHasSubmission, InFlightOf
<1>2. ASSUME NEW t \in Streams, TrackWrite(t)
      PROVE  BusyHasSubmission'
  <2> DEFINE j == stream[t].job
             r == Counted(t)
  <2>1. /\ j \in Jobs /\ r \in JobTokenTracker
        /\ \/ tracker' = Put(tracker, j, r) /\ sub' = sub
           \/ \E k \in Tasks : sub[k].pc = "idle" /\ Starts(k, j, r)
    BY <1>0, <1>2, TrackWriteEffect
  <2>2. CASE tracker' = Put(tracker, j, r) /\ sub' = sub
    <3>1. /\ DOMAIN tracker' = DOMAIN tracker \cup {j}
          /\ tracker'[j] = r
          /\ \A i \in DOMAIN tracker : i # j => tracker'[i] = tracker[i]
      BY <2>2 DEF Put
    <3>2. r.submission_in_progress => j \in DOMAIN tracker /\ tracker[j].submission_in_progress
      BY <1>0 DEF Counted, AddTokens, TrackerOf, NewTracker, TypeOK, TrackerOK, JobTokenTracker
    <3> QED BY <1>0, <2>2, <3>1, <3>2 DEF BusyHasSubmission, InFlightOf
  <2>3. ASSUME NEW k \in Tasks, sub[k].pc = "idle", Starts(k, j, r)
        PROVE  BusyHasSubmission'
    <3>1. sub[k].pc \notin InFlight  BY <2>3 DEF InFlight, Submitting
    <3> QED BY <1>0, <1>a, <2>1, <2>3, <3>1, StartsBusy
  <2> QED BY <2>1, <2>2, <2>3
<1>3. ASSUME NEW j \in Jobs, ForceCheckpoint(j)
      PROVE  BusyHasSubmission'
  <2>1. PICK k \in Tasks : sub[k].pc = "idle" /\ \A z \in Submitters \ {k} : sub'[z] = sub[z]
    BY <1>0, <1>3, ForceCheckpointEffect
  <2>2. tracker' = tracker  BY <1>3 DEF ForceCheckpoint
  <2> QED BY <1>0, <2>1, <2>2 DEF BusyHasSubmission, InFlightOf, InFlight, Submitting
<1>4. ASSUME NEW x \in Submitters, ForceLock(x)
      PROVE  BusyHasSubmission'
  <2> DEFINE j == sub[x].job
  <2>1. /\ sub[x].pc = "lock" /\ j \in Jobs
        /\ \/ tracker' = tracker /\ sub' = [sub EXCEPT ![x] = IdleSub]
           \/ tracker[j] \in JobTokenTracker /\ Starts(x, j, tracker[j])
    BY <1>0, <1>4, ForceLockEffect
  <2>2. sub[x].pc \notin InFlight  BY <2>1 DEF InFlight, Submitting
  <2>3. CASE tracker' = tracker /\ sub' = [sub EXCEPT ![x] = IdleSub]
    BY <1>0, <2>2, <2>3 DEF BusyHasSubmission, InFlightOf, TypeOK
  <2>4. ASSUME tracker[j] \in JobTokenTracker, Starts(x, j, tracker[j])
        PROVE  BusyHasSubmission'  BY <1>0, <2>1, <2>2, <2>4, StartsBusy
  <2> QED BY <2>1, <2>3, <2>4
<1>5. ASSUME NEW x \in Submitters, Stage(x)
      PROVE  BusyHasSubmission'
  <2>1. /\ tracker' = tracker /\ sub'[x].pc \in InFlight
        /\ sub'[x] = [sub[x] EXCEPT !.pc = sub'[x].pc]
        /\ \A z \in Submitters \ {x} : sub'[z] = sub[z]
    BY <1>0, <1>5, StageEffect
  <2>2. sub'[x].job = sub[x].job  BY <1>0, <2>1 DEF TypeOK, SubRecord
  <2> QED BY <1>0, <2>1, <2>2 DEF BusyHasSubmission, InFlightOf
<1>6. ASSUME NEW x \in Submitters, Record(x)
      PROVE  BusyHasSubmission'
  <2> DEFINE j == sub[x].job
  <2>1. /\ DOMAIN tracker' = DOMAIN tracker
        /\ \A i \in DOMAIN tracker : i # j => tracker'[i] = tracker[i]
        /\ j \in DOMAIN tracker => tracker'[j] = Outcome(tracker[j], sub[x])
        /\ \A z \in Submitters \ {x} : sub'[z] = sub[z]
    BY <1>0, <1>6, RecordEffect
  <2>2. j \in DOMAIN tracker => ~tracker'[j].submission_in_progress
    BY <1>0, <2>1 DEF Outcome, TypeOK, TrackerOK, JobTokenTracker
  <2> QED BY <1>0, <2>1, <2>2 DEF BusyHasSubmission, InFlightOf
<1>7. ASSUME NEW s \in Settlers, NEW j \in Jobs, SettleStart(s, j)
      PROVE  BusyHasSubmission'  BY <1>0, <1>7 DEF SettleStart, BusyHasSubmission, InFlightOf
<1>8. ASSUME NEW s \in Settlers, SettleFinal(s)
      PROVE  BusyHasSubmission'
  <2> DEFINE j == settle[s].job
  <2>1. /\ settle[s].pc = "final"
        /\ \/ UNCHANGED <<tracker, sub>>
           \/ j \in Jobs /\ tracker[j] \in JobTokenTracker /\ Starts(s, j, tracker[j])
    BY <1>0, <1>8, SettleFinalEffect
  <2>2. CASE UNCHANGED <<tracker, sub>>  BY <1>0, <2>2 DEF BusyHasSubmission, InFlightOf
  <2>3. ASSUME j \in Jobs, tracker[j] \in JobTokenTracker, Starts(s, j, tracker[j])
        PROVE  BusyHasSubmission'
    <3>1. sub[s].pc \notin InFlight  BY <1>0, <2>1 DEF SettleInv, InFlight, Submitting
    <3> QED BY <1>0, <1>a, <2>3, <3>1, StartsBusy
  <2> QED BY <2>1, <2>2, <2>3
<1>9. ASSUME NEW s \in Settlers, SettleOnly(s)
      PROVE  BusyHasSubmission'
  <2>1. /\ sub' = sub
        /\ tracker' \in {tracker, Remove(tracker, settle[s].job)}
    BY <1>0, <1>9, SettleOnlyEffect
  <2> QED BY <1>0, <2>1 DEF BusyHasSubmission, InFlightOf, Remove, Restrict
<1>10. CASE UNCHANGED vars  BY <1>0, <1>10 DEF vars, BusyHasSubmission, InFlightOf
<1> QED BY NextCases, <1>1, <1>2, <1>3, <1>4, <1>5, <1>6, <1>7, <1>8, <1>9, <1>10

\* However trackers are dropped, created anew and raced by late submissions, a
\* tracker that is busy has a submission in flight that will clear its flag.
THEOREM NoStaleFlag == Spec => []BusyHasSubmission
<1>1. Init => BusyInv  BY TypeInit DEF Init, TypeInv, BusyInv, SettleInv, BusyHasSubmission,
                  IdleSettle, IdleSub, Submitters
<1>2. BusyInv /\ [Next]_vars => BusyInv'  BY TypeNext, SettleInvNext, BusyNext DEF BusyInv, TypeInv
<1>3. BusyInv => BusyHasSubmission  BY DEF BusyInv
<1> QED BY <1>1, <1>2, <1>3, PTL DEF Spec

-----------------------------------------------------------------------------
(* Submissions, trackers and the chain agree, when no tokens are tracked for *)
(* a job whose settlement has started                                        *)

\* Job j has no submission in flight.
AllQuiet(j) == \A x \in Submitters : ~(sub[x].job = j /\ sub[x].pc \in InFlight)

\* A tracker that is not busy stands where the chain stands.
LEMMA IdleTracker ==
    ASSUME SafetyInv, NEW j \in DOMAIN tracker, ~tracker[j].submission_in_progress
    PROVE  AllQuiet(j) /\ tracker[j].last_checkpoint = mark[j]  BY DEF SafetyInv, SubInv, TrackerInv, AllQuiet

\* What a critical section needs to know to start a submission: the tracker r
\* counts every token served, stands where the chain stands, and there is
\* something to prove and nobody proving it.
Startable(x, j, r) ==
    /\ r.tokens_generated = served'[j]
    /\ r.last_checkpoint = mark[j]
    /\ r.last_checkpoint <= r.tokens_generated
    /\ r.proof_interval \in QueriedIntervals
    /\ TokensSinceCheckpoint(r) > 0
    /\ AllQuiet(j)
    /\ sub[x].pc \notin InFlight

\* The submission that starts is for the tokens after the chain's mark, padded or
\* exact.
LEMMA SubmissionRange ==
    ASSUME NEW j \in Jobs, NEW r \in JobTokenTracker,
           r.last_checkpoint <= r.tokens_generated, TokensSinceCheckpoint(r) > 0,
           r.proof_interval \in QueriedIntervals
    PROVE  LET s == Submission(j, r)
           IN  /\ s.prev = r.last_checkpoint /\ s.upto = r.tokens_generated
               /\ s.prev < s.upto
               /\ \/ s.tokens = s.upto - s.prev
                  \/ /\ s.prev = 0 /\ s.upto < s.tokens
                     /\ s.tokens \in QueriedIntervals
<1>1. r.last_checkpoint \in Nat /\ r.tokens_generated \in Nat /\ r.proof_interval \in Nat  BY DEF JobTokenTracker
<1>2. TokensSinceCheckpoint(r) = r.tokens_generated - r.last_checkpoint  BY <1>1 DEF TokensSinceCheckpoint, SubU64
<1>3. r.last_checkpoint < r.tokens_generated  BY <1>1, <1>2
<1>4. \/ TokensToSubmit(r) = r.tokens_generated - r.last_checkpoint
      \/ /\ r.last_checkpoint = 0 /\ r.tokens_generated < TokensToSubmit(r)
         /\ TokensToSubmit(r) \in QueriedIntervals
  BY <1>1, <1>2 DEF TokensToSubmit
<1> QED BY <1>3, <1>4 DEF Submission

\* Starting a submission of an idle tracker keeps the token invariant.
LEMMA StartsSafe ==
    ASSUME SafetyInv, NEW x \in Submitters, NEW j \in Jobs, NEW r \in JobTokenTracker,
           Startable(x, j, r), Starts(x, j, r),
           served' \in [Jobs -> Nat], served[j] <= served'[j],
           \A i \in Jobs \ {j} : served'[i] = served[i],
           UNCHANGED <<mark, closed>>
    PROVE  FreshInv' /\ SubInv' /\ OneSubmission' /\ TrackerInv'
<1>0. /\ TypeOK /\ KnownJobs /\ FreshInv /\ SubInv /\ OneSubmission /\ TrackerInv
      /\ DOMAIN tracker \subseteq Jobs
  BY DEF SafetyInv, TypeOK, TrackerOK
<1>1. /\ DOMAIN tracker' = DOMAIN tracker \cup {j}
      /\ tracker'[j] = Submitted(r)
      /\ \A i \in DOMAIN tracker : i # j => tracker'[i] = tracker[i]
      /\ sub'[x] = Submission(j, r)
      /\ sub'[x].pc = "prove" /\ sub'[x].job = j
      /\ \A z \in Submitters \ {x} : sub'[z] = sub[z]
  <2>1. tracker'[j] = Submitted(r) /\ sub'[x] = Submission(j, r)  BY <1>0 DEF Starts, Put, TypeOK
  <2>2. /\ DOMAIN tracker' = DOMAIN tracker \cup {j}
        /\ \A i \in DOMAIN tracker : i # j => tracker'[i] = tracker[i]
        /\ sub'[x].pc = "prove" /\ sub'[x].job = j
        /\ \A z \in Submitters \ {x} : sub'[z] = sub[z]
    BY <1>0, StartsEffect
  <2> QED BY <2>1, <2>2
<1>2. /\ Submitted(r).submission_in_progress
      /\ Submitted(r).last_checkpoint = r.tokens_generated
      /\ Submitted(r).tokens_generated = r.tokens_generated
      /\ Submitted(r).proof_interval = r.proof_interval
  BY DEF Submitted, JobTokenTracker
<1>3. /\ sub'[x].prev = mark[j] /\ sub'[x].upto = served'[j]
      /\ sub'[x].prev < sub'[x].upto
      /\ \/ sub'[x].tokens = sub'[x].upto - sub'[x].prev
         \/ /\ sub'[x].prev = 0 /\ sub'[x].upto < sub'[x].tokens
            /\ sub'[x].tokens \in QueriedIntervals
  BY <1>1, SubmissionRange DEF Startable
<1>4. "prove" \in InFlight /\ "prove" # "done_ok"  BY DEF InFlight, Submitting
<1>5. ASSUME NEW z \in Submitters, z # x, sub[z].pc \in InFlight
      PROVE  sub'[z] = sub[z] /\ sub[z].job # j /\ sub[z].job \in Jobs
  BY <1>0, <1>1, <1>5 DEF Startable, AllQuiet, KnownJobs, InFlight, Submitting
<1>6. FreshInv'  BY <1>0, <1>1, <1>5 DEF FreshInv
<1>7. SubInv'
  <2> SUFFICES ASSUME NEW z \in Submitters, sub'[z].pc \in InFlight
               PROVE  LET i == sub'[z].job
                      IN  /\ sub'[z].prev < sub'[z].upto /\ sub'[z].upto <= served'[i]
                          /\ mark'[i] = IF sub'[z].pc = "done_ok" THEN sub'[z].upto
                                        ELSE sub'[z].prev
                          /\ i \in DOMAIN tracker' =>
                                /\ tracker'[i].submission_in_progress
                                /\ tracker'[i].last_checkpoint = sub'[z].upto
                          /\ \/ sub'[z].tokens = sub'[z].upto - sub'[z].prev
                             \/ /\ sub'[z].prev = 0 /\ sub'[z].upto < sub'[z].tokens
                                /\ sub'[z].tokens \in QueriedIntervals
    BY DEF SubInv
  <2>1. CASE z = x  BY <1>1, <1>2, <1>3, <1>4, <2>1 DEF Startable
  <2>2. CASE z # x
    <3>1. sub'[z] = sub[z] /\ sub[z].pc \in InFlight /\ sub[z].job # j /\ sub[z].job \in Jobs  BY <1>1, <1>5, <2>2
    <3> QED BY <1>0, <1>1, <3>1 DEF SubInv
  <2> QED BY <2>1, <2>2
<1>8. OneSubmission'  BY <1>0, <1>1, <1>5 DEF OneSubmission
<1>9. TrackerInv'
  <2> SUFFICES ASSUME NEW i \in DOMAIN tracker'
               PROVE  /\ tracker'[i].tokens_generated = served'[i]
                      /\ tracker'[i].last_checkpoint <= served'[i]
                      /\ tracker'[i].proof_interval \in QueriedIntervals
                      /\ \/ \E z \in Submitters : sub'[z].job = i /\ sub'[z].pc \in InFlight
                         \/ ~tracker'[i].submission_in_progress
                               /\ tracker'[i].last_checkpoint = mark'[i]
    BY DEF TrackerInv
  <2>1. CASE i = j  BY <1>1, <1>2, <1>4, <2>1 DEF Startable
  <2>2. CASE i # j
    <3>1. i \in DOMAIN tracker /\ tracker'[i] = tracker[i] /\ served'[i] = served[i]  BY <1>0, <1>1, <2>2
    <3>2. \A z \in Submitters : sub[z].job = i /\ sub[z].pc \in InFlight => sub'[z] = sub[z]
      BY <1>1, <1>5 DEF Startable
    <3> QED BY <1>0, <3>1, <3>2 DEF TrackerInv
  <2> QED BY <2>1, <2>2
<1> QED BY <1>6, <1>7, <1>8, <1>9

\* The tracker that track_tokens writes counts the new tokens and is otherwise
\* the one that was there, or a fresh one for a job never served.
LEMMA CountedFacts ==
    ASSUME SafetyInv, NEW t \in Streams, stream[t].pc = "checked"
    PROVE  LET j == stream[t].job
               r == Counted(t)
           IN  /\ j \in Jobs /\ j \notin closed
               /\ r.tokens_generated = served[j] + stream[t].tokens
               /\ r.last_checkpoint <= served[j]
               /\ r.proof_interval \in QueriedIntervals
               /\ j \in DOMAIN tracker =>
                     /\ r.last_checkpoint = tracker[j].last_checkpoint
                     /\ r.submission_in_progress = tracker[j].submission_in_progress
               /\ j \notin DOMAIN tracker =>
                     /\ r.last_checkpoint = mark[j] /\ ~r.submission_in_progress
                     /\ AllQuiet(j)
<1> DEFINE j == stream[t].job
           q == TrackerOf(t)
           r == Counted(t)
<1>0. TypeOK /\ StreamInv /\ FreshInv /\ TrackerInv /\ stream[t] \in StreamRecord  BY DEF SafetyInv, TypeOK
<1>1. /\ j \in Jobs /\ j \notin closed
      /\ j \notin DOMAIN tracker => stream[t].proof_interval \in QueriedIntervals
  BY <1>0 DEF StreamInv
<1>2. q \in JobTokenTracker  BY <1>0 DEF TypeOK, TrackerOK, TrackerOf, NewTracker, JobTokenTracker, StreamRecord
<1>3. /\ r.tokens_generated = q.tokens_generated + stream[t].tokens
      /\ r.last_checkpoint = q.last_checkpoint
      /\ r.proof_interval = q.proof_interval
      /\ r.submission_in_progress = q.submission_in_progress
  <2> HIDE DEF q
  <2>1. r = AddTokens(q, stream[t].tokens, stream[t].session_id)  BY DEF Counted, q
  <2> QED BY <1>2, <2>1 DEF AddTokens, JobTokenTracker
<1>5. CASE j \in DOMAIN tracker
  <2>1. q = tracker[j]  BY <1>5 DEF TrackerOf
  <2>2. /\ tracker[j].tokens_generated = served[j]
        /\ tracker[j].last_checkpoint <= served[j]
        /\ tracker[j].proof_interval \in QueriedIntervals
    BY <1>0, <1>5 DEF TrackerInv
  <2> HIDE DEF q, r
  <2> QED BY <1>1, <1>3, <1>5, <2>1, <2>2 DEF r
<1>6. CASE j \notin DOMAIN tracker
  <2>1. /\ q.tokens_generated = 0 /\ q.last_checkpoint = 0
        /\ ~q.submission_in_progress
        /\ q.proof_interval = stream[t].proof_interval
    BY <1>6 DEF TrackerOf, NewTracker
  <2>2. served[j] = 0 /\ mark[j] = 0 /\ AllQuiet(j)  BY <1>0, <1>1, <1>6 DEF FreshInv, AllQuiet
  <2>3. stream[t].tokens \in Nat  BY <1>0 DEF StreamRecord
  <2> HIDE DEF q, r
  <2> QED BY <1>1, <1>3, <1>6, <2>1, <2>2, <2>3 DEF r
<1> QED BY <1>5, <1>6

\* track_tokens below the threshold, or while a submission is in progress.
LEMMA CountSafe ==
    ASSUME SafetyInv, NEW t \in Streams, stream[t].pc = "checked",
           tracker' = Put(tracker, stream[t].job, Counted(t)), sub' = sub,
           served' = [served EXCEPT ![stream[t].job] = @ + stream[t].tokens],
           UNCHANGED <<mark, closed>>
    PROVE  FreshInv' /\ SubInv' /\ OneSubmission' /\ TrackerInv'
<1> DEFINE j == stream[t].job
           r == Counted(t)
<1>0. /\ TypeOK /\ KnownJobs /\ FreshInv /\ SubInv /\ OneSubmission /\ TrackerInv
      /\ DOMAIN tracker \subseteq Jobs /\ served \in [Jobs -> Nat] /\ stream[t].tokens \in Nat
      /\ sub \in [Submitters -> SubRecord]
  BY DEF SafetyInv, TypeOK, TrackerOK, HistoryOK, StreamRecord
<1>1. /\ j \in Jobs /\ j \notin closed
      /\ r.tokens_generated = served[j] + stream[t].tokens
      /\ r.last_checkpoint <= served[j]
      /\ r.proof_interval \in QueriedIntervals
      /\ j \in DOMAIN tracker =>
            /\ r.last_checkpoint = tracker[j].last_checkpoint
            /\ r.submission_in_progress = tracker[j].submission_in_progress
      /\ j \notin DOMAIN tracker =>
            /\ r.last_checkpoint = mark[j] /\ ~r.submission_in_progress
            /\ AllQuiet(j)
  BY CountedFacts
<1>2. /\ DOMAIN tracker' = DOMAIN tracker \cup {j} /\ tracker'[j] = r
      /\ \A i \in DOMAIN tracker : i # j => tracker'[i] = tracker[i]
  BY DEF Put
<1>3. /\ served'[j] = served[j] + stream[t].tokens
      /\ \A i \in Jobs \ {j} : served'[i] = served[i]
      /\ \A i \in Jobs : served[i] <= served'[i] /\ served'[i] \in Nat /\ served[i] \in Nat
  BY <1>0, <1>1
<1>4. r \in JobTokenTracker  BY <1>0, CountedType
<1> HIDE DEF r
<1>5. FreshInv'  BY <1>0, <1>1, <1>2, <1>3 DEF FreshInv
<1>6. SubInv'
  <2> SUFFICES ASSUME NEW z \in Submitters, sub[z].pc \in InFlight
               PROVE  LET i == sub[z].job
                      IN  /\ sub[z].prev < sub[z].upto /\ sub[z].upto <= served'[i]
                          /\ mark[i] = IF sub[z].pc = "done_ok" THEN sub[z].upto
                                       ELSE sub[z].prev
                          /\ i \in DOMAIN tracker' =>
                                /\ tracker'[i].submission_in_progress
                                /\ tracker'[i].last_checkpoint = sub[z].upto
                          /\ \/ sub[z].tokens = sub[z].upto - sub[z].prev
                             \/ /\ sub[z].prev = 0 /\ sub[z].upto < sub[z].tokens
                                /\ sub[z].tokens \in QueriedIntervals
    BY DEF SubInv
  <2> DEFINE i == sub[z].job
  <2>1. i \in Jobs /\ sub[z].upto \in Nat  BY <1>0 DEF KnownJobs, SubRecord, InFlight, Submitting
  <2>2. /\ sub[z].prev < sub[z].upto /\ sub[z].upto <= served[i]
        /\ mark[i] = IF sub[z].pc = "done_ok" THEN sub[z].upto ELSE sub[z].prev
        /\ i \in DOMAIN tracker =>
              /\ tracker[i].submission_in_progress
              /\ tracker[i].last_checkpoint = sub[z].upto
        /\ \/ sub[z].tokens = sub[z].upto - sub[z].prev
           \/ /\ sub[z].prev = 0 /\ sub[z].upto < sub[z].tokens
              /\ sub[z].tokens \in QueriedIntervals
    BY <1>0 DEF SubInv
  <2>3. sub[z].upto <= served'[i]  BY <1>3, <2>1, <2>2
  <2>4. i = j => j \in DOMAIN tracker  BY <1>1 DEF AllQuiet
  <2>5. i \in DOMAIN tracker' =>
           /\ tracker'[i].submission_in_progress
           /\ tracker'[i].last_checkpoint = sub[z].upto
    BY <1>1, <1>2, <2>2, <2>4
  <2> QED BY <2>2, <2>3, <2>5
<1>7. OneSubmission'  BY <1>0 DEF OneSubmission
<1>8. TrackerInv'
  <2> SUFFICES ASSUME NEW i \in DOMAIN tracker'
               PROVE  /\ tracker'[i].tokens_generated = served'[i]
                      /\ tracker'[i].last_checkpoint <= served'[i]
                      /\ tracker'[i].proof_interval \in QueriedIntervals
                      /\ \/ \E z \in Submitters : sub[z].job = i /\ sub[z].pc \in InFlight
                         \/ ~tracker'[i].submission_in_progress
                               /\ tracker'[i].last_checkpoint = mark[i]
    BY DEF TrackerInv
  <2>1. CASE i = j
    <3>1. r.last_checkpoint \in Nat  BY <1>4 DEF JobTokenTracker
    <3>2. r.last_checkpoint <= served'[j]  BY <1>1, <1>3, <3>1
    <3>3. \/ \E z \in Submitters : sub[z].job = j /\ sub[z].pc \in InFlight
          \/ ~r.submission_in_progress /\ r.last_checkpoint = mark[j]
      BY <1>0, <1>1 DEF TrackerInv
    <3> QED BY <1>1, <1>2, <1>3, <2>1, <3>2, <3>3
  <2>2. CASE i # j  BY <1>0, <1>2, <1>3, <2>2 DEF TrackerInv
  <2> QED BY <2>1, <2>2
<1> QED BY <1>5, <1>6, <1>7, <1>8

\* A stage that ends well moves the chain's mark to the end of its submission.
LEMMA StageSafe ==
    ASSUME SafetyInv, NEW x \in Submitters, Stage(x)
    PROVE  FreshInv' /\ SubInv' /\ OneSubmission' /\ TrackerInv'
<1> DEFINE j == sub[x].job
<1>0. /\ TypeOK /\ KnownJobs /\ FreshInv /\ SubInv /\ OneSubmission /\ TrackerInv
      /\ DOMAIN tracker \subseteq Jobs /\ mark \in [Jobs -> Nat]
      /\ sub \in [Submitters -> SubRecord]
  BY DEF SafetyInv, TypeOK, TrackerOK, HistoryOK
<1>1. /\ UNCHANGED <<tracker, closed, served>>
      /\ sub[x].pc \in Submitting /\ sub'[x].pc \in InFlight
      /\ \A z \in Submitters \ {x} : sub'[z] = sub[z]
      /\ sub'[x] = [sub[x] EXCEPT !.pc = sub'[x].pc]
      /\ j \in Jobs
      /\ \/ sub'[x].pc # "done_ok" /\ mark' = mark
         \/ sub'[x].pc = "done_ok" /\ mark' = [mark EXCEPT ![j] = sub[x].upto]
  BY <1>0, StageEffect
<1>2. /\ sub[x].pc \in InFlight /\ sub[x].pc # "done_ok"
      /\ sub'[x].job = j /\ sub'[x].prev = sub[x].prev /\ sub'[x].upto = sub[x].upto
      /\ sub'[x].tokens = sub[x].tokens
  BY <1>0, <1>1 DEF InFlight, Submitting, SubRecord
<1>3. /\ \A i \in Jobs \ {j} : mark'[i] = mark[i]
      /\ mark'[j] = IF sub'[x].pc = "done_ok" THEN sub[x].upto ELSE mark[j]
  BY <1>0, <1>1
<1>4. \A z \in Submitters \ {x} : sub[z].pc \in InFlight => sub[z].job # j /\ sub[z].job \in Jobs
  BY <1>0, <1>2 DEF OneSubmission, KnownJobs, InFlight, Submitting
<1>5. FreshInv'
  <2>1. j \in closed \/ j \in DOMAIN tracker  BY <1>0, <1>1, <1>2 DEF FreshInv
  <2> QED BY <1>0, <1>1, <1>2, <1>3, <2>1 DEF FreshInv
<1>6. SubInv'
  <2>1. /\ sub[x].prev < sub[x].upto /\ sub[x].upto <= served[j]
        /\ mark[j] = sub[x].prev
        /\ j \in DOMAIN tracker =>
              /\ tracker[j].submission_in_progress
              /\ tracker[j].last_checkpoint = sub[x].upto
        /\ \/ sub[x].tokens = sub[x].upto - sub[x].prev
           \/ /\ sub[x].prev = 0 /\ sub[x].upto < sub[x].tokens
              /\ sub[x].tokens \in QueriedIntervals
    BY <1>0, <1>2 DEF SubInv
  <2> SUFFICES ASSUME NEW z \in Submitters, sub'[z].pc \in InFlight
               PROVE  LET i == sub'[z].job
                      IN  /\ sub'[z].prev < sub'[z].upto /\ sub'[z].upto <= served'[i]
                          /\ mark'[i] = IF sub'[z].pc = "done_ok" THEN sub'[z].upto
                                        ELSE sub'[z].prev
                          /\ i \in DOMAIN tracker' =>
                                /\ tracker'[i].submission_in_progress
                                /\ tracker'[i].last_checkpoint = sub'[z].upto
                          /\ \/ sub'[z].tokens = sub'[z].upto - sub'[z].prev
                             \/ /\ sub'[z].prev = 0 /\ sub'[z].upto < sub'[z].tokens
                                /\ sub'[z].tokens \in QueriedIntervals
    BY DEF SubInv
  <2>2. CASE z = x  BY <1>1, <1>2, <1>3, <2>1, <2>2
  <2>3. CASE z # x
    <3>1. /\ sub'[z] = sub[z] /\ sub[z].pc \in InFlight
          /\ sub[z].job # j /\ sub[z].job \in Jobs
      BY <1>1, <1>4, <2>3
    <3> QED BY <1>0, <1>1, <1>3, <3>1 DEF SubInv
  <2> QED BY <2>2, <2>3
<1>7. OneSubmission'  BY <1>0, <1>1, <1>2 DEF OneSubmission
<1>8. TrackerInv'
  <2>1. \A z \in Submitters : sub[z].pc \in InFlight =>
            sub'[z].pc \in InFlight /\ sub'[z].job = sub[z].job  BY <1>1, <1>2
  <2> QED BY <1>0, <1>1, <1>2, <1>3, <2>1 DEF TrackerInv
<1> QED BY <1>5, <1>6, <1>7, <1>8

\* Recording an outcome brings the tracker back to the chain's mark: it keeps the
\* optimistic checkpoint of an accepted proof and rolls the other back.
LEMMA RecordSafe ==
    ASSUME SafetyInv, NEW x \in Submitters, Record(x)
    PROVE  FreshInv' /\ SubInv' /\ OneSubmission' /\ TrackerInv'
<1> DEFINE j == sub[x].job
<1>0. /\ TypeOK /\ KnownJobs /\ FreshInv /\ SubInv /\ OneSubmission /\ TrackerInv
      /\ TrackerOK /\ served \in [Jobs -> Nat] /\ sub \in [Submitters -> SubRecord]
  BY DEF SafetyInv, TypeOK, HistoryOK
<1>1. /\ sub[x].pc \in {"done_ok", "done_err"} /\ j \in Jobs
      /\ UNCHANGED <<closed, served, mark>>
      /\ DOMAIN tracker' = DOMAIN tracker
      /\ \A i \in DOMAIN tracker : i # j => tracker'[i] = tracker[i]
      /\ j \in DOMAIN tracker => tracker'[j] = Outcome(tracker[j], sub[x])
      /\ \A z \in Submitters \ {x} : sub'[z] = sub[z]
  BY <1>0, RecordEffect
<1>2. sub'[x].pc = "idle" /\ "idle" \notin InFlight /\ sub[x].pc \in InFlight
  BY <1>0, <1>1, RecordEffect DEF IdleSub, InFlight, Submitting
<1>3. \A z \in Submitters \ {x} : sub[z].pc \in InFlight => sub[z].job # j  BY <1>0, <1>2 DEF OneSubmission
<1>4. \A z \in Submitters : sub'[z].pc \in InFlight =>
          z # x /\ sub'[z] = sub[z] /\ sub[z].pc \in InFlight /\ sub[z].job # j  BY <1>1, <1>2, <1>3
<1>5. FreshInv'  BY <1>0, <1>1, <1>4 DEF FreshInv
<1>6. SubInv'
  <2> SUFFICES ASSUME NEW z \in Submitters, sub'[z].pc \in InFlight
               PROVE  LET i == sub'[z].job
                      IN  /\ sub'[z].prev < sub'[z].upto /\ sub'[z].upto <= served'[i]
                          /\ mark'[i] = IF sub'[z].pc = "done_ok" THEN sub'[z].upto
                                        ELSE sub'[z].prev
                          /\ i \in DOMAIN tracker' =>
                                /\ tracker'[i].submission_in_progress
                                /\ tracker'[i].last_checkpoint = sub'[z].upto
                          /\ \/ sub'[z].tokens = sub'[z].upto - sub'[z].prev
                             \/ /\ sub'[z].prev = 0 /\ sub'[z].upto < sub'[z].tokens
                                /\ sub'[z].tokens \in QueriedIntervals
    BY DEF SubInv
  <2>1. sub'[z] = sub[z] /\ sub[z].pc \in InFlight /\ sub[z].job # j  BY <1>4
  <2> QED BY <1>0, <1>1, <2>1 DEF SubInv
<1>7. OneSubmission'  BY <1>0, <1>4 DEF OneSubmission
<1>8. TrackerInv'
  <2> SUFFICES ASSUME NEW i \in DOMAIN tracker
               PROVE  /\ tracker'[i].tokens_generated = served[i]
                      /\ tracker'[i].last_checkpoint <= served[i]
                      /\ tracker'[i].proof_interval \in QueriedIntervals
                      /\ \/ \E z \in Submitters : sub'[z].job = i /\ sub'[z].pc \in InFlight
                         \/ ~tracker'[i].submission_in_progress
                               /\ tracker'[i].last_checkpoint = mark[i]
    BY <1>1 DEF TrackerInv
  <2>1. /\ tracker[i].tokens_generated = served[i]
        /\ tracker[i].proof_interval \in QueriedIntervals
    BY <1>0 DEF TrackerInv
  <2>2. CASE i = j
    <3>1. /\ sub[x].prev < sub[x].upto /\ sub[x].upto <= served[j]
          /\ mark[j] = IF sub[x].pc = "done_ok" THEN sub[x].upto ELSE sub[x].prev
          /\ tracker[j].last_checkpoint = sub[x].upto
      BY <1>0, <1>2, <2>2 DEF SubInv
    <3>2. /\ ~tracker'[j].submission_in_progress
          /\ tracker'[j].tokens_generated = tracker[j].tokens_generated
          /\ tracker'[j].proof_interval = tracker[j].proof_interval
          /\ tracker'[j].last_checkpoint =
                IF sub[x].pc = "done_err" THEN sub[x].prev ELSE tracker[j].last_checkpoint
      BY ZenonT(40), <1>0, <1>1, <2>2 DEF Outcome, TrackerOK, JobTokenTracker
    <3>3. tracker'[j].last_checkpoint = mark[j]  BY <1>1, <3>1, <3>2
    <3>4. mark[j] <= served[j]
      <4>1. sub[x].prev \in Nat /\ sub[x].upto \in Nat /\ served[j] \in Nat  BY <1>0, <1>1 DEF SubRecord
      <4> QED BY <3>1, <4>1
    <3> QED BY <2>1, <2>2, <3>2, <3>3, <3>4
  <2>3. CASE i # j
    <3>1. tracker'[i] = tracker[i]  BY <1>1, <2>3
    <3>2. \A z \in Submitters : sub[z].job = i /\ sub[z].pc \in InFlight => sub'[z] = sub[z]  BY <1>1, <2>3
    <3> QED BY <1>0, <3>1, <3>2 DEF TrackerInv
  <2> QED BY <2>2, <2>3
<1> QED BY <1>5, <1>6, <1>7, <1>8

\* What SafetyInv adds to type correctness and SettleInv.
TokenInv == StreamInv /\ FreshInv /\ SubInv /\ OneSubmission /\ TrackerInv

\* A critical section that starts a submission of an idle tracker as it stands.
LEMMA StartsIdle ==
    ASSUME SafetyInv, NEW x \in Submitters, NEW j \in Jobs, j \in DOMAIN tracker,
           Starts(x, j, tracker[j]), ~tracker[j].submission_in_progress,
           TokensSinceCheckpoint(tracker[j]) > 0, sub[x].pc \notin InFlight,
           UNCHANGED <<stream, served, mark, closed>>
    PROVE  TokenInv'
<1>0. /\ tracker[j] \in JobTokenTracker /\ served \in [Jobs -> Nat]
      /\ StreamInv /\ TrackerInv
  BY DEF SafetyInv, TypeOK, TrackerOK, HistoryOK
<1>1. AllQuiet(j) /\ tracker[j].last_checkpoint = mark[j]  BY IdleTracker
<1>2. Startable(x, j, tracker[j])  BY <1>0, <1>1 DEF Startable, TrackerInv
<1>3. served[j] <= served'[j]  BY <1>0
<1>4. FreshInv' /\ SubInv' /\ OneSubmission' /\ TrackerInv'  BY <1>0, <1>2, <1>3, StartsSafe
<1>5. DOMAIN tracker' = DOMAIN tracker  BY DEF Starts, Put
<1>6. StreamInv'  BY <1>0, <1>5 DEF StreamInv
<1> QED BY <1>4, <1>6 DEF TokenInv

\* Every step keeps the token invariant.
LEMMA TokenNext ==
    ASSUME LateTokens = FALSE, SafetyInv, [Next]_vars
    PROVE  TokenInv'
<1>0. TypeOK /\ KnownJobs /\ SettleInv /\ TokenInv  BY DEF SafetyInv, TokenInv
<1>a. Tasks \subseteq Submitters /\ Settlers \subseteq Submitters  BY DEF Submitters
<1>b. \A r \in JobTokenTracker :
          CheckpointDue(r) \/ ForceDue(r) \/ FinalDue(r) =>
              ~r.submission_in_progress /\ TokensSinceCheckpoint(r) > 0
  <2>1. \A r \in JobTokenTracker : TokensSinceCheckpoint(r) \in Int
    BY NumberAssumption DEF TokensSinceCheckpoint, SubU64, JobTokenTracker
  <2> QED BY <2>1, NumberAssumption DEF CheckpointDue, ForceDue, FinalDue
<1>1. ASSUME NEW t \in Streams, NEW j \in Jobs, NEW n \in TokenCounts,
             NEW sid \in SessionIds \cup {NoSession}, TrackCheck(t, j, n, sid)
      PROVE  TokenInv'
  <2>1. /\ UNCHANGED <<tracker, sub, closed, served, mark>>
        /\ \A z \in Streams \ {t} : stream'[z] = stream[z]
        /\ stream'[t].pc = "checked" /\ stream'[t].job = j
        /\ j \notin DOMAIN tracker => stream'[t].proof_interval \in QueriedIntervals
        /\ j \notin closed
    BY <1>0, <1>1, TrackCheckEffect, NumberAssumption
  <2>2. StreamInv'  BY <1>0, <2>1 DEF TokenInv, StreamInv
  <2> QED BY <1>0, <2>1, <2>2 DEF TokenInv, FreshInv, SubInv, OneSubmission, TrackerInv
<1>2. ASSUME NEW t \in Streams, TrackWrite(t)
      PROVE  TokenInv'
  <2> DEFINE j == stream[t].job
             r == Counted(t)
  <2>1. /\ stream[t].pc = "checked" /\ j \in Jobs /\ r \in JobTokenTracker
        /\ stream' = [stream EXCEPT ![t] = IdleStream]
        /\ served' = [served EXCEPT ![j] = @ + stream[t].tokens]
        /\ UNCHANGED <<mark, closed>>
        /\ \/ tracker' = Put(tracker, j, r) /\ sub' = sub
           \/ /\ CheckpointDue(r)
              /\ \E k \in Tasks : sub[k].pc = "idle" /\ Starts(k, j, r)
    BY <1>0, <1>2, TrackWriteEffect
  <2>2. DOMAIN tracker' = DOMAIN tracker \cup {j}  BY <2>1 DEF Starts, Put
  <2>3. StreamInv'  BY <1>0, <2>1, <2>2 DEF TokenInv, StreamInv, TypeOK, IdleStream
  <2>4. CASE tracker' = Put(tracker, j, r) /\ sub' = sub  BY <2>1, <2>3, <2>4, CountSafe DEF TokenInv
  <2>5. ASSUME CheckpointDue(r), NEW k \in Tasks, sub[k].pc = "idle", Starts(k, j, r)
        PROVE  TokenInv'
    <3>1. /\ served \in [Jobs -> Nat] /\ stream[t].tokens \in Nat
          /\ served' \in [Jobs -> Nat] /\ served'[j] = served[j] + stream[t].tokens
          /\ \A i \in Jobs \ {j} : served'[i] = served[i]
      BY <1>0, <2>1 DEF TypeOK, HistoryOK, StreamRecord
    <3>2. /\ r.tokens_generated = served[j] + stream[t].tokens
          /\ r.last_checkpoint <= served[j]
          /\ r.proof_interval \in QueriedIntervals
          /\ j \in DOMAIN tracker =>
                /\ r.last_checkpoint = tracker[j].last_checkpoint
                /\ r.submission_in_progress = tracker[j].submission_in_progress
          /\ j \notin DOMAIN tracker => r.last_checkpoint = mark[j] /\ AllQuiet(j)
      BY <2>1, CountedFacts
    <3>3. ~r.submission_in_progress /\ TokensSinceCheckpoint(r) > 0  BY <1>b, <2>1, <2>5
    <3>4. AllQuiet(j) /\ r.last_checkpoint = mark[j]  BY <3>2, <3>3, IdleTracker
    <3>5. r.last_checkpoint <= r.tokens_generated
      <4>1. r.last_checkpoint \in Nat  BY <2>1 DEF JobTokenTracker
      <4> QED BY <3>1, <3>2, <4>1
    <3>6. sub[k].pc \notin InFlight  BY <2>5 DEF InFlight, Submitting
    <3>7. Startable(k, j, r)  BY <3>1, <3>2, <3>3, <3>4, <3>5, <3>6 DEF Startable
    <3>8. served[j] <= served'[j]  BY <2>1, <3>1
    <3> HIDE DEF r, j
    <3>9. FreshInv' /\ SubInv' /\ OneSubmission' /\ TrackerInv'  BY <1>a, <2>1, <2>5, <3>1, <3>7, <3>8, StartsSafe
    <3> QED BY <2>3, <3>9 DEF TokenInv
  <2> QED BY <2>1, <2>4, <2>5
<1>3. ASSUME NEW j \in Jobs, ForceCheckpoint(j)
      PROVE  TokenInv'
  <2>1. PICK k \in Tasks :
            /\ sub[k].pc = "idle" /\ sub'[k].pc = "lock"
            /\ \A z \in Submitters \ {k} : sub'[z] = sub[z]
    BY <1>0, <1>3, ForceCheckpointEffect
  <2>2. UNCHANGED <<tracker, stream, closed, served, mark>>  BY <1>3 DEF ForceCheckpoint
  <2>3. \A z \in Submitters :
            /\ sub'[z].pc \in InFlight => sub'[z] = sub[z]
            /\ sub[z].pc \in InFlight => sub'[z] = sub[z]
    BY <2>1 DEF InFlight, Submitting
  <2> QED BY <1>0, <2>2, <2>3 DEF TokenInv, StreamInv, FreshInv, SubInv, OneSubmission, TrackerInv
<1>4. ASSUME NEW x \in Submitters, ForceLock(x)
      PROVE  TokenInv'
  <2> DEFINE j == sub[x].job
  <2>1. /\ sub[x].pc = "lock" /\ j \in Jobs
        /\ UNCHANGED <<stream, closed, served, mark>>
        /\ \/ tracker' = tracker /\ sub' = [sub EXCEPT ![x] = IdleSub]
           \/ /\ j \in DOMAIN tracker /\ ForceDue(tracker[j])
              /\ tracker[j] \in JobTokenTracker
              /\ Starts(x, j, tracker[j])
    BY <1>0, <1>4, ForceLockEffect
  <2>2. sub[x].pc \notin InFlight  BY <2>1 DEF InFlight, Submitting
  <2>3. CASE tracker' = tracker /\ sub' = [sub EXCEPT ![x] = IdleSub]
    <3>1. \A z \in Submitters :
              /\ sub'[z].pc \in InFlight => sub'[z] = sub[z]
              /\ sub[z].pc \in InFlight => sub'[z] = sub[z]
      BY <1>0, <2>2, <2>3 DEF TypeOK, IdleSub, InFlight, Submitting
    <3> QED BY <1>0, <2>1, <2>3, <3>1 DEF TokenInv, StreamInv, FreshInv, SubInv, OneSubmission, TrackerInv
  <2>4. ASSUME j \in DOMAIN tracker, ForceDue(tracker[j]), tracker[j] \in JobTokenTracker,
               Starts(x, j, tracker[j])
        PROVE  TokenInv'  BY <1>b, <2>1, <2>2, <2>4, StartsIdle
  <2> QED BY <2>1, <2>3, <2>4
<1>5. ASSUME NEW x \in Submitters, Stage(x)
      PROVE  TokenInv'
  <2>1. UNCHANGED <<tracker, stream, closed>>  BY <1>0, <1>5, StageEffect
  <2>2. StreamInv'  BY <1>0, <2>1 DEF TokenInv, StreamInv
  <2> QED BY <1>5, <2>2, StageSafe DEF TokenInv
<1>6. ASSUME NEW x \in Submitters, Record(x)
      PROVE  TokenInv'
  <2>1. UNCHANGED <<stream, closed>> /\ DOMAIN tracker' = DOMAIN tracker  BY <1>0, <1>6, RecordEffect
  <2>2. StreamInv'  BY <1>0, <2>1 DEF TokenInv, StreamInv
  <2> QED BY <1>6, <2>2, RecordSafe DEF TokenInv
<1>7. ASSUME NEW s \in Settlers, NEW j \in Jobs, SettleStart(s, j)
      PROVE  TokenInv'
  <2>1. /\ UNCHANGED <<tracker, stream, sub, served, mark>>
        /\ closed' = closed \cup {j} /\ Quiet(j)
    BY <1>0, <1>7, SettleStartEffect
  <2>2. StreamInv'  BY <1>0, <2>1 DEF TokenInv, StreamInv, Quiet
  <2> QED BY <1>0, <2>1, <2>2 DEF TokenInv, FreshInv, SubInv, OneSubmission, TrackerInv
<1>8. ASSUME NEW s \in Settlers, SettleFinal(s)
      PROVE  TokenInv'
  <2> DEFINE j == settle[s].job
  <2>1. /\ settle[s].pc = "final"
        /\ UNCHANGED <<stream, closed, served, mark>>
        /\ \/ UNCHANGED <<tracker, sub>>
           \/ /\ j \in Jobs /\ j \in DOMAIN tracker /\ FinalDue(tracker[j])
              /\ tracker[j] \in JobTokenTracker
              /\ Starts(s, j, tracker[j])
    BY <1>0, <1>8, SettleFinalEffect
  <2>2. sub[s].pc \notin InFlight  BY <1>0, <2>1 DEF SettleInv, InFlight, Submitting
  <2>3. CASE UNCHANGED <<tracker, sub>>  BY <1>0, <2>1, <2>3
    DEF TokenInv, StreamInv, FreshInv, SubInv, OneSubmission, TrackerInv
  <2>4. ASSUME j \in Jobs, j \in DOMAIN tracker, FinalDue(tracker[j]),
               tracker[j] \in JobTokenTracker, Starts(s, j, tracker[j])
        PROVE  TokenInv'  BY <1>a, <1>b, <2>1, <2>2, <2>4, StartsIdle
  <2> QED BY <2>1, <2>3, <2>4
<1>9. ASSUME NEW s \in Settlers, SettleOnly(s)
      PROVE  TokenInv'
  <2> DEFINE j == settle[s].job
  <2>1. /\ UNCHANGED <<stream, sub, closed, served, mark>>
        /\ tracker' \in {tracker, Remove(tracker, j)}
        /\ j \in closed
    BY <1>0, <1>9, SettleOnlyEffect DEF SettleInv
  <2>2. /\ DOMAIN tracker' \subseteq DOMAIN tracker
        /\ \A i \in DOMAIN tracker \ closed : i \in DOMAIN tracker'
        /\ \A i \in DOMAIN tracker' : tracker'[i] = tracker[i]
    BY <2>1 DEF Remove, Restrict
  <2>3. StreamInv'  BY <1>0, <2>1, <2>2 DEF TokenInv, StreamInv
  <2>4. FreshInv'  BY <1>0, <2>1, <2>2 DEF TokenInv, FreshInv
  <2>5. SubInv'  BY <1>0, <2>1, <2>2 DEF TokenInv, SubInv
  <2>6. OneSubmission' /\ TrackerInv'  BY <1>0, <2>1, <2>2 DEF TokenInv, OneSubmission, TrackerInv
  <2> QED BY <2>3, <2>4, <2>5, <2>6 DEF TokenInv
<1>10. CASE UNCHANGED vars  BY <1>0, <1>10 DEF vars, TokenInv, StreamInv, FreshInv, SubInv, OneSubmission, TrackerInv
<1> QED BY NextCases, <1>1, <1>2, <1>3, <1>4, <1>5, <1>6, <1>7, <1>8, <1>9, <1>10

\* The inductive invariant holds for any number of jobs, streams, background
\* submissions and settlers, and any token counts, as long as no tokens are
\* tracked for a job whose settlement has started.
THEOREM SafetyInvariant ==
    ASSUME LateTokens = FALSE
    PROVE  Spec => []SafetyInv
<1>1. Init => SafetyInv
  <2> SUFFICES ASSUME Init PROVE SafetyInv  OBVIOUS
  <2>1. TypeOK /\ KnownJobs  BY TypeInit DEF TypeInv
  <2>2. "idle" \notin InFlight /\ \A x \in Submitters : sub[x].pc = "idle"  BY DEF Init, InFlight, Submitting, IdleSub
  <2>3. SettleInv  BY <2>2 DEF Init, SettleInv, IdleSettle, Submitters
  <2>4. StreamInv  BY DEF Init, StreamInv, IdleStream
  <2>5. FreshInv /\ SubInv /\ OneSubmission /\ TrackerInv  BY <2>2 DEF Init, FreshInv, SubInv, OneSubmission, TrackerInv
  <2> QED BY <2>1, <2>3, <2>4, <2>5 DEF SafetyInv
<1>2. SafetyInv /\ [Next]_vars => SafetyInv'  BY TypeNext, SettleInvNext, TokenNext DEF SafetyInv, TypeInv, TokenInv
<1> QED BY <1>1, <1>2, PTL DEF Spec

\* submission_in_progress serialises the submissions of every job.
THEOREM SubmissionsAreSerial ==
    ASSUME LateTokens = FALSE
    PROVE  Spec => []OneSubmission
<1>1. SafetyInv => OneSubmission  BY DEF SafetyInv
<1> QED BY SafetyInvariant, <1>1, PTL

\* The u64 subtraction of last_checkpoint from tokens_generated never wraps.
THEOREM SubtractionIsSafe ==
    ASSUME LateTokens = FALSE
    PROVE  Spec => []NoUnderflow
<1>1. SafetyInv => NoUnderflow  BY DEF SafetyInv, TrackerInv, NoUnderflow
<1> QED BY SafetyInvariant, <1>1, PTL

\* With nothing in flight a tracker's last_checkpoint is what the chain accepted.
THEOREM CheckpointsMatchChain ==
    ASSUME LateTokens = FALSE
    PROVE  Spec => []CheckpointMatchesChain
<1>1. SafetyInv => CheckpointMatchesChain  BY DEF SafetyInv, TrackerInv, CheckpointMatchesChain, InFlightOf
<1> QED BY SafetyInvariant, <1>1, PTL

\* The placeholder interval of track_tokens never gets into a tracker.
THEOREM IntervalsAreQueried ==
    ASSUME LateTokens = FALSE
    PROVE  Spec => []IntervalIsQueried
<1>1. SafetyInv => IntervalIsQueried  BY DEF SafetyInv, TrackerInv, IntervalIsQueried
<1> QED BY SafetyInvariant, <1>1, PTL

-----------------------------------------------------------------------------
(* Settlement proves what was served *)

\* The submissions in flight of a job are the same ones after the step.
SameInFlight(j) ==
    \A z \in Submitters :
        /\ z \in InFlightOf(j)' <=> z \in InFlightOf(j)
        /\ z \in InFlightOf(j) => sub'[z].upto = sub[z].upto

\* A step that leaves the submissions, the tokens and the proofs of a job alone.
LEMMA ProvenKept ==
    ASSUME NEW j \in Jobs, SameInFlight(j), served'[j] = served[j],
           InFlightOf(j) = {} => mark'[j] = mark[j],
           j \in failed' <=> j \in failed
    PROVE  /\ InFlightIsCurrent(j) => InFlightIsCurrent(j)'
           /\ ProvenWhenQuiet(j) => ProvenWhenQuiet(j)'
<1>0. InFlightOf(j) \subseteq Submitters /\ InFlightOf(j)' \subseteq Submitters  BY DEF InFlightOf
<1>1. InFlightOf(j)' = InFlightOf(j)  BY <1>0 DEF SameInFlight
<1>2. InFlightIsCurrent(j) => InFlightIsCurrent(j)'  BY <1>0, <1>1 DEF SameInFlight, InFlightIsCurrent
<1>3. ProvenWhenQuiet(j) => ProvenWhenQuiet(j)'  BY <1>1 DEF ProvenWhenQuiet, Proven
<1> QED BY <1>2, <1>3

\* Starting a submission for a tracked job covers all its tokens; other jobs do
\* not notice.
LEMMA StartsProven ==
    ASSUME SafetyInv, NEW x \in Submitters, NEW i \in Jobs, NEW r \in JobTokenTracker,
           NEW j \in Jobs, Starts(x, i, r), sub[x].pc \notin InFlight,
           i = j => r.tokens_generated = served'[j],
           served'[j] = served[j], UNCHANGED <<mark, failed>>
    PROVE  /\ InFlightIsCurrent(j) => InFlightIsCurrent(j)'
           /\ InFlightIsCurrent(j) /\ ProvenWhenQuiet(j) => ProvenWhenQuiet(j)'
           /\ i = j => ProvenWhenQuiet(j)'
<1>1. /\ sub'[x].pc = "prove" /\ sub'[x].job = i /\ sub'[x] = Submission(i, r)
      /\ \A z \in Submitters \ {x} : sub'[z] = sub[z]
  <2>1. TypeOK  BY DEF SafetyInv
  <2>2. sub'[x] = Submission(i, r)  BY <2>1 DEF Starts, TypeOK
  <2>3. /\ sub'[x].pc = "prove" /\ sub'[x].job = i
        /\ \A z \in Submitters \ {x} : sub'[z] = sub[z]
    BY <2>1, StartsEffect
  <2> QED BY <2>2, <2>3
<1>2. CASE i # j
  <2>1. SameInFlight(j)  BY <1>1, <1>2 DEF SameInFlight, InFlightOf
  <2> QED BY <1>2, <2>1, ProvenKept
<1>3. CASE i = j
  <2>1. x \in InFlightOf(j)'  BY <1>1, <1>3 DEF InFlightOf, InFlight, Submitting
  <2>2. sub'[x].upto = served'[j]  BY <1>1, <1>3 DEF Submission
  <2>3. \A z \in InFlightOf(j)' \ {x} : z \in InFlightOf(j) /\ sub'[z] = sub[z]  BY <1>1 DEF InFlightOf
  <2>4. InFlightIsCurrent(j) => InFlightIsCurrent(j)'  BY <2>2, <2>3 DEF InFlightIsCurrent
  <2> QED BY <2>1, <2>4 DEF ProvenWhenQuiet
<1> QED BY <1>2, <1>3

\* For a closed job that is still tracked, submissions stay current, and their
\* outcome leaves the job proven or failed.
LEMMA ClosedJobStep ==
    ASSUME LateTokens = FALSE, SafetyInv, [Next]_vars,
           NEW j \in closed, j \in DOMAIN tracker'
    PROVE  /\ j \in DOMAIN tracker
           /\ InFlightIsCurrent(j) => InFlightIsCurrent(j)'
           /\ InFlightIsCurrent(j) /\ ProvenWhenQuiet(j) => ProvenWhenQuiet(j)'
<1> DEFINE Goal == /\ j \in DOMAIN tracker
                   /\ InFlightIsCurrent(j) => InFlightIsCurrent(j)'
                   /\ InFlightIsCurrent(j) /\ ProvenWhenQuiet(j) => ProvenWhenQuiet(j)'
<1> SUFFICES Goal  OBVIOUS
<1>0. /\ TypeOK /\ KnownJobs /\ SettleInv /\ StreamInv /\ SubInv /\ OneSubmission /\ TrackerInv
      /\ j \in Jobs /\ served \in [Jobs -> Nat] /\ mark \in [Jobs -> Nat]
  BY DEF SafetyInv, TypeOK, HistoryOK
<1>a. Tasks \subseteq Submitters /\ Settlers \subseteq Submitters  BY DEF Submitters
<1>b. ASSUME UNCHANGED <<sub, served, mark, failed>>, DOMAIN tracker' \subseteq DOMAIN tracker
      PROVE  Goal
  <2>1. SameInFlight(j)  BY <1>b DEF SameInFlight, InFlightOf
  <2> QED BY <1>0, <1>b, <2>1, ProvenKept
<1>1. ASSUME NEW t \in Streams, NEW i \in Jobs, NEW n \in TokenCounts,
             NEW sid \in SessionIds \cup {NoSession}, TrackCheck(t, i, n, sid)
      PROVE  Goal  BY <1>0, <1>1, <1>b, TrackCheckEffect, NumberAssumption
<1>2. ASSUME NEW t \in Streams, TrackWrite(t)
      PROVE  Goal
  <2> DEFINE i == stream[t].job
             r == Counted(t)
  <2>1. /\ stream[t].pc = "checked" /\ i \in Jobs /\ r \in JobTokenTracker
        /\ served' = [served EXCEPT ![i] = @ + stream[t].tokens]
        /\ UNCHANGED <<mark, failed>>
        /\ \/ tracker' = Put(tracker, i, r) /\ sub' = sub
           \/ \E k \in Tasks : sub[k].pc = "idle" /\ Starts(k, i, r)
    BY <1>0, <1>2, TrackWriteEffect
  <2>2. i # j  BY <1>0, <2>1 DEF StreamInv
  <2>3. served'[j] = served[j] /\ DOMAIN tracker' = DOMAIN tracker \cup {i}  BY <1>0, <2>1, <2>2 DEF Starts, Put
  <2>4. CASE sub' = sub
    <3>1. SameInFlight(j)  BY <2>4 DEF SameInFlight, InFlightOf
    <3> QED BY <1>0, <2>1, <2>2, <2>3, <3>1, ProvenKept
  <2>5. ASSUME NEW k \in Tasks, sub[k].pc = "idle", Starts(k, i, r)
        PROVE  Goal
    <3>1. sub[k].pc \notin InFlight  BY <2>5 DEF InFlight, Submitting
    <3> HIDE DEF i, r
    <3> QED BY <1>0, <1>a, <2>1, <2>2, <2>3, <2>5, <3>1, StartsProven
  <2> QED BY <2>1, <2>4, <2>5
<1>3. ASSUME NEW i \in Jobs, ForceCheckpoint(i)
      PROVE  Goal
  <2>1. PICK k \in Tasks :
            /\ sub[k].pc = "idle" /\ sub'[k].pc = "lock"
            /\ \A z \in Submitters \ {k} : sub'[z] = sub[z]
    BY <1>0, <1>3, ForceCheckpointEffect
  <2>2. SameInFlight(j)  BY <2>1 DEF SameInFlight, InFlightOf, InFlight, Submitting
  <2> QED BY <1>0, <1>3, <2>2, ProvenKept DEF ForceCheckpoint
<1>4. ASSUME NEW x \in Submitters, ForceLock(x)
      PROVE  Goal
  <2> DEFINE i == sub[x].job
  <2>1. /\ sub[x].pc = "lock" /\ i \in Jobs /\ UNCHANGED <<served, mark, failed>>
        /\ \/ tracker' = tracker /\ sub' = [sub EXCEPT ![x] = IdleSub]
           \/ /\ i \in DOMAIN tracker /\ tracker[i] \in JobTokenTracker
              /\ Starts(x, i, tracker[i])
    BY <1>0, <1>4, ForceLockEffect
  <2>2. sub[x].pc \notin InFlight  BY <2>1 DEF InFlight, Submitting
  <2>3. CASE tracker' = tracker /\ sub' = [sub EXCEPT ![x] = IdleSub]
    <3>1. SameInFlight(j)  BY <1>0, <2>2, <2>3 DEF SameInFlight, InFlightOf, TypeOK, IdleSub, InFlight, Submitting
    <3> QED BY <1>0, <2>1, <2>3, <3>1, ProvenKept
  <2>4. ASSUME i \in DOMAIN tracker, tracker[i] \in JobTokenTracker, Starts(x, i, tracker[i])
        PROVE  Goal
    <3>1. tracker[i].tokens_generated = served[i] /\ DOMAIN tracker' = DOMAIN tracker
      BY <1>0, <2>4 DEF TrackerInv, Starts, Put
    <3> HIDE DEF i
    <3> QED BY <1>0, <2>1, <2>2, <2>4, <3>1, StartsProven
  <2> QED BY <2>1, <2>3, <2>4
<1>5. ASSUME NEW x \in Submitters, Stage(x)
      PROVE  Goal
  <2>1. /\ UNCHANGED <<tracker, served, failed>> /\ sub[x].pc \in InFlight
        /\ \A z \in Submitters \ {x} : sub'[z] = sub[z]
        /\ sub'[x].pc \in InFlight /\ sub[x].job \in Jobs
        /\ sub'[x] = [sub[x] EXCEPT !.pc = sub'[x].pc] /\ sub[x] \in SubRecord
        /\ mark' = mark \/ mark' = [mark EXCEPT ![sub[x].job] = sub[x].upto]
    BY <1>0, <1>5, StageEffect DEF InFlight, TypeOK
  <2>2. sub'[x].job = sub[x].job /\ sub'[x].upto = sub[x].upto  BY <2>1 DEF SubRecord
  <2>3. SameInFlight(j)  BY <2>1, <2>2 DEF SameInFlight, InFlightOf
  <2>4. InFlightOf(j) = {} => mark'[j] = mark[j]
    <3>1. InFlightOf(j) = {} => sub[x].job # j  BY <2>1 DEF InFlightOf
    <3> QED BY <1>0, <2>1, <3>1
  <2> QED BY <1>0, <2>1, <2>3, <2>4, ProvenKept
<1>6. ASSUME NEW x \in Submitters, Record(x)
      PROVE  Goal
  <2> DEFINE i == sub[x].job
  <2>1. /\ sub[x].pc \in {"done_ok", "done_err"} /\ i \in Jobs
        /\ UNCHANGED <<served, mark>> /\ DOMAIN tracker' = DOMAIN tracker
        /\ sub'[x] = IdleSub /\ \A z \in Submitters \ {x} : sub'[z] = sub[z]
    BY <1>0, <1>6, RecordEffect
  <2>2. failed' = IF sub[x].pc = "done_err" THEN failed \cup {i} ELSE failed \ {i}  BY <1>6 DEF Record
  <2>3. "idle" \notin InFlight /\ sub[x].pc \in InFlight /\ sub'[x].pc = "idle"
    BY <2>1 DEF InFlight, Submitting, IdleSub
  <2>4. CASE i # j
    <3>1. SameInFlight(j)  BY <2>1, <2>3, <2>4 DEF SameInFlight, InFlightOf
    <3>2. j \in failed' <=> j \in failed  BY <2>2, <2>4
    <3> HIDE DEF i
    <3> QED BY <1>0, <2>1, <3>1, <3>2, ProvenKept
  <2>5. CASE i = j
    <3>1. \A z \in InFlightOf(j)' : z \in InFlightOf(j) /\ sub'[z] = sub[z]  BY <2>1, <2>3 DEF InFlightOf
    <3>2. InFlightIsCurrent(j) => InFlightIsCurrent(j)'  BY <2>1, <3>1 DEF InFlightIsCurrent
    <3>3. CASE sub[x].pc = "done_err"  BY <2>1, <2>2, <2>5, <3>2, <3>3 DEF ProvenWhenQuiet
    <3>4. CASE sub[x].pc = "done_ok"
      <4>1. mark[j] = sub[x].upto  BY <1>0, <2>3, <2>5, <3>4 DEF SubInv
      <4>2. InFlightIsCurrent(j) => mark[j] = served[j]  BY <2>3, <2>5, <4>1 DEF InFlightIsCurrent, InFlightOf
      <4>3. InFlightIsCurrent(j) => Proven(j)'  BY <1>0, <2>1, <4>2, NumberAssumption DEF Proven
      <4> QED BY <2>1, <3>2, <4>3 DEF ProvenWhenQuiet
    <3> QED BY <2>1, <3>3, <3>4
  <2> QED BY <2>4, <2>5
<1>7. ASSUME NEW s \in Settlers, NEW i \in Jobs, SettleStart(s, i)
      PROVE  Goal  BY <1>0, <1>7, <1>b, SettleStartEffect
<1>8. ASSUME NEW s \in Settlers, SettleFinal(s)
      PROVE  Goal
  <2> DEFINE i == settle[s].job
  <2>1. /\ settle[s].pc = "final" /\ UNCHANGED <<served, mark, failed>>
        /\ \/ UNCHANGED <<tracker, sub>>
           \/ /\ i \in Jobs /\ i \in DOMAIN tracker /\ tracker[i] \in JobTokenTracker
              /\ Starts(s, i, tracker[i])
    BY <1>0, <1>8, SettleFinalEffect
  <2>2. sub[s].pc \notin InFlight  BY <1>0, <2>1 DEF SettleInv, InFlight, Submitting
  <2>3. CASE UNCHANGED <<tracker, sub>>  BY <1>b, <2>1, <2>3
  <2>4. ASSUME i \in Jobs, i \in DOMAIN tracker, tracker[i] \in JobTokenTracker,
               Starts(s, i, tracker[i])
        PROVE  Goal
    <3>1. tracker[i].tokens_generated = served[i] /\ DOMAIN tracker' = DOMAIN tracker
      BY <1>0, <2>4 DEF TrackerInv, Starts, Put
    <3> HIDE DEF i
    <3> QED BY <1>0, <1>a, <2>1, <2>2, <2>4, <3>1, StartsProven
  <2> QED BY <2>1, <2>3, <2>4
<1>9. ASSUME NEW s \in Settlers, SettleOnly(s)
      PROVE  Goal
  <2>1. /\ UNCHANGED <<sub, served, mark, failed>>
        /\ tracker' \in {tracker, Remove(tracker, settle[s].job)}
    BY <1>0, <1>9, SettleOnlyEffect
  <2>2. DOMAIN tracker' \subseteq DOMAIN tracker  BY <2>1 DEF Remove, Restrict
  <2> QED BY <1>b, <2>1, <2>2
<1>10. CASE UNCHANGED vars
  <2>1. UNCHANGED <<sub, served, mark, failed>> /\ DOMAIN tracker' \subseteq DOMAIN tracker  BY <1>10 DEF vars
  <2> QED BY <1>b, <2>1
<1> HIDE DEF Goal
<1> QED BY NextCases, <1>1, <1>2, <1>3, <1>4, <1>5, <1>6, <1>7, <1>8, <1>9, <1>10

\* How a settler gets past its waiting loop: it was past it already, it saw no
\* submission in progress, or it has just decided about the final checkpoint.
LEMMA SettlerMoves ==
    ASSUME SafetyInv, [Next]_vars, NEW s \in Settlers,
           settle'[s].pc \in AfterWaiting, ~settle'[s].timed_out
    PROVE  /\ settle[s].pc # "idle" /\ settle'[s].job = settle[s].job
           /\ \/ /\ settle[s].pc \in AfterWaiting /\ ~settle[s].timed_out
                 /\ settle'[s].pc # "final" => settle[s].pc # "final"
              \/ SettlePoll(s)
              \/ SettleFinal(s) /\ settle[s].pc \in AfterWaiting /\ ~settle[s].timed_out
<1> DEFINE Goal == /\ settle[s].pc # "idle" /\ settle'[s].job = settle[s].job
                   /\ \/ /\ settle[s].pc \in AfterWaiting /\ ~settle[s].timed_out
                         /\ settle'[s].pc # "final" => settle[s].pc # "final"
                      \/ SettlePoll(s)
                      \/ /\ SettleFinal(s) /\ settle[s].pc \in AfterWaiting
                         /\ ~settle[s].timed_out
<1> SUFFICES Goal  OBVIOUS
<1>0. /\ TypeOK /\ KnownJobs /\ SettleInv
      /\ settle \in [Settlers -> SettleRecord] /\ settle[s] \in SettleRecord
  BY DEF SafetyInv, TypeOK
<1>1. ASSUME settle'[s] = settle[s]
      PROVE  Goal  BY <1>1 DEF AfterWaiting
<1>2. ASSUME NEW x \in Submitters, Record(x)
      PROVE  Goal
  <2>1. CASE x # s
    <3>1. settle'[s] = settle[s]  BY <1>0, <1>2, <2>1, RecordEffect
    <3> QED BY <1>1, <3>1
  <2>2. CASE x = s
    <3>1. sub[s].pc # "idle"  BY <1>2, <2>2 DEF Record
    <3>2. settle[s].pc = "submitting" /\ settle' = [settle EXCEPT ![s].pc = "window"]
      BY <1>0, <1>2, <2>2, <3>1 DEF SettleInv, Record
    <3>3. settle'[s].timed_out = settle[s].timed_out /\ settle'[s].job = settle[s].job  BY <1>0, <3>2 DEF SettleRecord
    <3> QED BY <3>2, <3>3 DEF AfterWaiting
  <2> QED BY <2>1, <2>2
<1>3. ASSUME NEW z \in Settlers, NEW j \in Jobs, SettleStart(z, j)
      PROVE  Goal
  <2>1. z # s  BY <1>0, <1>3, SettleStartEffect DEF AfterWaiting
  <2>2. settle'[s] = settle[s]  BY <1>0, <1>3, <2>1, SettleStartEffect
  <2> QED BY <1>1, <2>2
<1>4. ASSUME NEW z \in Settlers, SettleFinal(z)
      PROVE  Goal
  <2>1. CASE z # s
    <3>1. settle'[s] = settle[s]  BY <1>0, <1>4, <2>1, SettleFinalEffect
    <3> QED BY <1>1, <3>1
  <2>2. CASE z = s
    <3>1. settle[s].pc = "final" /\ settle'[s].job = settle[s].job  BY <1>0, <1>4, <2>2, SettleFinalEffect
    <3>2. settle'[s].timed_out = settle[s].timed_out  BY <1>0, <1>4, <2>2 DEF SettleFinal, SettleGoto, SettleRecord
    <3> QED BY <1>4, <2>2, <3>1, <3>2 DEF AfterWaiting
  <2> QED BY <2>1, <2>2
<1>5. ASSUME NEW z \in Settlers, SettleOnly(z)
      PROVE  Goal
  <2>1. CASE z # s
    <3>1. settle'[s] = settle[s]  BY <1>0, <1>5, <2>1, SettleOnlyEffect
    <3> QED BY <1>1, <3>1
  <2>2. CASE z = s
    <3>1. settle[s].pc # "idle" /\ settle'[s].job = settle[s].job  BY <1>0, <1>5, <2>2, SettleOnlyEffect
    <3> USE DEF SettleGoto, SettleRecord, AfterWaiting
    <3>2. CASE SettlePoll(s)         BY <3>1, <3>2
    <3>3. CASE SettleTimeout(s)      BY <1>0, <3>3 DEF SettleTimeout
    <3>4. CASE SettleWindow(s)       BY <1>0, <3>1, <3>4 DEF SettleWindow
    <3>5. CASE SettleSend(s)         BY <1>0, <3>1, <3>5 DEF SettleSend
    <3>6. CASE SettleResend(s)       BY <1>0, <3>1, <3>6 DEF SettleResend
    <3>7. CASE SettleConfirm(s)      BY <1>0, <3>1, <3>7 DEF SettleConfirm
    <3>8. CASE SettleCleanup(s)      BY <1>0, <3>1, <3>8 DEF SettleCleanup
    <3>9. CASE SettleRetry(s)        BY <1>0, <3>1, <3>9 DEF SettleRetry
    <3>10. CASE SettleRetryConfirm(s) BY <1>0, <3>1, <3>10 DEF SettleRetryConfirm
    <3> QED BY <1>5, <2>2, <3>2, <3>3, <3>4, <3>5, <3>6, <3>7, <3>8, <3>9, <3>10 DEF SettleOnly
  <2> QED BY <2>1, <2>2
<1>6. CASE settle' = settle  BY <1>1, <1>6
<1>7. ASSUME NEW x \in Submitters, ForceLock(x) \/ Stage(x)
      PROVE  settle' = settle  BY <1>0, <1>7, ForceLockEffect, StageEffect
<1>8. ASSUME NEW t \in Streams, TrackWrite(t)
      PROVE  settle' = settle  BY <1>8 DEF TrackWrite
<1>9. ASSUME NEW j \in Jobs, ForceCheckpoint(j)
      PROVE  settle' = settle  BY <1>9 DEF ForceCheckpoint
<1>10. ASSUME NEW t \in Streams, NEW j \in Jobs, NEW n \in TokenCounts,
              NEW sid \in SessionIds \cup {NoSession}, TrackCheck(t, j, n, sid)
       PROVE  settle' = settle  BY <1>10 DEF TrackCheck
<1>11. UNCHANGED vars => settle' = settle  BY DEF vars
<1> HIDE DEF Goal
<1> QED BY NextCases, <1>2, <1>3, <1>4, <1>5, <1>6, <1>7, <1>8, <1>9, <1>10, <1>11

\* What force_checkpoint_on_completion leaves aside is nothing, or less than the
\* contract accepts after a first proof.
LEMMA NotDueIsProven ==
    ASSUME SafetyInv, NEW j \in DOMAIN tracker, InFlightOf(j) = {}, ~FinalDue(tracker[j])
    PROVE  Proven(j)
<1> DEFINE r == tracker[j]
<1>0. /\ j \in Jobs /\ r \in JobTokenTracker
      /\ served[j] \in Nat /\ mark[j] \in Nat
  BY DEF SafetyInv, TypeOK, TrackerOK, HistoryOK
<1>1. /\ r.tokens_generated = served[j] /\ r.last_checkpoint = mark[j]
      /\ r.last_checkpoint <= served[j] /\ ~r.submission_in_progress
  BY DEF SafetyInv, TrackerInv, InFlightOf
<1>2. TokensSinceCheckpoint(r) = served[j] - mark[j]  BY <1>0, <1>1 DEF TokensSinceCheckpoint, SubU64
<1> HIDE DEF r
<1>3. ~(TokensSinceCheckpoint(r) > 0) \/ (mark[j] # 0 /\ ~(TokensToSubmit(r) >= MIN_PROVEN_TOKENS))
  BY <1>1 DEF FinalDue, r
<1>4. CASE ~(TokensSinceCheckpoint(r) > 0)  BY <1>0, <1>1, <1>2, <1>4, NumberAssumption DEF Proven
<1>5. CASE mark[j] # 0 /\ ~(TokensToSubmit(r) >= MIN_PROVEN_TOKENS)
  <2>1. TokensToSubmit(r) = served[j] - mark[j]  BY <1>1, <1>2, <1>5 DEF TokensToSubmit
  <2> QED BY <1>0, <1>5, <2>1, NumberAssumption DEF Proven
<1> QED BY <1>3, <1>4, <1>5

\* Every step keeps what a settler past its waiting loop knows.
LEMMA ProvenNext ==
    ASSUME LateTokens = FALSE, SafetyInv, ProvenInv, [Next]_vars
    PROVE  ProvenInv'
<1> SUFFICES ASSUME NEW s \in Settlers, settle'[s].pc \in AfterWaiting,
                    ~settle'[s].timed_out, NEW j, j = settle'[s].job, j \in DOMAIN tracker'
             PROVE  /\ InFlightIsCurrent(j)'
                    /\ settle'[s].pc # "final" => ProvenWhenQuiet(j)'
  <2>1. \A s \in Settlers : \A j :
          /\ settle'[s].pc \in AfterWaiting /\ ~settle'[s].timed_out
          /\ j = settle'[s].job /\ j \in DOMAIN tracker'
          => /\ InFlightIsCurrent(j)'
             /\ settle'[s].pc # "final" => ProvenWhenQuiet(j)'
    OBVIOUS
  <2>2. ASSUME NEW s \in Settlers, settle'[s].pc \in AfterWaiting,
               ~settle'[s].timed_out, settle'[s].job \in DOMAIN tracker'
        PROVE  /\ InFlightIsCurrent(settle[s].job)'
               /\ settle'[s].pc # "final" => ProvenWhenQuiet(settle[s].job)'
    <3> SUFFICES ASSUME NEW j, j = settle'[s].job
                 PROVE  /\ InFlightIsCurrent(settle[s].job)'
                        /\ settle'[s].pc # "final" => ProvenWhenQuiet(settle[s].job)'
      OBVIOUS
    <3>1. /\ InFlightIsCurrent(j)'
          /\ settle'[s].pc # "final" => ProvenWhenQuiet(j)'
      BY <2>1, <2>2
    <3> QED BY <3>1 DEF InFlightIsCurrent, ProvenWhenQuiet, Proven, InFlightOf
  <2> QED BY <2>2 DEF ProvenInv
<1>0. TypeOK /\ SettleInv /\ SubInv  BY DEF SafetyInv
<1>1. /\ settle[s].pc # "idle" /\ j = settle[s].job
      /\ \/ /\ settle[s].pc \in AfterWaiting /\ ~settle[s].timed_out
            /\ settle'[s].pc # "final" => settle[s].pc # "final"
         \/ SettlePoll(s)
         \/ SettleFinal(s) /\ settle[s].pc \in AfterWaiting /\ ~settle[s].timed_out
  BY SettlerMoves
<1>2. j \in closed /\ j \in Jobs  BY <1>0, <1>1 DEF SettleInv, TypeOK, HistoryOK
<1>3. /\ j \in DOMAIN tracker
      /\ InFlightIsCurrent(j) => InFlightIsCurrent(j)'
      /\ InFlightIsCurrent(j) /\ ProvenWhenQuiet(j) => ProvenWhenQuiet(j)'
  BY <1>2, ClosedJobStep
<1>4. CASE /\ settle[s].pc \in AfterWaiting /\ ~settle[s].timed_out
           /\ settle'[s].pc # "final" => settle[s].pc # "final"
  BY <1>1, <1>3, <1>4 DEF ProvenInv
<1>5. CASE SettlePoll(s)
  <2>1. settle'[s].pc = "final" /\ ~Busy(j)  BY <1>0, <1>1, <1>5 DEF SettlePoll, SettleGoto, TypeOK, SettleRecord
  <2>2. InFlightOf(j) = {}  BY <1>0, <1>3, <2>1 DEF SubInv, InFlightOf, Busy
  <2> QED BY <1>3, <2>1, <2>2 DEF InFlightIsCurrent
<1>6. CASE SettleFinal(s) /\ settle[s].pc \in AfterWaiting /\ ~settle[s].timed_out
  <2>1. InFlightIsCurrent(j)  BY <1>1, <1>3, <1>6 DEF ProvenInv
  <2>2. CASE FinalDue(tracker[j])
    <3>1. /\ Starts(s, j, tracker[j]) /\ tracker[j] \in JobTokenTracker
          /\ UNCHANGED <<served, mark, failed>> /\ settle[s].pc = "final"
      BY <1>0, <1>1, <1>3, <1>6, <2>2 DEF SettleFinal, SettleGoto, Starts, TypeOK, TrackerOK
    <3>2. tracker[j].tokens_generated = served[j]  BY <1>3 DEF SafetyInv, TrackerInv
    <3>3. sub[s].pc \notin InFlight /\ s \in Submitters  BY <1>0, <3>1 DEF SettleInv, InFlight, Submitting, Submitters
    <3> QED BY <1>2, <1>3, <2>1, <3>1, <3>2, <3>3, StartsProven
  <2>3. CASE ~FinalDue(tracker[j])
    <3>1. UNCHANGED <<sub, served, mark, failed>>  BY <1>1, <1>6, <2>3 DEF SettleFinal
    <3>2. InFlightOf(j)' = InFlightOf(j) /\ Proven(j)' = Proven(j)  BY <3>1 DEF InFlightOf, Proven
    <3>3. InFlightOf(j) = {} => Proven(j)  BY <1>3, <2>3, NotDueIsProven
    <3> QED BY <1>3, <2>1, <3>2, <3>3 DEF ProvenWhenQuiet
  <2> QED BY <2>2, <2>3
<1> QED BY <1>1, <1>4, <1>5, <1>6

\* complete_session_job asks the chain to settle when what it served is proven: a
\* settler that did not give up waiting leaves fewer tokens than the contract
\* accepts, and none of a job without an earlier proof, unless the last
\* submission failed or the job is no longer tracked.
THEOREM SettlementIsProven ==
    ASSUME LateTokens = FALSE
    PROVE  Spec => []SettlementProvesAll
<1>1. Init => ProvenInv  BY DEF Init, ProvenInv, IdleSettle, AfterWaiting
<1>2. SafetyInv /\ ProvenInv /\ [Next]_vars => ProvenInv'  BY ProvenNext
<1>3. ProvenInv => SettlementProvesAll  BY DEF ProvenInv, ProvenWhenQuiet, Proven, SettlementProvesAll, AfterWaiting
<1> QED BY SafetyInvariant, <1>1, <1>2, <1>3, PTL DEF Spec

-----------------------------------------------------------------------------
(* The manager implements the abstract ledger *)

\* A step serves tokens, bills the next tokens, or changes neither.
LEMMA LedgerStep ==
    ASSUME SafetyInv, [Next]_vars
    PROVE  [Ledger!Next]_(Ledger!ledger)
<1>0. TypeOK /\ KnownJobs /\ SubInv  BY DEF SafetyInv
<1>1. ASSUME NEW t \in Streams, TrackWrite(t)
      PROVE  Ledger!Next
  <2> DEFINE j == stream[t].job
  <2>1. /\ j \in Jobs /\ UNCHANGED <<acked, mark>>
        /\ served' = [served EXCEPT ![j] = @ + stream[t].tokens]
    BY <1>0, <1>1, TrackWriteEffect
  <2>2. served[j] \in Nat /\ stream[t].tokens \in Nat /\ served \in [Jobs -> Nat]
    BY <1>0, <2>1 DEF TypeOK, HistoryOK, StreamRecord
  <2>3. /\ served' = [served EXCEPT ![j] = served'[j]]
        /\ served'[j] >= served[j]
    <3>1. served'[j] = served[j] + stream[t].tokens  BY <2>1, <2>2
    <3>2. served' = [served EXCEPT ![j] = served[j] + stream[t].tokens]  BY <2>1
    <3> HIDE DEF j
    <3> QED BY <2>2, <3>1, <3>2
  <2>4. Ledger!Serve(j)  BY <2>1, <2>3 DEF Ledger!Serve
  <2> QED BY <2>1, <2>4 DEF Ledger!Next
<1>2. ASSUME NEW x \in Submitters, Stage(x)
      PROVE  Ledger!Next \/ UNCHANGED Ledger!ledger
  <2> DEFINE j == sub[x].job
  <2>1. /\ served' = served /\ j \in Jobs /\ sub[x].pc \in Submitting
        /\ \/ UNCHANGED <<acked, mark>>
           \/ /\ acked' = [acked EXCEPT ![j] = @ + sub[x].tokens]
              /\ mark' = [mark EXCEPT ![j] = sub[x].upto]
    BY <1>0, <1>2, StageEffect
  <2>2. CASE UNCHANGED <<acked, mark>>  BY <2>1, <2>2 DEF Ledger!ledger
  <2>3. CASE /\ acked' = [acked EXCEPT ![j] = @ + sub[x].tokens]
             /\ mark' = [mark EXCEPT ![j] = sub[x].upto]
    <3>1. /\ acked \in [Jobs -> Int] /\ mark \in [Jobs -> Nat]
          /\ sub[x].tokens \in Int /\ sub[x].upto \in Nat /\ sub[x].prev \in Nat
      BY <1>0 DEF TypeOK, HistoryOK, SubRecord
    <3>2. sub[x].pc \in InFlight /\ sub[x].pc # "done_ok"  BY <2>1 DEF InFlight, Submitting
    <3>3. /\ sub[x].prev < sub[x].upto /\ sub[x].upto <= served[j]
          /\ mark[j] = sub[x].prev
          /\ \/ sub[x].tokens = sub[x].upto - sub[x].prev
             \/ /\ sub[x].prev = 0 /\ sub[x].upto < sub[x].tokens
                /\ sub[x].tokens \in QueriedIntervals
      BY <1>0, <3>2 DEF SubInv
    <3>4. /\ mark'[j] = sub[x].upto /\ acked'[j] = acked[j] + sub[x].tokens
          /\ mark' = [mark EXCEPT ![j] = mark'[j]]
          /\ acked' = [acked EXCEPT ![j] = acked'[j]]
      BY <2>1, <2>3, <3>1
    <3>5. Ledger!Bill(j)  BY <2>1, <3>3, <3>4 DEF Ledger!Bill
    <3> QED BY <2>1, <3>5 DEF Ledger!Next
  <2> QED BY <2>1, <2>2, <2>3
<1>3. ASSUME UNCHANGED <<served, acked, mark>>
      PROVE  UNCHANGED Ledger!ledger  BY <1>3 DEF Ledger!ledger
<1>4. ASSUME NEW x \in Submitters, Record(x) \/ ForceLock(x)
      PROVE  UNCHANGED <<served, acked, mark>>  BY <1>4 DEF Record, ForceLock
<1>5. ASSUME NEW s \in Settlers, SettleFinal(s) \/ SettleOnly(s)
      PROVE  UNCHANGED <<served, acked, mark>>  BY <1>0, <1>5, SettleFinalEffect, SettleOnlyEffect
<1>6. ASSUME NEW s \in Settlers, NEW j \in Jobs, SettleStart(s, j)
      PROVE  UNCHANGED <<served, acked, mark>>  BY <1>6 DEF SettleStart
<1>7. ASSUME NEW j \in Jobs, ForceCheckpoint(j)
      PROVE  UNCHANGED <<served, acked, mark>>  BY <1>7 DEF ForceCheckpoint
<1>8. ASSUME NEW t \in Streams, NEW j \in Jobs, NEW n \in TokenCounts,
             NEW sid \in SessionIds \cup {NoSession}, TrackCheck(t, j, n, sid)
      PROVE  UNCHANGED <<served, acked, mark>>  BY <1>8 DEF TrackCheck
<1>9. CASE UNCHANGED vars  BY <1>3, <1>9 DEF vars
<1> QED BY NextCases, <1>1, <1>2, <1>3, <1>4, <1>5, <1>6, <1>7, <1>8, <1>9

\* Whatever submissions fail, are rolled back and are retried: the chain is told
\* of every token once, in order, after it was served, and only a job's first
\* proof may be padded, to an interval the contract or the fallback prescribes.
THEOREM ManagerImplementsLedger ==
    ASSUME LateTokens = FALSE
    PROVE  Spec => BillingIsCorrect
<1>1. Init => Ledger!Init  BY DEF Init, Ledger!Init
<1>2. SafetyInv /\ [Next]_vars => [Ledger!Next]_(Ledger!ledger)  BY LedgerStep
<1> QED BY SafetyInvariant, <1>1, <1>2, PTL DEF Spec, BillingIsCorrect, Ledger!Spec

-----------------------------------------------------------------------------
(* The system: the publisher inside it *)

PP == INSTANCE CheckpointPublisherProofs WITH
         Sessions <- SessionIds, Proofs <- Ranges,
         MaxMessages <- 2 * MaxTurns, MaxCrashes <- 0

-----------------------------------------------------------------------------
(* The inductive invariant *)

\* The publisher's invariant, in the node's only life: what S5 has, memory has too.
S5InMemory ==
    \A s \in SessionIds : Range(s5_index[s]) \subseteq PP!Indexed(s)

PublisherOK ==
    /\ PP!PublisherInv
    /\ crashes = 0
    /\ \A s \in SessionIds : base[s] = 0
    /\ S5InMemory

\* Trackers, calls and submissions carry their job's session and count no token
\* that was not served.
StreamsMetered ==
    \A t \in Streams :
        stream[t].pc = "checked" => stream[t].session_id = SessionOf[stream[t].job]
TrackersMetered ==
    \A j \in DOMAIN tracker :
        tracker[j].session_id = SessionOf[j] /\ tracker[j].tokens_generated <= served[j]
SubsMetered ==
    \A x \in Submitters : sub[x].pc \in InFlight =>
        sub[x].session_id = SessionOf[sub[x].job] /\ sub[x].upto <= served[sub[x].job]
MarksMetered == \A j \in Jobs : mark[j] <= served[j]

Metered == StreamsMetered /\ TrackersMetered /\ SubsMetered /\ MarksMetered

RequestRecord ==
    [pc : {"idle", "user", "inference", "stream", "single", "tracking", "force",
           "assistant", "count"},
     kind : {"stream", "single"}, job : Jobs \cup {NoJob}, turn : Nat, tokens : Nat]

\* A request has a turn of its own, whose prompt is a message of the conversation
\* once it has been buffered.
RequestTypes == req \in [Streams -> RequestRecord] /\ asked \in [Jobs -> Seq(Nat)]
TurnsKnown ==
    \A t \in Streams : req[t].pc # "idle" =>
        req[t].job \in Jobs /\ req[t].turn \in 1 .. Len(asked[req[t].job])
PromptsPending ==
    \A t \in Streams : req[t].pc = "user" => asked[req[t].job][req[t].turn] = 0
PromptsSaid ==
    \A t \in Streams : req[t].pc \notin {"idle", "user"} =>
        asked[req[t].job][req[t].turn] \in 1 .. said[SessionOf[req[t].job]]
TurnsDistinct ==
    \A t, u \in Streams :
        /\ req[t].pc # "idle" /\ req[u].pc # "idle"
        /\ req[t].job = req[u].job /\ req[t].turn = req[u].turn
        => t = u
\* A request that is counting tokens is inside track_tokens for its job.
TrackingOwn ==
    \A t \in Streams : req[t].pc = "tracking" =>
        stream[t].pc = "checked" /\ stream[t].job = req[t].job

RequestsOK ==
    /\ RequestTypes /\ TurnsKnown /\ PromptsPending /\ PromptsSaid
    /\ TurnsDistinct /\ TrackingOwn

\* Every token served answers a prompt that was buffered before.
OriginTypes ==
    /\ origin \in [Jobs -> Seq(Nat)]
    /\ \A j \in Jobs : Len(origin[j]) = served[j]
OriginsSaid ==
    \A j \in Jobs : \A i \in 1 .. Len(origin[j]) :
        /\ origin[j][i] \in 1 .. Len(asked[j])
        /\ asked[j][origin[j][i]] \in 1 .. said[SessionOf[j]]

OriginsOK == OriginTypes /\ OriginsSaid

\* The publish_checkpoint in progress belongs to the submission that waits for it.
OwnerOK ==
    \/ owner = NoOwner
    \/ /\ owner \in Submitters
       /\ sub[owner].pc = "publish"
       /\ PP!InProgress
       /\ call.session_id = sub[owner].session_id
       /\ call.entry.proof = TokenRange(owner)

\* S5 has an entry for the range, and the prompts behind a job's first n tokens.
HasEntry(s, range) == \E e \in Range(s5_index[s]) : e.proof = range
HasPrompts(j, n) ==
    \A i \in 1 .. n : \E e \in Range(s5_index[SessionOf[j]]) :
        asked[j][origin[j][i]] \in Range(e.messages)

\* Past publish_checkpoint, a submission's entry and its prompts are in S5, and so
\* are those of every proof.
SubmissionsInS5 ==
    \A x \in Submitters : sub[x].pc \in {"query", "send"} =>
        /\ HasEntry(sub[x].session_id, TokenRange(x))
        /\ HasPrompts(sub[x].job, sub[x].upto)
ProofsInS5 ==
    \A p \in proven : p.session_id \in SessionIds /\ HasEntry(p.session_id, p.range)
MarksInS5 == \A j \in Jobs : HasPrompts(j, mark[j])

Recoverable == SubmissionsInS5 /\ ProofsInS5 /\ MarksInS5

SystemInv ==
    /\ TypeInv /\ SettleInv
    /\ PublisherOK
    /\ Metered
    /\ RequestsOK
    /\ OriginsOK
    /\ OwnerOK
    /\ Recoverable

-----------------------------------------------------------------------------
(* The publisher inside the system *)

\* The publisher's assumptions hold of the system's constants.
LEMMA PublisherConstants ==
    /\ NoSession \notin SessionIds
    /\ MAX_S5_RETRIES \in Nat \ {0}
    /\ 2 * MaxTurns \in Nat
    /\ MaxEntries \in Nat
    /\ 0 \in Nat
  BY SessionAssumption, ProcessAssumption

\* The system's publisher actions are steps of the instantiated publisher.
LEMMA SameHelpers ==
    /\ P!Locked = PP!Locked
    /\ \A s : P!Entry(s) = PP!Entry(s)
    /\ \A s, r : P!SetState(s, r) = PP!SetState(s, r)
    /\ P!IdleCall = PP!IdleCall
    /\ P!StoreIndex = PP!StoreIndex
    /\ \A r : P!NextCheckpoint(r) = PP!NextCheckpoint(r)
    /\ \A r, q : P!MakeEntry(r, q) = PP!MakeEntry(r, q)
<1>1. P!Locked = PP!Locked  BY DEF P!Locked, PP!Locked
<1>2. \A s : P!Entry(s) = PP!Entry(s)  BY DEF P!Entry, PP!Entry, P!NewState, PP!NewState
<1>3. \A s, r : P!SetState(s, r) = PP!SetState(s, r)  BY DEF P!SetState, PP!SetState
<1>4. P!IdleCall = PP!IdleCall /\ P!StoreIndex = PP!StoreIndex
  BY DEF P!IdleCall, PP!IdleCall, P!StoreIndex, PP!StoreIndex
<1>5. \A r : P!NextCheckpoint(r) = PP!NextCheckpoint(r)  BY DEF P!NextCheckpoint, PP!NextCheckpoint
<1>6. \A r, q : P!MakeEntry(r, q) = PP!MakeEntry(r, q)  BY DEF P!MakeEntry, PP!MakeEntry
<1> QED BY <1>1, <1>2, <1>3, <1>4, <1>5, <1>6

LEMMA SameActions ==
    /\ \A s \in SessionIds : P!BufferMessage(s) => PP!BufferMessage(s)
    /\ \A s \in SessionIds, q \in Ranges : P!PublishBegin(s, q) => PP!PublishBegin(s, q)
    /\ P!DeltaStored => PP!DeltaStored
    /\ P!DeltaAttemptFails => PP!DeltaAttemptFails
    /\ P!DeltaUploadFails => PP!DeltaUploadFails
    /\ P!IndexStored => PP!IndexStored
    /\ P!IndexAttemptFails => PP!IndexAttemptFails
    /\ P!IndexUploadFails => PP!IndexUploadFails
<1>1. \A s \in SessionIds : P!BufferMessage(s) => PP!BufferMessage(s)
  BY SameHelpers DEF P!BufferMessage, PP!BufferMessage
<1>2. \A s \in SessionIds, q \in Ranges : P!PublishBegin(s, q) => PP!PublishBegin(s, q)
  BY SameHelpers DEF P!PublishBegin, PP!PublishBegin
<1>3. P!DeltaStored => PP!DeltaStored  BY DEF P!DeltaStored, PP!DeltaStored
<1>4. P!DeltaAttemptFails => PP!DeltaAttemptFails
  BY DEF P!DeltaAttemptFails, PP!DeltaAttemptFails, P!RetryUpload, PP!RetryUpload
<1>5. P!DeltaUploadFails => PP!DeltaUploadFails
  BY SameHelpers DEF P!DeltaUploadFails, PP!DeltaUploadFails, P!LastUpload, PP!LastUpload
<1>6. P!IndexStored => PP!IndexStored  BY SameHelpers DEF P!IndexStored, PP!IndexStored
<1>7. P!IndexAttemptFails => PP!IndexAttemptFails  BY SameHelpers
  DEF P!IndexAttemptFails, PP!IndexAttemptFails, P!RetryUpload, PP!RetryUpload
<1>8. P!IndexUploadFails => PP!IndexUploadFails  BY SameHelpers
  DEF P!IndexUploadFails, PP!IndexUploadFails, P!LastUpload, PP!LastUpload
<1> QED BY <1>1, <1>2, <1>3, <1>4, <1>5, <1>6, <1>7, <1>8

LEMMA ActionsAreSteps ==
    /\ \A s \in SessionIds : PP!BufferMessage(s) => PP!PubNext
    /\ \A s \in SessionIds, q \in Ranges : PP!PublishBegin(s, q) => PP!PubNext
    /\ PP!DeltaStored \/ PP!DeltaAttemptFails \/ PP!DeltaUploadFails => PP!PubNext
    /\ PP!IndexStored \/ PP!IndexAttemptFails \/ PP!IndexUploadFails => PP!PubNext
  BY DEF PP!PubNext, PP!UploadStep

\* The elements of a sequence, as the two modules write them.
LEMMA SameSets == \A q : Range(q) = PP!ToSet(q)  BY DEF Range, PP!ToSet

\* What the system's steps do to the publisher.
PublisherAction ==
    \/ \E s \in SessionIds : P!BufferMessage(s)
    \/ \E s \in SessionIds, q \in Ranges : P!PublishBegin(s, q)
    \/ P!DeltaStored \/ P!DeltaAttemptFails \/ P!DeltaUploadFails
    \/ P!IndexStored \/ P!IndexAttemptFails \/ P!IndexUploadFails

\* Each is a step of the publisher without a restart.
LEMMA PublisherSteps ==
    ASSUME PublisherAction \/ UNCHANGED publisherVars
    PROVE  [PP!PubNext]_(PP!pubVars) /\ crashes' = crashes /\ base' = base
<1>1. PublisherAction => PP!PubNext
  <2>1. ASSUME NEW s \in SessionIds, P!BufferMessage(s) PROVE PP!PubNext  BY <2>1, SameActions, ActionsAreSteps
  <2>2. ASSUME NEW s \in SessionIds, NEW q \in Ranges, P!PublishBegin(s, q) PROVE PP!PubNext
    BY <2>2, SameActions, ActionsAreSteps
  <2>3. ASSUME \/ P!DeltaStored \/ P!DeltaAttemptFails \/ P!DeltaUploadFails
               \/ P!IndexStored \/ P!IndexAttemptFails \/ P!IndexUploadFails
        PROVE  PP!PubNext  BY <2>3, SameActions, ActionsAreSteps
  <2> QED BY <2>1, <2>2, <2>3 DEF PublisherAction
<1>2. UNCHANGED publisherVars => UNCHANGED PP!pubVars  BY DEF publisherVars, PP!pubVars
<1>3. PublisherAction => crashes' = crashes /\ base' = base
  BY DEF PublisherAction, P!BufferMessage, P!PublishBegin, P!DeltaStored, P!DeltaAttemptFails,
         P!DeltaUploadFails, P!IndexStored, P!IndexAttemptFails, P!IndexUploadFails
<1>4. UNCHANGED publisherVars => crashes' = crashes /\ base' = base  BY DEF publisherVars
<1> QED BY <1>1, <1>2, <1>3, <1>4

\* The publisher's lemmas, with its assumptions discharged.
LEMMA PublisherKept ==
    ASSUME PP!PublisherInv, [PP!PubNext]_(PP!pubVars)
    PROVE  PP!PublisherInv'  BY PublisherConstants, PP!PublisherInvNext

LEMMA PublisherShapes ==
    ASSUME PP!PublisherInv, [PP!PubNext]_(PP!pubVars)
    PROVE  PP!InsertStep \/ PP!DeltaStep \/ PP!AttemptStep \/ PP!IndexStep \/ PP!CrashStep
              \/ PP!IdleStep
<1>1. PP!PublisherTypeOK  BY DEF PP!PublisherInv
<1> QED BY <1>1, PublisherConstants, PP!StepShapes

\* Without restarts S5's index only grows, and memory stays ahead of it.
LEMMA PublisherNext ==
    ASSUME PublisherOK, PublisherAction \/ UNCHANGED publisherVars
    PROVE  /\ PublisherOK'
           /\ \A s \in SessionIds : Range(s5_index[s]) \subseteq Range(s5_index'[s])
<1>0. /\ PP!PublisherInv /\ S5InMemory /\ crashes = 0
      /\ \A s \in SessionIds : PP!ToSet(s5_index[s]) \subseteq PP!Indexed(s)
  BY SameSets DEF PublisherOK, S5InMemory
<1>1. [PP!PubNext]_(PP!pubVars) /\ crashes' = crashes /\ base' = base  BY PublisherSteps
<1>2. PP!PublisherInv'  BY <1>0, <1>1, PublisherKept
<1>3. \A s \in SessionIds : /\ PP!ToSet(s5_index[s]) \subseteq PP!ToSet(s5_index'[s])
                            /\ PP!ToSet(s5_index'[s]) \subseteq PP!Indexed(s)'
  <2>1. CASE PP!InsertStep BY <1>0, <2>1 DEF PP!InsertStep
  <2>2. CASE PP!DeltaStep  BY <1>0, <2>2 DEF PP!DeltaStep
  <2>3. CASE PP!AttemptStep BY <1>0, <2>3 DEF PP!AttemptStep
  <2>4. CASE PP!IndexStep BY <1>0, <2>4 DEF PP!IndexStep
  <2>5. CASE PP!CrashStep BY <1>0, <1>1, <2>5 DEF PP!CrashStep
  <2>6. CASE PP!IdleStep BY <1>0, <2>6 DEF PP!IdleStep
  <2> QED BY <1>0, <1>1, <2>1, <2>2, <2>3, <2>4, <2>5, <2>6, PublisherShapes
<1>4. S5InMemory'  BY <1>3, SameSets DEF S5InMemory
<1> QED BY <1>0, <1>1, <1>2, <1>3, <1>4, SameSets DEF PublisherOK

\* Messages are numbered as they are buffered.
LEMMA SaidGrows ==
    ASSUME PublisherOK, PublisherAction \/ UNCHANGED publisherVars
    PROVE  /\ said \in [SessionIds -> Nat] /\ said' \in [SessionIds -> Nat]
           /\ \A s \in SessionIds : said[s] <= said'[s]
           /\ \A s \in SessionIds : P!BufferMessage(s) => said'[s] \in 1 .. said'[s]
<1>1. said \in [SessionIds -> Nat]  BY DEF PublisherOK, PP!PublisherInv, PP!PublisherTypeOK
<1>2. ASSUME NEW s \in SessionIds, P!BufferMessage(s)
      PROVE  /\ said' \in [SessionIds -> Nat] /\ said'[s] \in 1 .. said'[s]
             /\ \A z \in SessionIds : said[z] <= said'[z]
  BY <1>1, <1>2 DEF P!BufferMessage
<1>3. ASSUME ~(\E s \in SessionIds : P!BufferMessage(s)) PROVE said' = said
  BY <1>3 DEF PublisherAction, publisherVars, P!PublishBegin, P!DeltaStored, P!DeltaAttemptFails,
         P!DeltaUploadFails, P!IndexStored, P!IndexAttemptFails, P!IndexUploadFails
<1> QED BY <1>1, <1>2, <1>3

\* The call that a submission begins is its own, and goes on with the same entry.
LEMMA CallBegins ==
    ASSUME NEW s \in SessionIds, NEW q \in Ranges, P!PublishBegin(s, q)
    PROVE  PP!InProgress' /\ call'.session_id = s /\ call'.entry.proof = q
  BY DEF P!PublishBegin, P!MakeEntry, PP!InProgress

LEMMA CallGoesOn ==
    ASSUME PublisherOK, P!DeltaStored \/ P!DeltaAttemptFails \/ P!IndexAttemptFails
    PROVE  /\ PP!InProgress'
           /\ call'.session_id = call.session_id /\ call'.entry = call.entry
<1>1. call.stage \in {"delta", "index"}  BY DEF P!DeltaStored, P!DeltaAttemptFails, P!IndexAttemptFails
<1>2. PP!PublisherTypeOK  BY DEF PublisherOK, PP!PublisherInv
<1>3. call \in PP!CallRecord(DOMAIN state)  BY <1>1, <1>2, PublisherConstants, PP!CallFacts
<1> QED BY <1>1, <1>3 DEF P!DeltaStored, P!DeltaAttemptFails, P!IndexAttemptFails,
              P!RetryUpload, PP!InProgress, PP!CallRecord

\* When publish_checkpoint returns Ok, the index in S5 has its entry, and every
\* message of the session is in a delta of that index.
LEMMA IndexIsComplete ==
    ASSUME PublisherOK, P!IndexStored
    PROVE  LET s == call.session_id
           IN  /\ PP!InProgress
               /\ call.entry \in Range(s5_index'[s])
               /\ \A m \in 1 .. said[s] :
                     \E e \in Range(s5_index'[s]) : m \in Range(e.messages)
<1> DEFINE s == call.session_id
<1>1. PP!PublisherInv /\ PP!PublisherTypeOK /\ \A z \in SessionIds : base[z] = 0  BY DEF PublisherOK, PP!PublisherInv
<1>2. call.stage = "index" /\ PP!InProgress  BY DEF P!IndexStored, PP!InProgress
<1>3. PP!IndexStep  BY <1>1, SameActions, PublisherConstants, PP!IndexStoredShape
<1>4. s \in SessionIds  BY <1>1, <1>2, PublisherConstants, PP!CallEntry
<1>5. PP!ToSet(s5_index'[s]) = PP!Indexed(s)  BY <1>3, <1>4 DEF PP!IndexStep
<1>6. PP!ToSet(call.entry.messages) = PP!Buffered(s) /\ call.entry \in PP!Indexed(s)
  BY <1>1, <1>2 DEF PP!PublisherInv, PP!CallIsCurrent
<1>7. \A m \in 1 .. said[s] :
          m \in PP!Buffered(s) \/ \E e \in PP!Indexed(s) : m \in PP!ToSet(e.messages)
  BY <1>1, <1>4 DEF PP!PublisherInv, PP!MessagesKept
<1> HIDE DEF s
<1>8. \A m \in 1 .. said[s] : \E e \in PP!Indexed(s) : m \in PP!ToSet(e.messages)  BY <1>6, <1>7
<1> QED BY <1>2, <1>5, <1>6, <1>8, SameSets DEF s

-----------------------------------------------------------------------------
(* The system's steps, seen from the manager and from the publisher *)

ManagerAction ==
    \/ \E t \in Streams, j \in Jobs, n \in Nat : TrackCheck(t, j, n, SessionOf[j])
    \/ \E t \in Streams : TrackWrite(t)
    \/ \E j \in Jobs : ForceCheckpoint(j)
    \/ \E x \in Submitters : ForceLock(x)
    \/ \E x \in Submitters : Stage(x)
    \/ \E x \in Submitters : Record(x)
    \/ \E s \in Settlers, j \in Jobs : SettleStart(s, j)
    \/ \E s \in Settlers : SettleFinal(s)
    \/ \E s \in Settlers : SettleOnly(s)

\* A request only counts tokens, of its job and under that job's session.
LEMMA RequestManager ==
    ASSUME RequestsOK, NEW t \in Streams, RequestStep(t)
    PROVE  ManagerAction \/ UNCHANGED vars
<1>0. /\ req[t] \in RequestRecord /\ req[t].tokens \in Nat
      /\ req[t].pc # "idle" => req[t].job \in Jobs
  BY DEF RequestsOK, RequestTypes, TurnsKnown, RequestRecord
<1>1. ASSUME NEW j \in Jobs, NEW kind \in {"stream", "single"}, ReqPrompt(t, j, kind)
      PROVE  UNCHANGED vars  BY <1>1 DEF ReqPrompt, managerVars
<1>2. ASSUME ReqUser(t) \/ ReqInference(t) \/ ReqFinalize(t) \/ ReqAssistant(t)
      PROVE  UNCHANGED vars  BY <1>2 DEF ReqUser, ReqInference, ReqFinalize, ReqAssistant, managerVars
<1>3. ASSUME NEW n \in TokenCounts, ReqWhole(t, n) PROVE UNCHANGED vars  BY <1>3 DEF ReqWhole, managerVars
<1>4. CASE ReqToken(t)
  <2>1. req[t].job \in Jobs /\ TrackCheck(t, req[t].job, 1, SessionOf[req[t].job])  BY <1>0, <1>4 DEF ReqToken, ReqGoto
  <2> QED BY <2>1 DEF ManagerAction
<1>5. CASE ReqCount(t)
  <2>1. req[t].job \in Jobs /\ TrackCheck(t, req[t].job, req[t].tokens, SessionOf[req[t].job])
    BY <1>0, <1>5 DEF ReqCount, ReqGoto
  <2> QED BY <1>0, <2>1 DEF ManagerAction
<1>6. CASE ReqTracked(t)
  <2>1. TrackWrite(t)  BY <1>6 DEF ReqTracked
  <2> QED BY <2>1 DEF ManagerAction
<1>7. CASE ReqForce(t)
  <2>1. req[t].job \in Jobs /\ ForceCheckpoint(req[t].job)  BY <1>0, <1>7 DEF ReqForce, ReqGoto
  <2> QED BY <2>1 DEF ManagerAction
<1> QED BY <1>1, <1>2, <1>3, <1>4, <1>5, <1>6, <1>7 DEF RequestStep

\* Every step of the system is one of the manager's actions, or none.
LEMMA ManagerActions ==
    ASSUME RequestsOK, [SystemNext]_allVars
    PROVE  ManagerAction \/ UNCHANGED vars
<1>1. ASSUME NEW x \in Submitters,
             PublishSucceeds(x) \/ PublishFails(x) \/ ProofSent(x) \/ OtherSubmitStep(x)
      PROVE  ManagerAction
  <2>1. Stage(x) \/ ForceLock(x) \/ Record(x)
    BY <1>1 DEF PublishSucceeds, PublishFails, ProofSent, OtherSubmitStep, Stage
  <2> QED BY <2>1 DEF ManagerAction
<1>2. ASSUME NEW x \in Submitters, PublishStart(x) PROVE UNCHANGED vars  BY <1>2 DEF PublishStart, managerVars
<1>3. CASE PublishGoesOn  BY <1>3 DEF PublishGoesOn, managerVars
<1>4. ASSUME NEW s \in Settlers, SettlementStep(s) \/ \E j \in Jobs : Disconnect(s, j)
      PROVE  ManagerAction
  <2>1. SettleStep(s) \/ \E j \in Jobs : SettleStart(s, j)  BY <1>4 DEF SettlementStep, Disconnect
  <2>2. SettleFinal(s) \/ SettleOnly(s) \/ \E j \in Jobs : SettleStart(s, j)  BY <2>1 DEF SettleStep, SettleOnly
  <2> QED BY <2>2 DEF ManagerAction
<1>5. CASE UNCHANGED allVars  BY <1>5 DEF allVars, managerVars
<1> QED BY <1>1, <1>2, <1>3, <1>4, <1>5, RequestManager DEF SystemNext

\* The range of a submission is one that a checkpoint can be published for.
LEMMA RangeType ==
    ASSUME TypeInv, NEW x \in Submitters
    PROVE  /\ TokenRange(x) \in Ranges
           /\ sub[x].session_id \in SessionIds \cup {NoSession}
           /\ sub[x].tokens \in Int /\ sub[x].prev \in Nat /\ sub[x].upto \in Nat
  BY DEF TypeInv, TypeOK, SubRecord, TokenRange, Ranges

\* Every step of the system is one of the publisher's actions, or none.
LEMMA PublisherActions ==
    ASSUME TypeInv, RequestsOK, [SystemNext]_allVars
    PROVE  PublisherAction \/ UNCHANGED publisherVars
<1>1. ASSUME NEW t \in Streams, RequestStep(t)
      PROVE  PublisherAction \/ UNCHANGED publisherVars
  <2>0. req[t].pc # "idle" => SessionOf[req[t].job] \in SessionIds  BY SessionAssumption DEF RequestsOK, TurnsKnown
  <2>1. CASE ReqUser(t) \/ ReqAssistant(t)
    <3>1. req[t].pc # "idle" /\ P!BufferMessage(SessionOf[req[t].job])  BY <2>1 DEF ReqUser, ReqAssistant, ReqGoto
    <3> QED BY <2>0, <3>1 DEF PublisherAction
  <2>2. CASE ~(ReqUser(t) \/ ReqAssistant(t))
    BY <1>1, <2>2 DEF RequestStep, ReqPrompt, ReqInference, ReqToken, ReqTracked, ReqFinalize,
           ReqForce, ReqCount, ReqWhole
  <2> QED BY <2>1, <2>2
<1>2. ASSUME NEW x \in Submitters, PublishStart(x)
      PROVE  PublisherAction
  <2>1. /\ sub[x].session_id # NoSession
        /\ P!PublishBegin(sub[x].session_id, TokenRange(x))
    BY <1>2 DEF PublishStart
  <2>2. sub[x].session_id \in SessionIds /\ TokenRange(x) \in Ranges  BY <2>1, RangeType
  <2> QED BY <2>1, <2>2 DEF PublisherAction
<1>3. ASSUME NEW x \in Submitters, PublishSucceeds(x) \/ PublishFails(x)
      PROVE  PublisherAction  BY <1>3 DEF PublishSucceeds, PublishFails, PublisherAction
<1>4. ASSUME NEW x \in Submitters, ProofSent(x) \/ OtherSubmitStep(x)
      PROVE  UNCHANGED publisherVars  BY <1>4 DEF ProofSent, OtherSubmitStep
<1>5. CASE PublishGoesOn  BY <1>5 DEF PublishGoesOn, PublisherAction
<1>6. ASSUME NEW s \in Settlers, SettlementStep(s) \/ \E j \in Jobs : Disconnect(s, j)
      PROVE  UNCHANGED publisherVars  BY <1>6 DEF SettlementStep, Disconnect
<1>7. CASE UNCHANGED allVars  BY <1>7 DEF allVars
<1> QED BY <1>1, <1>2, <1>3, <1>4, <1>5, <1>6, <1>7 DEF SystemNext

-----------------------------------------------------------------------------
(* The manager's part of the invariant *)

\* The manager's own invariants hold inside the system.
LEMMA ManagerNext ==
    ASSUME TypeInv, SettleInv, ManagerAction \/ UNCHANGED vars
    PROVE  TypeInv' /\ SettleInv'
<1>0. TypeOK /\ KnownJobs  BY DEF TypeInv
<1>1. ASSUME NEW t \in Streams, NEW j \in Jobs, NEW n \in Nat,
             TrackCheck(t, j, n, SessionOf[j])
      PROVE  TypeInv' /\ SettleInv'
  <2>1. SessionOf[j] \in SessionIds \cup {NoSession}  BY SessionAssumption
  <2>2. /\ UNCHANGED <<tracker, sub, settle, cached, closed, served, acked, mark, failed>>
        /\ stream' \in [Streams -> StreamRecord]
        /\ \A z \in Streams \ {t} : stream'[z] = stream[z]
        /\ stream'[t].job = j
    BY <1>0, <1>1, <2>1, TrackCheckEffect
  <2>3. TypeOK'  BY <1>0, <2>2 DEF TypeOK, TrackerOK, HistoryOK
  <2>4. KnownJobs'  BY <1>0, <2>2 DEF KnownJobs
  <2> QED BY <2>2, <2>3, <2>4 DEF TypeInv, SettleInv
<1>2. ASSUME ~(\E t \in Streams, j \in Jobs, n \in Nat : TrackCheck(t, j, n, SessionOf[j]))
      PROVE  [Next]_vars  BY <1>2 DEF ManagerAction, Next, SubmitStep, SettleStep, Stage, SettleOnly
<1> QED BY <1>1, <1>2, TypeNext, SettleInvNext

\* A submission starts, moves on by a stage, ends, or is left alone.
LEMMA SubmissionSteps ==
    ASSUME TypeInv, SettleInv, ManagerAction \/ UNCHANGED vars, NEW x \in Submitters
    PROVE  \/ sub'[x] = sub[x]
           \/ sub[x].pc \in {"idle", "lock"} /\ sub'[x].pc \in {"idle", "lock", "prove"}
           \/ Stage(x) /\ sub'[x] = [sub[x] EXCEPT !.pc = sub'[x].pc]
           \/ Record(x) /\ sub'[x].pc = "idle"
<1>0. /\ TypeOK /\ KnownJobs /\ sub \in [Submitters -> SubRecord]
      /\ Tasks \subseteq Submitters /\ Settlers \subseteq Submitters
  BY DEF TypeInv, TypeOK, Submitters
<1> DEFINE Goal == \/ sub'[x] = sub[x]
                   \/ sub[x].pc \in {"idle", "lock"} /\ sub'[x].pc \in {"idle", "lock", "prove"}
                   \/ Stage(x) /\ sub'[x] = [sub[x] EXCEPT !.pc = sub'[x].pc]
                   \/ Record(x) /\ sub'[x].pc = "idle"
<1>a. ASSUME NEW y \in Submitters, NEW j \in Jobs, NEW r \in JobTokenTracker,
             sub[y].pc \in {"idle", "lock"}, Starts(y, j, r)
      PROVE  Goal
  <2>1. sub'[y].pc = "prove" /\ \A z \in Submitters \ {y} : sub'[z] = sub[z]  BY <1>0, <1>a, StartsEffect
  <2> QED BY <1>a, <2>1
<1>1. ASSUME NEW t \in Streams, NEW j \in Jobs, NEW n \in Nat,
             TrackCheck(t, j, n, SessionOf[j])
      PROVE  Goal  BY <1>1 DEF TrackCheck
<1>2. ASSUME NEW t \in Streams, TrackWrite(t) PROVE Goal
  <2>1. /\ stream[t].job \in Jobs /\ Counted(t) \in JobTokenTracker
        /\ \/ sub' = sub
           \/ \E k \in Tasks : sub[k].pc = "idle" /\ Starts(k, stream[t].job, Counted(t))
    BY <1>0, <1>2, TrackWriteEffect
  <2> QED BY <1>0, <1>a, <2>1
<1>3. ASSUME NEW j \in Jobs, ForceCheckpoint(j) PROVE Goal
  <2>1. PICK k \in Tasks : /\ sub[k].pc = "idle" /\ sub'[k].pc = "lock"
                           /\ \A z \in Submitters \ {k} : sub'[z] = sub[z]
    BY <1>0, <1>3, ForceCheckpointEffect
  <2> QED BY <2>1
<1>4. ASSUME NEW y \in Submitters, ForceLock(y) PROVE Goal
  <2>1. /\ sub[y].pc = "lock" /\ sub[y].job \in Jobs
        /\ \/ sub' = [sub EXCEPT ![y] = IdleSub]
           \/ /\ tracker[sub[y].job] \in JobTokenTracker
              /\ Starts(y, sub[y].job, tracker[sub[y].job])
    BY <1>0, <1>4, ForceLockEffect
  <2>2. CASE sub' = [sub EXCEPT ![y] = IdleSub]  BY <1>0, <2>1, <2>2 DEF IdleSub
  <2> QED BY <1>a, <2>1, <2>2
<1>5. ASSUME NEW y \in Submitters, Stage(y) PROVE Goal
  <2>1. /\ \A z \in Submitters \ {y} : sub'[z] = sub[z]
        /\ sub'[y] = [sub[y] EXCEPT !.pc = sub'[y].pc]
    BY <1>0, <1>5, StageEffect
  <2> QED BY <1>5, <2>1
<1>6. ASSUME NEW y \in Submitters, Record(y) PROVE Goal
  <2>1. sub'[y] = IdleSub /\ \A z \in Submitters \ {y} : sub'[z] = sub[z]  BY <1>0, <1>6, RecordEffect
  <2> QED BY <1>6, <2>1 DEF IdleSub
<1>7. ASSUME NEW s \in Settlers, NEW j \in Jobs, SettleStart(s, j) PROVE Goal  BY <1>7 DEF SettleStart
<1>8. ASSUME NEW s \in Settlers, SettleFinal(s) PROVE Goal
  <2>1. /\ settle[s].pc = "final"
        /\ \/ UNCHANGED <<tracker, sub>>
           \/ /\ settle[s].job \in Jobs /\ tracker[settle[s].job] \in JobTokenTracker
              /\ Starts(s, settle[s].job, tracker[settle[s].job])
    BY <1>0, <1>8, SettleFinalEffect
  <2>2. sub[s].pc = "idle"  BY <2>1 DEF SettleInv
  <2> QED BY <1>0, <1>a, <2>1, <2>2
<1>9. ASSUME NEW s \in Settlers, SettleOnly(s) PROVE Goal  BY <1>0, <1>9, SettleOnlyEffect
<1>10. CASE UNCHANGED vars  BY <1>10 DEF vars
<1> QED BY <1>1, <1>2, <1>3, <1>4, <1>5, <1>6, <1>7, <1>8, <1>9, <1>10 DEF ManagerAction

\* A submission takes its session and its last token from the tracker.
LEMMA StartsMetered ==
    ASSUME TypeInv, Metered, NEW x \in Submitters, NEW j \in Jobs, NEW r \in JobTokenTracker,
           Starts(x, j, r), r.session_id = SessionOf[j],
           served' \in [Jobs -> Nat], \A i \in Jobs : served[i] <= served'[i],
           r.tokens_generated <= served'[j], mark' = mark
    PROVE  TrackersMetered' /\ SubsMetered' /\ MarksMetered'
<1>0. Starts(x, j, r) /\ TypeOK  BY DEF TypeInv
<1>1. /\ TypeOK /\ KnownJobs /\ TrackersMetered /\ SubsMetered /\ MarksMetered
      /\ DOMAIN tracker \subseteq Jobs /\ served \in [Jobs -> Nat] /\ mark \in [Jobs -> Nat]
      /\ \A i \in DOMAIN tracker : tracker[i].tokens_generated \in Nat
      /\ \A y \in Submitters : sub[y].upto \in Nat
  BY DEF TypeInv, Metered, TypeOK, TrackerOK, HistoryOK, SubRecord, JobTokenTracker
<1>2. /\ DOMAIN tracker' = DOMAIN tracker \cup {j}
      /\ tracker'[j] = Submitted(r)
      /\ \A i \in DOMAIN tracker : i # j => tracker'[i] = tracker[i]
      /\ sub'[x] = Submission(j, r)
      /\ \A z \in Submitters \ {x} : sub'[z] = sub[z]
  BY ONLY <1>0, StartsEffect
<1>3. /\ Submitted(r).session_id = SessionOf[j]
      /\ Submitted(r).tokens_generated <= served'[j]
  BY DEF Submitted, JobTokenTracker
<1>4. /\ Submission(j, r).session_id = SessionOf[j] /\ Submission(j, r).job = j
      /\ Submission(j, r).upto <= served'[j]
  BY DEF Submission
<1>5. TrackersMetered'  BY <1>1, <1>2, <1>3 DEF TrackersMetered
<1>6. SubsMetered'
  <2>1. ASSUME NEW y \in Submitters, y # x, sub'[y].pc \in InFlight
        PROVE  sub'[y].session_id = SessionOf[sub'[y].job] /\ sub'[y].upto <= served'[sub'[y].job]
    <3>1. sub'[y] = sub[y] /\ sub[y].pc # "idle"  BY <1>2, <2>1 DEF InFlight, Submitting
    <3>2. sub[y].job \in Jobs /\ sub[y].upto <= served[sub[y].job]  BY <1>1, <2>1, <3>1 DEF KnownJobs, SubsMetered
    <3>3. served[sub[y].job] <= served'[sub[y].job]  BY <3>2
    <3> QED BY <1>1, <2>1, <3>1, <3>2, <3>3 DEF SubsMetered
  <2> QED BY <1>2, <1>4, <2>1 DEF SubsMetered
<1>7. MarksMetered'  BY <1>1 DEF MarksMetered
<1> QED BY <1>5, <1>6, <1>7

\* track_tokens adds what it serves to a tracker of the same session.
LEMMA CountedMetered ==
    ASSUME TypeInv, Metered, NEW t \in Streams, stream[t].pc = "checked"
    PROVE  LET j == stream[t].job
           IN  /\ j \in Jobs /\ Counted(t) \in JobTokenTracker
               /\ Counted(t).session_id = SessionOf[j]
               /\ Counted(t).tokens_generated <= served[j] + stream[t].tokens
<1> SUFFICES ASSUME NEW j, j = stream[t].job
             PROVE  /\ j \in Jobs /\ Counted(t) \in JobTokenTracker
                    /\ Counted(t).session_id = SessionOf[j]
                    /\ Counted(t).tokens_generated <= served[j] + stream[t].tokens
  OBVIOUS
<1> DEFINE q == TrackerOf(t)
<1>1. /\ TypeOK /\ j \in Jobs /\ stream[t] \in StreamRecord /\ stream[t].tokens \in Nat
      /\ served[j] \in Nat /\ stream[t].session_id = SessionOf[j]
  BY DEF TypeInv, TypeOK, KnownJobs, HistoryOK, StreamRecord, Metered, StreamsMetered
<1>2. Counted(t) \in JobTokenTracker  BY <1>1, CountedType
<1>3. q \in JobTokenTracker  BY <1>1 DEF TypeOK, TrackerOK, TrackerOf, NewTracker, JobTokenTracker, StreamRecord
<1>4. q.session_id = SessionOf[j] /\ q.tokens_generated <= served[j]
  BY <1>1 DEF TrackerOf, NewTracker, Metered, TrackersMetered
<1>5. Counted(t) = AddTokens(q, stream[t].tokens, stream[t].session_id)  BY DEF Counted
<1> HIDE DEF q
<1>6. /\ AddTokens(q, stream[t].tokens, stream[t].session_id).session_id = SessionOf[j]
      /\ AddTokens(q, stream[t].tokens, stream[t].session_id).tokens_generated
            = q.tokens_generated + stream[t].tokens  BY <1>1, <1>3, <1>4 DEF AddTokens, JobTokenTracker
<1>7. q.tokens_generated \in Nat  BY <1>3 DEF JobTokenTracker
<1> QED BY <1>1, <1>2, <1>4, <1>5, <1>6, <1>7

\* Every step of the manager keeps sessions and counts.
LEMMA MeteredNext ==
    ASSUME TypeInv, SettleInv, Metered, ManagerAction \/ UNCHANGED vars
    PROVE  Metered'
<1>0. /\ TypeOK /\ KnownJobs /\ StreamsMetered /\ TrackersMetered /\ SubsMetered /\ MarksMetered
      /\ DOMAIN tracker \subseteq Jobs /\ served \in [Jobs -> Nat] /\ mark \in [Jobs -> Nat]
      /\ \A j \in DOMAIN tracker : tracker[j] \in JobTokenTracker
      /\ sub \in [Submitters -> SubRecord] /\ \A x \in Submitters : sub[x] \in SubRecord
      /\ Tasks \subseteq Submitters /\ Settlers \subseteq Submitters
  BY DEF TypeInv, Metered, TypeOK, TrackerOK, HistoryOK, Submitters
<1>a. ASSUME NEW x \in Submitters, NEW j \in DOMAIN tracker, Starts(x, j, tracker[j]),
             UNCHANGED <<stream, served, mark>>
      PROVE  Metered'
  <2>1. /\ j \in Jobs /\ tracker[j] \in JobTokenTracker
        /\ tracker[j].session_id = SessionOf[j] /\ tracker[j].tokens_generated <= served'[j]
        /\ served' \in [Jobs -> Nat] /\ \A i \in Jobs : served[i] <= served'[i]
    BY <1>0, <1>a DEF TrackersMetered
  <2>2. Starts(x, j, tracker[j]) /\ mark' = mark  BY <1>a
  <2>3. TrackersMetered' /\ SubsMetered' /\ MarksMetered'  BY <2>1, <2>2, StartsMetered
  <2>4. StreamsMetered'  BY <1>0, <1>a DEF StreamsMetered
  <2> QED BY <2>3, <2>4 DEF Metered
<1>1. ASSUME NEW t \in Streams, NEW j \in Jobs, NEW n \in Nat,
             TrackCheck(t, j, n, SessionOf[j])
      PROVE  Metered'
  <2>1. /\ UNCHANGED <<tracker, sub, served, mark>>
        /\ \A z \in Streams \ {t} : stream'[z] = stream[z]
        /\ stream'[t].job = j /\ stream'[t].session_id = SessionOf[j]
    BY <1>0, <1>1, SessionAssumption, TrackCheckEffect
  <2>2. StreamsMetered'  BY <1>0, <2>1 DEF StreamsMetered
  <2>3. TrackersMetered' /\ SubsMetered' /\ MarksMetered'  BY <1>0, <2>1 DEF TrackersMetered, SubsMetered, MarksMetered
  <2> QED BY <2>2, <2>3 DEF Metered
<1>2. ASSUME NEW t \in Streams, TrackWrite(t) PROVE Metered'
  <2> SUFFICES ASSUME NEW j, j = stream[t].job PROVE Metered'  OBVIOUS
  <2>1. /\ stream[t].pc = "checked" /\ j \in Jobs
        /\ stream' = [stream EXCEPT ![t] = IdleStream]
        /\ served' = [served EXCEPT ![j] = @ + stream[t].tokens]
        /\ Counted(t) \in JobTokenTracker
        /\ mark' = mark
        /\ \/ tracker' = Put(tracker, j, Counted(t)) /\ sub' = sub
           \/ \E k \in Tasks : Starts(k, j, Counted(t))
    BY <1>0, <1>2, TrackWriteEffect
  <2>2. /\ Counted(t).session_id = SessionOf[j]
        /\ Counted(t).tokens_generated <= served[j] + stream[t].tokens
    BY <2>1, CountedMetered
  <2>3. stream[t].tokens \in Nat  BY <1>0 DEF TypeOK, StreamRecord
  <2>4. /\ served' \in [Jobs -> Nat] /\ \A i \in Jobs : served[i] <= served'[i]
        /\ Counted(t).tokens_generated <= served'[j]
    BY <1>0, <2>1, <2>2, <2>3
  <2>5. StreamsMetered'  BY <1>0, <2>1 DEF StreamsMetered, TypeOK, IdleStream
  <2>6. ASSUME NEW k \in Tasks, Starts(k, j, Counted(t))
        PROVE  TrackersMetered' /\ SubsMetered' /\ MarksMetered'  BY <1>0, <2>1, <2>2, <2>4, <2>6, StartsMetered
  <2>7. ASSUME tracker' = Put(tracker, j, Counted(t)), sub' = sub
        PROVE  TrackersMetered' /\ SubsMetered' /\ MarksMetered'
    <3>1. /\ DOMAIN tracker' = DOMAIN tracker \cup {j} /\ tracker'[j] = Counted(t)
          /\ \A i \in DOMAIN tracker : i # j => tracker'[i] = tracker[i]
      BY <2>7 DEF Put
    <3>2. \A i \in DOMAIN tracker : i \in Jobs /\ tracker[i].tokens_generated \in Nat  BY <1>0 DEF JobTokenTracker
    <3>3. TrackersMetered'  BY <1>0, <2>2, <2>4, <3>1, <3>2 DEF TrackersMetered
    <3>4. \A x \in Submitters : sub[x].upto \in Nat /\ (sub[x].pc \in InFlight => sub[x].job \in Jobs)
      BY <1>0 DEF KnownJobs, SubRecord, InFlight, Submitting
    <3>5. SubsMetered'  BY <1>0, <2>4, <2>7, <3>4 DEF SubsMetered
    <3>6. MarksMetered'  BY <1>0, <2>1, <2>4 DEF MarksMetered
    <3> QED BY <3>3, <3>5, <3>6
  <2> QED BY <2>1, <2>5, <2>6, <2>7 DEF Metered
<1>3. ASSUME NEW j \in Jobs, ForceCheckpoint(j) PROVE Metered'
  <2>1. PICK k \in Tasks : /\ sub'[k].pc = "lock"
                           /\ \A z \in Submitters \ {k} : sub'[z] = sub[z]
    BY <1>0, <1>3, ForceCheckpointEffect
  <2>2. UNCHANGED <<tracker, stream, served, mark>>  BY <1>3 DEF ForceCheckpoint
  <2>3. SubsMetered'  BY <1>0, <2>1, <2>2 DEF SubsMetered, InFlight, Submitting
  <2> QED BY <1>0, <2>2, <2>3 DEF Metered, StreamsMetered, TrackersMetered, MarksMetered
<1>4. ASSUME NEW x \in Submitters, ForceLock(x) PROVE Metered'
  <2>1. /\ UNCHANGED <<stream, served, mark>>
        /\ \/ tracker' = tracker /\ sub' = [sub EXCEPT ![x] = IdleSub]
           \/ sub[x].job \in DOMAIN tracker /\ Starts(x, sub[x].job, tracker[sub[x].job])
    BY <1>0, <1>4, ForceLockEffect
  <2>2. CASE tracker' = tracker /\ sub' = [sub EXCEPT ![x] = IdleSub]
    <3>1. SubsMetered'  BY <1>0, <2>1, <2>2 DEF SubsMetered, InFlight, Submitting, IdleSub
    <3> QED BY <1>0, <2>1, <2>2, <3>1 DEF Metered, StreamsMetered, TrackersMetered, MarksMetered
  <2> QED BY <1>a, <2>1, <2>2
<1>5. ASSUME NEW x \in Submitters, Stage(x) PROVE Metered'
  <2>1. /\ UNCHANGED <<tracker, stream, served>>
        /\ sub[x].pc \in InFlight
        /\ \A z \in Submitters \ {x} : sub'[z] = sub[z]
        /\ sub'[x] = [sub[x] EXCEPT !.pc = sub'[x].pc]
        /\ sub[x].job \in Jobs
        /\ UNCHANGED mark \/ mark' = [mark EXCEPT ![sub[x].job] = sub[x].upto]
    BY <1>0, <1>5, StageEffect DEF InFlight
  <2>2. /\ sub'[x].job = sub[x].job /\ sub'[x].upto = sub[x].upto
        /\ sub'[x].session_id = sub[x].session_id
    BY <1>0, <2>1 DEF SubRecord
  <2>3. SubsMetered'  BY <1>0, <2>1, <2>2 DEF SubsMetered
  <2>4. MarksMetered'  BY <1>0, <2>1 DEF SubsMetered, MarksMetered
  <2> QED BY <1>0, <2>1, <2>3, <2>4 DEF Metered, StreamsMetered, TrackersMetered
<1>6. ASSUME NEW x \in Submitters, Record(x) PROVE Metered'
  <2> SUFFICES ASSUME NEW j, j = sub[x].job PROVE Metered'  OBVIOUS
  <2>1. /\ UNCHANGED <<stream, served, mark>> /\ DOMAIN tracker' = DOMAIN tracker
        /\ \A i \in DOMAIN tracker : i # j => tracker'[i] = tracker[i]
        /\ j \in DOMAIN tracker => tracker'[j] = Outcome(tracker[j], sub[x])
        /\ sub'[x] = IdleSub
        /\ \A z \in Submitters \ {x} : sub'[z] = sub[z]
    BY <1>0, <1>6, RecordEffect
  <2>2. \A r \in JobTokenTracker : /\ Outcome(r, sub[x]).session_id = r.session_id
                                   /\ Outcome(r, sub[x]).tokens_generated = r.tokens_generated
    BY DEF Outcome, JobTokenTracker
  <2>3. TrackersMetered'  BY <1>0, <2>1, <2>2 DEF TrackersMetered
  <2>4. SubsMetered'  BY <1>0, <2>1 DEF SubsMetered, IdleSub, InFlight, Submitting
  <2> QED BY <1>0, <2>1, <2>3, <2>4 DEF Metered, StreamsMetered, MarksMetered
<1>7. ASSUME NEW s \in Settlers, NEW j \in Jobs, SettleStart(s, j) PROVE Metered'  BY <1>0, <1>7
  DEF SettleStart, Metered, StreamsMetered, TrackersMetered, SubsMetered, MarksMetered
<1>8. ASSUME NEW s \in Settlers, SettleFinal(s) PROVE Metered'
  <2>1. /\ UNCHANGED <<stream, served, mark>>
        /\ \/ UNCHANGED <<tracker, sub>>
           \/ /\ settle[s].job \in DOMAIN tracker
              /\ Starts(s, settle[s].job, tracker[settle[s].job])
    BY <1>0, <1>8, SettleFinalEffect
  <2>2. CASE UNCHANGED <<tracker, sub>>  BY <1>0, <2>1, <2>2
    DEF Metered, StreamsMetered, TrackersMetered, SubsMetered, MarksMetered
  <2> QED BY <1>0, <1>a, <2>1, <2>2
<1>9. ASSUME NEW s \in Settlers, SettleOnly(s) PROVE Metered'
  <2>1. /\ UNCHANGED <<stream, sub, served, mark>>
        /\ tracker' \in {tracker, Remove(tracker, settle[s].job)}
    BY <1>0, <1>9, SettleOnlyEffect
  <2>2. /\ DOMAIN tracker' \subseteq DOMAIN tracker
        /\ \A j \in DOMAIN tracker' : tracker'[j] = tracker[j]
    BY <2>1 DEF Remove, Restrict
  <2>3. TrackersMetered'  BY <1>0, <2>1, <2>2 DEF TrackersMetered
  <2> QED BY <1>0, <2>1, <2>3 DEF Metered, StreamsMetered, SubsMetered, MarksMetered
<1>10. CASE UNCHANGED vars  BY <1>0, <1>10 DEF vars, Metered, StreamsMetered, TrackersMetered, SubsMetered, MarksMetered
<1> QED BY <1>1, <1>2, <1>3, <1>4, <1>5, <1>6, <1>7, <1>8, <1>9, <1>10 DEF ManagerAction

-----------------------------------------------------------------------------
(* The requests' part of the invariant *)

\* Steps of others: a request stays where it is and the conversation goes on.
LEMMA RequestsStay ==
    ASSUME RequestsOK, UNCHANGED <<req, asked, stream>>,
           said \in [SessionIds -> Nat], said' \in [SessionIds -> Nat],
           \A s \in SessionIds : said[s] <= said'[s]
    PROVE  RequestsOK'
<1>1. RequestTypes' /\ TurnsKnown' /\ PromptsPending' /\ TurnsDistinct' /\ TrackingOwn'
  BY DEF RequestsOK, RequestTypes, TurnsKnown, PromptsPending, TurnsDistinct, TrackingOwn
<1>2. PromptsSaid'
  <2> SUFFICES ASSUME NEW t \in Streams, req[t].pc \notin {"idle", "user"}
               PROVE  asked[req[t].job][req[t].turn] \in 1 .. said'[SessionOf[req[t].job]]  BY DEF PromptsSaid
  <2>1. /\ SessionOf[req[t].job] \in SessionIds
        /\ asked[req[t].job][req[t].turn] \in 1 .. said[SessionOf[req[t].job]]
    BY SessionAssumption DEF RequestsOK, TurnsKnown, PromptsSaid
  <2>2. /\ said[SessionOf[req[t].job]] \in Nat /\ said'[SessionOf[req[t].job]] \in Nat
        /\ said[SessionOf[req[t].job]] <= said'[SessionOf[req[t].job]]
    BY <2>1
  <2> QED BY <2>1, <2>2
<1> QED BY <1>1, <1>2 DEF RequestsOK

\* A request whose prompt is buffered moves on to another stage, or ends.
Moves(t) ==
    /\ asked' = asked
    /\ req' \in [Streams -> RequestRecord]
    /\ \A u \in Streams \ {t} : req'[u] = req[u] /\ stream'[u] = stream[u]
    /\ req[t].pc \notin {"idle", "user"}
    /\ \/ req'[t].pc = "idle"
       \/ /\ req'[t].pc \notin {"idle", "user"}
          /\ req'[t].job = req[t].job /\ req'[t].turn = req[t].turn
    /\ req'[t].pc = "tracking" => stream'[t].pc = "checked" /\ stream'[t].job = req[t].job

LEMMA RequestMoves ==
    ASSUME RequestsOK, NEW t \in Streams, Moves(t),
           said \in [SessionIds -> Nat], said' \in [SessionIds -> Nat],
           \A s \in SessionIds : said[s] <= said'[s]
    PROVE  RequestsOK'
<1>0. /\ RequestTypes /\ TurnsKnown /\ PromptsPending /\ PromptsSaid /\ TurnsDistinct
      /\ TrackingOwn
  BY DEF RequestsOK
<1>1. /\ asked' = asked /\ req[t].pc \notin {"idle", "user"}
      /\ \A u \in Streams \ {t} : req'[u] = req[u] /\ stream'[u] = stream[u]
      /\ \/ req'[t].pc = "idle"
         \/ /\ req'[t].pc \notin {"idle", "user"}
            /\ req'[t].job = req[t].job /\ req'[t].turn = req[t].turn
      /\ req'[t].pc = "tracking" => stream'[t].pc = "checked" /\ stream'[t].job = req[t].job
  BY DEF Moves
<1>2. \A u \in Streams : req'[u].pc # "idle" =>
          /\ req[u].pc # "idle" /\ req'[u].job = req[u].job /\ req'[u].turn = req[u].turn
          /\ req'[u].pc = "user" <=> req[u].pc = "user"
  BY <1>1
<1>3. RequestTypes'  BY <1>0 DEF Moves, RequestTypes
<1>4. TurnsKnown' /\ TurnsDistinct'  BY <1>0, <1>1, <1>2 DEF TurnsKnown, TurnsDistinct
<1>5. PromptsPending'  BY <1>0, <1>1, <1>2 DEF PromptsPending
<1>6. PromptsSaid'
  <2> SUFFICES ASSUME NEW u \in Streams, req'[u].pc \notin {"idle", "user"}
               PROVE  asked'[req'[u].job][req'[u].turn] \in 1 .. said'[SessionOf[req'[u].job]]  BY DEF PromptsSaid
  <2>1. req[u].pc \notin {"idle", "user"} /\ req'[u].job = req[u].job /\ req'[u].turn = req[u].turn  BY <1>2
  <2>2. /\ SessionOf[req[u].job] \in SessionIds
        /\ asked[req[u].job][req[u].turn] \in 1 .. said[SessionOf[req[u].job]]
    BY <1>0, <2>1, SessionAssumption DEF TurnsKnown, PromptsSaid
  <2>3. /\ said[SessionOf[req[u].job]] \in Nat /\ said'[SessionOf[req[u].job]] \in Nat
        /\ said[SessionOf[req[u].job]] <= said'[SessionOf[req[u].job]]
    BY <2>2
  <2> QED BY <1>1, <2>1, <2>2, <2>3
<1>7. TrackingOwn'  BY <1>0, <1>1, <1>2 DEF TrackingOwn
<1> QED BY <1>3, <1>4, <1>5, <1>6, <1>7 DEF RequestsOK

\* A request arrives with a turn that no other request has.
LEMMA PromptArrives ==
    ASSUME RequestsOK, NEW t \in Streams, NEW j \in Jobs, NEW kind \in {"stream", "single"},
           ReqPrompt(t, j, kind)
    PROVE  RequestsOK'
<1>0. /\ RequestTypes /\ TurnsKnown /\ PromptsPending /\ PromptsSaid /\ TurnsDistinct
      /\ TrackingOwn /\ asked \in [Jobs -> Seq(Nat)] /\ req \in [Streams -> RequestRecord]
      /\ asked[j] \in Seq(Nat)
  BY DEF RequestsOK, RequestTypes
<1> DEFINE n == Len(asked[j]) + 1
           r == [pc |-> "user", kind |-> kind, job |-> j, turn |-> n, tokens |-> 0]
<1>1. /\ req' = [req EXCEPT ![t] = r]
      /\ asked' = [asked EXCEPT ![j] = Append(asked[j], 0)]
      /\ UNCHANGED <<stream, said>>
  BY DEF ReqPrompt, managerVars, publisherVars, vars
<1>2. n \in Nat /\ r \in RequestRecord  BY <1>0 DEF RequestRecord
<1>3. /\ r.pc = "user" /\ r.job = j /\ r.turn = n  OBVIOUS
<1>4. /\ asked' \in [Jobs -> Seq(Nat)]
      /\ Len(asked'[j]) = n /\ asked'[j][n] = 0
      /\ \A i \in 1 .. Len(asked[j]) : asked'[j][i] = asked[j][i]
      /\ \A k \in Jobs \ {j} : asked'[k] = asked[k]
  <2>1. Append(asked[j], 0) \in Seq(Nat)  BY <1>0
  <2>2. asked' \in [Jobs -> Seq(Nat)] /\ asked'[j] = Append(asked[j], 0)
        /\ \A k \in Jobs \ {j} : asked'[k] = asked[k]
    BY <1>0, <1>1, <2>1
  <2> QED BY <1>0, <2>2
<1>5. /\ req'[t] = r /\ \A u \in Streams \ {t} : req'[u] = req[u]
      /\ req' \in [Streams -> RequestRecord]
  BY <1>0, <1>1, <1>2
<1> HIDE DEF r
<1>6. ASSUME NEW u \in Streams \ {t}, req[u].pc # "idle"
      PROVE  /\ req[u].job \in Jobs
             /\ req[u].turn \in 1 .. Len(asked'[req[u].job])
             /\ asked'[req[u].job][req[u].turn] = asked[req[u].job][req[u].turn]
             /\ ~(req[u].job = j /\ req[u].turn = n)
  <2>1. req[u].job \in Jobs /\ req[u].turn \in 1 .. Len(asked[req[u].job])  BY <1>0, <1>6 DEF TurnsKnown
  <2>2. CASE req[u].job # j  BY <1>4, <2>1, <2>2
  <2>3. CASE req[u].job = j
    <3>1. req[u].turn \in 1 .. Len(asked[j]) /\ Len(asked[j]) \in Nat  BY <1>0, <2>1, <2>3
    <3>2. req[u].turn \in 1 .. n /\ req[u].turn # n  BY <3>1
    <3> QED BY <1>4, <2>1, <2>3, <3>1, <3>2
  <2> QED BY <2>2, <2>3
<1>7. RequestTypes'  BY <1>4, <1>5 DEF RequestTypes
<1>8. n \in 1 .. n  BY <1>2, <1>0
<1> HIDE DEF n
<1>9. TurnsKnown'  BY <1>3, <1>4, <1>5, <1>6, <1>8 DEF TurnsKnown
<1>10. PromptsPending'
  <2> SUFFICES ASSUME NEW u \in Streams, req'[u].pc = "user"
               PROVE  asked'[req'[u].job][req'[u].turn] = 0  BY DEF PromptsPending
  <2>1. CASE u = t  BY <1>3, <1>4, <1>5, <2>1
  <2>2. CASE u # t  BY <1>0, <1>5, <1>6, <2>2 DEF PromptsPending
  <2> QED BY <2>1, <2>2
<1>11. PromptsSaid'  BY <1>0, <1>1, <1>3, <1>5, <1>6 DEF PromptsSaid
<1>12. TurnsDistinct'
  <2> SUFFICES ASSUME NEW u \in Streams, NEW v \in Streams,
                      req'[u].pc # "idle", req'[v].pc # "idle",
                      req'[u].job = req'[v].job, req'[u].turn = req'[v].turn
               PROVE  u = v  BY DEF TurnsDistinct
  <2>1. CASE u # t /\ v # t  BY <1>0, <1>5, <2>1 DEF TurnsDistinct
  <2>2. CASE u = t /\ v # t  BY <1>3, <1>5, <1>6, <2>2
  <2>3. CASE u # t /\ v = t  BY <1>3, <1>5, <1>6, <2>3
  <2> QED BY <2>1, <2>2, <2>3
<1>13. TrackingOwn'  BY <1>0, <1>1, <1>3, <1>5 DEF TrackingOwn
<1> QED BY <1>7, <1>9, <1>10, <1>11, <1>12, <1>13 DEF RequestsOK

\* The prompt becomes a message of its session, under the turn of its request alone.
LEMMA PromptIsBuffered ==
    ASSUME RequestsOK, NEW t \in Streams, ReqUser(t),
           said \in [SessionIds -> Nat], said' \in [SessionIds -> Nat],
           \A s \in SessionIds : said[s] <= said'[s],
           \A s \in SessionIds : P!BufferMessage(s) => said'[s] \in 1 .. said'[s]
    PROVE  /\ RequestsOK'
           /\ \A j \in Jobs : Len(asked'[j]) = Len(asked[j])
           /\ \A j \in Jobs : \A i \in 1 .. Len(asked[j]) :
                 asked[j][i] # 0 => asked'[j][i] = asked[j][i]
<1>0. /\ RequestTypes /\ TurnsKnown /\ PromptsPending /\ PromptsSaid /\ TurnsDistinct
      /\ TrackingOwn /\ asked \in [Jobs -> Seq(Nat)] /\ req \in [Streams -> RequestRecord]
      /\ req[t] \in RequestRecord
  BY DEF RequestsOK, RequestTypes
<1> SUFFICES ASSUME NEW j, j = req[t].job, NEW n, n = req[t].turn, NEW m, m = said'[SessionOf[j]]
             PROVE  /\ RequestsOK'
                    /\ \A k \in Jobs : Len(asked'[k]) = Len(asked[k])
                    /\ \A k \in Jobs : \A i \in 1 .. Len(asked[k]) :
                          asked[k][i] # 0 => asked'[k][i] = asked[k][i]  OBVIOUS
<1>1. /\ req[t].pc = "user" /\ req' = [req EXCEPT ![t].pc = "inference"]
      /\ P!BufferMessage(SessionOf[j])
      /\ asked' = [asked EXCEPT ![j] = [asked[j] EXCEPT ![n] = m]]
      /\ stream' = stream
  BY <1>0 DEF ReqUser, ReqGoto, managerVars, vars, RequestTypes
<1>2. j \in Jobs /\ n \in 1 .. Len(asked[j]) /\ asked[j][n] = 0 /\ asked[j] \in Seq(Nat)
  BY <1>0, <1>1 DEF TurnsKnown, PromptsPending
<1>3. SessionOf[j] \in SessionIds /\ m \in Nat /\ m \in 1 .. m  BY <1>1, <1>2, SessionAssumption
<1>4. /\ [asked[j] EXCEPT ![n] = m] \in Seq(Nat)
      /\ Len([asked[j] EXCEPT ![n] = m]) = Len(asked[j])
      /\ [asked[j] EXCEPT ![n] = m][n] = m
      /\ \A i \in 1 .. Len(asked[j]) : i # n => [asked[j] EXCEPT ![n] = m][i] = asked[j][i]
  BY <1>2, <1>3
<1>5. /\ asked' \in [Jobs -> Seq(Nat)]
      /\ Len(asked'[j]) = Len(asked[j]) /\ asked'[j][n] = m
      /\ \A i \in 1 .. Len(asked[j]) : i # n => asked'[j][i] = asked[j][i]
      /\ \A k \in Jobs \ {j} : asked'[k] = asked[k]
  BY <1>0, <1>1, <1>2, <1>4
<1>6. /\ \A k \in Jobs : Len(asked'[k]) = Len(asked[k])
      /\ \A k \in Jobs : \A i \in 1 .. Len(asked[k]) :
            asked[k][i] # 0 => asked'[k][i] = asked[k][i]  BY ZenonT(40), <1>2, <1>5
<1>7. /\ req' \in [Streams -> RequestRecord]
      /\ req'[t].pc = "inference" /\ req'[t].job = j /\ req'[t].turn = n
      /\ \A u \in Streams \ {t} : req'[u] = req[u]
  BY <1>0, <1>1 DEF RequestRecord
<1>8. ASSUME NEW u \in Streams \ {t}, req[u].pc # "idle"
      PROVE  /\ req[u].job \in Jobs /\ req[u].turn \in 1 .. Len(asked'[req[u].job])
             /\ asked'[req[u].job][req[u].turn] = asked[req[u].job][req[u].turn]
  <2>1. /\ req[u].job \in Jobs /\ req[u].turn \in 1 .. Len(asked[req[u].job])
        /\ ~(req[u].job = j /\ req[u].turn = n)
    BY <1>0, <1>1, <1>8 DEF TurnsKnown, TurnsDistinct
  <2> QED BY <1>5, <2>1
<1>9. RequestTypes' /\ TurnsKnown'
  <2>1. RequestTypes'  BY <1>5, <1>7 DEF RequestTypes
  <2>2. n \in 1 .. Len(asked'[j])  BY <1>2, <1>5
  <2> QED BY <1>2, <1>7, <1>8, <2>1, <2>2 DEF TurnsKnown
<1>10. PromptsPending'  BY <1>0, <1>7, <1>8 DEF PromptsPending
<1>11. PromptsSaid'
  <2> SUFFICES ASSUME NEW u \in Streams, req'[u].pc \notin {"idle", "user"}
               PROVE  asked'[req'[u].job][req'[u].turn] \in 1 .. said'[SessionOf[req'[u].job]]  BY DEF PromptsSaid
  <2>1. CASE u = t  BY SMTT(40), <1>3, <1>5, <1>7, <2>1
  <2>2. CASE u # t
    <3>1. /\ req'[u] = req[u] /\ req[u].pc \notin {"idle", "user"} /\ req[u].job \in Jobs
          /\ asked'[req[u].job][req[u].turn] = asked[req[u].job][req[u].turn]
          /\ asked[req[u].job][req[u].turn] \in 1 .. said[SessionOf[req[u].job]]
      BY <1>0, <1>7, <1>8, <2>2 DEF PromptsSaid
    <3>2. /\ SessionOf[req[u].job] \in SessionIds
          /\ said[SessionOf[req[u].job]] \in Nat /\ said'[SessionOf[req[u].job]] \in Nat
          /\ said[SessionOf[req[u].job]] <= said'[SessionOf[req[u].job]]
      BY <3>1, SessionAssumption
    <3> QED BY <3>1, <3>2
  <2> QED BY <2>1, <2>2
<1>12. TurnsDistinct'  BY <1>0, <1>1, <1>7 DEF TurnsDistinct
<1>13. TrackingOwn'  BY <1>0, <1>1, <1>7 DEF TrackingOwn
<1> QED BY <1>6, <1>9, <1>10, <1>11, <1>12, <1>13 DEF RequestsOK

\* The stages of a request after its prompt is buffered.
LEMMA StagesMove ==
    ASSUME TypeInv, RequestsOK, NEW t \in Streams,
           \/ ReqInference(t) \/ ReqToken(t) \/ ReqTracked(t) \/ ReqFinalize(t)
           \/ ReqForce(t) \/ ReqAssistant(t) \/ ReqCount(t)
           \/ \E n \in TokenCounts : ReqWhole(t, n)
    PROVE  Moves(t)
<1>0. /\ req \in [Streams -> RequestRecord] /\ req[t] \in RequestRecord
      /\ req[t].pc # "idle" => req[t].job \in Jobs
      /\ stream \in [Streams -> StreamRecord] /\ TypeOK /\ KnownJobs
      /\ IdleReq \in RequestRecord /\ IdleReq.pc = "idle"
  BY DEF RequestsOK, RequestTypes, TurnsKnown, TypeInv, TypeOK, IdleReq, RequestRecord
<1>a. ASSUME NEW to \in {"stream", "single", "tracking", "force", "assistant", "count"},
             req' = [req EXCEPT ![t].pc = to]
      PROVE  /\ req' \in [Streams -> RequestRecord]
             /\ req'[t].pc = to /\ req'[t].job = req[t].job /\ req'[t].turn = req[t].turn
             /\ \A u \in Streams \ {t} : req'[u] = req[u]
  BY <1>0, <1>a DEF RequestRecord
<1>b. ASSUME req' = [req EXCEPT ![t] = IdleReq]
      PROVE  /\ req' \in [Streams -> RequestRecord] /\ req'[t].pc = "idle"
             /\ \A u \in Streams \ {t} : req'[u] = req[u]
  BY <1>0, <1>b
<1>1. CASE ReqInference(t)
  <2>1. /\ req[t].pc = "inference" /\ UNCHANGED <<asked, stream>>
        /\ req' = [req EXCEPT ![t].pc = req[t].kind] \/ req' = [req EXCEPT ![t] = IdleReq]
        /\ req[t].kind \in {"stream", "single"}
    BY <1>0, <1>1 DEF ReqInference, managerVars, vars, RequestRecord
  <2> QED BY <1>a, <1>b, <2>1 DEF Moves
<1>2. CASE ReqToken(t)
  <2>1. /\ req[t].pc = "stream" /\ asked' = asked /\ req' = [req EXCEPT ![t].pc = "tracking"]
        /\ TrackCheck(t, req[t].job, 1, SessionOf[req[t].job])
    BY <1>2 DEF ReqToken, ReqGoto
  <2>2. req[t].job \in Jobs /\ SessionOf[req[t].job] \in SessionIds \cup {NoSession} /\ 1 \in Nat
    BY <1>0, <2>1, SessionAssumption
  <2>3. /\ \A u \in Streams \ {t} : stream'[u] = stream[u]
        /\ stream'[t].pc = "checked" /\ stream'[t].job = req[t].job
    BY <1>0, <2>1, <2>2, TrackCheckEffect
  <2> QED BY <1>a, <2>1, <2>3 DEF Moves
<1>3. CASE ReqCount(t)
  <2>1. /\ req[t].pc = "count" /\ asked' = asked /\ req' = [req EXCEPT ![t].pc = "tracking"]
        /\ TrackCheck(t, req[t].job, req[t].tokens, SessionOf[req[t].job])
    BY <1>3 DEF ReqCount, ReqGoto
  <2>2. /\ req[t].job \in Jobs /\ SessionOf[req[t].job] \in SessionIds \cup {NoSession}
        /\ req[t].tokens \in Nat
    BY <1>0, <2>1, SessionAssumption DEF RequestRecord
  <2>3. /\ \A u \in Streams \ {t} : stream'[u] = stream[u]
        /\ stream'[t].pc = "checked" /\ stream'[t].job = req[t].job
    BY <1>0, <2>1, <2>2, TrackCheckEffect
  <2> QED BY <1>a, <2>1, <2>3 DEF Moves
<1>4. CASE ReqTracked(t)
  <2>1. /\ req[t].pc = "tracking" /\ asked' = asked
        /\ req' = [req EXCEPT ![t].pc = "stream"] \/ req' = [req EXCEPT ![t] = IdleReq]
        /\ TrackWrite(t)
    BY <1>0, <1>4 DEF ReqTracked
  <2>2. \A u \in Streams \ {t} : stream'[u] = stream[u]  BY <1>0, <2>1 DEF TrackWrite
  <2> QED BY <1>a, <1>b, <2>1, <2>2 DEF Moves
<1>5. CASE ReqFinalize(t)
  <2>1. /\ req[t].pc = "stream" /\ UNCHANGED <<asked, stream>>
        /\ req' = [req EXCEPT ![t].pc = "force"]
    BY <1>5 DEF ReqFinalize, ReqGoto, managerVars, vars
  <2> QED BY <1>a, <2>1 DEF Moves
<1>6. CASE ReqForce(t)
  <2>1. /\ req[t].pc = "force" /\ UNCHANGED <<asked, stream>>
        /\ req' = [req EXCEPT ![t].pc = "assistant"]
    BY <1>6 DEF ReqForce, ReqGoto, ForceCheckpoint
  <2> QED BY <1>a, <2>1 DEF Moves
<1>7. CASE ReqAssistant(t)
  <2>1. /\ req[t].pc = "assistant" /\ UNCHANGED <<asked, stream>>
        /\ req' = [req EXCEPT ![t].pc = "count"] \/ req' = [req EXCEPT ![t] = IdleReq]
    BY <1>0, <1>7 DEF ReqAssistant, managerVars, vars
  <2> QED BY <1>a, <1>b, <2>1 DEF Moves
<1>8. ASSUME NEW n \in TokenCounts, ReqWhole(t, n) PROVE Moves(t)
  <2>1. /\ req[t].pc = "single" /\ UNCHANGED <<asked, stream>>
        /\ req' = [req EXCEPT ![t].pc = "assistant", ![t].tokens = n]
    BY <1>8 DEF ReqWhole, managerVars, vars
  <2>2. n \in Nat  BY NumberAssumption
  <2>3. /\ req' \in [Streams -> RequestRecord]
        /\ req'[t].pc = "assistant" /\ req'[t].job = req[t].job /\ req'[t].turn = req[t].turn
        /\ \A u \in Streams \ {t} : req'[u] = req[u]
    BY <1>0, <2>1, <2>2 DEF RequestRecord
  <2> QED BY <2>1, <2>3 DEF Moves
<1> QED BY <1>1, <1>2, <1>3, <1>4, <1>5, <1>6, <1>7, <1>8

\* The steps of submissions and settlers leave requests and the tokens served alone.
LEMMA OtherSteps ==
    ASSUME SystemNext \/ UNCHANGED allVars, ~(\E t \in Streams : RequestStep(t))
    PROVE  UNCHANGED <<req, asked, origin, stream, served>>
<1>1. ASSUME NEW x \in Submitters,
             \/ PublishStart(x) \/ PublishSucceeds(x) \/ PublishFails(x)
             \/ ProofSent(x) \/ OtherSubmitStep(x)
      PROVE  UNCHANGED <<req, asked, origin, stream, served>>
  BY <1>1 DEF PublishStart, PublishSucceeds, PublishFails, ProofSent, OtherSubmitStep,
         requestVars, managerVars, vars, PublishOk, PublishErr, SendProof, ForceLock, Prove,
         QueryAndCache, Record
<1>2. CASE PublishGoesOn  BY <1>2 DEF PublishGoesOn, requestVars, managerVars, vars
<1>3. ASSUME NEW s \in Settlers, SettlementStep(s) \/ \E j \in Jobs : Disconnect(s, j)
      PROVE  UNCHANGED <<req, asked, origin, stream, served>>
  BY <1>3 DEF SettlementStep, Disconnect, requestVars, SettleStart, SettleStep, SettlePoll,
         SettleTimeout, SettleFinal, SettleWindow, SettleSend, SettleResend, SettleConfirm,
         SettleCleanup, SettleRetry, SettleRetryConfirm
<1>4. CASE UNCHANGED allVars  BY <1>4 DEF allVars, requestVars, managerVars, vars
<1> QED BY <1>1, <1>2, <1>3, <1>4 DEF SystemNext

\* Every step keeps the requests in order.
LEMMA RequestsNext ==
    ASSUME TypeInv, RequestsOK, PublisherOK, [SystemNext]_allVars
    PROVE  RequestsOK'
<1>1. /\ said \in [SessionIds -> Nat] /\ said' \in [SessionIds -> Nat]
      /\ \A s \in SessionIds : said[s] <= said'[s]
      /\ \A s \in SessionIds : P!BufferMessage(s) => said'[s] \in 1 .. said'[s]
  BY PublisherActions, SaidGrows
<1>2. ASSUME NEW t \in Streams, RequestStep(t) PROVE RequestsOK'
  <2>1. CASE ReqUser(t)  BY <1>1, <2>1, PromptIsBuffered
  <2>2. ASSUME NEW j \in Jobs, NEW kind \in {"stream", "single"}, ReqPrompt(t, j, kind)
        PROVE  RequestsOK'  BY <2>2, PromptArrives
  <2>3. CASE \/ ReqInference(t) \/ ReqToken(t) \/ ReqTracked(t) \/ ReqFinalize(t)
             \/ ReqForce(t) \/ ReqAssistant(t) \/ ReqCount(t)
             \/ \E n \in TokenCounts : ReqWhole(t, n)
    <3>1. Moves(t)  BY <2>3, StagesMove
    <3> QED BY <1>1, <3>1, RequestMoves
  <2> QED BY <1>2, <2>1, <2>2, <2>3 DEF RequestStep
<1>3. ASSUME ~(\E t \in Streams : RequestStep(t)) PROVE RequestsOK'  BY <1>1, <1>3, OtherSteps, RequestsStay
<1> QED BY <1>2, <1>3

-----------------------------------------------------------------------------
(* The prompts behind the tokens *)

\* What answered prompts and the tokens so far are never changes.
OriginsKept ==
    \A j \in Jobs : \A i \in 1 .. Len(origin[j]) :
        /\ i \in 1 .. Len(origin'[j]) /\ origin'[j][i] = origin[j][i]
        /\ asked'[j][origin[j][i]] = asked[j][origin[j][i]]

\* Text that is appended to a job's tokens leaves the earlier ones in place.
LEMMA TextAppends ==
    ASSUME NEW q \in Seq(Nat), NEW turn \in Nat, NEW n \in Nat
    PROVE  /\ q \o Text(turn, n) \in Seq(Nat)
           /\ Len(q \o Text(turn, n)) = Len(q) + n
           /\ \A i \in 1 .. Len(q) : (q \o Text(turn, n))[i] = q[i]
           /\ \A i \in Len(q) + 1 .. Len(q) + n : (q \o Text(turn, n))[i] = turn
<1>1. /\ Text(turn, n) \in Seq(Nat) /\ Len(Text(turn, n)) = n
      /\ \A i \in 1 .. n : Text(turn, n)[i] = turn
  BY DEF Text
<1> DEFINE w == Text(turn, n)
<1> HIDE DEF w
<1>2. w \in Seq(Nat) /\ Len(w) = n /\ \A i \in 1 .. n : w[i] = turn  BY <1>1 DEF w
<1>3. /\ q \o w \in Seq(Nat) /\ Len(q \o w) = Len(q) + n
      /\ \A i \in 1 .. Len(q) : (q \o w)[i] = q[i]
  BY SMTT(40), <1>2
<1>4. ASSUME NEW i \in Len(q) + 1 .. Len(q) + n PROVE (q \o w)[i] = turn
  <2>1. i - Len(q) \in 1 .. n /\ i \in 1 .. Len(q) + Len(w) /\ i > Len(q)  BY <1>2
  <2>2. (q \o w)[i] = w[i - Len(q)]  BY <1>2, <2>1
  <2> QED BY <1>2, <2>1, <2>2
<1> QED BY <1>3, <1>4 DEF w

\* Every step keeps the tokens' prompts, and new tokens answer a buffered prompt.
LEMMA OriginsNext ==
    ASSUME TypeInv, RequestsOK, OriginsOK, PublisherOK, [SystemNext]_allVars
    PROVE  OriginsOK' /\ OriginsKept
<1>0. /\ OriginTypes /\ OriginsSaid /\ origin \in [Jobs -> Seq(Nat)]
      /\ asked \in [Jobs -> Seq(Nat)] /\ req \in [Streams -> RequestRecord]
      /\ \A j \in Jobs : Len(origin[j]) = served[j]
      /\ served \in [Jobs -> Nat]
  BY DEF OriginsOK, OriginTypes, RequestsOK, RequestTypes, TypeInv, TypeOK, HistoryOK
<1>1. /\ said \in [SessionIds -> Nat] /\ said' \in [SessionIds -> Nat]
      /\ \A s \in SessionIds : said[s] <= said'[s]
      /\ \A s \in SessionIds : P!BufferMessage(s) => said'[s] \in 1 .. said'[s]
  BY PublisherActions, SaidGrows
<1>2. \A j \in Jobs : 1 .. said[SessionOf[j]] \subseteq 1 .. said'[SessionOf[j]]
  <2> SUFFICES ASSUME NEW j \in Jobs PROVE 1 .. said[SessionOf[j]] \subseteq 1 .. said'[SessionOf[j]]  OBVIOUS
  <2>1. SessionOf[j] \in SessionIds  BY SessionAssumption
  <2>2. /\ said[SessionOf[j]] \in Nat /\ said'[SessionOf[j]] \in Nat
        /\ said[SessionOf[j]] <= said'[SessionOf[j]]
    BY <1>1, <2>1
  <2> QED BY <2>2
\* Steps that serve no token.
<1>3. ASSUME UNCHANGED <<origin, served>>,
             \A j \in Jobs : Len(asked[j]) <= Len(asked'[j]) /\ Len(asked'[j]) \in Nat,
             \A j \in Jobs : \A i \in 1 .. Len(asked[j]) :
                asked[j][i] # 0 => asked'[j][i] = asked[j][i]
      PROVE  OriginsOK' /\ OriginsKept
  <2>1. ASSUME NEW j \in Jobs, NEW i \in 1 .. Len(origin[j])
        PROVE  /\ origin[j][i] \in 1 .. Len(asked'[j])
               /\ asked'[j][origin[j][i]] = asked[j][origin[j][i]]
               /\ asked[j][origin[j][i]] \in 1 .. said'[SessionOf[j]]
    <3>1. /\ origin[j][i] \in 1 .. Len(asked[j])
          /\ asked[j][origin[j][i]] \in 1 .. said[SessionOf[j]]
      BY <1>0 DEF OriginsSaid
    <3>2. asked[j][origin[j][i]] # 0  BY <3>1
    <3>3. Len(asked[j]) \in Nat  BY <1>0
    <3> QED BY <1>2, <1>3, <3>1, <3>2, <3>3
  <2> QED BY <1>0, <1>3, <2>1 DEF OriginsOK, OriginTypes, OriginsSaid, OriginsKept
<1>4. ASSUME UNCHANGED <<origin, served, asked>> PROVE OriginsOK' /\ OriginsKept
  <2>1. \A j \in Jobs : Len(asked[j]) \in Nat  BY <1>0
  <2> QED BY <1>3, <1>4, <2>1
<1>5. ASSUME NEW t \in Streams, RequestStep(t) PROVE OriginsOK' /\ OriginsKept
  <2>1. CASE ReqUser(t)
    <3>1. /\ \A j \in Jobs : Len(asked'[j]) = Len(asked[j])
          /\ \A j \in Jobs : \A i \in 1 .. Len(asked[j]) :
                asked[j][i] # 0 => asked'[j][i] = asked[j][i]  BY <1>1, <2>1, PromptIsBuffered
    <3>2. UNCHANGED <<origin, served>>  BY <2>1 DEF ReqUser, managerVars, vars
    <3>3. \A j \in Jobs : Len(asked[j]) \in Nat  BY <1>0
    <3> QED BY <1>3, <3>1, <3>2, <3>3
  <2>2. ASSUME NEW j \in Jobs, NEW kind \in {"stream", "single"}, ReqPrompt(t, j, kind)
        PROVE  OriginsOK' /\ OriginsKept
    <3>1. /\ asked' = [asked EXCEPT ![j] = Append(asked[j], 0)]
          /\ UNCHANGED <<origin, served>>
      BY <1>0, <2>2 DEF ReqPrompt, managerVars, vars
    <3>2. /\ Len(Append(asked[j], 0)) = Len(asked[j]) + 1
          /\ \A i \in 1 .. Len(asked[j]) : Append(asked[j], 0)[i] = asked[j][i]
          /\ \A k \in Jobs : Len(asked[k]) \in Nat
      BY <1>0
    <3>3. \A k \in Jobs : asked'[k] = IF k = j THEN Append(asked[j], 0) ELSE asked[k]  BY <1>0, <3>1
    <3>4. \A k \in Jobs : Len(asked[k]) <= Len(asked'[k]) /\ Len(asked'[k]) \in Nat
      <4>1. ASSUME NEW k \in Jobs, k = j
            PROVE  Len(asked[k]) <= Len(asked'[k]) /\ Len(asked'[k]) \in Nat
        <5>1. asked'[k] = Append(asked[j], 0) /\ Len(asked'[k]) = Len(asked[j]) + 1  BY <3>2, <3>3, <4>1
        <5>2. Len(asked[j]) \in Nat  BY <3>2
        <5> QED BY <4>1, <5>1, <5>2
      <4>2. ASSUME NEW k \in Jobs, k # j
            PROVE  Len(asked[k]) <= Len(asked'[k]) /\ Len(asked'[k]) \in Nat  BY <3>2, <3>3, <4>2
      <4> QED BY <4>1, <4>2
    <3>5. \A k \in Jobs : \A i \in 1 .. Len(asked[k]) : asked'[k][i] = asked[k][i]  BY <3>2, <3>3
    <3> QED BY <1>3, <3>1, <3>4, <3>5
  <2>3. CASE ReqTracked(t)
    <3> SUFFICES ASSUME NEW j, j = req[t].job, NEW n, n = stream[t].tokens,
                        NEW turn, turn = req[t].turn
                 PROVE  OriginsOK' /\ OriginsKept  OBVIOUS
    <3>1. /\ req[t].pc = "tracking" /\ TrackWrite(t) /\ asked' = asked
          /\ origin' = [origin EXCEPT ![j] = origin[j] \o Text(turn, n)]
      BY <1>0, <2>3 DEF ReqTracked
    <3>2. /\ stream[t].job = j /\ j \in Jobs
          /\ turn \in 1 .. Len(asked[j])
          /\ asked[j][turn] \in 1 .. said[SessionOf[j]]
      BY <3>1 DEF RequestsOK, TrackingOwn, TurnsKnown, PromptsSaid
    <3>3. served' = [served EXCEPT ![j] = @ + n] /\ n \in Nat
      BY <3>1, <3>2 DEF TrackWrite, TypeInv, TypeOK, StreamRecord
    <3>4. origin[j] \in Seq(Nat) /\ turn \in Nat /\ Len(origin[j]) \in Nat  BY <1>0, <3>2
    <3>x. ASSUME NEW w, w = origin[j]
          PROVE  /\ w \o Text(turn, n) \in Seq(Nat)
                 /\ Len(w \o Text(turn, n)) = Len(w) + n
                 /\ \A i \in 1 .. Len(w) : (w \o Text(turn, n))[i] = w[i]
                 /\ \A i \in Len(w) + 1 .. Len(w) + n : (w \o Text(turn, n))[i] = turn
      <4>1. w \in Seq(Nat) /\ n \in Nat /\ turn \in Nat  BY <3>3, <3>4, <3>x
      <4> QED BY ONLY <4>1, TextAppends
    <3> DEFINE q == origin[j] \o Text(turn, n)
    <3>5. /\ q \in Seq(Nat) /\ Len(q) = Len(origin[j]) + n
          /\ \A i \in 1 .. Len(origin[j]) : q[i] = origin[j][i]
          /\ \A i \in Len(origin[j]) + 1 .. Len(origin[j]) + n : q[i] = turn
      BY <3>x
    <3> HIDE DEF q
    <3>6. \A k \in Jobs : origin'[k] = IF k = j THEN q ELSE origin[k]  BY <1>0, <3>1 DEF q
    <3>7. OriginTypes'
      <4>1. origin' \in [Jobs -> Seq(Nat)]  BY <1>0, <3>1, <3>5 DEF q
      <4>2. \A k \in Jobs : Len(origin'[k]) = served'[k]  BY <1>0, <3>2, <3>3, <3>5, <3>6
      <4> QED BY <4>1, <4>2 DEF OriginTypes
    <3>8. OriginsKept
      <4>0. Len(origin[j]) \in Nat /\ n \in Nat /\ Len(q) = Len(origin[j]) + n  BY <3>3, <3>4, <3>5, Zenon
      <4>1. \A i \in 1 .. Len(origin[j]) : i \in 1 .. Len(q)  BY ONLY <4>0
      <4> QED BY ZenonT(40), <3>1, <3>5, <3>6, <4>1 DEF OriginsKept
    <3>9. OriginsSaid'
      <4> SUFFICES ASSUME NEW k \in Jobs, NEW i \in 1 .. Len(origin'[k])
                   PROVE  /\ origin'[k][i] \in 1 .. Len(asked[k])
                          /\ asked[k][origin'[k][i]] \in 1 .. said'[SessionOf[k]]
        BY <3>1 DEF OriginsSaid
      <4>1. CASE k # j \/ i \in 1 .. Len(origin[j])
        <5>1. origin'[k][i] = origin[k][i] /\ i \in 1 .. Len(origin[k])  BY <3>5, <3>6, <4>1
        <5> QED BY <1>0, <1>2, <5>1 DEF OriginsSaid
      <4>2. CASE k = j /\ i \notin 1 .. Len(origin[j])
        <5>1. i \in Len(origin[j]) + 1 .. Len(origin[j]) + n  BY <3>3, <3>4, <3>5, <3>6, <4>2
        <5>2. origin'[k][i] = turn  BY <3>5, <3>6, <4>2, <5>1
        <5> QED BY <1>2, <3>2, <4>2, <5>2
      <4> QED BY <4>1, <4>2
    <3> QED BY <3>7, <3>8, <3>9 DEF OriginsOK
  <2>4. CASE \/ ReqInference(t) \/ ReqToken(t) \/ ReqFinalize(t) \/ ReqForce(t)
             \/ ReqAssistant(t) \/ ReqCount(t) \/ \E n \in TokenCounts : ReqWhole(t, n)
    <3>1. UNCHANGED <<origin, served, asked>>
      BY <2>4 DEF ReqInference, ReqToken, ReqFinalize, ReqForce, ReqAssistant, ReqCount, ReqWhole,
             managerVars, vars, TrackCheck, ForceCheckpoint
    <3> QED BY <1>4, <3>1
  <2> QED BY <1>5, <2>1, <2>2, <2>3, <2>4 DEF RequestStep
<1>6. ASSUME ~(\E t \in Streams : RequestStep(t)) PROVE OriginsOK' /\ OriginsKept  BY <1>4, <1>6, OtherSteps
<1> QED BY <1>5, <1>6

-----------------------------------------------------------------------------
(* Submissions and the publisher *)

\* A submission leaves its "publish" stage only by the end of publish_checkpoint.
LEMMA PublishingEnds ==
    ASSUME TypeInv, SettleInv, [SystemNext]_allVars, NEW z \in Submitters, sub[z].pc = "publish"
    PROVE  sub'[z] = sub[z] \/ PublishSucceeds(z) \/ PublishFails(z)
<1>0. TypeOK /\ sub \in [Submitters -> SubRecord]  BY DEF TypeInv, TypeOK
<1>1. ASSUME NEW t \in Streams, RequestStep(t) PROVE sub'[z] = sub[z]
  <2>1. CASE ReqTracked(t)
    <3>1. TrackWrite(t)  BY <2>1 DEF ReqTracked
    <3> QED BY <1>0, <3>1 DEF TrackWrite
  <2>2. CASE ReqForce(t)  BY <1>0, <2>2 DEF ReqForce, ForceCheckpoint
  <2>3. CASE ~(ReqTracked(t) \/ ReqForce(t))
    <3>1. sub' = sub  BY <1>1, <2>3 DEF RequestStep, ReqPrompt, ReqUser, ReqInference, ReqToken, ReqFinalize,
             ReqAssistant, ReqCount, ReqWhole, managerVars, vars, TrackCheck
    <3> QED BY <3>1
  <2> QED BY <2>1, <2>2, <2>3
<1>2. ASSUME NEW x \in Submitters, PublishStart(x) PROVE sub'[z] = sub[z]  BY <1>2 DEF PublishStart, managerVars, vars
<1>3. ASSUME NEW x \in Submitters, PublishSucceeds(x) \/ PublishFails(x)
      PROVE  sub'[z] = sub[z] \/ PublishSucceeds(z) \/ PublishFails(z)
  <2>1. CASE x = z  BY <1>3, <2>1
  <2>2. CASE x # z
    <3>1. PublishOk(x) \/ PublishErr(x)  BY <1>3 DEF PublishSucceeds, PublishFails
    <3> QED BY <1>0, <2>2, <3>1 DEF PublishOk, PublishErr, Advance
  <2> QED BY <2>1, <2>2
<1>4. ASSUME NEW x \in Submitters, ProofSent(x) \/ OtherSubmitStep(x)
      PROVE  sub'[z] = sub[z]
  <2>1. SendProof(x) \/ ForceLock(x) \/ Prove(x) \/ QueryAndCache(x) \/ Record(x)
    BY <1>4 DEF ProofSent, OtherSubmitStep
  <2> QED BY <1>0, <2>1 DEF SendProof, ForceLock, Prove, QueryAndCache, Record, Advance
<1>5. CASE PublishGoesOn  BY <1>5 DEF PublishGoesOn, managerVars, vars
<1>6. ASSUME NEW s \in Settlers, SettlementStep(s) \/ \E j \in Jobs : Disconnect(s, j)
      PROVE  sub'[z] = sub[z]
  <2>1. SettleFinal(s) \/ SettleOnly(s) \/ \E j \in Jobs : SettleStart(s, j)
    BY <1>6 DEF SettlementStep, Disconnect, SettleStep, SettleOnly
  <2>2. CASE SettleFinal(s)
    <3>1. settle[s].pc = "final" /\ sub[s].pc = "idle"  BY <2>2 DEF SettleFinal, SettleGoto, SettleInv
    <3> QED BY <1>0, <2>2, <3>1 DEF SettleFinal
  <2>3. CASE SettleOnly(s)  BY <1>0, <2>3, SettleOnlyEffect
  <2>4. CASE \E j \in Jobs : SettleStart(s, j)  BY <2>4 DEF SettleStart
  <2> QED BY <2>1, <2>2, <2>3, <2>4
<1>7. CASE UNCHANGED allVars  BY <1>7 DEF allVars, managerVars, vars
<1> QED BY <1>1, <1>2, <1>3, <1>4, <1>5, <1>6, <1>7 DEF SystemNext

\* The call in progress stays with the submission that began it.
LEMMA OwnerNext ==
    ASSUME TypeInv, SettleInv, PublisherOK, RequestsOK, OwnerOK, [SystemNext]_allVars
    PROVE  OwnerOK'
<1>1. ASSUME UNCHANGED <<owner, call>>,
             owner \in Submitters /\ sub[owner].pc = "publish" => sub'[owner] = sub[owner]
      PROVE  OwnerOK'  BY <1>1 DEF OwnerOK, PP!InProgress, TokenRange
<1>2. ASSUME UNCHANGED <<owner, call>>,
             ~(\E x \in Submitters : PublishSucceeds(x) \/ PublishFails(x))
      PROVE  OwnerOK'  BY <1>1, <1>2, PublishingEnds
<1>3. ASSUME NEW x \in Submitters, PublishSucceeds(x) \/ PublishFails(x)
      PROVE  OwnerOK'  BY <1>3 DEF PublishSucceeds, PublishFails, OwnerOK
<1>4. ASSUME NEW x \in Submitters, PublishStart(x) PROVE OwnerOK'
  <2>1. /\ sub[x].pc = "publish" /\ sub[x].session_id # NoSession
        /\ P!PublishBegin(sub[x].session_id, TokenRange(x))
        /\ owner' = x /\ sub' = sub
    BY <1>4 DEF PublishStart, managerVars, vars
  <2>2. sub[x].session_id \in SessionIds /\ TokenRange(x) \in Ranges  BY <2>1, RangeType
  <2>3. PP!InProgress' /\ call'.session_id = sub[x].session_id /\ call'.entry.proof = TokenRange(x)
    BY <2>1, <2>2, CallBegins
  <2> QED BY <2>1, <2>3 DEF OwnerOK, TokenRange
<1>5. CASE PublishGoesOn
  <2>1. /\ P!DeltaStored \/ P!DeltaAttemptFails \/ P!IndexAttemptFails
        /\ owner' = owner /\ sub' = sub
    BY <1>5 DEF PublishGoesOn, managerVars, vars
  <2>2. PP!InProgress' /\ call'.session_id = call.session_id /\ call'.entry = call.entry  BY <2>1, CallGoesOn
  <2> QED BY <2>1, <2>2 DEF OwnerOK, TokenRange
<1>6. ASSUME NEW t \in Streams, RequestStep(t) PROVE UNCHANGED <<owner, call>>
  BY <1>6 DEF RequestStep, ReqPrompt, ReqUser, ReqInference, ReqToken, ReqTracked, ReqFinalize,
         ReqForce, ReqAssistant, ReqCount, ReqWhole, publisherVars, P!BufferMessage
<1>7. ASSUME NEW x \in Submitters, ProofSent(x) \/ OtherSubmitStep(x)
      PROVE  UNCHANGED <<owner, call>>  BY <1>7 DEF ProofSent, OtherSubmitStep, publisherVars
<1>8. ASSUME NEW s \in Settlers, SettlementStep(s) \/ \E j \in Jobs : Disconnect(s, j)
      PROVE  UNCHANGED <<owner, call>>  BY <1>8 DEF SettlementStep, Disconnect, publisherVars
<1>9. CASE UNCHANGED allVars
  <2>1. UNCHANGED <<owner, call, sub>>  BY <1>9 DEF allVars, publisherVars, managerVars, vars
  <2> QED BY <1>1, <2>1
<1> QED BY <1>2, <1>3, <1>4, <1>5, <1>6, <1>7, <1>8, <1>9 DEF SystemNext

-----------------------------------------------------------------------------
(* What S5 has, it keeps *)

S5Grows == \A s \in SessionIds : Range(s5_index[s]) \subseteq Range(s5_index'[s])

LEMMA EntryKept ==
    ASSUME S5Grows, NEW s \in SessionIds, NEW range, HasEntry(s, range)
    PROVE  HasEntry(s, range)'  BY DEF S5Grows, HasEntry

LEMMA PromptsKept ==
    ASSUME S5Grows, OriginsKept, NEW j \in Jobs, NEW n \in Nat, n <= Len(origin[j]),
           origin[j] \in Seq(Nat), HasPrompts(j, n)
    PROVE  HasPrompts(j, n)'
<1> SUFFICES ASSUME NEW i \in 1 .. n
             PROVE  \E e \in Range(s5_index'[SessionOf[j]]) :
                        asked'[j][origin'[j][i]] \in Range(e.messages)  BY DEF HasPrompts
<1>1. i \in 1 .. Len(origin[j])  OBVIOUS
<1>2. asked'[j][origin'[j][i]] = asked[j][origin[j][i]]  BY <1>1 DEF OriginsKept
<1>3. SessionOf[j] \in SessionIds  BY SessionAssumption
<1>4. PICK e \in Range(s5_index[SessionOf[j]]) : asked[j][origin[j][i]] \in Range(e.messages)  BY DEF HasPrompts
<1>5. e \in Range(s5_index'[SessionOf[j]])  BY <1>3, <1>4 DEF S5Grows
<1> QED BY <1>2, <1>4, <1>5

\* publish_checkpoint's success: the entry of the submission is in the index, and
\* with it every prompt that its tokens answer.
LEMMA PublishedIsRecoverable ==
    ASSUME SystemInv, SystemNext, NEW x \in Submitters, PublishSucceeds(x)
    PROVE  /\ HasEntry(sub[x].session_id, TokenRange(x))'
           /\ HasPrompts(sub[x].job, sub[x].upto)'
<1> SUFFICES ASSUME NEW j, j = sub[x].job, NEW s, s = SessionOf[j], NEW n, n = sub[x].upto
             PROVE  /\ HasEntry(sub[x].session_id, TokenRange(x))'
                    /\ HasPrompts(sub[x].job, sub[x].upto)'
  OBVIOUS
<1>0. /\ TypeInv /\ PublisherOK /\ Metered /\ RequestsOK /\ OriginsOK /\ OwnerOK
      /\ sub \in [Submitters -> SubRecord] /\ sub[x] \in SubRecord
  BY DEF SystemInv, TypeInv, TypeOK
<1>1. /\ owner = x /\ P!IndexStored /\ sub[x].pc = "publish"
      /\ sub' = [sub EXCEPT ![x].pc = "query"]
      /\ UNCHANGED <<asked, origin>>
  BY DEF PublishSucceeds, PublishOk, Advance, requestVars
<1>2. j \in Jobs /\ s \in SessionIds  BY <1>0, <1>1, SessionAssumption DEF TypeInv, KnownJobs
<1>3. /\ sub[x].session_id = s /\ n <= served[j]
      /\ n \in Nat /\ served[j] \in Nat
  BY <1>0, <1>1, <1>2 DEF Metered, SubsMetered, InFlight, Submitting, TypeInv, TypeOK, HistoryOK, SubRecord
<1>4. call.session_id = s /\ call.entry.proof = TokenRange(x)  BY <1>0, <1>1, <1>3, SessionAssumption DEF OwnerOK
<1>5. /\ call.entry \in Range(s5_index'[s])
      /\ \A m \in 1 .. said[s] : \E e \in Range(s5_index'[s]) : m \in Range(e.messages)
  BY <1>0, <1>1, <1>4, IndexIsComplete
<1>6. /\ sub'[x].job = j /\ sub'[x].upto = n /\ sub'[x].session_id = s
      /\ TokenRange(x)' = TokenRange(x)
  BY <1>0, <1>1, <1>3 DEF SubRecord, TokenRange
<1>7. HasEntry(sub[x].session_id, TokenRange(x))'  BY <1>4, <1>5, <1>6 DEF HasEntry
<1>8. \A i \in 1 .. n : asked[j][origin[j][i]] \in 1 .. said[s]
  BY SMTT(40), <1>0, <1>2, <1>3 DEF OriginsOK, OriginTypes, OriginsSaid
<1>9. HasPrompts(sub[x].job, sub[x].upto)'  BY <1>1, <1>5, <1>6, <1>8 DEF HasPrompts
<1> QED BY <1>7, <1>9

\* The chain learns of tokens only from a submission that reached its "send" stage.
LEMMA MarkSteps ==
    ASSUME TypeInv, ManagerAction \/ UNCHANGED vars
    PROVE  \/ mark' = mark
           \/ \E x \in Submitters : /\ sub[x].pc = "send" /\ sub[x].job \in Jobs
                                    /\ mark' = [mark EXCEPT ![sub[x].job] = sub[x].upto]
<1>0. TypeOK /\ KnownJobs  BY DEF TypeInv
<1>1. ASSUME NEW x \in Submitters, Stage(x)
      PROVE  \/ mark' = mark
             \/ /\ sub[x].pc = "send" /\ sub[x].job \in Jobs
                /\ mark' = [mark EXCEPT ![sub[x].job] = sub[x].upto]
  <2>1. sub[x].job \in Jobs  BY <1>0, <1>1, StageEffect
  <2>2. CASE SendProof(x)  BY <2>1, <2>2 DEF SendProof, Advance
  <2>3. CASE ~SendProof(x)  BY <1>1, <2>3 DEF Stage, Prove, PublishOk, PublishErr, QueryAndCache
  <2> QED BY <2>2, <2>3
<1>2. ASSUME ~(\E x \in Submitters : Stage(x)) PROVE mark' = mark
  BY <1>2 DEF ManagerAction, vars, TrackCheck, TrackWrite, ForceCheckpoint, ForceLock, Record,
         SettleStart, SettleFinal, SettleOnly, SettlePoll, SettleTimeout, SettleWindow, SettleSend,
         SettleResend, SettleConfirm, SettleCleanup, SettleRetry, SettleRetryConfirm
<1> QED BY <1>1, <1>2

\* Every step keeps what was proven, or adds a submission at its "send" stage.
LEMMA ProvenSteps ==
    ASSUME [SystemNext]_allVars
    PROVE  \A p \in proven' :
               \/ p \in proven
               \/ \E x \in Submitters : /\ sub[x].pc = "send"
                                        /\ p.session_id = sub[x].session_id
                                        /\ p.range = TokenRange(x)
<1>1. ASSUME NEW x \in Submitters, ProofSent(x), NEW p \in proven', p \notin proven
      PROVE  sub[x].pc = "send" /\ p.session_id = sub[x].session_id /\ p.range = TokenRange(x)
  BY <1>1 DEF ProofSent, SendProof, Advance
<1>2. ASSUME ~(\E x \in Submitters : ProofSent(x)) PROVE proven' = proven
  BY <1>2 DEF SystemNext, allVars, RequestStep, ReqPrompt, ReqUser, ReqInference, ReqToken,
         ReqTracked, ReqFinalize, ReqForce, ReqAssistant, ReqCount, ReqWhole, PublishStart,
         PublishSucceeds, PublishFails, PublishGoesOn, OtherSubmitStep, Disconnect, SettlementStep
<1> QED BY <1>1, <1>2

LEMMA RecoverableNext ==
    ASSUME SystemInv, [SystemNext]_allVars
    PROVE  Recoverable'
<1>0. /\ TypeInv /\ SettleInv /\ PublisherOK /\ Metered /\ RequestsOK /\ OriginsOK
      /\ SubmissionsInS5 /\ ProofsInS5 /\ MarksInS5
  BY DEF SystemInv, Recoverable
<1>1. /\ S5Grows
      /\ OriginsKept
  BY <1>0, PublisherActions, PublisherNext, OriginsNext DEF S5Grows
<1>2. ManagerAction \/ UNCHANGED vars  BY <1>0, ManagerActions
<1>3. /\ \A j \in Jobs : origin[j] \in Seq(Nat) /\ Len(origin[j]) = served[j]
      /\ mark \in [Jobs -> Nat] /\ \A j \in Jobs : mark[j] <= served[j]
      /\ sub \in [Submitters -> SubRecord]
  BY <1>0 DEF OriginsOK, OriginTypes, TypeInv, TypeOK, HistoryOK, Metered, MarksMetered
\* A submission past publish_checkpoint.
<1>4. ASSUME NEW x \in Submitters, sub[x].pc \in {"query", "send"}
      PROVE  /\ sub[x].session_id \in SessionIds /\ sub[x].job \in Jobs
             /\ HasEntry(sub[x].session_id, TokenRange(x))
             /\ \A range : HasEntry(sub[x].session_id, range)
                              => \E e \in Range(s5_index'[sub[x].session_id]) : e.proof = range
             /\ sub[x].upto \in Nat /\ sub[x].upto <= Len(origin[sub[x].job])
             /\ HasPrompts(sub[x].job, sub[x].upto)
  <2>1. sub[x].pc \in InFlight /\ sub[x].pc # "idle"  BY <1>4 DEF InFlight, Submitting
  <2>2. sub[x].job \in Jobs /\ sub[x].upto \in Nat  BY <1>0, <1>3, <2>1 DEF TypeInv, KnownJobs, SubRecord
  <2>3. sub[x].session_id = SessionOf[sub[x].job] /\ sub[x].upto <= served[sub[x].job]
    BY <1>0, <2>1 DEF Metered, SubsMetered
  <2>4. sub[x].session_id \in SessionIds  BY <2>2, <2>3, SessionAssumption
  <2>5. HasEntry(sub[x].session_id, TokenRange(x)) /\ HasPrompts(sub[x].job, sub[x].upto)
    BY <1>0, <1>4 DEF SubmissionsInS5
  <2>6. \A range : HasEntry(sub[x].session_id, range)
                      => \E e \in Range(s5_index'[sub[x].session_id]) : e.proof = range
    BY <1>1, <2>4 DEF HasEntry, S5Grows
  <2> QED BY <1>3, <2>2, <2>3, <2>4, <2>5, <2>6
<1>5. ASSUME NEW x \in Submitters, sub[x].pc \in {"query", "send"},
             NEW j, j = sub[x].job, NEW n, n = sub[x].upto
      PROVE  HasPrompts(j, n)'
  <2>1. /\ j \in Jobs /\ n \in Nat /\ n <= Len(origin[j]) /\ HasPrompts(j, n)
        /\ origin[j] \in Seq(Nat)
    BY <1>3, <1>4, <1>5
  <2> QED BY <1>1, <2>1, PromptsKept
<1>6. SubmissionsInS5'
  <2> SUFFICES ASSUME NEW x \in Submitters, sub'[x].pc \in {"query", "send"}
               PROVE  /\ HasEntry(sub[x].session_id, TokenRange(x))'
                      /\ HasPrompts(sub[x].job, sub[x].upto)'
    BY DEF SubmissionsInS5
  <2>1. ASSUME sub[x].pc \in {"query", "send"}, sub'[x] = [sub[x] EXCEPT !.pc = sub'[x].pc]
        PROVE  /\ HasEntry(sub[x].session_id, TokenRange(x))'
               /\ HasPrompts(sub[x].job, sub[x].upto)'
    <3>1. /\ sub'[x].job = sub[x].job /\ sub'[x].upto = sub[x].upto
          /\ sub'[x].session_id = sub[x].session_id /\ TokenRange(x)' = TokenRange(x)
      BY <1>3, <2>1 DEF SubRecord, TokenRange
    <3>2. HasEntry(sub[x].session_id, TokenRange(x))'  BY <1>4, <2>1, <3>1 DEF HasEntry
    <3>3. ASSUME NEW j, j = sub[x].job, NEW n, n = sub[x].upto
          PROVE  HasPrompts(sub[x].job, sub[x].upto)'
      <4>1. HasPrompts(j, n)'  BY <1>5, <2>1, <3>3
      <4> QED BY <3>1, <3>3, <4>1 DEF HasPrompts
    <3> QED BY <3>2, <3>3
  <2>2. CASE sub'[x] = sub[x]
    <3>1. sub[x].pc \in {"query", "send"} /\ sub'[x] = [sub[x] EXCEPT !.pc = sub'[x].pc]  BY <1>3, <2>2 DEF SubRecord
    <3> QED BY <2>1, <3>1
  <2>3. CASE Stage(x) /\ sub'[x] = [sub[x] EXCEPT !.pc = sub'[x].pc]
    <3>1. CASE QueryAndCache(x)
      <4>1. sub[x].pc = "query"  BY <3>1 DEF QueryAndCache, Advance
      <4> QED BY <2>1, <2>3, <4>1
    <3>2. CASE PublishOk(x)
      <4>1. sub[x].pc = "publish" /\ sub'[x].pc = "query"  BY <1>3, <3>2 DEF PublishOk, Advance
      <4>2. ~PublishFails(x)
        <5>1. PublishFails(x) => sub' = [sub EXCEPT ![x].pc = "done_err"]  BY DEF PublishFails, PublishErr, Advance
        <5>2. sub' = [sub EXCEPT ![x].pc = "done_err"] => sub'[x].pc = "done_err"  BY <1>3 DEF SubRecord
        <5> QED BY <4>1, <5>1, <5>2
      <4>3. PublishSucceeds(x)  BY <1>0, <4>1, <4>2, PublishingEnds
      <4>4. SystemNext  BY <4>3 DEF SystemNext
      <4> QED BY <4>3, <4>4, PublishedIsRecoverable
    <3>3. CASE Prove(x) \/ PublishErr(x) \/ SendProof(x)
      <4>1. \E to \in {"publish", "done_err", "done_ok"} : sub' = [sub EXCEPT ![x].pc = to]
        BY <3>3 DEF Prove, PublishErr, SendProof, Advance
      <4>2. sub'[x].pc \in {"publish", "done_err", "done_ok"}  BY <1>3, <4>1 DEF SubRecord
      <4> QED BY <4>2
    <3> QED BY <2>3, <3>1, <3>2, <3>3 DEF Stage
  <2> QED BY <1>0, <1>2, <2>2, <2>3, SubmissionSteps
<1>7. ProofsInS5'
  <2> SUFFICES ASSUME NEW p \in proven'
               PROVE  p.session_id \in SessionIds /\ HasEntry(p.session_id, p.range)'  BY DEF ProofsInS5
  <2>1. CASE p \in proven  BY <1>0, <1>1, <2>1, EntryKept DEF ProofsInS5
  <2>2. ASSUME NEW x \in Submitters, sub[x].pc = "send",
               p.session_id = sub[x].session_id, p.range = TokenRange(x)
        PROVE  p.session_id \in SessionIds /\ HasEntry(p.session_id, p.range)'  BY <1>4, <2>2 DEF HasEntry
  <2> QED BY <2>1, <2>2, ProvenSteps
<1>8. MarksInS5'
  <2> SUFFICES ASSUME NEW j \in Jobs PROVE HasPrompts(j, mark[j])'  BY DEF MarksInS5
  <2>1. ASSUME NEW n, n = mark[j] PROVE HasPrompts(j, n)'
    <3>1. n \in Nat /\ n <= Len(origin[j]) /\ HasPrompts(j, n) /\ origin[j] \in Seq(Nat)
      BY <1>0, <1>3, <2>1 DEF MarksInS5
    <3> QED BY <1>1, <3>1, PromptsKept
  <2>2. ASSUME mark'[j] = mark[j] PROVE HasPrompts(j, mark[j])'
    <3>1. PICK n : n = mark[j]  OBVIOUS
    <3>2. HasPrompts(j, n)'  BY <2>1, <3>1
    <3> QED BY <2>2, <3>1, <3>2 DEF HasPrompts
  <2>3. ASSUME NEW x \in Submitters, sub[x].pc = "send", sub[x].job = j, mark'[j] = sub[x].upto
        PROVE  HasPrompts(j, mark[j])'
    <3>1. PICK n : n = sub[x].upto  OBVIOUS
    <3>2. HasPrompts(j, n)'  BY <1>5, <2>3, <3>1
    <3> QED BY <2>3, <3>1, <3>2 DEF HasPrompts
  <2> QED BY <1>0, <1>2, <1>3, <2>2, <2>3, MarkSteps
<1> QED BY <1>6, <1>7, <1>8 DEF Recoverable

-----------------------------------------------------------------------------
(* The theorems *)

LEMMA SystemInvNext ==
    ASSUME SystemInv, [SystemNext]_allVars
    PROVE  SystemInv'
<1>0. /\ TypeInv /\ SettleInv /\ PublisherOK /\ Metered /\ RequestsOK /\ OriginsOK /\ OwnerOK  BY DEF SystemInv
<1>1. ManagerAction \/ UNCHANGED vars  BY <1>0, ManagerActions
<1>2. TypeInv' /\ SettleInv' /\ Metered'  BY <1>0, <1>1, ManagerNext, MeteredNext
<1>3. PublisherOK'  BY <1>0, PublisherActions, PublisherNext
<1>4. RequestsOK' /\ OriginsOK' /\ OwnerOK'  BY <1>0, RequestsNext, OriginsNext, OwnerNext
<1> QED BY <1>2, <1>3, <1>4, RecoverableNext DEF SystemInv

LEMMA SystemInvInit == SystemInit => SystemInv
<1> SUFFICES ASSUME SystemInit PROVE SystemInv  OBVIOUS
<1>1. TypeInv /\ SettleInv
  <2>1. Init  BY DEF SystemInit
  <2>2. SettleInv  BY <2>1 DEF Init, SettleInv, IdleSettle, IdleSub, Submitters
  <2> QED BY <2>1, <2>2, TypeInit
<1>2. PublisherOK
  <2>1. P!PubInit  BY DEF SystemInit
  <2>2. PP!PubInit  BY <2>1, SameHelpers DEF P!PubInit, PP!PubInit, P!NewState, PP!NewState
  <2>3. PP!PublisherInv  BY <2>2, PublisherConstants, PP!PublisherInvInit
  <2>4. S5InMemory  BY <2>1 DEF P!PubInit, S5InMemory, Range
  <2> QED BY <2>1, <2>3, <2>4 DEF P!PubInit, PublisherOK
<1>3. Metered  BY DEF SystemInit, Init, Metered, StreamsMetered, TrackersMetered, SubsMetered, MarksMetered,
         IdleStream, IdleSub, InFlight, Submitting
<1>4. RequestsOK
  <2>1. IdleReq \in RequestRecord /\ IdleReq.pc = "idle"  BY DEF IdleReq, RequestRecord
  <2>2. <<>> \in Seq(Nat)  OBVIOUS
  <2>3. req = [t \in Streams |-> IdleReq] /\ asked = [j \in Jobs |-> <<>>]  BY DEF SystemInit
  <2> QED BY <2>1, <2>2, <2>3 DEF RequestsOK, RequestTypes, TurnsKnown, PromptsPending, PromptsSaid,
             TurnsDistinct, TrackingOwn
<1>5. OriginsOK
  <2>1. <<>> \in Seq(Nat) /\ Len(<<>>) = 0  OBVIOUS
  <2>2. origin = [j \in Jobs |-> <<>>] /\ served = [j \in Jobs |-> 0]  BY DEF SystemInit, Init
  <2> QED BY <2>1, <2>2 DEF OriginsOK, OriginTypes, OriginsSaid
<1>6. OwnerOK  BY DEF SystemInit, OwnerOK
<1>7. Recoverable  BY DEF SystemInit, Init, Recoverable, SubmissionsInS5, ProofsInS5, MarksInS5, HasPrompts, IdleSub
<1> QED BY <1>1, <1>2, <1>3, <1>4, <1>5, <1>6, <1>7 DEF SystemInv

\* The inductive invariant holds of every behaviour of the system, whether or not
\* tokens are tracked after settlement has begun.
THEOREM SystemInvariant == SystemSpec => []SystemInv  BY SystemInvInit, SystemInvNext, PTL DEF SystemSpec

\* A proof reaches the chain only after publish_checkpoint has put its entry into the
\* session's index in S5, for any number of jobs, sessions and tasks.
THEOREM ProofsAreRecoverable == SystemSpec => []ProofIsRecoverable
<1>1. SystemInv => ProofIsRecoverable  BY DEF SystemInv, Recoverable, ProofsInS5, HasEntry, ProofIsRecoverable
<1> QED BY <1>1, SystemInvariant, PTL

\* The prompt behind every token a client is billed for can be recovered from S5.
THEOREM BilledPromptsAreRecoverable == SystemSpec => []BilledPromptIsRecoverable
<1>1. SystemInv => BilledPromptIsRecoverable
  BY DEF SystemInv, Recoverable, MarksInS5, HasPrompts, BilledPromptIsRecoverable
<1> QED BY <1>1, SystemInvariant, PTL

=============================================================================
