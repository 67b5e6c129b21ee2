--------------------------- MODULE SessionRecovery ---------------------------
(***************************************************************************)
(* A session end to end: the request handlers of src/api/server.rs feed    *)
(* the content hashes and the token metering of CheckpointManager and the  *)
(* message buffer of CheckpointPublisher; background submissions publish   *)
(* the buffered conversation to S5 before they send the proof.             *)
(*                                                                         *)
(* The manager and the publisher are the modules of those names: a         *)
(* submission at its "publish" stage calls publish_checkpoint, which ends  *)
(* together with that stage.  Recovery keys and restarts are left to       *)
(* CheckpointPublisher alone.                                              *)
(***************************************************************************)
EXTENDS CheckpointManager, Sequences

CONSTANTS
    SessionOf,        \* the session id that a job's requests carry
    MAX_S5_RETRIES,
    MaxEntries,       \* bound on the entries of a session's index
    MaxTurns          \* bound on the prompts of a job

VARIABLES
    \* CheckpointPublisher
    state, call, s5_delta, s5_index, said, base, published, crashes,
    req,       \* the request each stream is handling
    hashes,    \* content_hashes: prompt hash and response text by job
    content,   \* the content hashes a submission binds its proof to
    owner,     \* the submission inside publish_checkpoint
    asked,     \* for each job, the message that is its n-th prompt (history)
    origin,    \* for each job, the prompt that each token answers (history)
    proven     \* proofs accepted by the chain (history)

Ranges == Nat \X Int

P == INSTANCE CheckpointPublisher WITH
        Sessions <- SessionIds, Proofs <- Ranges,
        MaxMessages <- 2 * MaxTurns, MaxCrashes <- 0

managerVars == vars
publisherVars == <<state, call, s5_delta, s5_index, said, base, published, crashes>>
requestVars == <<req, hashes, asked, origin>>
allVars ==
    <<managerVars, publisherVars, requestVars, content, owner, proven>>

NoOwner == "none"

ASSUME SessionAssumption ==
    /\ SessionOf \in [Jobs -> SessionIds]
    /\ MAX_S5_RETRIES \in Nat \ {0}
    /\ MaxEntries \in Nat
    /\ MaxTurns \in Nat
    /\ NoOwner \notin Submitters

IdleReq == [pc |-> "idle", kind |-> "stream", job |-> NoJob, turn |-> 0, tokens |-> 0]

-----------------------------------------------------------------------------
(* Content hashes.  A hash is what is hashed: a prompt by its number, a      *)
(* response by the sequence of its tokens, each named by its prompt.         *)

NoHashes == [prompt |-> 0, buffer |-> <<>>, final |-> <<>>, finalized |-> FALSE]
NoContent == [prompt |-> 0, response |-> <<>>]

\* n tokens that answer the job's prompt number turn.
Text(turn, n) == [i \in 1 .. n |-> turn]

AppendResponse(h, text) == [h EXCEPT !.buffer = @ \o text]

\* The buffer is kept "in case of retry".
FinalizeResponseHash(h) == [h EXCEPT !.final = h.buffer, !.finalized = TRUE]

\* The finalized response if there is one, the text so far otherwise; None (the
\* proof then binds placeholder hashes) without a prompt or any text.
GetContentHashes(h) ==
    IF h.prompt = 0 \/ (~h.finalized /\ h.buffer = <<>>) THEN NoContent
    ELSE [prompt |-> h.prompt, response |-> IF h.finalized THEN h.final ELSE h.buffer]

\* Submissions that a step starts read the content hashes.
Started(x) == sub'[x].pc \in {"prove", "lock"} /\ sub[x].pc \notin {"prove", "lock"}
BindContent ==
    content' = [x \in Submitters |->
                   IF Started(x) THEN GetContentHashes(hashes[sub'[x].job])
                   ELSE IF sub'[x].pc = "idle" THEN NoContent
                   ELSE content[x]]

-----------------------------------------------------------------------------
(* handle_inference_request and handle_streaming_request *)

ReqGoto(t, from, to) ==
    /\ req[t].pc = from
    /\ req' = [req EXCEPT ![t].pc = to]

\* A request arrives; its prompt is hashed.
ReqPrompt(t, j, kind) ==
    LET n == Len(asked[j]) + 1
    IN  /\ req[t].pc = "idle"
        /\ n <= MaxTurns
        /\ LateTokens \/ j \notin closed
        /\ req' = [req EXCEPT ![t] =
                      [pc |-> "user", kind |-> kind, job |-> j, turn |-> n, tokens |-> 0]]
        /\ hashes' = [hashes EXCEPT ![j].prompt = n]
        /\ asked' = [asked EXCEPT ![j] = Append(@, 0)]
        /\ UNCHANGED <<managerVars, publisherVars, content, owner, origin, proven>>

\* Mutant: the message is skipped while a checkpoint is being published.
ReqUser_TryLock(t) ==
    LET j == req[t].job
    IN  /\ ReqGoto(t, "user", "inference")
        /\ \/ P!Locked /\ UNCHANGED <<publisherVars, asked>>
           \/ /\ P!BufferMessage(SessionOf[j])
              /\ asked' = [asked EXCEPT ![j] = [@ EXCEPT ![req[t].turn] = said'[SessionOf[j]]]]
        /\ UNCHANGED <<managerVars, hashes, content, owner, origin, proven>>

\* The user's message is buffered for the next checkpoint.
ReqUser(t) ==
    LET j == req[t].job
    IN  /\ ReqGoto(t, "user", "inference")
        /\ P!BufferMessage(SessionOf[j])
        /\ asked' = [asked EXCEPT ![j] = [@ EXCEPT ![req[t].turn] = said'[SessionOf[j]]]]
        /\ UNCHANGED <<managerVars, hashes, content, owner, origin, proven>>

\* The engine starts to answer, or refuses and the request ends with an error.
ReqInference(t) ==
    /\ req[t].pc = "inference"
    /\ \/ req' = [req EXCEPT ![t].pc = req[t].kind]
       \/ req' = [req EXCEPT ![t] = IdleReq]
    /\ UNCHANGED <<managerVars, publisherVars, hashes, content, owner, asked, origin, proven>>

\* Streaming: a token's text is appended, then track_tokens(1) is called.
ReqToken(t) ==
    LET j == req[t].job
    IN  /\ ReqGoto(t, "stream", "tracking")
        /\ hashes' = [hashes EXCEPT ![j] = AppendResponse(@, <<req[t].turn>>)]
        /\ TrackCheck(t, j, 1, SessionOf[j])
        /\ UNCHANGED <<publisherVars, content, owner, asked, origin, proven>>

\* The critical section of track_tokens, after which a stream goes on.
ReqTracked(t) ==
    /\ req[t].pc = "tracking"
    /\ req' = [req EXCEPT ![t] = IF @.kind = "stream" THEN [@ EXCEPT !.pc = "stream"]
                                 ELSE IdleReq]
    /\ TrackWrite(t)
    /\ origin' = [origin EXCEPT ![req[t].job] = @ \o Text(req[t].turn, stream[t].tokens)]
    /\ BindContent
    /\ UNCHANGED <<publisherVars, hashes, owner, asked, proven>>

\* Streaming: the engine or the client stops; the response hash is finalized ...
ReqFinalize(t) ==
    /\ ReqGoto(t, "stream", "force")
    /\ hashes' = [hashes EXCEPT ![req[t].job] = FinalizeResponseHash(@)]
    /\ UNCHANGED <<managerVars, publisherVars, content, owner, asked, origin, proven>>

\* ... a checkpoint is forced ...
ReqForce(t) ==
    /\ ReqGoto(t, "force", "assistant")
    /\ ForceCheckpoint(req[t].job)
    /\ BindContent
    /\ UNCHANGED <<publisherVars, hashes, owner, asked, origin, proven>>

\* ... and then the response is buffered for the next checkpoint.
ReqAssistant(t) ==
    /\ req[t].pc = "assistant"
    /\ req' = [req EXCEPT ![t] = IF @.kind = "stream" THEN IdleReq
                                 ELSE [@ EXCEPT !.pc = "count"]]
    /\ P!BufferMessage(SessionOf[req[t].job])
    /\ UNCHANGED <<managerVars, hashes, content, owner, asked, origin, proven>>

\* Not streaming: the whole response, of n tokens, is appended and finalized.
ReqWhole(t, n) ==
    /\ req[t].pc = "single"
    /\ req' = [req EXCEPT ![t].pc = "assistant", ![t].tokens = n]
    /\ hashes' = [hashes EXCEPT ![req[t].job] =
                     FinalizeResponseHash(AppendResponse(@, Text(req[t].turn, n)))]
    /\ UNCHANGED <<managerVars, publisherVars, content, owner, asked, origin, proven>>

\* Not streaming: the tokens are counted after the response was buffered.
ReqCount(t) ==
    /\ ReqGoto(t, "count", "tracking")
    /\ TrackCheck(t, req[t].job, req[t].tokens, SessionOf[req[t].job])
    /\ UNCHANGED <<publisherVars, hashes, content, owner, asked, origin, proven>>

-----------------------------------------------------------------------------
(* submit_checkpoint_async with publish_checkpoint *)

TokenRange(x) == <<sub[x].prev, sub[x].prev + sub[x].tokens>>

PublishStart(x) ==
    /\ sub[x].pc = "publish" /\ sub[x].session_id # NoSession
    /\ owner # x
    /\ P!PublishBegin(sub[x].session_id, TokenRange(x))
    /\ owner' = x
    /\ UNCHANGED <<managerVars, requestVars, content, proven>>

PublishGoesOn ==
    /\ P!DeltaStored \/ P!DeltaAttemptFails \/ P!IndexAttemptFails
    /\ UNCHANGED <<managerVars, requestVars, content, owner, proven>>

PublishSucceeds(x) ==
    /\ owner = x
    /\ P!IndexStored
    /\ PublishOk(x)
    /\ owner' = NoOwner
    /\ UNCHANGED <<requestVars, content, proven>>

\* Mutant: the proof is submitted although the checkpoint was not published.
PublishFails_Ignored(x) ==
    /\ owner = x
    /\ P!DeltaUploadFails \/ P!IndexUploadFails
    /\ PublishOk(x)
    /\ owner' = NoOwner
    /\ UNCHANGED <<requestVars, content, proven>>

PublishFails(x) ==
    /\ owner = x
    /\ P!DeltaUploadFails \/ P!IndexUploadFails
    /\ PublishErr(x)
    /\ owner' = NoOwner
    /\ UNCHANGED <<requestVars, content, proven>>

\* The proof reaches the chain with its token range and its content hashes.
ProofSent(x) ==
    /\ SendProof(x)
    /\ proven' = IF sub'[x].pc = "done_ok"
                 THEN proven \cup {[job |-> sub[x].job, session_id |-> sub[x].session_id,
                                    range |-> TokenRange(x), upto |-> sub[x].upto,
                                    content |-> content[x]]}
                 ELSE proven
    /\ UNCHANGED <<publisherVars, requestVars, content, owner>>

OtherSubmitStep(x) ==
    /\ ForceLock(x) \/ Prove(x) \/ QueryAndCache(x) \/ Record(x)
    /\ BindContent
    /\ UNCHANGED <<publisherVars, requestVars, owner, proven>>

\* The connection closes once its requests have ended; then settlement runs.
Disconnect(s, j) ==
    /\ SettleStart(s, j)
    /\ LateTokens \/ \A t \in Streams : req[t].job # j
    /\ UNCHANGED <<publisherVars, requestVars, content, owner, proven>>

SettlementStep(s) ==
    /\ SettleStep(s)
    /\ BindContent
    /\ UNCHANGED <<publisherVars, requestVars, owner, proven>>

-----------------------------------------------------------------------------
SystemInit ==
    /\ Init
    /\ P!PubInit
    /\ req = [t \in Streams |-> IdleReq]
    /\ hashes = [j \in Jobs |-> NoHashes]
    /\ content = [x \in Submitters |-> NoContent]
    /\ owner = NoOwner
    /\ asked = [j \in Jobs |-> <<>>]
    /\ origin = [j \in Jobs |-> <<>>]
    /\ proven = {}

RequestStep(t) ==
    \/ \E j \in Jobs, kind \in {"stream", "single"} : ReqPrompt(t, j, kind)
    \/ ReqUser(t) \/ ReqInference(t) \/ ReqToken(t) \/ ReqTracked(t)
    \/ ReqFinalize(t) \/ ReqForce(t) \/ ReqAssistant(t) \/ ReqCount(t)
    \/ \E n \in TokenCounts : ReqWhole(t, n)

SystemNext ==
    \/ \E t \in Streams : RequestStep(t)
    \/ \E x \in Submitters :
          \/ PublishStart(x) \/ PublishSucceeds(x) \/ PublishFails(x)
          \/ ProofSent(x) \/ OtherSubmitStep(x)
    \/ PublishGoesOn
    \/ \E s \in Settlers : SettlementStep(s) \/ \E j \in Jobs : Disconnect(s, j)

SystemSpec == SystemInit /\ [][SystemNext]_allVars

-----------------------------------------------------------------------------
(* Properties *)

\* "If proof is on-chain but checkpoint isn't in S5, SDK cannot recover"
\* (NODE_CHECKPOINT_SPEC): every proof the chain accepted for a session has its
\* entry, with its token range, in the session's index in S5.
ProofIsRecoverable ==
    \A p \in proven :
        p.session_id # NoSession =>
            \E e \in Range(s5_index[p.session_id]) : e.proof = p.range

\* A client can recover what it asked for every token it is billed for: the
\* prompt behind each proven token is in a delta of the index, although prompts
\* are buffered, counted and published by different tasks.
BilledPromptIsRecoverable ==
    \A j \in Jobs : \A i \in 1 .. mark[j] :
        \E e \in Range(s5_index[SessionOf[j]]) :
            asked[j][origin[j][i]] \in Range(e.messages)

\* track_conversation_message: "Messages are buffered and included in the next
\* checkpoint".  When completeSessionJob is confirmed, every token is proven and no
\* task is at work, no message of the conversation is left behind in the buffer.
SettledConversationIsRecoverable ==
    \A s \in Settlers :
        LET j == settle[s].job
        IN  /\ settle[s].pc = "cleanup"
            /\ mark[j] = served[j] /\ served[j] > 0
            /\ \A t \in Streams : req[t].job # j
            /\ \A x \in Submitters : sub[x].job # j
            => state[SessionOf[j]].message_buffer = <<>>

\* finalize_response_hash: "Computes SHA256 of the accumulated response buffer,
\* stores it, and clears the buffer".  A proof's response hash therefore covers
\* the response to the proof's prompt and nothing else.
ProofBindsItsResponse ==
    \A p \in proven : \A i \in DOMAIN p.content.response :
        p.content.response[i] = p.content.prompt

-----------------------------------------------------------------------------
\* For TLC: all jobs belong to one session.
OneSession == [j \in Jobs |-> CHOOSE s \in SessionIds : TRUE]
=============================================================================
