----------------------------- MODULE NodeServer -----------------------------
(***************************************************************************)
(* The node process: the order in which main brings its parts up, the HTTP *)
(* server that already answers meanwhile, the inference handlers with web  *)
(* search, vision and image routing (main.rs, api/server.rs), and which    *)
(* meter the tokens of a response end up in.                               *)
(***************************************************************************)
EXTENDS Integers, Sequences, FiniteSets, FiniteSetsExt, SequencesExt

CONSTANTS ReqTasks,       \* requests that may be under way at once
          ReqJobs,        \* jobs the requests name
          SearchCap,      \* the 20 queries a request may search at most
          Failures,       \* circuit_breaker_threshold
          MaxServed,      \* bound on the tokens of one response
          MaxReqs         \* bound on the requests

ASSUME ServerAssumption ==
    /\ SearchCap \in Nat \ {0} /\ Failures \in Nat \ {0} /\ MaxServed \in Nat \ {0} /\ MaxReqs \in Nat
    /\ IsFiniteSet(ReqTasks) /\ "none" \notin ReqJobs

VARIABLES boot,     \* how far main is
          up,       \* the parts the API server was given
          serverReqs,     \* the requests under way
          meters    \* what was served, billed and tracked, by job; the prompt hashes; answers of the other routes

serverVars == <<boot, up, serverReqs, meters>>

Stages == <<"validate", "load", "p2p", "api", "engine", "embedding", "vision", "diffusion", "search",
            "checkpoint", "running", "stopped">>
Parts == {"embedding", "vision", "diffusion", "search", "checkpoint"}

\* What a request may name; the job id is optional, in the request and in the session id.
AnyJob == ReqJobs \cup {"none"}

NoReq == [pc |-> "idle", job |-> "none", web |-> FALSE, tokens |-> 0, queries |-> 0, made |-> 0, cm |-> FALSE]

ServerInit ==
    /\ boot = 1
    /\ up = {}
    /\ serverReqs = [t \in ReqTasks |-> NoReq]
    /\ meters = [served |-> [j \in AnyJob |-> 0], billed |-> [j \in ReqJobs |-> 0],
                 tracked |-> [j \in ReqJobs |-> 0], vision |-> [j \in AnyJob |-> 0],
                 prompts |-> {}, failures |-> 0, asked |-> 0, images |-> 0, rag |-> {}, exited |-> FALSE]

-----------------------------------------------------------------------------
(* main.                                                                   *)

\* validate_model_at_startup: without the key, the registry, the client or a valid
\* model the process exits; when validation is off the stage only passes.
ValidateModel ==
    /\ Stages[boot] = "validate" /\ ~meters.exited
    /\ \/ boot' = boot + 1 /\ UNCHANGED meters
       \/ boot' = boot /\ meters' = [meters EXCEPT !.exited = TRUE]
    /\ UNCHANGED <<up, serverReqs>>

\* A missing model file ends main; a model that fails to load does not.
BootLoadModel ==
    /\ Stages[boot] = "load" /\ ~meters.exited
    /\ \/ boot' = boot + 1 /\ UNCHANGED meters
       \/ boot' = boot /\ meters' = [meters EXCEPT !.exited = TRUE]
    /\ UNCHANGED <<up, serverReqs>>

\* The P2P node, then ApiServer::new, which starts to answer; set_engine follows it.
StartNode ==
    /\ Stages[boot] \in {"p2p", "api"}
    /\ boot' = boot + 1 /\ UNCHANGED <<up, serverReqs, meters>>

SetEngine ==
    /\ Stages[boot] = "engine"
    /\ boot' = boot + 1 /\ up' = up \cup {"engine"} /\ UNCHANGED <<serverReqs, meters>>

\* Embeddings, vision, diffusion, search and the checkpoint manager, each given to the
\* server when it could be made and left out otherwise.
SetPart ==
    /\ Stages[boot] \in Parts
    /\ boot' = boot + 1
    /\ up' \in {up, up \cup {Stages[boot]}}
    /\ UNCHANGED <<serverReqs, meters>>

\* ctrl_c: the P2P node is shut down; requests under way are dropped with the process.
CtrlC ==
    /\ Stages[boot] = "running"
    /\ boot' = boot + 1 /\ UNCHANGED <<up, serverReqs, meters>>

Answers == boot > 4 /\ Stages[boot] # "stopped"

-----------------------------------------------------------------------------
(* handle_inference_request.                                               *)

\* is_open; nothing but record_success writes the failures.
BreakerOpen == meters.failures >= Failures

\* The request is validated, within its rate and given an engine.
AcceptRequest(t, j, web) ==
    /\ Answers /\ serverReqs[t].pc = "idle" /\ meters.asked < MaxReqs /\ ~BreakerOpen
    /\ meters' = [meters EXCEPT !.asked = @ + 1]
    /\ serverReqs' = IF "engine" \notin up THEN serverReqs
               ELSE [serverReqs EXCEPT ![t] = [NoReq EXCEPT !.pc = "search", !.job = j, !.web = web]]
    /\ UNCHANGED <<boot, up>>

\* The meter of a job: the checkpoint manager when there is one, the token tracker otherwise;
\* without a job nobody counts.
Metered(j, n) ==
    IF j = "none" THEN meters
    ELSE IF "checkpoint" \in up THEN [meters EXCEPT !.billed[j] = @ + n] ELSE [meters EXCEPT !.tracked[j] = @ + n]

\* How many of the wanted queries are searched for.
Searched(search, wanted) == IF search THEN Min({wanted, SearchCap}) ELSE 0

\* The web search: at most SearchCap queries, and a search that fails only leaves its results out.
SearchWeb(t) ==
    /\ serverReqs[t].pc = "search" /\ Answers
    /\ \E wanted \in 1 .. SearchCap + 1 :
          serverReqs' = [serverReqs EXCEPT ![t].pc = "prompt",
                               ![t].queries = Searched("search" \in up /\ serverReqs[t].web, wanted)]
    /\ UNCHANGED <<boot, up, meters>>

\* The prompt's hash and the user's message go to the checkpoint manager there is now.
RecordPrompt(t) ==
    /\ serverReqs[t].pc = "prompt" /\ Answers
    /\ meters' = [meters EXCEPT !.prompts = IF "checkpoint" \in up THEN @ \cup ({serverReqs[t].job} \cap ReqJobs) ELSE @]
    /\ serverReqs' = [serverReqs EXCEPT ![t].pc = "infer"]
    /\ UNCHANGED <<boot, up>>

\* run_inference: an error ends the request, tokens are served.
RunInference(t) ==
    /\ serverReqs[t].pc = "infer" /\ Answers
    /\ \/ \E n \in 1 .. MaxServed :
             /\ meters' = [meters EXCEPT !.served[serverReqs[t].job] = @ + n]
             /\ serverReqs' = [serverReqs EXCEPT ![t].pc = "track", ![t].tokens = n]
       \/ serverReqs' = [serverReqs EXCEPT ![t] = NoReq] /\ UNCHANGED meters
    /\ UNCHANGED <<boot, up>>

\* Mutant: without a checkpoint manager nobody counts.
TrackTokens_ManagerOnly(t) ==
    /\ serverReqs[t].pc = "track" /\ Answers
    /\ meters' = IF "checkpoint" \in up THEN Metered(serverReqs[t].job, serverReqs[t].tokens) ELSE meters
    /\ serverReqs' = [serverReqs EXCEPT ![t] = NoReq]
    /\ UNCHANGED <<boot, up>>

\* The response's hash and message, the tokens, and record_success.
TrackTokens(t) ==
    /\ serverReqs[t].pc = "track" /\ Answers
    /\ meters' = [Metered(serverReqs[t].job, serverReqs[t].tokens) EXCEPT !.failures = 0]
    /\ serverReqs' = [serverReqs EXCEPT ![t] = NoReq]
    /\ UNCHANGED <<boot, up>>

-----------------------------------------------------------------------------
(* The prompts of a WebSocket: images first, then handle_streaming_request. *)

\* An option of an encrypted prompt: the decrypted message's, else the envelope's, else the default.
RequestOption(inner, outer, default) ==
    IF inner # "absent" THEN inner ELSE IF outer # "absent" THEN outer ELSE default

\* An encrypted prompt, with or without images.
EncryptedRequest(t, j, images, inner, outer) ==
    /\ Answers /\ serverReqs[t].pc = "idle" /\ meters.asked < MaxReqs
    /\ meters' = [meters EXCEPT !.asked = @ + 1]
    /\ serverReqs' = [serverReqs EXCEPT ![t] = [NoReq EXCEPT !.pc = IF images THEN "images" ELSE "accept", !.job = j,
                                                   !.web = RequestOption(inner, outer, "no") = "yes"]]
    /\ UNCHANGED <<boot, up>>

\* What the images cost is metered before the prompt is tried.
VisionMetered(j) == [Metered(j, 1) EXCEPT !.vision[j] = @ + 1]

\* process_vision_images: by the vision model, if there is one.
DescribeImages(t) ==
    /\ serverReqs[t].pc = "images" /\ Answers
    /\ meters' = IF "vision" \in up THEN VisionMetered(serverReqs[t].job) ELSE meters
    /\ serverReqs' = [serverReqs EXCEPT ![t].pc = "accept"]
    /\ UNCHANGED <<boot, up>>

\* handle_streaming_request: refused, or given an engine and the model asked for or the default.
AcceptStream(t) ==
    /\ serverReqs[t].pc = "accept" /\ Answers
    /\ serverReqs' = [serverReqs EXCEPT ![t] = IF BreakerOpen \/ "engine" \notin up THEN NoReq ELSE [@ EXCEPT !.pc = "seek"]]
    /\ UNCHANGED <<boot, up, meters>>

\* The web search of a stream: asked for, or seen in the prompt.
SearchStream(t) ==
    /\ serverReqs[t].pc = "seek" /\ Answers
    /\ \E wanted \in 1 .. SearchCap + 1, seen \in BOOLEAN :
          serverReqs' = [serverReqs EXCEPT ![t].pc = "hash",
                               ![t].queries = Searched("search" \in up /\ (serverReqs[t].web \/ seen), wanted)]
    /\ UNCHANGED <<boot, up, meters>>

\* The checkpoint manager there is now gets the prompt and, later, the tokens of the stream.
RecordStreamPrompt(t) ==
    /\ serverReqs[t].pc = "hash" /\ Answers
    /\ meters' = [meters EXCEPT !.prompts = IF "checkpoint" \in up THEN @ \cup ({serverReqs[t].job} \cap ReqJobs) ELSE @]
    /\ serverReqs' = [serverReqs EXCEPT ![t].pc = "start", ![t].cm = "checkpoint" \in up]
    /\ UNCHANGED <<boot, up>>

\* run_inference_stream fails, or the producer starts and the breaker hears of a success.
StartStream(t) ==
    /\ serverReqs[t].pc = "start" /\ Answers
    /\ \/ serverReqs' = [serverReqs EXCEPT ![t] = NoReq] /\ UNCHANGED meters
       \/ serverReqs' = [serverReqs EXCEPT ![t].pc = "stream"] /\ meters' = [meters EXCEPT !.failures = 0]
    /\ UNCHANGED <<boot, up>>

\* A token of the stream, unless it is empty and not the first; at the end of it the request is over.
StreamToken(t) ==
    LET j == serverReqs[t].job
    IN /\ serverReqs[t].pc = "stream" /\ Answers
       /\ \/ /\ serverReqs[t].made < MaxServed
             /\ serverReqs' = [serverReqs EXCEPT ![t].pc = "count", ![t].tokens = 1, ![t].made = @ + 1]
             /\ meters' = [meters EXCEPT !.served[j] = @ + 1]
          \/ serverReqs' = [serverReqs EXCEPT ![t] = NoReq] /\ UNCHANGED meters
       /\ UNCHANGED <<boot, up>>

\* The token is counted by the manager of the start of the stream, or tracked.
CountToken(t) ==
    LET j == serverReqs[t].job
    IN /\ serverReqs[t].pc = "count" /\ Answers
       /\ meters' = IF j = "none" THEN meters
                    ELSE IF serverReqs[t].cm THEN [meters EXCEPT !.billed[j] = @ + 1] ELSE [meters EXCEPT !.tracked[j] = @ + 1]
       /\ serverReqs' = [serverReqs EXCEPT ![t].pc = "stream", ![t].tokens = 0]
       /\ UNCHANGED <<boot, up>>

-----------------------------------------------------------------------------
(* The encrypted messages of a WebSocket, and the other routes.            *)

\* encrypted_message and encrypted_session_init: the first check that fails is answered.
MessageChecks ==
    <<"MISSING_SESSION_ID", "SESSION_KEY_NOT_FOUND", "MISSING_PAYLOAD", "MISSING_PAYLOAD_FIELDS",
      "INVALID_HEX_ENCODING", "INVALID_NONCE_SIZE", "DECRYPTION_FAILED", "INVALID_UTF8">>

EncryptedReply(failing) ==
    LET failed == {i \in DOMAIN MessageChecks : MessageChecks[i] \in failing}
    IN IF failed = {} THEN "ok" ELSE MessageChecks[Min(failed)]

\* A message that asks for an image, or whose text does while auto_image_routing is on
\* and there is a diffusion client, is an image generation and no inference.
RouteImage(failing) ==
    /\ Answers /\ EncryptedReply(failing) = "ok" /\ "diffusion" \in up /\ meters.images = 0
    /\ meters' = [meters EXCEPT !.images = @ + 1]
    /\ UNCHANGED <<boot, up, serverReqs>>

\* uploadVectors: the session, or the one of all connections without a session, is made
\* with a vector store when it has none.
UploadVectors(sid) ==
    /\ Answers /\ meters' = [meters EXCEPT !.rag = @ \cup {sid}]
    /\ UNCHANGED <<boot, up, serverReqs>>

\* searchVectors: refused without the session or its store.
SearchVectorsReply(sid) == IF sid \in meters.rag THEN "results" ELSE "error"

\* checkpoints_handler
CheckpointsReply(index) ==
    IF "checkpoint" \notin up THEN "unavailable"
    ELSE IF index = "missing" THEN "not_found" ELSE IF index = "readable" THEN "ok" ELSE "error"

\* health_check: the API server is never given the P2P node by main.
HealthIssues == 1 + (IF BreakerOpen THEN 1 ELSE 0)

-----------------------------------------------------------------------------

BootStep == ValidateModel \/ BootLoadModel \/ StartNode \/ SetEngine \/ SetPart \/ CtrlC

RequestStep(t) ==
    \/ SearchWeb(t) \/ RecordPrompt(t) \/ RunInference(t) \/ TrackTokens(t)
    \/ DescribeImages(t) \/ AcceptStream(t) \/ SearchStream(t) \/ RecordStreamPrompt(t) \/ StartStream(t)
    \/ StreamToken(t) \/ CountToken(t)

ServerNext ==
    \/ BootStep
    \/ \E t \in ReqTasks : RequestStep(t)
    \/ \E t \in ReqTasks, j \in AnyJob, b \in BOOLEAN :
          \/ AcceptRequest(t, j, b)
          \/ \E inner, outer \in {"absent", "yes"} : EncryptedRequest(t, j, b, inner, outer)
    \/ \E failing \in {{}, {"INVALID_NONCE_SIZE"}} : RouteImage(failing)
    \/ UploadVectors("default-rag-session")

ServerSpec == ServerInit /\ [][ServerNext]_serverVars

-----------------------------------------------------------------------------

\* What the requests under way have served of a job and not yet counted.
Uncounted(j) == [t \in ReqTasks |-> IF serverReqs[t].job = j THEN serverReqs[t].tokens ELSE 0]

\* Every token served and every image described for a job is counted once, by the
\* checkpoint manager or by the token tracker, wherever in the start-up of the node the
\* request fell, except for the response whose count is still to come.  What is served
\* to a request that names no job is counted by nobody.
ServedIsMetered ==
    \A j \in ReqJobs :
        meters.billed[j] + meters.tracked[j] + MapThenSumSet(LAMBDA t : Uncounted(j)[t], ReqTasks)
            = meters.served[j] + meters.vision[j]
=============================================================================
