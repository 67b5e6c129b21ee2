--------------------------- MODULE ModelEndpoints ---------------------------
(***************************************************************************)
(* The endpoints /v1/embed, /v1/ocr and /v1/describe-image                 *)
(* (api/embed, api/ocr, api/describe_image) and the managers of the models *)
(* behind them (embeddings/model_manager.rs, vision/model_manager.rs).     *)
(* Models are loaded while the server answers: a request may come before   *)
(* its manager is set.  Vision goes to the VLM sidecar first               *)
(* (vision/vlm_client.rs) and to the local model when that fails.          *)
(***************************************************************************)
EXTENDS Integers, Sequences, FiniteSets, FiniteSetsExt

CONSTANTS MeRequests,      \* requests, each answered once
          MeConfigs,       \* lists of configured embedding models, by name
          MeNames,         \* names a client may ask for
          MeFiles,         \* sets of the vision models' files there may be
          MaxBatch         \* bound on the texts of a request (96)

ASSUME MeAssumption ==
    /\ \A c \in MeConfigs : c # <<>> /\ Range(c) \subseteq MeNames
    /\ MaxBatch \in Nat \ {0}

VARIABLES mePart,     \* "embed" or "vision": the endpoints a behaviour is about
          embedder,   \* the embedding models, as they load, and their manager
          seer,       \* the vision models' manager
          calls       \* the requests and their answers

meVars == <<mePart, embedder, seer, calls>>

\* `by' is the model that embeds, or 1 when a vision request found its manager.
NoCall == [pc |-> "idle", kind |-> "none", asks |-> "default", readable |-> TRUE, texts |-> 0,
           by |-> 0, results |-> 0, tried |-> {}, status |-> 0]

NewEmbedder(config) ==
    [config |-> config, tasks |-> [i \in DOMAIN config |-> "loading"], joined |-> {},
     models |-> [n \in MeNames |-> 0], default |-> "none", state |-> "loading"]
NewSeer(files, vlm) == [files |-> files, vlm |-> vlm, models |-> {}, state |-> "loading"]

\* main: the server answers before either manager is made.
MeInit ==
    /\ mePart \in {"embed", "vision"}
    /\ \E config \in MeConfigs : embedder = NewEmbedder(config)
    /\ \E files \in MeFiles, vlm \in BOOLEAN : seer = NewSeer(files, vlm)
    /\ mePart = "embed" => seer = NewSeer(CHOOSE f \in MeFiles : TRUE, FALSE)
    /\ mePart = "vision" => embedder = NewEmbedder(CHOOSE c \in MeConfigs : TRUE)
    /\ calls = [r \in MeRequests |-> NoCall]

-----------------------------------------------------------------------------
(* EmbeddingModelManager::new: a task loads each model; they are awaited   *)
(* in the order of the configuration, whichever ends first.                *)

\* OnnxEmbeddingModel::new: what of it works; CUDA is tried before the CPU.
OnnxParts == {"files", "cuda", "cpu", "tokenizer", "dimensions"}
OnnxLoads(works) == {"files", "tokenizer", "dimensions"} \subseteq works /\ works \cap {"cuda", "cpu"} # {}

LoadOnnx(i, works) ==
    /\ mePart = "embed" /\ embedder.tasks[i] = "loading"
    /\ embedder' = [embedder EXCEPT !.tasks[i] = IF OnnxLoads(works) THEN "ok" ELSE "failed"]
    /\ UNCHANGED <<mePart, seer, calls>>

\* A model that loaded is in the table, over one of the same name; the first is the default.
JoinedModel(i) ==
    LET n == embedder.config[i]
    IN IF embedder.tasks[i] = "failed" THEN [embedder EXCEPT !.joined = @ \cup {i}]
       ELSE [embedder EXCEPT !.joined = @ \cup {i}, !.models[n] = i,
                             !.default = IF @ = "none" THEN n ELSE @]

\* Mutant: the tasks are taken as they end.
JoinLoad_AsEnded ==
    /\ mePart = "embed"
    /\ \E i \in DOMAIN embedder.config \ embedder.joined : embedder.tasks[i] # "loading" /\ embedder' = JoinedModel(i)
    /\ UNCHANGED <<mePart, seer, calls>>

JoinLoad ==
    /\ mePart = "embed" /\ embedder.joined # DOMAIN embedder.config
    /\ LET i == Min(DOMAIN embedder.config \ embedder.joined)
       IN embedder.tasks[i] # "loading" /\ embedder' = JoinedModel(i)
    /\ UNCHANGED <<mePart, seer, calls>>

\* main: set_embedding_model_manager, or no manager when nothing loaded.
SetEmbedder ==
    /\ embedder.state = "loading" /\ embedder.joined = DOMAIN embedder.config
    /\ embedder' = [embedder EXCEPT !.state = IF embedder.default = "none" THEN "none" ELSE "set"]
    /\ UNCHANGED <<mePart, seer, calls>>

\* PaddleOcrModel::new takes either dictionary, FlorenceModel::new the first of two names
\* (find_model_file) for the encoder and for the decoder.
OcrLoads(files) == {"det_model", "rec_model"} \subseteq files /\ files \cap {"en_dict", "ppocr_keys"} # {}
FlorenceLoads(files) ==
    /\ {"tokenizer", "embed_tokens"} \subseteq files
    /\ files \cap {"vision_encoder", "encoder"} # {} /\ files \cap {"decoder_model", "decoder"} # {}

\* VisionModelManager::new keeps what loads, and is set whatever that is.
SetSeer ==
    /\ mePart = "vision" /\ seer.state = "loading"
    /\ seer' = [seer EXCEPT !.state = "set",
                            !.models = (IF OcrLoads(seer.files) THEN {"ocr"} ELSE {})
                                       \cup (IF FlorenceLoads(seer.files) THEN {"describe"} ELSE {})
                                       \cup (IF seer.vlm THEN {"vlm"} ELSE {})]
    /\ UNCHANGED <<mePart, embedder, calls>>

\* list_models of the two managers: names and whether they are there.
ListEmbedders == {n \in MeNames : embedder.models[n] # 0}
ListVision == {<<m, m \in seer.models>> : m \in {"ocr", "describe"} \cup (seer.models \cap {"vlm"})}

-----------------------------------------------------------------------------
(* The handlers; each holds the read lock of its manager to the end.       *)

CallGoes(r, c) == calls' = [calls EXCEPT ![r] = c] /\ UNCHANGED <<mePart, embedder, seer>>
Replies(r, status) == CallGoes(r, [calls[r] EXCEPT !.pc = "done", !.status = status])

\* EmbedRequest, OcrRequest and DescribeImageRequest::validate
EmbedProblems == {"no texts", "too many", "blank", "too long", "chain", "no model"}
OcrProblems == {"no image", "size", "format", "language", "chain"}
DescribeProblems == {"no image", "size", "format", "detail", "max_tokens", "chain"}

\* embed_handler, up to the manager's lock.
EmbedRequested(r, name, n, problem) ==
    /\ mePart = "embed" /\ calls[r].pc = "idle" /\ (problem = "too many" <=> n > MaxBatch)
    /\ IF problem # "none" THEN Replies(r, 400)
       ELSE CallGoes(r, [calls[r] EXCEPT !.kind = "embed", !.asks = name, !.texts = n, !.pc = "manager"])

\* get_model by name, or the default.
SelectModel(r) ==
    LET name == IF calls[r].asks = "default" THEN embedder.default ELSE calls[r].asks
    IN /\ calls[r].kind = "embed" /\ calls[r].pc = "manager"
       /\ IF embedder.state # "set" THEN Replies(r, 503)
          ELSE IF embedder.models[name] = 0 THEN Replies(r, 404)
          ELSE CallGoes(r, [calls[r] EXCEPT !.pc = "embed", !.by = embedder.models[name]])

\* embed_batch
EmbedAll(r, ok) ==
    calls[r].pc = "embed" /\ IF ok THEN CallGoes(r, [calls[r] EXCEPT !.pc = "count"]) ELSE Replies(r, 500)

\* Mutant: a text whose tokens cannot be counted ends the loop.
CountText_Break(r, ok) ==
    /\ calls[r].pc = "count" /\ calls[r].results < calls[r].texts
    /\ IF ok THEN CallGoes(r, [calls[r] EXCEPT !.results = @ + 1]) ELSE Replies(r, 200)

\* count_tokens of the next text; the first that fails fails the request.
CountText(r, ok) ==
    /\ calls[r].pc = "count" /\ calls[r].results < calls[r].texts
    /\ IF ok THEN CallGoes(r, [calls[r] EXCEPT !.results = @ + 1]) ELSE Replies(r, 500)

EmbedAnswered(r) == calls[r].pc = "count" /\ calls[r].results = calls[r].texts /\ Replies(r, 200)

\* decode_base64_image, with detect_format: the prefix of a data URL is cut off.
ImageKinds == {"plain", "data url", "not base64", "large", "empty", "unknown format", "broken"}
Decodes(image) == image \in {"plain", "data url"}

\* ocr_handler and describe_image_handler, up to the manager's lock; whether the image can
\* be read shows only when the local model needs it.
ImageRequested(r, kind, image, problem) ==
    /\ mePart = "vision" /\ calls[r].pc = "idle"
    /\ IF problem # "none" THEN Replies(r, 400)
       ELSE CallGoes(r, [calls[r] EXCEPT !.kind = kind, !.readable = Decodes(image), !.pc = "manager"])

SelectVision(r) ==
    /\ calls[r].kind \in {"ocr", "describe"} /\ calls[r].pc = "manager"
    /\ IF seer.state # "set" THEN Replies(r, 503)
       ELSE CallGoes(r, [calls[r] EXCEPT !.pc = IF "vlm" \in seer.models THEN "vlm" ELSE "local", !.by = 1])

\* Mutant: the sidecar's failure is the answer.
VlmAnswers_Final(r, out) ==
    /\ calls[r].pc = "vlm"
    /\ CallGoes(r, [calls[r] EXCEPT !.pc = "done", !.status = IF out = "error" THEN 500 ELSE 200, !.tried = {"vlm"}])

\* VlmClient::ocr, describe: the image is sent as it came; an answer without choices is an
\* empty text, a timeout or an answer that is none goes to the local model.
VlmAnswers(r, out) ==
    /\ calls[r].pc = "vlm"
    /\ CallGoes(r, [calls[r] EXCEPT !.pc = IF out = "error" THEN "local" ELSE "done",
                                !.status = IF out = "error" THEN 0 ELSE 200, !.tried = {"vlm"}])

\* PaddleOcrModel::process or FlorenceModel::describe.  The latter logs the first 50 bytes
\* of its text: a character across the 50th ends the task without an answer.
LocalAnswers(r, out) ==
    LET c == calls[r]
    IN /\ c.pc = "local" /\ (out = "panic" => c.kind = "describe")
       /\ IF c.kind \notin seer.models THEN out = "ok" /\ Replies(r, 503)
          ELSE IF ~c.readable THEN out = "ok" /\ Replies(r, 400)
          ELSE CallGoes(r, [c EXCEPT !.pc = "done", !.tried = @ \cup {c.kind},
                                 !.status = IF out = "ok" THEN 200 ELSE IF out = "error" THEN 500 ELSE 0])

-----------------------------------------------------------------------------

MeNext ==
    \/ \E i \in DOMAIN embedder.config, works \in SUBSET OnnxParts : LoadOnnx(i, works)
    \/ JoinLoad
    \/ SetEmbedder
    \/ SetSeer
    \/ \E r \in MeRequests, name \in MeNames \cup {"default"}, n \in 1 .. MaxBatch + 1,
          problem \in EmbedProblems \cup {"none"} : EmbedRequested(r, name, n, problem)
    \/ \E r \in MeRequests, image \in ImageKinds :
          \/ \E problem \in OcrProblems \cup {"none"} : ImageRequested(r, "ocr", image, problem)
          \/ \E problem \in DescribeProblems \cup {"none"} : ImageRequested(r, "describe", image, problem)
    \/ \E r \in MeRequests : SelectModel(r) \/ EmbedAnswered(r) \/ SelectVision(r)
    \/ \E r \in MeRequests, ok \in BOOLEAN : EmbedAll(r, ok) \/ CountText(r, ok)
    \/ \E r \in MeRequests, out \in {"text", "no text", "error"} : VlmAnswers(r, out)
    \/ \E r \in MeRequests, out \in {"ok", "error", "panic"} : LocalAnswers(r, out)

MeSpec == MeInit /\ [][MeNext]_meVars

-----------------------------------------------------------------------------

\* The default model is the first of the configuration that loads, however long each takes
\* to load, and a request for it is answered by a model of that name
\* (EmbeddingModelManager::new, get_model).
DefaultIsFirstConfigured ==
    LET loaded == {i \in DOMAIN embedder.config : embedder.tasks[i] = "ok"}
        named(r) == embedder.config[calls[r].by]
    IN embedder.state = "set" =>
          /\ embedder.default = embedder.config[Min(loaded)]
          /\ \A r \in MeRequests : calls[r].by # 0 =>
                named(r) = IF calls[r].asks = "default" THEN embedder.config[Min(loaded)] ELSE calls[r].asks

\* An answer of /v1/embed has an embedding for every text that was sent (embed_handler).
EveryTextEmbedded ==
    \A r \in MeRequests : calls[r].kind = "embed" /\ calls[r].status = 200 => calls[r].results = calls[r].texts

\* A vision request that found its manager fails only after every model that is there for
\* it, and can read its image, was tried; one that names no bad image is not refused
\* (ocr_handler, describe_image_handler).
FailsAfterAllTried ==
    \A r \in MeRequests :
        LET c == calls[r]
            fit == {m \in seer.models : m = "vlm" \/ (m = c.kind /\ c.readable)}
        IN /\ mePart = "vision" /\ c.by = 1 /\ c.status \in {400, 500, 503} => fit \subseteq c.tried
           /\ mePart = "vision" /\ c.by = 1 /\ c.status = 400 => ~c.readable

=============================================================================
