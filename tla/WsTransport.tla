------------------------------ MODULE WsTransport ------------------------------
(***************************************************************************)
(* Around a WebSocket session, under api/websocket: frames and fragments   *)
(* (transport.rs), the payloads that are checked on arrival                *)
(* (message_types.rs), the stand-alone server (server.rs), the message     *)
(* handler over the session store (handler.rs, session.rs), the streamed   *)
(* answers (handlers/), the engines kept per model (inference.rs), the     *)
(* sessions of workers (integration.rs), the sessions of a job and its     *)
(* chain (session_context.rs), the metrics (metrics.rs), authentication    *)
(* (auth.rs) and the token tracker of the HTTP API (token_tracker.rs).     *)
(***************************************************************************)
EXTENDS Integers, Sequences, FiniteSets, SequencesExt

CONSTANTS TrTasks,      \* connections, tasks
          TrSessions,   \* session ids
          TrChains,     \* supported chains
          TrModels,     \* model paths
          TrWorkers,    \* number of workers
          FrameLengths, \* payload lengths
          TrMemory,     \* max_memory_bytes of a session, in messages
          TrEngines,    \* max_size of the engine cache
          TrConns,      \* max_connections
          TrTokens,     \* CHECKPOINT_THRESHOLD
          MaxTrNow,     \* bound on the clock
          MaxTrOps      \* bound on the operations of a part

ASSUME TrAssumption ==
    /\ TrWorkers \in Nat \ {0} /\ FrameLengths \subseteq Nat /\ TrMemory \in Nat /\ TrEngines \in Nat \ {0}
    /\ TrConns \in Nat /\ TrTokens \in Nat \ {0} /\ MaxTrNow \in Nat /\ MaxTrOps \in Nat

VARIABLES trPart,     \* the part a behaviour is about
          frame,      \* a message on the wire
          payload,    \* a payload that is validated
          wsServer,   \* WebSocketServer
          wsHandler,  \* WebSocketHandler and the sessions it shares
          stream,     \* the task of a streamed answer
          engines,    \* inference::ModelCache and ModelManager
          workers,    \* SessionIntegration and LoadBalancer
          jobChains,  \* ChainAwareSessionManager
          wsAuth,     \* Authenticator
          tracker,    \* TokenTracker
          answers     \* InferenceHandler over the conversation of a session

trVars == <<trPart, frame, payload, wsServer, wsHandler, stream, engines, workers, jobChains, wsAuth, tracker, answers>>

Opcodes == {"Text", "Binary", "Close", "Ping"}
FrameState == [opcode : Opcodes, len : Nat, code : 0 .. 255, ext : Int, parsed : Int, fragments : Seq(Nat), done : BOOLEAN]

\* The sizes of the decoded fields: -1 is not hexadecimal, 0 is empty.
EncryptedPayloads == {"session_init", "message", "chunk", "response"}
PayloadState ==
    [kind : EncryptedPayloads \cup {"none"}, size : [{"key", "nonce", "signature"} -> Int], reason : BOOLEAN,
     verdict : {"none", "valid", "invalid", "panic"}]

ServerState ==
    [running : BOOLEAN, conns : SUBSET TrTasks, session : [TrTasks -> TrSessions \cup {"none"}],
     task : [TrTasks -> {"none", "handshake", "open", "ending"}]]

SessionRecord == [live : BOOLEAN, history : Nat, memory : Nat, expired : BOOLEAN]
HandlerState ==
    [sessions : [TrSessions -> SessionRecord], processed : Nat,
     task : [TrTasks -> [pc : {"idle", "check", "prompt", "context", "answer"}, session : TrSessions \cup {"none"}]]]

StreamState == [parts : Nat, of : Nat, received : Nat, receiver : BOOLEAN, pc : {"none", "send", "record", "done"}, recorded : Nat]

EnginesState == [cache : Seq(TrModels), loaded : SUBSET TrModels, loading : TrModels \cup {"none"}, lru : BOOLEAN, ops : Nat]

WorkersState ==
    [current : Nat, handled : [0 .. (TrWorkers - 1) -> Nat], owned : [0 .. (TrWorkers - 1) -> Seq(TrSessions)],
     active : SUBSET TrSessions, timers : Nat, timedOut : Nat, moved : SUBSET TrSessions, ops : Nat]

JobChainState ==
    [chainOf : TrChains \cup {"none"}, active : [TrSessions -> TrChains \cup {"none"}],
     mapReaders : SUBSET TrTasks, writer : TrTasks \cup {"none"},
     task : [TrTasks -> [pc : {"idle", "sessions", "insert", "map"}, session : TrSessions, chain : TrChains]]]

AuthState == [now : Nat, verdict : {"none", "ok", "expired"}, at : Nat, job : {"ok", "expired"}, expires : Int, granted : BOOLEAN, ops : Nat]
TrackerState == [known : BOOLEAN, tokens : Nat, last : Nat, cleaning : BOOLEAN, ops : Nat]

\* A message is its role and one of two texts.
Texts == {"first", "second"}
AnswerIdle == [pc |-> "idle", prompt |-> "first", context |-> <<>>]

SomeSession == CHOOSE s \in TrSessions : TRUE
SomeChain == CHOOSE c \in TrChains : TRUE

TrInit ==
    /\ trPart \in {"frame", "payload", "server", "handler", "stream", "engines", "workers", "chains", "auth", "tracker", "answers"}
    /\ frame = [opcode |-> "Text", len |-> 0, code |-> 0, ext |-> -1, parsed |-> -1, fragments |-> <<>>, done |-> FALSE]
    /\ payload = [kind |-> "none", size |-> [f \in {"key", "nonce", "signature"} |-> 0], reason |-> FALSE, verdict |-> "none"]
    /\ wsServer = [running |-> TRUE, conns |-> {}, session |-> [t \in TrTasks |-> "none"], task |-> [t \in TrTasks |-> "none"]]
    /\ wsHandler = [sessions |-> [s \in TrSessions |-> [live |-> FALSE, history |-> 0, memory |-> 0, expired |-> FALSE]],
                    processed |-> 0, task |-> [t \in TrTasks |-> [pc |-> "idle", session |-> "none"]]]
    /\ stream = [parts |-> 0, of |-> 0, received |-> 0, receiver |-> TRUE, pc |-> "none", recorded |-> 0]
    /\ engines = [cache |-> <<>>, loaded |-> {}, loading |-> "none", lru |-> FALSE, ops |-> 0]
    /\ workers = [current |-> 0, handled |-> [w \in 0 .. (TrWorkers - 1) |-> 0], owned |-> [w \in 0 .. (TrWorkers - 1) |-> <<>>],
                  active |-> {}, timers |-> 0, timedOut |-> 0, moved |-> {}, ops |-> 0]
    /\ jobChains = [chainOf |-> "none", active |-> [s \in TrSessions |-> "none"], mapReaders |-> {}, writer |-> "none",
                    task |-> [t \in TrTasks |-> [pc |-> "idle", session |-> SomeSession, chain |-> SomeChain]]]
    /\ wsAuth = [now |-> 0, verdict |-> "none", at |-> 0, job |-> "ok", expires |-> -1, granted |-> FALSE, ops |-> 0]
    /\ tracker = [known |-> FALSE, tokens |-> 0, last |-> 0, cleaning |-> FALSE, ops |-> 0]
    /\ answers = [engine |-> TRUE, loaded |-> FALSE, said |-> <<>>, answered |-> 0, ops |-> 0,
                  task |-> [t \in TrTasks |-> AnswerIdle]]

-----------------------------------------------------------------------------
(* Frames                                                                  *)

FrameStep(s) ==
    /\ trPart = "frame" /\ frame' = s
    /\ UNCHANGED <<trPart, payload, wsServer, wsHandler, stream, engines, workers, jobChains, wsAuth, tracker, answers>>

\* Mutant: a length of 126 is written into the short field.
LengthField_Short(n) ==
    IF n <= 126 THEN [code |-> n, ext |-> -1]
    ELSE IF n < 65536 THEN [code |-> 126, ext |-> n % 65536] ELSE [code |-> 127, ext |-> n]

\* create_frame and encode_binary; ext is the extended length, -1 when absent.
LengthField(n) ==
    IF n < 126 THEN [code |-> n, ext |-> -1]
    ELSE IF n < 65536 THEN [code |-> 126, ext |-> n % 65536] ELSE [code |-> 127, ext |-> n]

\* create_close_frame knows no 64 bit length; create_ping_frame and
\* create_pong_frame write the length as one byte.
CloseLengthField(n) == IF n < 126 THEN [code |-> n, ext |-> -1] ELSE [code |-> 126, ext |-> n % 65536]
PingLengthField(n) == [code |-> n % 256, ext |-> -1]

EncodeFrame(op, n) ==
    /\ frame.code = 0 /\ frame.len = 0
    /\ LET f == CASE op = "Close" -> CloseLengthField(n) [] op = "Ping" -> PingLengthField(n) [] OTHER -> LengthField(n)
       IN FrameStep([frame EXCEPT !.opcode = op, !.len = n, !.code = f.code, !.ext = f.ext])

\* parse_frame: the length, or -1 for a frame it refuses.  The extended length
\* a frame does not have is read from the payload, here as a refusal.
ParseFrame ==
    /\ frame.len > 0 /\ ~frame.done
    /\ LET code == frame.code % 128
           n == IF code < 126 THEN code ELSE frame.ext
       IN FrameStep([frame EXCEPT !.parsed = IF n <= frame.len THEN n ELSE -1, !.done = TRUE])

\* fragment_message, and reassemble_fragments, which puts them together.
FragmentMessage(n, size) ==
    /\ frame.code = 0 /\ frame.len = 0
    /\ LET count == (n + size - 1) \div size
           chunk(i) == IF i < count THEN size ELSE n - (count - 1) * size
       IN FrameStep([frame EXCEPT !.len = n, !.fragments = [i \in 1 .. count |-> chunk(i)]])
ReassembleFragments ==
    /\ frame.fragments # <<>> /\ ~frame.done
    /\ FrameStep([frame EXCEPT !.parsed = FoldLeft(LAMBDA a, b : a + b, 0, frame.fragments), !.done = TRUE])

FrameNext ==
    \/ \E op \in Opcodes, n \in FrameLengths : EncodeFrame(op, n)
    \/ \E n \in FrameLengths, size \in {1, 2} : n \in 1 .. 4 /\ FragmentMessage(n, size)
    \/ (frame.fragments = <<>> /\ ParseFrame) \/ ReassembleFragments

\* At every boundary of the length encodings a frame is parsed to the payload
\* it was made of; a close frame up to 65535 bytes and a ping up to 125.
FrameLengthKept ==
    frame.done /\ (frame.opcode = "Close" => frame.len < 65536) /\ (frame.opcode = "Ping" => frame.len < 126)
       => frame.parsed = frame.len

-----------------------------------------------------------------------------
(* Payloads                                                                *)

PayloadStep(s) ==
    /\ trPart = "payload" /\ payload' = s
    /\ UNCHANGED <<trPart, frame, wsServer, wsHandler, stream, engines, workers, jobChains, wsAuth, tracker, answers>>

ReceivePayload(kind, key, nonce, signature, reason) ==
    /\ payload.kind = "none"
    /\ PayloadStep([payload EXCEPT !.kind = kind, !.reason = reason,
                        !.size = [f \in {"key", "nonce", "signature"} |->
                                    CASE f = "key" -> key [] f = "nonce" -> nonce [] OTHER -> signature]])

\* decode_hex_field refuses what is empty or not hexadecimal.
DecodeHexField(size) == size > 0
\* validate_exact_size, validate_size_options
ValidateSize(size, options) == size \in options

\* Mutant: the nonce is only decoded.
FieldsValid_AnyNonce(kind, size) ==
    /\ DecodeHexField(size["nonce"])
    /\ kind = "session_init" => /\ DecodeHexField(size["key"]) /\ ValidateSize(size["key"], {33, 65})
                                /\ DecodeHexField(size["signature"]) /\ ValidateSize(size["signature"], {65})

\* The checks of the four validate functions on the fields they all have and
\* the ones only the session init has.
FieldsValid(kind, size) ==
    /\ DecodeHexField(size["nonce"]) /\ ValidateSize(size["nonce"], {24})
    /\ kind = "session_init" => /\ DecodeHexField(size["key"]) /\ ValidateSize(size["key"], {33, 65})
                                /\ DecodeHexField(size["signature"]) /\ ValidateSize(size["signature"], {65})

\* validate: the fields are copied into arrays of 24 and 65 bytes, which
\* panics for another length.
ValidatePayload ==
    /\ payload.kind # "none" /\ payload.verdict = "none"
    /\ LET ok == FieldsValid(payload.kind, payload.size) /\ (payload.kind = "response" => payload.reason)
           fits == payload.size["nonce"] = 24 /\ (payload.kind = "session_init" => payload.size["signature"] = 65)
       IN PayloadStep([payload EXCEPT !.verdict = IF ~ok THEN "invalid" ELSE IF fits THEN "valid" ELSE "panic"])

\* No payload a client sends makes the copy into the fixed arrays panic.
NoPayloadPanics == payload.verdict # "panic"

-----------------------------------------------------------------------------
(* WebSocketServer                                                         *)

ServerStep(s) ==
    /\ trPart = "server" /\ wsServer' = s
    /\ UNCHANGED <<trPart, frame, payload, wsHandler, stream, engines, workers, jobChains, wsAuth, tracker, answers>>

\* The accept loop looks at the connections there are; one that is in its
\* handshake is not among them.
AcceptConnection(t) ==
    /\ wsServer.running /\ wsServer.task[t] = "none" /\ Cardinality(wsServer.conns) < TrConns
    /\ ServerStep([wsServer EXCEPT !.task[t] = "handshake"])
FinishHandshake(t) ==
    /\ wsServer.task[t] = "handshake"
    /\ \/ ServerStep([wsServer EXCEPT !.task[t] = "open", !.conns = @ \cup {t}])
       \/ ServerStep([wsServer EXCEPT !.task[t] = "none"])

\* session_init and session_resume only note the session id they are sent.
HandleText(t, s) ==
    /\ wsServer.task[t] = "open"
    /\ ServerStep([wsServer EXCEPT !.session[t] = s])

\* Mutant: an error of the socket leaves the loop by returning.
ConnectionEnds_Kept(t) ==
    /\ wsServer.task[t] = "open"
    /\ \/ ServerStep([wsServer EXCEPT !.task[t] = "ending"])
       \/ ServerStep([wsServer EXCEPT !.task[t] = "none"])
\* A close message, an error or the end of the stream leaves the loop.
ConnectionEnds(t) ==
    /\ wsServer.task[t] = "open"
    /\ ServerStep([wsServer EXCEPT !.task[t] = "ending"])
ConnectionRemoved(t) ==
    /\ wsServer.task[t] = "ending"
    /\ ServerStep([wsServer EXCEPT !.task[t] = "none", !.conns = @ \ {t}, !.session[t] = "none"])

\* ServerHandle::shutdown ends the accept loop and forgets the connections,
\* whose tasks go on.
ShutdownServer ==
    /\ wsServer.running
    /\ ServerStep([wsServer EXCEPT !.running = FALSE, !.conns = {}])

ServerTransportNext ==
    \/ ShutdownServer
    \/ \E t \in TrTasks :
          \/ AcceptConnection(t) \/ FinishHandshake(t) \/ ConnectionEnds(t) \/ ConnectionRemoved(t)
          \/ \E s \in TrSessions : HandleText(t, s)

\* A connection that is counted against the limit has a task that will remove
\* it, however the socket ends.
ConnectionsAreServed == \A t \in wsServer.conns : wsServer.task[t] \in {"open", "ending"}

-----------------------------------------------------------------------------
(* WebSocketHandler: one handler per connection, one store                 *)

SessionHandlerStep(s) ==
    /\ trPart = "handler" /\ wsHandler' = s
    /\ UNCHANGED <<trPart, frame, payload, wsServer, stream, engines, workers, jobChains, wsAuth, tracker, answers>>
HandlerAt(t, pc) == wsHandler.task[t].pc = pc
HandlerSession(t) == wsHandler.sessions[wsHandler.task[t].session]
HandlerDone(s, t) == [s EXCEPT !.task[t] = [pc |-> "idle", session |-> "none"]]

\* on_connect, handle_init without a session, handle_inference that creates one.
OnConnect(s) ==
    /\ ~wsHandler.sessions[s].live /\ wsHandler.processed < MaxTrOps
    /\ SessionHandlerStep([wsHandler EXCEPT !.sessions[s] = [live |-> TRUE, history |-> 0, memory |-> 0, expired |-> FALSE],
                        !.processed = @ + 1])
\* on_disconnect, handle_close
OnDisconnect(s) ==
    /\ wsHandler.sessions[s].live
    /\ SessionHandlerStep([wsHandler EXCEPT !.sessions[s].live = FALSE])
SessionTimesOut(s) ==
    /\ wsHandler.sessions[s].live /\ ~wsHandler.sessions[s].expired
    /\ SessionHandlerStep([wsHandler EXCEPT !.sessions[s].expired = TRUE])

\* handle_message counts and dispatches; here an inference.
HandleInference(t, s) ==
    /\ HandlerAt(t, "idle") /\ wsHandler.processed < MaxTrOps
    /\ SessionHandlerStep([wsHandler EXCEPT !.processed = @ + 1, !.task[t] = [pc |-> "check", session |-> s]])
\* has_session and is_expired
CheckSession(t) ==
    /\ HandlerAt(t, "check")
    /\ IF HandlerSession(t).live /\ ~HandlerSession(t).expired
       THEN SessionHandlerStep([wsHandler EXCEPT !.task[t].pc = "prompt"])
       ELSE SessionHandlerStep(HandlerDone(wsHandler, t))

\* Mutant: the memory is compared before the message is added.
MessageFits_Before(r) == r.memory <= TrMemory
MessageFits(r) == r.memory + 1 <= TrMemory

\* add_message_to_session: an error when the session is gone or full.
AddSessionMessage(t, from, to) ==
    /\ HandlerAt(t, from)
    /\ IF HandlerSession(t).live /\ MessageFits(HandlerSession(t))
       THEN LET s == wsHandler.task[t].session
                added == [wsHandler EXCEPT !.sessions[s].history = @ + 1, !.sessions[s].memory = @ + 1,
                                           !.sessions[s].expired = FALSE]
            IN SessionHandlerStep(IF to = "idle" THEN HandlerDone(added, t) ELSE [added EXCEPT !.task[t].pc = to])
       ELSE SessionHandlerStep(HandlerDone(wsHandler, t))
\* build_context_for_session
BuildPrompt(t) ==
    /\ HandlerAt(t, "context")
    /\ SessionHandlerStep(IF HandlerSession(t).live THEN [wsHandler EXCEPT !.task[t].pc = "answer"] ELSE HandlerDone(wsHandler, t))

\* SessionControl::Clear
ClearSession(s) ==
    /\ wsHandler.sessions[s].live /\ wsHandler.sessions[s].history > 0
    /\ SessionHandlerStep([wsHandler EXCEPT !.sessions[s] = [@ EXCEPT !.history = 0, !.memory = 0, !.expired = FALSE]])

HandlerNext ==
    \/ \E s \in TrSessions : OnConnect(s) \/ OnDisconnect(s) \/ SessionTimesOut(s) \/ ClearSession(s)
    \/ \E t \in TrTasks :
          \/ CheckSession(t) \/ AddSessionMessage(t, "prompt", "context") \/ BuildPrompt(t) \/ AddSessionMessage(t, "answer", "idle")
          \/ \E s \in TrSessions : HandleInference(t, s)

\* The memory a session reports is that of its history and within its limit,
\* whatever connections add to it or clear it in between.
SessionWithinMemory ==
    \A s \in TrSessions : LET r == wsHandler.sessions[s] IN r.memory = r.history /\ r.memory <= TrMemory

-----------------------------------------------------------------------------
(* A streamed answer: InferenceHandler, ResponseHandler and                *)
(* InferenceEngine::stream_generate                                        *)

StreamStep(s) ==
    /\ trPart = "stream" /\ stream' = s
    /\ UNCHANGED <<trPart, frame, payload, wsServer, wsHandler, engines, workers, jobChains, wsAuth, tracker, answers>>

CreateStreamingResponse(n) ==
    /\ stream.pc = "none"
    /\ StreamStep([stream EXCEPT !.pc = "send", !.of = n])
ReceiverDropped ==
    /\ stream.pc # "none" /\ stream.receiver
    /\ StreamStep([stream EXCEPT !.receiver = FALSE])

\* Mutant: the task returns when the receiver is gone.
SendPart_Returns ==
    /\ stream.pc = "send" /\ stream.parts < stream.of
    /\ IF stream.receiver
       THEN StreamStep([stream EXCEPT !.parts = @ + 1, !.received = @ + 1, !.pc = IF stream.parts + 1 = stream.of THEN "record" ELSE @])
       ELSE StreamStep([stream EXCEPT !.parts = @ + 1, !.pc = "done"])

\* A part is added to the content before it is sent; a send that fails leaves
\* the loop.
SendPart ==
    /\ stream.pc = "send" /\ stream.parts < stream.of
    /\ IF stream.receiver
       THEN StreamStep([stream EXCEPT !.parts = @ + 1, !.received = @ + 1, !.pc = IF stream.parts + 1 = stream.of THEN "record" ELSE @])
       ELSE StreamStep([stream EXCEPT !.parts = @ + 1, !.pc = "record"])
RecordAnswer ==
    /\ stream.pc = "record"
    /\ StreamStep([stream EXCEPT !.pc = "done", !.recorded = stream.parts])

StreamNext ==
    \/ \E n \in 1 .. MaxTrOps : CreateStreamingResponse(n)
    \/ ReceiverDropped \/ SendPart \/ RecordAnswer

\* What a client received of a streamed answer is part of the answer the
\* session keeps, though the client may go at any part.
ReceivedIsRecorded == stream.pc = "done" => stream.recorded >= stream.received /\ stream.recorded > 0

-----------------------------------------------------------------------------
(* Engines: ModelManager keeps every engine, ModelCache the latest used    *)

EnginesStep(s) ==
    /\ trPart = "engines" /\ engines' = [s EXCEPT !.ops = @ + 1] /\ engines.ops < MaxTrOps
    /\ UNCHANGED <<trPart, frame, payload, wsServer, wsHandler, stream, workers, jobChains, wsAuth, tracker, answers>>

\* Mutant: room is made only when the cache holds more than it may.
MakeEngineRoom_Late(cache) == IF Len(cache) > TrEngines THEN Tail(cache) ELSE cache
\* The engine used longest ago is dropped; the sequence is in order of use.
MakeEngineRoom(cache) == IF Len(cache) >= TrEngines THEN Tail(cache) ELSE cache

EnginesBut(cache, m) == FlattenSeq([i \in 1 .. Len(cache) |-> IF cache[i] = m THEN <<>> ELSE <<cache[i]>>])

\* get_or_load: the lock is held while an engine loads, which may fail.
TouchEngine(m) ==
    /\ engines.loading = "none" /\ m \in ToSet(engines.cache)
    /\ EnginesStep([engines EXCEPT !.cache = Append(EnginesBut(@, m), m)])
LoadEngine(m, lru) ==
    /\ engines.loading = "none" /\ m \notin (IF lru THEN ToSet(engines.cache) ELSE engines.loaded)
    /\ EnginesStep([engines EXCEPT !.loading = m, !.lru = lru])
EngineLoaded ==
    /\ engines.loading # "none"
    /\ \/ EnginesStep([engines EXCEPT !.loading = "none"])
       \/ IF engines.lru
          THEN EnginesStep([engines EXCEPT !.loading = "none", !.cache = Append(MakeEngineRoom(@), engines.loading)])
          ELSE EnginesStep([engines EXCEPT !.loading = "none", !.loaded = @ \cup {engines.loading}])

\* No more engines are kept in memory than the cache allows, each once.
EnginesBounded == Len(engines.cache) <= TrEngines /\ IsInjective(engines.cache)

-----------------------------------------------------------------------------
(* SessionIntegration and LoadBalancer                                     *)

WorkersStep(s) ==
    /\ trPart = "workers" /\ workers' = [s EXCEPT !.ops = @ + 1] /\ workers.ops < MaxTrOps + 1
    /\ UNCHANGED <<trPart, frame, payload, wsServer, wsHandler, stream, engines, jobChains, wsAuth, tracker, answers>>

\* Mutant: the index wraps one worker early.
NextIndex_Short(i) == IF TrWorkers = 1 THEN 0 ELSE (i + 1) % (TrWorkers - 1)
NextIndex(i) == (i + 1) % TrWorkers

\* next_worker, and assign_session_to_worker with the session it registers.
AssignSession(s) ==
    LET w == workers.current
    IN WorkersStep([workers EXCEPT !.current = NextIndex(w), !.handled[w] = @ + 1, !.owned[w] = Append(@, s),
                        !.active = @ \cup {s}, !.moved = @ \ {s}])

\* handoff_session: out of every worker's list, into one.
HandoffSession(s, w) ==
    WorkersStep([workers EXCEPT !.owned = [v \in DOMAIN @ |-> LET kept == SelectSeq(@[v], LAMBDA x : x # s)
                                                               IN IF v = w THEN Append(kept, s) ELSE kept],
                     !.moved = @ \cup {s}])

\* set_session_timeout spawns a timer that removes every session there is when
\* it rings, used or not; shutdown removes them at once.
SetSessionTimeout == WorkersStep([workers EXCEPT !.timers = @ + 1])
TimeoutRings ==
    /\ workers.timers > 0
    /\ WorkersStep([workers EXCEPT !.timers = @ - 1, !.timedOut = @ + Cardinality(workers.active), !.active = {}])
ShutdownSessions == WorkersStep([workers EXCEPT !.active = {}])

WorkersNext ==
    \/ SetSessionTimeout \/ TimeoutRings \/ ShutdownSessions
    \/ \E s \in TrSessions : AssignSession(s) \/ \E w \in 0 .. (TrWorkers - 1) : HandoffSession(s, w)

\* Workers get sessions in turn, none more than one ahead of another, and a
\* session that was handed over has one worker.
WorkersInTurn ==
    /\ \A v, w \in DOMAIN workers.handled : workers.handled[v] <= workers.handled[w] + 1
    /\ \A s \in workers.moved : Cardinality({w \in DOMAIN workers.owned : s \in ToSet(workers.owned[w])}) = 1

-----------------------------------------------------------------------------
(* ChainAwareSessionManager: the sessions of one job.  create_session      *)
(* reads the job's chain and, for another chain, the sessions; then it     *)
(* writes the sessions and, still holding them, the map.                   *)

JobChainStep(s) ==
    /\ trPart = "chains" /\ jobChains' = s
    /\ UNCHANGED <<trPart, frame, payload, wsServer, wsHandler, stream, engines, workers, wsAuth, tracker, answers>>
JobChainAt(t, pc) == jobChains.task[t].pc = pc

CreateJobSession(t, s, c) ==
    /\ JobChainAt(t, "idle") /\ jobChains.active[s] = "none"
    /\ \A u \in TrTasks : JobChainAt(u, "map") => u = t    \* nobody waits to write the map
    /\ JobChainStep([jobChains EXCEPT
                        !.task[t] = [pc |-> IF jobChains.chainOf \in {"none", c} THEN "insert" ELSE "sessions", session |-> s, chain |-> c],
                        !.mapReaders = IF jobChains.chainOf \in {"none", c} THEN @ ELSE @ \cup {t}])
\* An active session of the job on the chain of the map refuses this one.
CheckOtherChain(t) ==
    /\ JobChainAt(t, "sessions") /\ jobChains.writer = "none"
    /\ LET refused == \E s \in TrSessions : jobChains.active[s] = jobChains.chainOf
       IN JobChainStep([jobChains EXCEPT !.mapReaders = @ \ {t}, !.task[t].pc = IF refused THEN "idle" ELSE "insert"])
InsertJobSession(t) ==
    /\ JobChainAt(t, "insert") /\ jobChains.writer = "none"
    /\ JobChainStep([jobChains EXCEPT !.writer = t, !.active[jobChains.task[t].session] = jobChains.task[t].chain, !.task[t].pc = "map"])
MapJobChain(t) ==
    /\ JobChainAt(t, "map") /\ jobChains.mapReaders = {}
    /\ JobChainStep([jobChains EXCEPT !.chainOf = jobChains.task[t].chain, !.writer = "none", !.task[t].pc = "idle"])
EndJobSession(s) ==
    /\ jobChains.writer = "none" /\ jobChains.active[s] # "none"
    /\ JobChainStep([jobChains EXCEPT !.active[s] = "none"])

JobChainNext ==
    \/ \E s \in TrSessions : EndJobSession(s)
    \/ \E t \in TrTasks :
          \/ CheckOtherChain(t) \/ InsertJobSession(t) \/ MapJobChain(t)
          \/ \E s \in TrSessions, c \in TrChains : CreateJobSession(t, s, c)

-----------------------------------------------------------------------------
(* Authenticator and TokenTracker                                          *)

AuthStep(s) ==
    /\ trPart = "auth" /\ wsAuth' = s
    /\ UNCHANGED <<trPart, frame, payload, wsServer, wsHandler, stream, engines, workers, jobChains, tracker, answers>>

AuthTick == wsAuth.now < MaxTrNow /\ AuthStep([wsAuth EXCEPT !.now = @ + 1, !.granted = FALSE])
JobExpires == wsAuth.job = "ok" /\ AuthStep([wsAuth EXCEPT !.job = "expired"])
\* verify_job_id answers from the cache for cache_ttl, here one tick.
AuthenticateJob ==
    /\ wsAuth.ops < MaxTrOps
    /\ IF wsAuth.verdict # "none" /\ wsAuth.now - wsAuth.at < 1
       THEN AuthStep([wsAuth EXCEPT !.ops = @ + 1])
       ELSE AuthStep([wsAuth EXCEPT !.ops = @ + 1, !.verdict = wsAuth.job, !.at = wsAuth.now])
CreateAuthToken == AuthStep([wsAuth EXCEPT !.expires = wsAuth.now + 1])

TokenLives == wsAuth.expires >= wsAuth.now
\* verify_token, check_permission
VerifyAuthToken == wsAuth.expires # -1 /\ AuthStep([wsAuth EXCEPT !.granted = TokenLives])

TrackerStep(s) ==
    /\ trPart = "tracker" /\ tracker' = s
    /\ UNCHANGED <<trPart, frame, payload, wsServer, wsHandler, stream, engines, workers, jobChains, wsAuth, answers>>

CheckpointDue(n) == n >= TrTokens
TrackJobTokens(n) ==
    /\ tracker.ops < MaxTrOps
    /\ LET tokens == tracker.tokens + n
       IN TrackerStep([tracker EXCEPT !.known = TRUE, !.tokens = tokens, !.ops = @ + 1,
                           !.last = IF CheckpointDue(tokens - tracker.last) THEN tokens ELSE @])
\* cleanup_job: force_checkpoint under the read lock, then the removal.
ForceCheckpoint == tracker.known /\ ~tracker.cleaning /\ TrackerStep([tracker EXCEPT !.cleaning = TRUE])
CleanupJob ==
    /\ tracker.cleaning
    /\ TrackerStep([tracker EXCEPT !.cleaning = FALSE, !.known = FALSE, !.tokens = 0, !.last = 0])

-----------------------------------------------------------------------------
(* InferenceHandler: an answer to a prompt in the conversation so far      *)

AnswerStep(s) ==
    /\ trPart = "answers" /\ answers' = s
    /\ UNCHANGED <<trPart, frame, payload, wsServer, wsHandler, stream, engines, workers, jobChains, wsAuth, tracker>>
AnswerOp(s) == answers.ops < MaxTrOps /\ AnswerStep([s EXCEPT !.ops = @ + 1])
AnswerAt(t, pc) == answers.task[t].pc = pc

\* The handler is made with an engine or without; a model is loaded or not.
EngineChanges == AnswerOp([answers EXCEPT !.loaded = ~@])
HandlerWithoutEngine == answers.engine /\ AnswerOp([answers EXCEPT !.engine = FALSE])

\* The session handler adds the prompt to the conversation.
UserSays(p) == Len(answers.said) < MaxTrOps /\ AnswerOp([answers EXCEPT !.said = Append(@, <<"user", p>>)])

\* Mutant: any message of that text stands for the prompt.
PromptContext_AnyRole(said, p) ==
    IF \E i \in DOMAIN said : said[i][2] = p THEN said ELSE Append(said, <<"user", p>>)

\* The prompt is added to the messages unless the user said it before.
PromptContext(said, p) ==
    IF \E i \in DOMAIN said : said[i] = <<"user", p>> THEN said ELSE Append(said, <<"user", p>>)

\* generate_response: the messages are read, and the engine is asked.
GenerateResponse(t, p) ==
    /\ AnswerAt(t, "idle")
    /\ AnswerOp([answers EXCEPT !.task[t] = [pc |-> "run", prompt |-> p, context |-> PromptContext(answers.said, p)]])

\* generate_response_with_model: only for a model that is loaded.
GenerateWithModel(t, p) == answers.engine /\ answers.loaded /\ GenerateResponse(t, p)

\* Each answer is recorded once, after whatever was said meanwhile; an engine that
\* fails, or that is missing, gives a text of its own.
AnswerSaid(t, text) ==
    /\ AnswerAt(t, "run") /\ Len(answers.said) < MaxTrOps
    /\ AnswerStep([answers EXCEPT !.task[t] = AnswerIdle, !.said = Append(@, <<"assistant", text>>), !.answered = @ + 1])

\* generate_response_with_config, of a valid configuration: a text that depends on the
\* temperature only.
GenerateWithConfig(text) ==
    /\ Len(answers.said) < MaxTrOps
    /\ AnswerOp([answers EXCEPT !.said = Append(@, <<"assistant", text>>), !.answered = @ + 1])

AnswersNext ==
    \/ EngineChanges \/ HandlerWithoutEngine
    \/ \E p \in Texts : UserSays(p) \/ GenerateWithConfig(p)
    \/ \E t \in TrTasks, p \in Texts : GenerateResponse(t, p) \/ GenerateWithModel(t, p) \/ AnswerSaid(t, p)

\* The engine is asked for the prompt in a message of the user, whatever was said with
\* the same words, and every answer given is in the conversation once.
PromptIsAsked ==
    /\ \A t \in TrTasks : AnswerAt(t, "run") =>
          \E i \in DOMAIN answers.task[t].context : answers.task[t].context[i] = <<"user", answers.task[t].prompt>>
    /\ answers.answered = Len(SelectSeq(answers.said, LAMBDA m : m[1] = "assistant"))

-----------------------------------------------------------------------------
TrTypeOK ==
    /\ payload \in PayloadState /\ wsServer \in ServerState /\ wsHandler \in HandlerState /\ stream \in StreamState
    /\ jobChains \in JobChainState /\ wsAuth \in AuthState /\ tracker \in TrackerState

TrNext ==
    \/ FrameNext \/ ServerTransportNext \/ HandlerNext \/ StreamNext \/ AnswersNext \/ WorkersNext \/ JobChainNext \/ ValidatePayload
    \/ \E kind \in EncryptedPayloads, reason \in BOOLEAN :
          \E key \in {-1, 0, 33, 64, 65}, nonce \in {-1, 0, 12, 24}, signature \in {-1, 0, 64, 65} :
             ReceivePayload(kind, key, nonce, signature, reason)
    \/ \E m \in TrModels : TouchEngine(m) \/ LoadEngine(m, TRUE) \/ LoadEngine(m, FALSE)
    \/ EngineLoaded
    \/ AuthTick \/ JobExpires \/ AuthenticateJob \/ CreateAuthToken \/ VerifyAuthToken
    \/ ForceCheckpoint \/ CleanupJob \/ \E n \in 1 .. TrTokens : TrackJobTokens(n)

TrSpec == TrInit /\ [][TrNext]_trVars
=============================================================================
