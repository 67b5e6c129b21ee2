------------------------- MODULE WebSocketSession -------------------------
(***************************************************************************)
(* A WebSocket connection (handle_websocket in api/server.rs), the session *)
(* store and the key store it shares with the other connections, and the   *)
(* tasks a prompt starts: the engine's generation loop, which holds the    *)
(* models mutex, and the producer task, which counts each token and passes *)
(* it on.  A session's cancel flag is an Arc: replacing the session in the *)
(* store makes a new flag, and running inferences keep the old one.        *)
(***************************************************************************)
EXTENDS Integers, Sequences, FiniteSets

CONSTANTS Conns,        \* connections
          Sessions,     \* session ids clients use
          MaxSessions,  \* SessionStoreConfig.max_sessions
          MaxGen,       \* bound on how often a session is created
          MaxRequests,  \* bound on the number of prompts
          MaxTokens,    \* request.max_tokens
          TokenChannel  \* capacity of the engine's token channel (4096)

NoSession == "none"
NoFlag == <<>>

ASSUME WsAssumption ==
    /\ MaxSessions \in Nat /\ MaxGen \in Nat /\ MaxRequests \in Nat
    /\ MaxTokens \in Nat \ {0} /\ TokenChannel \in Nat \ {0}
    /\ NoSession \notin Sessions

VARIABLES
    conn,    \* conn[c]: the locals of handle_websocket
    stored,  \* stored[s]: how often session s was created; 0: not in the store
    raised,  \* the cancel flags that are true
    keys,    \* sessions whose key is in the session_key_store
    reqs     \* the prompts accepted so far, with the state of their two tasks

wsVars == <<conn, stored, raised, keys, reqs>>

FlagId == Sessions \X (1 .. MaxGen)
Requests == 1 .. Len(reqs)
Ended == {"stop", "length", "cancelled", "failed"}

\* get_session(sid): the flag and token of the session the store holds now.
StoredFlag(s) ==
    IF s \in Sessions /\ stored[s] > 0 THEN <<s, stored[s]>> ELSE NoFlag

StoreFull == Cardinality({s \in Sessions : stored[s] > 0}) >= MaxSessions

Rx(r) == conn[reqs[r].conn].pc = "streaming" /\ conn[reqs[r].conn].req = r

Connect(c) ==
    /\ conn[c].pc = "new"
    /\ conn' = [conn EXCEPT ![c].pc = "open"]
    /\ UNCHANGED <<stored, raised, keys, reqs>>

\* session_init: create_session_with_chain replaces an existing session, and
\* fails when the store is full; the connection uses the id either way.
SessionInit(c, s) ==
    /\ conn[c].pc = "open"
    /\ conn' = [conn EXCEPT ![c].sid = s]
    /\ IF StoreFull
       THEN stored' = stored
       ELSE stored[s] < MaxGen /\ stored' = [stored EXCEPT ![s] = @ + 1]
    /\ UNCHANGED <<raised, keys, reqs>>

\* encrypted_session_init with a payload the node can decrypt: the key is kept
\* and the session is created unless it exists.
EncryptedSessionInit(c, s) ==
    /\ conn[c].pc = "open"
    /\ conn' = [conn EXCEPT ![c].sid = s]
    /\ keys' = keys \cup {s}
    /\ stored' = IF stored[s] > 0 \/ StoreFull \/ MaxGen = 0
                 THEN stored ELSE [stored EXCEPT ![s] = 1]
    /\ UNCHANGED <<raised, reqs>>

\* encrypted_session_init without a key, with missing or malformed fields, or
\* that does not decrypt: an error is sent, but the id is already taken over.
EncryptedInitRefused(c, s) ==
    /\ conn[c].pc = "open"
    /\ conn' = [conn EXCEPT ![c].sid = s]
    /\ UNCHANGED <<stored, raised, keys, reqs>>

\* stream_cancel while the connection reads messages between prompts.
Raise(f) ==
    /\ raised' = IF f = NoFlag THEN raised ELSE raised \cup {f}

Hit(f) == [r \in Requests |-> [reqs[r] EXCEPT
              !.hit = @ \/ (f # NoFlag /\ reqs[r].flag = f /\ reqs[r].eng \notin Ended)]]

StreamCancel(c, s) ==
    /\ conn[c].pc = "open"
    /\ Raise(StoredFlag(s))
    /\ reqs' = Hit(StoredFlag(s))
    /\ UNCHANGED <<conn, stored, keys>>

NewRequest(c, f, enc) ==
    [conn |-> c, flag |-> f, enc |-> enc, sent |-> 0, eng |-> "waiting", made |-> 0, inq |-> 0,
     prod |-> "recv", fin |-> FALSE, ends |-> 0, asked |-> FALSE, over |-> 0, hit |-> FALSE]

\* Mutant: the flag is handed on without being reset.
StartRequest_NoReset(c, f, enc) ==
    /\ Len(reqs) < MaxRequests
    /\ raised' = raised
    /\ reqs' = Append(reqs, NewRequest(c, f, enc))
    /\ conn' = [conn EXCEPT ![c].pc = "starting", ![c].req = Len(reqs) + 1]

\* The cancel flag of the session is reset and given to the new inference.
StartRequest(c, f, enc) ==
    /\ Len(reqs) < MaxRequests
    /\ raised' = raised \ {f}
    /\ reqs' = Append(reqs, NewRequest(c, f, enc))
    /\ conn' = [conn EXCEPT ![c].pc = "starting", ![c].req = Len(reqs) + 1]

\* prompt / inference: the session of the connection.
Prompt(c) ==
    /\ conn[c].pc = "open"
    /\ StartRequest(c, StoredFlag(conn[c].sid), FALSE)
    /\ UNCHANGED <<stored, keys>>

EncryptedStart(c, f) == StartRequest(c, f, TRUE)

\* encrypted_message: any session whose key is stored, whoever initialised it.
\* (Image generation and refused payloads answer without touching this state.)
EncryptedPrompt(c, s) ==
    /\ conn[c].pc = "open"
    /\ s \in keys
    /\ EncryptedStart(c, StoredFlag(s))
    /\ UNCHANGED <<stored, keys>>

Refused(r) ==
    [reqs EXCEPT ![r].eng = "failed", ![r].prod = "done", ![r].ends = @ + 1]

\* handle_streaming_request returns an error: error and stream_end are sent.
StreamRefused(c) ==
    /\ conn[c].pc = "starting" /\ ~reqs[conn[c].req].enc
    /\ conn' = [conn EXCEPT ![c].pc = "open"]
    /\ reqs' = Refused(conn[c].req)
    /\ UNCHANGED <<stored, raised, keys>>

\* The same for an encrypted prompt; a prompt beyond the context window has a code of its own.
EncryptedStreamRefused(c) ==
    /\ conn[c].pc = "starting" /\ reqs[conn[c].req].enc
    /\ conn' = [conn EXCEPT ![c].pc = "open"]
    /\ reqs' = Refused(conn[c].req)
    /\ UNCHANGED <<stored, raised, keys>>

EngineFree == \A r \in Requests : reqs[r].eng # "running"

\* run_inference_stream takes the models mutex to see that the model is loaded,
\* so the handler waits for the inference that holds it.
StreamAccepted(c) ==
    /\ conn[c].pc = "starting"
    /\ EngineFree
    /\ conn' = [conn EXCEPT ![c].pc = "streaming"]
    /\ reqs' = [reqs EXCEPT ![conn[c].req].eng = "queued"]
    /\ UNCHANGED <<stored, raised, keys>>

-----------------------------------------------------------------------------
(* run_inference on a blocking thread *)

EngineLock(r) ==
    /\ reqs[r].eng = "queued"
    /\ EngineFree
    /\ reqs' = [reqs EXCEPT ![r].eng = "running"]
    /\ UNCHANGED <<conn, stored, raised, keys>>

\* Tokenizing, the context window or decoding fails.  The result is discarded by
\* the spawned task: the producer only sees that no more tokens come.
EngineFails(r) ==
    /\ reqs[r].eng = "running"
    /\ reqs' = [reqs EXCEPT ![r].eng = "failed"]
    /\ UNCHANGED <<conn, stored, raised, keys>>

\* The flag is polled once per token.
Polled(r) == reqs[r].flag \in raised

\* One round of the generation loop.  try_send drops the token when the channel
\* is full, when the producer is gone, or when it is not valid UTF-8.
EngineToken(r, kept) ==
    /\ reqs[r].eng = "running" /\ reqs[r].made < MaxTokens
    /\ ~Polled(r)
    /\ kept => reqs[r].inq < TokenChannel /\ reqs[r].prod \in {"recv", "send"}
    /\ reqs' = [reqs EXCEPT ![r].made = @ + 1,
                            ![r].inq = IF kept THEN @ + 1 ELSE @,
                            ![r].over = IF reqs[r].asked /\ @ < 2 THEN @ + 1 ELSE @]
    /\ UNCHANGED <<conn, stored, raised, keys>>

\* The loop ends: cancelled, end-of-sequence or stop token, or max_tokens.
EngineEnds(r) ==
    /\ reqs[r].eng = "running"
    /\ \E reason \in {"cancelled", "stop", "length"} :
         /\ reason = "length" <=> reqs[r].made = MaxTokens
         /\ reason = "cancelled" <=> (reqs[r].made < MaxTokens /\ Polled(r))
         /\ reqs' = [reqs EXCEPT ![r].eng = reason]
    /\ UNCHANGED <<conn, stored, raised, keys>>

-----------------------------------------------------------------------------
(* The producer task of handle_streaming_request *)

\* A token is received and counted, or skipped because its text is empty.
ProducerRecv(r, counted) ==
    /\ reqs[r].prod = "recv" /\ reqs[r].inq > 0
    /\ reqs' = [reqs EXCEPT ![r].inq = @ - 1,
                            ![r].prod = IF counted THEN "send" ELSE "recv"]
    /\ UNCHANGED <<conn, stored, raised, keys>>

\* The channel is closed and empty: finalize, force a checkpoint, buffer the
\* assistant message.
ProducerEnds(r) ==
    /\ reqs[r].prod = "recv" /\ reqs[r].inq = 0 /\ reqs[r].eng \in Ended
    /\ reqs' = [reqs EXCEPT ![r].prod = "final"]
    /\ UNCHANGED <<conn, stored, raised, keys>>

\* The connection encrypts the chunk, authenticated with its index, and sends it.
EncryptedChunk(q) == [q EXCEPT !.sent = @ + 1]

\* A plain chunk is sent as it is.
StreamChunk(q) == [q EXCEPT !.sent = @ + 1]

\* The chunk goes to the connection, which passes it to the client.
ProducerSend(r) ==
    LET q == [reqs[r] EXCEPT !.prod = "recv"] IN
    /\ Rx(r) /\ reqs[r].prod = "send"
    /\ reqs' = [reqs EXCEPT ![r] = IF q.enc THEN EncryptedChunk(q) ELSE StreamChunk(q)]
    /\ UNCHANGED <<conn, stored, raised, keys>>

\* The receiver was dropped: the producer stops reading tokens.
ProducerAbandoned(r) ==
    /\ ~Rx(r) /\ reqs[r].prod = "send"
    /\ reqs' = [reqs EXCEPT ![r].prod = "final", ![r].inq = 0]
    /\ UNCHANGED <<conn, stored, raised, keys>>

\* The final response, with finish_reason "stop".
ProducerFinal(r) ==
    /\ reqs[r].prod = "final"
    /\ reqs' = [reqs EXCEPT ![r].prod = "done", ![r].fin = Rx(r)]
    /\ UNCHANGED <<conn, stored, raised, keys>>

-----------------------------------------------------------------------------
(* The select loop of a connection that streams a response *)

\* Mutant: the loop goes on after the response with a finish_reason.
AfterFinish_Continue(c) == [conn EXCEPT ![c].pc = "streaming"]
AfterFinish(c) == [conn EXCEPT ![c].pc = "open"]

EndOf(c, r) ==
    /\ conn' = AfterFinish(c)
    /\ reqs' = [reqs EXCEPT ![r].ends = @ + 1]
    /\ UNCHANGED <<stored, raised, keys>>

\* The response with a finish_reason: stream_end is sent and the loop left.
StreamEnd(c) ==
    conn[c].pc = "streaming" /\ reqs[conn[c].req].fin /\ ~reqs[conn[c].req].enc /\ EndOf(c, conn[c].req)

\* An encrypted stream ends with an encrypted_response and a stream_end.
EncryptedStreamEnd(c) ==
    conn[c].pc = "streaming" /\ reqs[conn[c].req].fin /\ reqs[conn[c].req].enc /\ EndOf(c, conn[c].req)

CancelOf(c, r) ==
    /\ Raise(reqs[r].flag)
    /\ reqs' = [Hit(reqs[r].flag) EXCEPT ![r].ends = @ + 1,
                  ![r].asked = reqs[r].flag # NoFlag]
    /\ conn' = [conn EXCEPT ![c].pc = "open"]
    /\ UNCHANGED <<stored, keys>>

\* stream_cancel in mid-stream: raise the flag, send stream_end, drop the receiver.
CancelStream(c) ==
    conn[c].pc = "streaming" /\ ~reqs[conn[c].req].enc /\ CancelOf(c, conn[c].req)

\* The same in the stream of an encrypted prompt.
CancelEncryptedStream(c) ==
    conn[c].pc = "streaming" /\ reqs[conn[c].req].enc /\ CancelOf(c, conn[c].req)

\* Close, an error, or a message that cannot be sent: the receiver is dropped and
\* the connection's loop ends.
Hangup(c) ==
    /\ conn[c].pc \in {"open", "streaming"}
    /\ conn' = [conn EXCEPT ![c].pc = "closing"]
    /\ UNCHANGED <<stored, raised, keys, reqs>>

\* After the loop.  (VectorLoading models the cancellation of the session's token
\* and SessionRecovery the settlement that follow.)
Disconnected(c) ==
    /\ conn[c].pc = "closing"
    /\ conn' = [conn EXCEPT ![c].pc = "gone"]
    /\ UNCHANGED <<stored, raised, keys, reqs>>

-----------------------------------------------------------------------------
WsInit ==
    /\ conn = [c \in Conns |-> [pc |-> "new", sid |-> NoSession, req |-> 0]]
    /\ stored = [s \in Sessions |-> 0]
    /\ raised = {} /\ keys = {}
    /\ reqs = <<>>

ClientStep(c) ==
    \/ Connect(c)
    \/ \E s \in Sessions :
         \/ SessionInit(c, s) \/ EncryptedSessionInit(c, s)
         \/ EncryptedInitRefused(c, s)
         \/ StreamCancel(c, s)
         \/ EncryptedPrompt(c, s)
    \/ Prompt(c)
    \/ CancelStream(c) \/ CancelEncryptedStream(c)
    \/ Hangup(c)

HandlerStep(c) ==
    StreamRefused(c) \/ EncryptedStreamRefused(c) \/ StreamAccepted(c) \/ StreamEnd(c) \/ EncryptedStreamEnd(c)
    \/ Disconnected(c)

EngineStep(r) ==
    \/ EngineLock(r) \/ EngineFails(r) \/ EngineEnds(r)
    \/ \E kept \in BOOLEAN : EngineToken(r, kept)

ProducerStep(r) ==
    \/ ProducerEnds(r) \/ ProducerSend(r) \/ ProducerAbandoned(r) \/ ProducerFinal(r)
    \/ \E counted \in BOOLEAN : ProducerRecv(r, counted)

WsNext ==
    \/ \E c \in Conns : ClientStep(c) \/ HandlerStep(c)
    \/ \E r \in Requests : EngineStep(r) \/ ProducerStep(r)

WsSpec == WsInit /\ [][WsNext]_wsVars

-----------------------------------------------------------------------------
\* A prompt answered on a connection that is still open has got exactly one
\* stream_end, whichever of refusal, completion and cancellation came first
\* (server.rs 2548-2553, 2697-2719, 3143-3146, 3184-3212).
OneStreamEnd ==
    \A r \in Requests : LET c == reqs[r].conn IN
        /\ reqs[r].ends <= 1
        /\ (conn[c].pc = "open" \/ (conn[c].pc # "gone" /\ conn[c].req > r)) => reqs[r].ends = 1
        /\ (conn[c].pc \in {"starting", "streaming"} /\ conn[c].req = r) => reqs[r].ends = 0

\* A stream_cancel that arrives after its stream has ended does not stop a later
\* prompt: a cancelled inference had its own flag raised while it was under way
\* (server.rs 2504, 3105).
LateCancelIsHarmless ==
    \A r \in Requests : reqs[r].eng = "cancelled" => reqs[r].hit

\* What the SDK guide says of stream_cancel: generation stops between tokens, so
\* at most the token being decoded is still generated.
CancelStopsGeneration == \A r \in Requests : reqs[r].over <= 1
=============================================================================
