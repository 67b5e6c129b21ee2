------------------------- MODULE CheckpointPublisher -------------------------
(***************************************************************************)
(* Publication of conversation checkpoints to S5, so that a client can     *)
(* recover a session: src/checkpoint/publisher.rs and index.rs.            *)
(*                                                                         *)
(* Messages of a session are buffered in memory.  publish_checkpoint puts  *)
(* them into a delta, uploads it, appends an entry to the session's index  *)
(* and uploads the index, holding the write lock of the session map all    *)
(* the way.  Memory is lost when the node restarts; S5 is not.  Nothing    *)
(* calls init_session, remove_session or update_streaming_response, so a   *)
(* restarted node starts every session afresh and no delta holds a partial *)
(* response.                                                               *)
(***************************************************************************)
EXTENDS Integers, Sequences, SequencesExt

CONSTANTS
    Sessions,
    Proofs,           \* what a checkpoint is published for: proof hash, token range
    NoSession,
    MAX_S5_RETRIES,
    MaxMessages,      \* bound on the messages of a session
    MaxEntries,       \* bound on the entries of a session's index
    MaxCrashes        \* bound on restarts of the node

ASSUME PublisherAssumption ==
    /\ NoSession \notin Sessions
    /\ MAX_S5_RETRIES \in Nat \ {0}
    /\ MaxMessages \in Nat
    /\ MaxEntries \in Nat
    /\ MaxCrashes \in Nat

VARIABLES
    state,      \* sessions: SessionCheckpointState by session, in memory
    call,       \* the publish_checkpoint that holds the lock, if any
    s5_delta,   \* deltas in S5: what has been stored at each session's paths
    s5_index,   \* index.json of each session in S5, <<>> if there is none
    said,       \* messages of each session so far; message n is the n-th (history)
    base,       \* messages of each session before the last restart (history)
    published,  \* entries whose publish_checkpoint returned Ok (history)
    crashes     \* restarts so far (history)

pubVars == <<state, call, s5_delta, s5_index, said, base, published, crashes>>

\* A recovery key is absent, usable or malformed (encryption then fails).
RecoveryKeys == {"none", "valid", "invalid"}

NewState ==
    [checkpoint_index |-> 0, message_buffer |-> <<>>, index |-> <<>>,
     recovery_public_key |-> "none"]

IdleCall ==
    [session_id |-> NoSession, stage |-> "idle", attempt |-> 0, entry |-> <<>>]

Locked == call.session_id # NoSession

\* entry(session_id).or_insert_with(SessionCheckpointState::new)
Entry(s) == IF s \in DOMAIN state THEN state[s] ELSE NewState
SetState(s, r) == [x \in DOMAIN state \cup {s} |-> IF x = s THEN r ELSE state[x]]

\* track_conversation_message: the next message of the conversation is buffered.
BufferMessage(s) ==
    /\ ~Locked
    /\ said[s] < MaxMessages
    /\ said' = [said EXCEPT ![s] = @ + 1]
    /\ state' = SetState(s, [Entry(s) EXCEPT !.message_buffer = Append(@, said'[s])])
    /\ UNCHANGED <<call, s5_delta, s5_index, base, published, crashes>>

SetRecoveryPublicKey(s, key) ==
    /\ ~Locked
    /\ state' = SetState(s, [Entry(s) EXCEPT !.recovery_public_key = key])
    /\ UNCHANGED <<call, s5_delta, s5_index, said, base, published, crashes>>

-----------------------------------------------------------------------------
(* publish_checkpoint *)

\* The delta of a checkpoint, with its index entry: the entry's delta_cid is the
\* hash of the content, here the content itself.
MakeEntry(r, proof) ==
    [index |-> r.checkpoint_index, messages |-> r.message_buffer, proof |-> proof,
     encrypted |-> r.recovery_public_key = "valid"]

\* Take the lock, snapshot the buffer, sign and encrypt.
PublishBegin(s, proof) ==
    /\ ~Locked
    /\ Len(Entry(s).index) < MaxEntries
    /\ Entry(s).recovery_public_key # "invalid"
    /\ state' = SetState(s, Entry(s))
    /\ call' = [session_id |-> s, stage |-> "delta", attempt |-> 0,
                entry |-> MakeEntry(Entry(s), proof)]
    /\ UNCHANGED <<s5_delta, s5_index, said, base, published, crashes>>

\* Encryption fails: publish_checkpoint returns Err before any upload.
PublishRefused(s) ==
    /\ ~Locked
    /\ Entry(s).recovery_public_key = "invalid"
    /\ state' = SetState(s, Entry(s))
    /\ UNCHANGED <<call, s5_delta, s5_index, said, base, published, crashes>>

\* Mutants: one attempt too many, or attempts that never end.
RetryUpload_OneMore ==
    /\ call.attempt < MAX_S5_RETRIES
    /\ call' = [call EXCEPT !.attempt = @ + 1]
RetryUpload_Forever == call' = [call EXCEPT !.attempt = (@ + 1) % MAX_S5_RETRIES]

\* One failed attempt of upload_with_retry, after which another one follows.
RetryUpload ==
    /\ call.attempt + 1 < MAX_S5_RETRIES
    /\ call' = [call EXCEPT !.attempt = @ + 1]

\* The last attempt failed: publish_checkpoint returns Err and drops the lock.
LastUpload ==
    /\ call.attempt + 1 = MAX_S5_RETRIES
    /\ call' = IdleCall

\* Mutant: the buffer is cleared once the delta is stored.
DeltaStored_ClearsBuffer ==
    /\ call.stage = "delta"
    /\ s5_delta' = [s5_delta EXCEPT ![call.session_id] = @ \cup {call.entry}]
    /\ state' = [state EXCEPT ![call.session_id].index = Append(@, call.entry),
                              ![call.session_id].message_buffer = <<>>]
    /\ call' = [call EXCEPT !.stage = "index", !.attempt = 0]
    /\ UNCHANGED <<s5_index, said, base, published, crashes>>

\* The delta is uploaded and the entry goes into the in-memory index.
DeltaStored ==
    /\ call.stage = "delta"
    /\ s5_delta' = [s5_delta EXCEPT ![call.session_id] = @ \cup {call.entry}]
    /\ state' = [state EXCEPT ![call.session_id].index = Append(@, call.entry)]
    /\ call' = [call EXCEPT !.stage = "index", !.attempt = 0]
    /\ UNCHANGED <<s5_index, said, base, published, crashes>>

\* A delta that S5 kept although the attempt failed is referenced by nothing.
DeltaAttemptFails ==
    /\ call.stage = "delta"
    /\ RetryUpload
    /\ UNCHANGED <<state, s5_delta, s5_index, said, base, published, crashes>>

\* Mutant: a failed delta upload is only logged, and the index is updated.
DeltaUploadFails_Ignored ==
    /\ call.stage = "delta"
    /\ call.attempt + 1 = MAX_S5_RETRIES
    /\ state' = [state EXCEPT ![call.session_id].index = Append(@, call.entry)]
    /\ call' = [call EXCEPT !.stage = "index", !.attempt = 0]
    /\ UNCHANGED <<s5_delta, s5_index, said, base, published, crashes>>

DeltaUploadFails ==
    /\ call.stage = "delta"
    /\ LastUpload
    /\ UNCHANGED <<state, s5_delta, s5_index, said, base, published, crashes>>

StoreIndex == [s5_index EXCEPT ![call.session_id] = state[call.session_id].index]

\* Mutant: the buffer is not cleared.
NextCheckpoint_KeepsBuffer(r) == [r EXCEPT !.checkpoint_index = @ + 1]

\* The state after a published checkpoint.
NextCheckpoint(r) ==
    [r EXCEPT !.message_buffer = <<>>, !.checkpoint_index = @ + 1]

\* The index is uploaded: publish_checkpoint returns Ok.
IndexStored ==
    /\ call.stage = "index"
    /\ s5_index' = StoreIndex
    /\ state' = [state EXCEPT ![call.session_id] = NextCheckpoint(@)]
    /\ published' = [published EXCEPT ![call.session_id] =
                        @ \cup {[entry |-> call.entry, life |-> crashes]}]
    /\ call' = IdleCall
    /\ UNCHANGED <<s5_delta, said, base, crashes>>

\* An attempt fails; S5 may or may not have kept the index.
IndexAttemptFails ==
    /\ call.stage = "index"
    /\ s5_index' \in {s5_index, StoreIndex}
    /\ RetryUpload
    /\ UNCHANGED <<state, s5_delta, said, base, published, crashes>>

\* Mutant: a failed index upload is only logged, and the call returns Ok.
IndexUploadFails_Ignored ==
    /\ call.stage = "index"
    /\ LastUpload
    /\ published' = [published EXCEPT ![call.session_id] =
                        @ \cup {[entry |-> call.entry, life |-> crashes]}]
    /\ UNCHANGED <<state, s5_delta, s5_index, said, base, crashes>>

IndexUploadFails ==
    /\ call.stage = "index"
    /\ s5_index' \in {s5_index, StoreIndex}
    /\ LastUpload
    /\ UNCHANGED <<state, s5_delta, said, base, published, crashes>>

-----------------------------------------------------------------------------
\* The node restarts: the session map is empty and the call is gone.
Crash ==
    /\ crashes < MaxCrashes
    /\ crashes' = crashes + 1
    /\ state' = [s \in {} |-> NewState]
    /\ call' = IdleCall
    /\ base' = said
    /\ UNCHANGED <<s5_delta, s5_index, said, published>>

PubInit ==
    /\ state = [s \in {} |-> NewState]
    /\ call = IdleCall
    /\ s5_delta = [s \in Sessions |-> {}]
    /\ s5_index = [s \in Sessions |-> <<>>]
    /\ said = [s \in Sessions |-> 0]
    /\ base = [s \in Sessions |-> 0]
    /\ published = [s \in Sessions |-> {}]
    /\ crashes = 0

UploadStep ==
    \/ DeltaStored \/ DeltaAttemptFails \/ DeltaUploadFails
    \/ IndexStored \/ IndexAttemptFails \/ IndexUploadFails

PubNext ==
    \/ \E s \in Sessions :
          \/ BufferMessage(s)
          \/ \E key \in RecoveryKeys \ {"none"} : SetRecoveryPublicKey(s, key)
          \/ \E proof \in Proofs : PublishBegin(s, proof)
          \/ PublishRefused(s)
    \/ UploadStep
    \/ Crash

\* S5 answers or the HTTP client times out, so an upload attempt ends.
PubSpec == PubInit /\ [][PubNext]_pubVars /\ WF_pubVars(UploadStep)

-----------------------------------------------------------------------------
(* Properties *)

Entries ==
    [index : Nat, messages : Seq(Nat), proof : Proofs, encrypted : BOOLEAN]

PublisherTypeOK ==
    /\ DOMAIN state \subseteq Sessions
    /\ state \in [DOMAIN state ->
                    [checkpoint_index : Nat, message_buffer : Seq(Nat),
                     index : Seq(Entries), recovery_public_key : RecoveryKeys]]
    /\ \/ call = IdleCall
       \/ call \in [session_id : DOMAIN state, stage : {"delta", "index"},
                    attempt : 0 .. MAX_S5_RETRIES - 1, entry : Entries]
    /\ s5_delta \in [Sessions -> SUBSET Entries]
    /\ s5_index \in [Sessions -> Seq(Entries)]
    /\ said \in [Sessions -> Nat]
    /\ base \in [Sessions -> Nat]
    /\ published \in [Sessions -> SUBSET [entry : Entries, life : Nat]]
    /\ crashes \in Nat

\* What the index in S5 names can be fetched: uploads fail, are retried and are
\* cut short by restarts, and no entry ever precedes its delta.
IndexedDeltaIsStored ==
    \A s \in Sessions : ToSet(s5_index[s]) \subseteq s5_delta[s]

\* publish_checkpoint returned Ok, so the proof may go to the chain: until the
\* node restarts, the client finds the checkpoint in the index.
PublishedIsIndexed ==
    \A s \in Sessions : \A p \in published[s] :
        p.life = crashes => p.entry \in ToSet(s5_index[s])

\* Every message buffered since the node started is still in memory or can be
\* recovered from S5, whichever uploads failed: a failed publish keeps the buffer.
NoMessageLost ==
    \A s \in DOMAIN state : \A m \in base[s] + 1 .. said[s] :
        \/ m \in ToSet(state[s].message_buffer)
        \/ \E e \in ToSet(s5_index[s]) : m \in ToSet(e.messages)

\* A client concatenates the messages of every entry of the index (docs/API.md:3011).
\* An index upload that failed leaves its entry in the in-memory index, the next
\* checkpoint takes the same number, and both are uploaded: what the client reads
\* may go back, which docs/API.md:3091 counts among the errors, but it never skips a
\* message, and only entries with one number repeat any.
Recovered(idx) == FlattenSeq([i \in 1 .. Len(idx) |-> idx[i].messages])

RecoveryIsContiguous ==
    \A s \in Sessions :
        LET idx == s5_index[s]
            r   == Recovered(idx)
        IN  /\ \A i \in 2 .. Len(r) : r[i] <= r[i - 1] + 1
            /\ \A i, j \in 1 .. Len(idx) : idx[i].index # idx[j].index =>
                  ToSet(idx[i].messages) \cap ToSet(idx[j].messages) = {}

\* publish_checkpoint gives the lock back, whatever S5 does: other sessions'
\* messages and checkpoints wait for it.
LockIsReleased == Locked ~> ~Locked
=============================================================================
