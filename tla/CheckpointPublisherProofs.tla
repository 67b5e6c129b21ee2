---------------------- MODULE CheckpointPublisherProofs ----------------------
(***************************************************************************)
(* Theorems about CheckpointPublisher, for any sessions, any number of     *)
(* messages, upload attempts and restarts.                                 *)
(***************************************************************************)
EXTENDS CheckpointPublisher, FiniteSums, TLAPS

-----------------------------------------------------------------------------
(* Sequences and the session map *)

\* What a pushed entry adds to an index.
LEMMA AppendedSet ==
    ASSUME NEW S, NEW q \in Seq(S), NEW e \in S
    PROVE  /\ Append(q, e) \in Seq(S)
           /\ ToSet(Append(q, e)) = ToSet(q) \cup {e}
<1>1. Append(q, e) \in Seq(S) /\ Len(Append(q, e)) = Len(q) + 1  OBVIOUS
<1>2. \A i \in 1 .. Len(q) : Append(q, e)[i] = q[i]  OBVIOUS
<1>3. Append(q, e)[Len(q) + 1] = e  OBVIOUS
<1>4. DOMAIN q = 1 .. Len(q) /\ DOMAIN Append(q, e) = 1 .. Len(q) + 1 /\ Len(q) \in Nat  OBVIOUS
<1>5. 1 .. Len(q) + 1 = (1 .. Len(q)) \cup {Len(q) + 1}  BY <1>4
<1> QED BY <1>1, <1>2, <1>3, <1>4, <1>5 DEF ToSet

\* A new session has nothing buffered and nothing in its index.
LEMMA EmptySet == ToSet(<<>>) = {}  BY DEF ToSet

SessionRecord ==
    [checkpoint_index : Nat, message_buffer : Seq(Nat), index : Seq(Entries),
     recovery_public_key : RecoveryKeys]

\* The state that or_insert_with finds or makes, and what inserting it does.
LEMMA EntryFacts ==
    ASSUME PublisherTypeOK, NEW s \in Sessions
    PROVE  /\ NewState \in SessionRecord
           /\ Entry(s) \in SessionRecord
           /\ \A r \in SessionRecord :
                 /\ DOMAIN SetState(s, r) = DOMAIN state \cup {s}
                 /\ SetState(s, r) \in [DOMAIN state \cup {s} -> SessionRecord]
                 /\ SetState(s, r)[s] = r
                 /\ \A z \in DOMAIN state \ {s} : SetState(s, r)[z] = state[z]
<1>1. NewState \in SessionRecord  BY DEF NewState, SessionRecord, RecoveryKeys
<1>2. \A z \in DOMAIN state : state[z] \in SessionRecord  BY DEF PublisherTypeOK, SessionRecord
<1>3. Entry(s) \in SessionRecord  BY <1>1, <1>2 DEF Entry
<1> QED BY <1>1, <1>2, <1>3 DEF SetState
\* What each assignment to a session's state writes, and what it leaves alone.
LEMMA SessionUpdates ==
    ASSUME NEW r \in SessionRecord
    PROVE  /\ r.index \in Seq(Entries) /\ r.message_buffer \in Seq(Nat)
           /\ \A v \in Seq(Nat) :
                 LET w == [r EXCEPT !.message_buffer = v]
                 IN  w \in SessionRecord /\ w.message_buffer = v /\ w.index = r.index
           /\ \A key \in RecoveryKeys :
                 LET w == [r EXCEPT !.recovery_public_key = key]
                 IN  /\ w \in SessionRecord
                     /\ w.message_buffer = r.message_buffer /\ w.index = r.index
           /\ \A v \in Seq(Entries) :
                 LET w == [r EXCEPT !.index = v]
                 IN  /\ w \in SessionRecord
                     /\ w.message_buffer = r.message_buffer /\ w.index = v
           /\ NextCheckpoint(r) \in SessionRecord
           /\ NextCheckpoint(r).message_buffer = <<>> /\ NextCheckpoint(r).index = r.index
<1>1. r.index \in Seq(Entries) /\ r.message_buffer \in Seq(Nat) /\ r.checkpoint_index + 1 \in Nat  BY DEF SessionRecord
<1>2. ASSUME NEW v \in Seq(Nat)
      PROVE  LET w == [r EXCEPT !.message_buffer = v]
             IN  w \in SessionRecord /\ w.message_buffer = v /\ w.index = r.index  BY DEF SessionRecord
<1>3. ASSUME NEW key \in RecoveryKeys
      PROVE  LET w == [r EXCEPT !.recovery_public_key = key]
             IN  /\ w \in SessionRecord
                 /\ w.message_buffer = r.message_buffer /\ w.index = r.index
  BY DEF SessionRecord
<1>4. ASSUME NEW v \in Seq(Entries)
      PROVE  LET w == [r EXCEPT !.index = v]
             IN  /\ w \in SessionRecord
                 /\ w.message_buffer = r.message_buffer /\ w.index = v
  BY DEF SessionRecord
<1>5. /\ NextCheckpoint(r) \in SessionRecord
      /\ NextCheckpoint(r).message_buffer = <<>> /\ NextCheckpoint(r).index = r.index
  <2>1. ASSUME NEW v \in Seq(Nat), NEW n \in Nat
        PROVE  LET w == [r EXCEPT !.message_buffer = v, !.checkpoint_index = n]
               IN  w \in SessionRecord /\ w.message_buffer = v /\ w.index = r.index  BY DEF SessionRecord
  <2>2. <<>> \in Seq(Nat)  OBVIOUS
  <2> QED BY <1>1, <2>1, <2>2 DEF NextCheckpoint
<1> QED BY <1>1, <1>2, <1>3, <1>4, <1>5

-----------------------------------------------------------------------------
(* Types *)

CallRecord(D) ==
    [session_id : D, stage : {"delta", "index"}, attempt : 0 .. MAX_S5_RETRIES - 1,
     entry : Entries]

\* The stage and the attempt of a call change within their types.
LEMMA CallUpdates ==
    ASSUME NEW D, NEW c \in CallRecord(D), NEW a \in 0 .. MAX_S5_RETRIES - 1
    PROVE  /\ c.attempt \in 0 .. MAX_S5_RETRIES - 1
           /\ LET w == [c EXCEPT !.attempt = a]
              IN  /\ w \in CallRecord(D) /\ w.stage = c.stage
                  /\ w.session_id = c.session_id /\ w.entry = c.entry
           /\ LET w == [c EXCEPT !.stage = "index", !.attempt = a]
              IN  /\ w \in CallRecord(D) /\ w.stage = "index"
                  /\ w.session_id = c.session_id /\ w.entry = c.entry
  BY DEF CallRecord

\* A call in progress has a session of the map and an attempt that may be retried.
LEMMA CallFacts ==
    ASSUME PublisherTypeOK, call.stage \in {"delta", "index"}
    PROVE  /\ call \in CallRecord(DOMAIN state)
           /\ call.session_id \in DOMAIN state /\ call.session_id \in Sessions
           /\ call.entry \in Entries
           /\ state[call.session_id] \in SessionRecord
           /\ Locked
<1>1. call # IdleCall  BY DEF IdleCall
<1>2. call \in CallRecord(DOMAIN state)  BY <1>1 DEF PublisherTypeOK, CallRecord
<1>3. call.session_id \in DOMAIN state /\ call.session_id \in Sessions /\ call.entry \in Entries
  BY <1>2 DEF PublisherTypeOK, CallRecord
<1>4. state[call.session_id] \in SessionRecord  BY <1>3 DEF PublisherTypeOK, SessionRecord
<1> QED BY <1>2, <1>3, <1>4, PublisherAssumption DEF Locked

\* The first checkpoint call, buffering and the recovery key insert a well-typed state.
LEMMA InsertType ==
    ASSUME PublisherTypeOK, NEW s \in Sessions, NEW r \in SessionRecord,
           state' = SetState(s, r)
    PROVE  /\ DOMAIN state' = DOMAIN state \cup {s}
           /\ DOMAIN state' \subseteq Sessions
           /\ state' \in [DOMAIN state' -> SessionRecord]
<1>1. DOMAIN state \cup {s} \subseteq Sessions  BY DEF PublisherTypeOK
<1> QED BY <1>1, EntryFacts

\* An attempt fails and another follows, or it was the last.
LEMMA AttemptType ==
    ASSUME PublisherTypeOK, call.stage \in {"delta", "index"}, RetryUpload \/ LastUpload
    PROVE  call' = IdleCall \/ call' \in CallRecord(DOMAIN state)
<1>1. call \in CallRecord(DOMAIN state)  BY CallFacts
<1>2. CASE RetryUpload
  <2>1. call.attempt \in 0 .. MAX_S5_RETRIES - 1  BY <1>1 DEF CallRecord
  <2>2. call.attempt + 1 \in 0 .. MAX_S5_RETRIES - 1  BY <1>2, <2>1, PublisherAssumption DEF RetryUpload
  <2> QED BY <1>1, <1>2, <2>2, CallUpdates DEF RetryUpload
<1>3. CASE LastUpload  BY <1>3 DEF LastUpload
<1> QED BY <1>2, <1>3

\* Every step keeps the types.
LEMMA PublisherTypeNext ==
    ASSUME PublisherTypeOK, [PubNext]_pubVars
    PROVE  PublisherTypeOK'
<1>0. /\ DOMAIN state \subseteq Sessions /\ state \in [DOMAIN state -> SessionRecord]
      /\ call = IdleCall \/ call \in CallRecord(DOMAIN state)
      /\ s5_delta \in [Sessions -> SUBSET Entries]
      /\ s5_index \in [Sessions -> Seq(Entries)]
      /\ said \in [Sessions -> Nat] /\ base \in [Sessions -> Nat] /\ crashes \in Nat
      /\ published \in [Sessions -> SUBSET [entry : Entries, life : Nat]]
  BY DEF PublisherTypeOK, SessionRecord, CallRecord
<1> DEFINE Goal ==
      /\ DOMAIN state' \subseteq Sessions /\ state' \in [DOMAIN state' -> SessionRecord]
      /\ call' = IdleCall \/ call' \in CallRecord(DOMAIN state')
      /\ s5_delta' \in [Sessions -> SUBSET Entries]
      /\ s5_index' \in [Sessions -> Seq(Entries)]
      /\ said' \in [Sessions -> Nat] /\ base' \in [Sessions -> Nat] /\ crashes' \in Nat
      /\ published' \in [Sessions -> SUBSET [entry : Entries, life : Nat]]
<1>1. SUFFICES Goal  BY DEF PublisherTypeOK, SessionRecord, CallRecord
<1>2. ASSUME NEW s \in Sessions, BufferMessage(s)
      PROVE  Goal
  <2>1. said'[s] \in Nat /\ said' \in [Sessions -> Nat]  BY <1>0, <1>2 DEF BufferMessage
  <2>2. [Entry(s) EXCEPT !.message_buffer = Append(@, said'[s])] \in SessionRecord
    <3>1. Entry(s) \in SessionRecord  BY EntryFacts
    <3>2. Append(Entry(s).message_buffer, said'[s]) \in Seq(Nat)  BY <2>1, <3>1, SessionUpdates, AppendedSet
    <3> QED BY <3>1, <3>2, SessionUpdates
  <2>3. call = IdleCall  BY <1>0, <1>2, PublisherAssumption DEF BufferMessage, Locked, CallRecord
  <2> QED BY <1>0, <1>2, <2>1, <2>2, <2>3, InsertType DEF BufferMessage
<1>3. ASSUME NEW s \in Sessions, NEW key \in RecoveryKeys, SetRecoveryPublicKey(s, key)
      PROVE  Goal
  <2>1. [Entry(s) EXCEPT !.recovery_public_key = key] \in SessionRecord  BY EntryFacts DEF SessionRecord
  <2>2. call = IdleCall  BY <1>0, <1>3, PublisherAssumption DEF SetRecoveryPublicKey, Locked, CallRecord
  <2> QED BY <1>0, <1>3, <2>1, <2>2, InsertType DEF SetRecoveryPublicKey
<1>4. ASSUME NEW s \in Sessions, NEW proof \in Proofs, PublishBegin(s, proof)
      PROVE  Goal
  <2>1. Entry(s) \in SessionRecord  BY EntryFacts
  <2>2. MakeEntry(Entry(s), proof) \in Entries  BY <2>1 DEF MakeEntry, Entries, SessionRecord
  <2>3. s \in DOMAIN state'  BY <1>4, <2>1, InsertType DEF PublishBegin
  <2>4. call' \in CallRecord(DOMAIN state')  BY <1>4, <2>2, <2>3, PublisherAssumption DEF PublishBegin, CallRecord
  <2> QED BY <1>0, <1>4, <2>1, <2>4, InsertType DEF PublishBegin
<1>5. ASSUME NEW s \in Sessions, PublishRefused(s)
      PROVE  Goal
  <2>1. Entry(s) \in SessionRecord  BY EntryFacts
  <2>2. call = IdleCall  BY <1>0, <1>5, PublisherAssumption DEF PublishRefused, Locked, CallRecord
  <2> QED BY <1>0, <1>5, <2>1, <2>2, InsertType DEF PublishRefused
<1>6. CASE DeltaStored
  <2>1. call.stage = "delta"  BY <1>6 DEF DeltaStored
  <2>2. Append(state[call.session_id].index, call.entry) \in Seq(Entries)
    BY <2>1, CallFacts, AppendedSet DEF SessionRecord
  <2>3. [state EXCEPT ![call.session_id].index = Append(@, call.entry)]
           \in [DOMAIN state -> SessionRecord]
    <3>1. [state[call.session_id] EXCEPT !.index = Append(@, call.entry)] \in SessionRecord
      BY <2>1, <2>2, CallFacts, SessionUpdates
    <3> QED BY <1>0, <2>1, <3>1, CallFacts
  <2>4. call' \in CallRecord(DOMAIN state)
    <3>1. call \in CallRecord(DOMAIN state) /\ 0 \in 0 .. MAX_S5_RETRIES - 1  BY <2>1, CallFacts, PublisherAssumption
    <3> QED BY <1>6, <3>1, CallUpdates DEF DeltaStored
  <2>5. DOMAIN state' = DOMAIN state /\ state' \in [DOMAIN state -> SessionRecord]  BY <1>0, <1>6, <2>3 DEF DeltaStored
  <2>6. s5_delta' \in [Sessions -> SUBSET Entries]  BY <1>0, <1>6, <2>1, CallFacts DEF DeltaStored
  <2> QED BY <1>0, <1>6, <2>4, <2>5, <2>6 DEF DeltaStored
<1>7. CASE DeltaAttemptFails \/ DeltaUploadFails  BY <1>0, <1>7, AttemptType DEF DeltaAttemptFails, DeltaUploadFails
<1>8. CASE IndexStored
  <2>1. call.stage = "index"  BY <1>8 DEF IndexStored
  <2>2. NextCheckpoint(state[call.session_id]) \in SessionRecord  BY <2>1, CallFacts, SessionUpdates
  <2>3. DOMAIN state' = DOMAIN state /\ state' \in [DOMAIN state -> SessionRecord]
    BY <1>0, <1>8, <2>1, <2>2, CallFacts DEF IndexStored
  <2>4. s5_index' \in [Sessions -> Seq(Entries)]
    BY <1>0, <1>8, <2>1, CallFacts DEF IndexStored, StoreIndex, SessionRecord
  <2>5. published' \in [Sessions -> SUBSET [entry : Entries, life : Nat]]
    BY <1>0, <1>8, <2>1, CallFacts DEF IndexStored
  <2> QED BY <1>0, <1>8, <2>3, <2>4, <2>5 DEF IndexStored
<1>9. CASE IndexAttemptFails \/ IndexUploadFails
  <2>1. call.stage = "index"  BY <1>9 DEF IndexAttemptFails, IndexUploadFails
  <2>2. s5_index' \in [Sessions -> Seq(Entries)]  BY <1>0, <1>9, <2>1, CallFacts
    DEF IndexAttemptFails, IndexUploadFails, StoreIndex, SessionRecord
  <2> QED BY <1>0, <1>9, <2>1, <2>2, AttemptType DEF IndexAttemptFails, IndexUploadFails
<1>10. CASE Crash  BY <1>0, <1>10 DEF Crash
<1>11. CASE UNCHANGED pubVars  BY <1>0, <1>11 DEF pubVars
<1> HIDE DEF Goal
<1> QED BY <1>2, <1>3, <1>4, <1>5, <1>6, <1>7, <1>8, <1>9, <1>10, <1>11 DEF PubNext, UploadStep

\* Every variable of the publisher keeps its type: a call never goes beyond its
\* attempts and always has a session of the map, whatever fails and restarts.
THEOREM PublisherTypes == PubSpec => []PublisherTypeOK
<1>1. PubInit => PublisherTypeOK  BY DEF PubInit, PublisherTypeOK, IdleCall
<1> QED BY <1>1, PublisherTypeNext, PTL DEF PubSpec

-----------------------------------------------------------------------------
(* The inductive invariant: what memory holds, between the uploads *)

\* The entries of a session's in-memory index and the messages of its buffer: none
\* for a session that the map does not hold.
Indexed(s) == ToSet(Entry(s).index)
Buffered(s) == ToSet(Entry(s).message_buffer)

InProgress == call.stage \in {"delta", "index"}

\* An entry reaches the in-memory index after its delta is stored.
DeltaFirst == \A s \in Sessions : Indexed(s) \subseteq s5_delta[s]

\* The lock is held from the snapshot of the buffer to the end of the call: the
\* delta still has all the buffer's messages, and past the first upload it is indexed.
CallIsCurrent ==
    InProgress =>
        /\ ToSet(call.entry.messages) = Buffered(call.session_id)
        /\ call.stage = "index" => call.entry \in Indexed(call.session_id)

\* What was published in this life of the node is in the in-memory index, so every
\* later upload of the index names it too.
PublishedInMemory ==
    \A s \in Sessions : \A p \in published[s] :
        /\ p.life <= crashes
        /\ p.life = crashes => p.entry \in Indexed(s)

\* A message of this life of the node is in the buffer or in an indexed delta; a
\* session that the map does not hold has had none.
MessagesKept ==
    \A s \in Sessions : \A m \in base[s] + 1 .. said[s] :
        m \in Buffered(s) \/ \E e \in Indexed(s) : m \in ToSet(e.messages)

PublisherInv ==
    /\ PublisherTypeOK
    /\ DeltaFirst /\ CallIsCurrent /\ PublishedInMemory /\ MessagesKept
    /\ IndexedDeltaIsStored /\ PublishedIsIndexed /\ NoMessageLost

-----------------------------------------------------------------------------
(* What each kind of step does to the two sets and to S5 *)

InsertStep ==
    /\ ~InProgress
    /\ UNCHANGED <<s5_delta, s5_index, base, published, crashes>>
    /\ \A z \in Sessions :
          /\ Indexed(z)' = Indexed(z)
          /\ Buffered(z) \cup (said[z] + 1 .. said'[z]) \subseteq Buffered(z)'
    /\ \/ ~InProgress'
       \/ /\ call'.stage = "delta"
          /\ ToSet(call'.entry.messages) = Buffered(call.session_id)'

SameCall ==
    call'.session_id = call.session_id /\ call'.entry = call.entry

DeltaStep ==
    /\ call.stage = "delta" /\ call'.stage = "index" /\ SameCall
    /\ UNCHANGED <<s5_index, said, base, published, crashes>>
    /\ \A z \in Sessions :
          LET new == IF z = call.session_id THEN {call.entry} ELSE {}
          IN  /\ Buffered(z)' = Buffered(z)
              /\ Indexed(z)' = Indexed(z) \cup new
              /\ s5_delta'[z] = s5_delta[z] \cup new

AttemptStep ==
    /\ InProgress
    /\ UNCHANGED <<s5_delta, said, base, published, crashes>>
    /\ \A z \in Sessions :
          /\ Buffered(z)' = Buffered(z) /\ Indexed(z)' = Indexed(z)
          /\ \/ s5_index'[z] = s5_index[z]
             \/ ToSet(s5_index'[z]) = Indexed(z)
    /\ ~InProgress' \/ (call'.stage = call.stage /\ SameCall)

IndexStep ==
    /\ call.stage = "index" /\ ~InProgress'
    /\ UNCHANGED <<s5_delta, said, base, crashes>>
    /\ \A z \in Sessions :
          /\ Indexed(z)' = Indexed(z)
          /\ z # call.session_id =>
                /\ Buffered(z)' = Buffered(z) /\ s5_index'[z] = s5_index[z]
                /\ published'[z] = published[z]
          /\ z = call.session_id =>
                /\ ToSet(s5_index'[z]) = Indexed(z)
                /\ published'[z] = published[z] \cup {[entry |-> call.entry, life |-> crashes]}

\* Inserting a session's state changes that session's entry alone.
LEMMA InsertEntry ==
    ASSUME PublisherTypeOK, NEW s \in Sessions, NEW r \in SessionRecord,
           state' = SetState(s, r)
    PROVE  Entry(s)' = r /\ \A z \in Sessions \ {s} : Entry(z)' = Entry(z)
<1>1. /\ DOMAIN state' = DOMAIN state \cup {s} /\ state'[s] = r
      /\ \A z \in DOMAIN state \ {s} : state'[z] = state[z]
  BY EntryFacts
<1> QED BY <1>1 DEF Entry

\* A call in progress works on the entry of its session.
LEMMA CallEntry ==
    ASSUME PublisherTypeOK, InProgress
    PROVE  /\ call.session_id \in DOMAIN state /\ call.session_id \in Sessions
           /\ Entry(call.session_id) = state[call.session_id]
           /\ Entry(call.session_id) \in SessionRecord
           /\ call.entry \in Entries
  BY CallFacts DEF InProgress, Entry

\* Only a call that has begun holds the lock.
LEMMA LockedCall ==
    ASSUME PublisherTypeOK
    PROVE  Locked <=> InProgress  BY PublisherAssumption DEF PublisherTypeOK, Locked, InProgress, IdleCall

LEMMA BufferMessageShape ==
    ASSUME PublisherTypeOK, NEW s \in Sessions, BufferMessage(s)
    PROVE  InsertStep
<1> DEFINE r == [Entry(s) EXCEPT !.message_buffer = Append(@, said'[s])]
<1>1. said \in [Sessions -> Nat]  BY DEF PublisherTypeOK
<1>2. said'[s] = said[s] + 1 /\ said'[s] \in Nat /\ \A z \in Sessions \ {s} : said'[z] = said[z]
  BY <1>1 DEF BufferMessage
<1>3. Entry(s) \in SessionRecord /\ Entry(s).message_buffer \in Seq(Nat)  BY EntryFacts, SessionUpdates
<1>4. /\ Append(Entry(s).message_buffer, said'[s]) \in Seq(Nat)
      /\ ToSet(Append(Entry(s).message_buffer, said'[s])) = Buffered(s) \cup {said'[s]}
  BY <1>2, <1>3, AppendedSet DEF Buffered
<1>5. /\ r \in SessionRecord /\ r.index = Entry(s).index
      /\ r.message_buffer = Append(Entry(s).message_buffer, said'[s])
  BY <1>3, <1>4, SessionUpdates
<1>6. state' = SetState(s, r)  BY DEF BufferMessage
<1> HIDE DEF r
<1>7. Entry(s)' = r /\ \A z \in Sessions \ {s} : Entry(z)' = Entry(z)  BY <1>5, <1>6, InsertEntry
<1>8. Indexed(s)' = Indexed(s) /\ Buffered(s)' = Buffered(s) \cup {said'[s]}  BY <1>4, <1>5, <1>7 DEF Indexed, Buffered
<1>9. \A z \in Sessions \ {s} : Indexed(z)' = Indexed(z) /\ Buffered(z)' = Buffered(z)  BY <1>7 DEF Indexed, Buffered
<1>10. \A z \in Sessions :
          Buffered(z) \cup (said[z] + 1 .. said'[z]) \subseteq Buffered(z)'  BY <1>1, <1>2, <1>8, <1>9
<1> QED BY <1>8, <1>9, <1>10, LockedCall DEF BufferMessage, InsertStep, InProgress

\* The state of a session is inserted with the buffer and the index it had.
LEMMA ReinsertShape ==
    ASSUME PublisherTypeOK, NEW s \in Sessions, NEW r \in SessionRecord,
           state' = SetState(s, r), r.index = Entry(s).index,
           r.message_buffer = Entry(s).message_buffer
    PROVE  \A z \in Sessions : Indexed(z)' = Indexed(z) /\ Buffered(z)' = Buffered(z)
  BY InsertEntry DEF Indexed, Buffered

LEMMA SetKeyShape ==
    ASSUME PublisherTypeOK, NEW s \in Sessions, NEW key \in RecoveryKeys,
           SetRecoveryPublicKey(s, key)
    PROVE  InsertStep
<1> DEFINE r == [Entry(s) EXCEPT !.recovery_public_key = key]
<1>1. Entry(s) \in SessionRecord  BY EntryFacts
<1>2. r \in SessionRecord /\ r.index = Entry(s).index /\ r.message_buffer = Entry(s).message_buffer
  BY <1>1, SessionUpdates
<1>3. state' = SetState(s, r)  BY DEF SetRecoveryPublicKey
<1> HIDE DEF r
<1>4. \A z \in Sessions : Indexed(z)' = Indexed(z) /\ Buffered(z)' = Buffered(z)  BY <1>2, <1>3, ReinsertShape
<1>5. \A z \in Sessions : said[z] + 1 .. said'[z] = {}  BY DEF SetRecoveryPublicKey, PublisherTypeOK
<1> QED BY <1>4, <1>5, LockedCall DEF SetRecoveryPublicKey, InsertStep, InProgress

LEMMA PublishShape ==
    ASSUME PublisherTypeOK, NEW s \in Sessions,
           PublishRefused(s) \/ \E proof \in Proofs : PublishBegin(s, proof)
    PROVE  InsertStep
<1>1. Entry(s) \in SessionRecord  BY EntryFacts
<1>2. state' = SetState(s, Entry(s)) /\ ~Locked  BY DEF PublishRefused, PublishBegin
<1>3. \A z \in Sessions : Indexed(z)' = Indexed(z) /\ Buffered(z)' = Buffered(z)  BY <1>1, <1>2, ReinsertShape
<1>4. \A z \in Sessions : said[z] + 1 .. said'[z] = {}  BY DEF PublishRefused, PublishBegin, PublisherTypeOK
<1>5. CASE PublishRefused(s)  BY <1>2, <1>3, <1>4, <1>5, LockedCall DEF PublishRefused, InsertStep, InProgress
<1>6. CASE \E proof \in Proofs : PublishBegin(s, proof)
  <2>1. /\ call'.stage = "delta" /\ call'.session_id = s
        /\ call'.entry.messages = Entry(s).message_buffer
    BY <1>6 DEF PublishBegin, MakeEntry
  <2>2. ToSet(call'.entry.messages) = Buffered(call.session_id)'
    <3>1. Buffered(s)' = Buffered(s) /\ Buffered(call.session_id)' = Buffered(s)'  BY <1>3, <2>1 DEF Buffered, Entry
    <3> QED BY <2>1, <3>1 DEF Buffered
  <2> QED BY <1>2, <1>3, <1>4, <1>6, <2>1, <2>2, LockedCall DEF PublishBegin, InsertStep
<1> QED BY <1>5, <1>6

LEMMA DeltaStoredShape ==
    ASSUME PublisherTypeOK, DeltaStored
    PROVE  DeltaStep
<1> SUFFICES ASSUME NEW s, s = call.session_id
             PROVE  DeltaStep  OBVIOUS
<1> DEFINE r == [state[s] EXCEPT !.index = Append(@, call.entry)]
<1>1. /\ InProgress /\ s \in DOMAIN state /\ s \in Sessions /\ Entry(s) = state[s]
      /\ state[s] \in SessionRecord /\ call.entry \in Entries
  BY CallEntry DEF DeltaStored, InProgress
<1>2. /\ Append(state[s].index, call.entry) \in Seq(Entries)
      /\ ToSet(Append(state[s].index, call.entry)) = ToSet(state[s].index) \cup {call.entry}
  BY <1>1, SessionUpdates, AppendedSet
<1>3. r.index = Append(state[s].index, call.entry) /\ r.message_buffer = state[s].message_buffer
  BY <1>1, <1>2, SessionUpdates
<1>4. state' = [state EXCEPT ![s] = r]  BY DEF DeltaStored
<1> HIDE DEF r
<1>5. Entry(s)' = r /\ \A z \in Sessions \ {s} : Entry(z)' = Entry(z)  BY <1>1, <1>4 DEF Entry, PublisherTypeOK
<1>6. \A z \in Sessions :
        /\ Buffered(z)' = Buffered(z)
        /\ Indexed(z)' = Indexed(z) \cup (IF z = s THEN {call.entry} ELSE {})
  BY <1>1, <1>2, <1>3, <1>5 DEF Indexed, Buffered
<1>7. call'.stage = "index" /\ SameCall
  <2>1. call \in CallRecord(DOMAIN state) /\ 0 \in 0 .. MAX_S5_RETRIES - 1
    BY <1>1, CallFacts, PublisherAssumption DEF InProgress
  <2>2. call' = [call EXCEPT !.stage = "index", !.attempt = 0]  BY DEF DeltaStored
  <2> QED BY ZenonT(40), <2>1, <2>2, CallUpdates DEF SameCall
<1>8. \A z \in Sessions :
        s5_delta'[z] = s5_delta[z] \cup (IF z = s THEN {call.entry} ELSE {})  BY <1>1 DEF DeltaStored, PublisherTypeOK
<1> QED BY <1>6, <1>7, <1>8 DEF DeltaStored, DeltaStep

\* A stored index holds what the in-memory index holds.
LEMMA StoreIndexSet ==
    ASSUME PublisherTypeOK, call.stage = "index"
    PROVE  \A z \in Sessions :
              /\ z # call.session_id => StoreIndex[z] = s5_index[z]
              /\ z = call.session_id => ToSet(StoreIndex[z]) = Indexed(z)
<1>1. /\ call.session_id \in Sessions
      /\ Entry(call.session_id) = state[call.session_id]
  BY CallEntry DEF InProgress
<1> QED BY <1>1 DEF StoreIndex, Indexed, PublisherTypeOK

LEMMA AttemptShape ==
    ASSUME PublisherTypeOK,
           DeltaAttemptFails \/ DeltaUploadFails \/ IndexAttemptFails \/ IndexUploadFails
    PROVE  AttemptStep
<1>1. /\ InProgress /\ (RetryUpload \/ LastUpload)
      /\ UNCHANGED <<state, s5_delta, said, base, published, crashes>>
  BY DEF DeltaAttemptFails, DeltaUploadFails, IndexAttemptFails, IndexUploadFails, InProgress
<1>2. ~InProgress' \/ (call'.stage = call.stage /\ SameCall)
  <2>1. CASE LastUpload  BY <2>1 DEF LastUpload, IdleCall, InProgress
  <2>2. CASE RetryUpload
    <3>1. call \in CallRecord(DOMAIN state)  BY <1>1, CallFacts DEF InProgress
    <3>2. call.attempt + 1 \in 0 .. MAX_S5_RETRIES - 1  BY <2>2, <3>1, PublisherAssumption DEF RetryUpload, CallRecord
    <3> QED BY ZenonT(40), <2>2, <3>1, <3>2, CallUpdates DEF RetryUpload, SameCall
  <2> QED BY <1>1, <2>1, <2>2
<1>3. \A z \in Sessions : Indexed(z)' = Indexed(z) /\ Buffered(z)' = Buffered(z)  BY <1>1 DEF Indexed, Buffered, Entry
<1>4. \A z \in Sessions : s5_index'[z] = s5_index[z] \/ ToSet(s5_index'[z]) = Indexed(z)  BY StoreIndexSet
  DEF DeltaAttemptFails, DeltaUploadFails, IndexAttemptFails, IndexUploadFails
<1> QED BY <1>1, <1>2, <1>3, <1>4 DEF AttemptStep

LEMMA IndexStoredShape ==
    ASSUME PublisherTypeOK, IndexStored
    PROVE  IndexStep
<1> SUFFICES ASSUME NEW s, s = call.session_id
             PROVE  IndexStep  OBVIOUS
<1>1. /\ call.stage = "index" /\ s \in DOMAIN state /\ s \in Sessions
      /\ Entry(s) = state[s] /\ state[s] \in SessionRecord
  BY CallEntry DEF IndexStored, InProgress
<1>2. Entry(s)' = NextCheckpoint(state[s]) /\ \A z \in Sessions \ {s} : Entry(z)' = Entry(z)
  BY <1>1 DEF Entry, PublisherTypeOK, IndexStored
<1>3. NextCheckpoint(state[s]).index = state[s].index  BY <1>1, SessionUpdates
<1>4. \A z \in Sessions :
        /\ Indexed(z)' = Indexed(z)
        /\ z # s => Buffered(z)' = Buffered(z)
  BY <1>1, <1>2, <1>3 DEF Indexed, Buffered
<1>5. \A z \in Sessions :
        /\ z # s => s5_index'[z] = s5_index[z]
        /\ z = s => ToSet(s5_index'[z]) = Indexed(z)
  BY <1>1, StoreIndexSet DEF IndexStored
<1>6. \A z \in Sessions :
        /\ z # s => published'[z] = published[z]
        /\ z = s => published'[z] = published[z] \cup {[entry |-> call.entry, life |-> crashes]}
  BY <1>1 DEF IndexStored, PublisherTypeOK
<1>7. ~InProgress'  BY DEF IndexStored, IdleCall, InProgress
<1> QED BY <1>1, <1>4, <1>5, <1>6, <1>7 DEF IndexStored, IndexStep

CrashStep ==
    /\ ~InProgress'
    /\ crashes' = crashes + 1 /\ base' = said
    /\ UNCHANGED <<s5_delta, s5_index, said, published>>
    /\ \A z \in Sessions : Indexed(z)' = {}

LEMMA CrashShape ==
    ASSUME Crash
    PROVE  CrashStep /\ DOMAIN state' = {}
<1>1. \A z \in Sessions : Entry(z)' = NewState  BY DEF Crash, Entry
<1>2. \A z \in Sessions : Indexed(z)' = {}  BY <1>1, EmptySet DEF Indexed, NewState
<1> QED BY <1>2 DEF Crash, CrashStep, IdleCall, InProgress

IdleStep ==
    /\ UNCHANGED <<call, s5_delta, s5_index, said, base, published, crashes>>
    /\ \A z \in Sessions : Indexed(z)' = Indexed(z) /\ Buffered(z)' = Buffered(z)

\* Every step of the publisher has one of these shapes.
LEMMA StepShapes ==
    ASSUME PublisherTypeOK, [PubNext]_pubVars
    PROVE  InsertStep \/ DeltaStep \/ AttemptStep \/ IndexStep \/ CrashStep \/ IdleStep
<1>1. CASE UNCHANGED pubVars  BY <1>1 DEF pubVars, IdleStep, Indexed, Buffered, Entry
<1>2. CASE UploadStep  BY <1>2, DeltaStoredShape, AttemptShape, IndexStoredShape DEF UploadStep
<1> QED BY <1>1, <1>2, BufferMessageShape, SetKeyShape, PublishShape, CrashShape DEF PubNext

-----------------------------------------------------------------------------
(* The invariant is preserved *)

\* S5 only gains deltas, and an index entry follows its delta.
LEMMA DeltaFirstNext ==
    ASSUME PublisherInv, [PubNext]_pubVars
    PROVE  DeltaFirst' /\ IndexedDeltaIsStored'
<1>0. DeltaFirst /\ IndexedDeltaIsStored /\ PublisherTypeOK  BY DEF PublisherInv
<1>1. CASE InsertStep  BY <1>0, <1>1 DEF InsertStep, DeltaFirst, IndexedDeltaIsStored
<1>2. CASE DeltaStep  BY <1>0, <1>2 DEF DeltaStep, DeltaFirst, IndexedDeltaIsStored
<1>3. CASE AttemptStep
  <2>1. DeltaFirst'  BY <1>0, <1>3 DEF AttemptStep, DeltaFirst
  <2>2. \A z \in Sessions : ToSet(s5_index'[z]) \subseteq s5_delta[z]
    BY <1>0, <1>3 DEF AttemptStep, DeltaFirst, IndexedDeltaIsStored
  <2> QED BY <1>3, <2>1, <2>2 DEF AttemptStep, IndexedDeltaIsStored
<1>4. CASE IndexStep
  <2>1. DeltaFirst'  BY <1>0, <1>4 DEF IndexStep, DeltaFirst
  <2>2. \A z \in Sessions : ToSet(s5_index'[z]) \subseteq s5_delta[z]
    BY <1>0, <1>4 DEF IndexStep, DeltaFirst, IndexedDeltaIsStored
  <2> QED BY <1>4, <2>1, <2>2 DEF IndexStep, IndexedDeltaIsStored
<1>5. CASE CrashStep  BY <1>0, <1>5 DEF CrashStep, DeltaFirst, IndexedDeltaIsStored
<1>6. CASE IdleStep  BY <1>0, <1>6 DEF IdleStep, DeltaFirst, IndexedDeltaIsStored
<1> QED BY <1>0, <1>1, <1>2, <1>3, <1>4, <1>5, <1>6, StepShapes

\* The lock keeps the buffer as the call found it.
LEMMA CallIsCurrentNext ==
    ASSUME PublisherInv, [PubNext]_pubVars
    PROVE  CallIsCurrent'
<1>0. CallIsCurrent /\ PublisherTypeOK  BY DEF PublisherInv
<1>1. CASE InsertStep  BY <1>0, <1>1 DEF InsertStep, CallIsCurrent, InProgress
<1>2. ASSUME SameCall, InProgress, InProgress',
             \A z \in Sessions : Buffered(z)' = Buffered(z) /\ Indexed(z) \subseteq Indexed(z)',
             call'.stage = "index" => call.stage = "index" \/ call.entry \in Indexed(call.session_id)'
      PROVE  CallIsCurrent'
  <2> SUFFICES ASSUME NEW s, s = call.session_id PROVE CallIsCurrent'  OBVIOUS
  <2>1. s \in Sessions /\ call'.session_id = s /\ call'.entry = call.entry  BY <1>0, <1>2, CallEntry DEF SameCall
  <2>2. /\ ToSet(call.entry.messages) = Buffered(s)
        /\ call.stage = "index" => call.entry \in Indexed(s)
    BY <1>0, <1>2 DEF CallIsCurrent
  <2>3. Indexed(call.session_id)' = Indexed(s)' /\ Buffered(call.session_id)' = Buffered(s)'
    BY <2>1 DEF Indexed, Buffered, Entry
  <2> QED BY <1>2, <2>1, <2>2, <2>3 DEF CallIsCurrent
<1>3. CASE DeltaStep
  <2> SUFFICES ASSUME NEW s, s = call.session_id PROVE CallIsCurrent'  OBVIOUS
  <2>1. s \in Sessions /\ InProgress /\ InProgress' /\ call'.session_id = s
    BY <1>0, <1>3, CallEntry DEF DeltaStep, InProgress, SameCall
  <2>2. call.entry \in Indexed(s)'  BY <1>3, <2>1 DEF DeltaStep
  <2>3. Indexed(call.session_id)' = Indexed(s)'  BY <2>1 DEF Indexed, Entry
  <2> QED BY <1>2, <1>3, <2>1, <2>2, <2>3 DEF DeltaStep
<1>4. CASE AttemptStep  BY <1>2, <1>4 DEF AttemptStep, CallIsCurrent
<1>5. CASE IndexStep \/ CrashStep  BY <1>5 DEF IndexStep, CrashStep, CallIsCurrent
<1>6. CASE IdleStep
  <2>1. CASE InProgress  BY <1>2, <1>6, <2>1 DEF IdleStep, SameCall, InProgress
  <2>2. CASE ~InProgress  BY <1>6, <2>2 DEF IdleStep, CallIsCurrent, InProgress
  <2> QED BY <2>1, <2>2
<1> QED BY <1>0, <1>1, <1>3, <1>4, <1>5, <1>6, StepShapes

\* A published entry stays in memory until a restart, and each upload of the index
\* writes all that memory holds.
LEMMA PublishedNext ==
    ASSUME PublisherInv, [PubNext]_pubVars
    PROVE  PublishedInMemory' /\ PublishedIsIndexed'
<1>0. /\ PublishedInMemory /\ PublishedIsIndexed /\ CallIsCurrent /\ PublisherTypeOK
      /\ crashes \in Nat
  BY DEF PublisherInv, PublisherTypeOK
<1>1. CASE InsertStep  BY <1>0, <1>1 DEF InsertStep, PublishedInMemory, PublishedIsIndexed
<1>2. CASE DeltaStep
  <2>1. \A z \in Sessions : Indexed(z) \subseteq Indexed(z)'  BY <1>2 DEF DeltaStep
  <2> QED BY <1>0, <1>2, <2>1 DEF DeltaStep, PublishedInMemory, PublishedIsIndexed
<1>3. CASE AttemptStep
  <2>1. PublishedInMemory'  BY <1>0, <1>3 DEF AttemptStep, PublishedInMemory
  <2>2. ASSUME NEW z \in Sessions, NEW p \in published[z], p.life = crashes
        PROVE  p.entry \in ToSet(s5_index'[z])
    BY <1>0, <1>3, <2>2 DEF AttemptStep, PublishedInMemory, PublishedIsIndexed
  <2> QED BY <1>3, <2>1, <2>2 DEF AttemptStep, PublishedIsIndexed
<1>4. CASE IndexStep
  <2> SUFFICES ASSUME NEW z \in Sessions, NEW p \in published'[z]
               PROVE  /\ p.life <= crashes
                      /\ p.life = crashes => p.entry \in Indexed(z)
                      /\ p.life = crashes => p.entry \in ToSet(s5_index'[z])
    BY <1>4 DEF IndexStep, PublishedInMemory, PublishedIsIndexed
  <2>1. CASE p \in published[z]  BY <1>0, <1>4, <2>1 DEF IndexStep, PublishedInMemory, PublishedIsIndexed
  <2>2. CASE p \notin published[z]
    <3>1. z = call.session_id /\ p = [entry |-> call.entry, life |-> crashes]  BY <1>4, <2>2 DEF IndexStep
    <3>2. call.entry \in Indexed(call.session_id)  BY <1>0, <1>4 DEF IndexStep, CallIsCurrent, InProgress
    <3> QED BY <1>0, <1>4, <3>1, <3>2 DEF IndexStep
  <2> QED BY <2>1, <2>2
<1>5. CASE CrashStep
  <2>1. \A z \in Sessions : \A p \in published[z] : p.life \in Nat /\ p.life <= crashes
    BY <1>0 DEF PublishedInMemory, PublisherTypeOK
  <2>2. \A z \in Sessions : \A p \in published[z] : p.life <= crashes' /\ p.life # crashes'
    BY <1>0, <1>5, <2>1 DEF CrashStep
  <2> QED BY <1>5, <2>2 DEF CrashStep, PublishedInMemory, PublishedIsIndexed
<1>6. CASE IdleStep  BY <1>0, <1>6 DEF IdleStep, PublishedInMemory, PublishedIsIndexed
<1> QED BY <1>0, <1>1, <1>2, <1>3, <1>4, <1>5, <1>6, StepShapes

\* A message is buffered until a delta with it is in the index that S5 stored.
LEMMA MessagesNext ==
    ASSUME PublisherInv, [PubNext]_pubVars
    PROVE  MessagesKept' /\ NoMessageLost'
<1> DEFINE Lost(m, s) == \A e \in ToSet(s5_index[s]) : m \notin ToSet(e.messages)
<1>0. /\ MessagesKept /\ NoMessageLost /\ CallIsCurrent /\ PublisherTypeOK
      /\ said \in [Sessions -> Nat] /\ base \in [Sessions -> Nat]
      /\ said' \in [Sessions -> Nat] /\ DOMAIN state' \subseteq Sessions
  BY PublisherTypeNext DEF PublisherInv, PublisherTypeOK
<1>1. \A s \in Sessions : \A m \in base[s] + 1 .. said[s] : m \in Buffered(s) \/ ~Lost(m, s)
  \* a session that is not in the map has no messages
  <2> SUFFICES ASSUME NEW s \in Sessions, NEW m \in base[s] + 1 .. said[s]
               PROVE  m \in Buffered(s) \/ ~Lost(m, s)  OBVIOUS
  <2>1. CASE s \in DOMAIN state  BY <1>0, <2>1 DEF NoMessageLost, Buffered, Entry
  <2>2. CASE s \notin DOMAIN state
    <3>1. Indexed(s) = {} /\ Buffered(s) = {}  BY <2>2, EmptySet DEF Indexed, Buffered, Entry, NewState
    <3> QED BY <1>0, <3>1 DEF MessagesKept
  <2> QED BY <2>1, <2>2
<1>2. SUFFICES ASSUME NEW s \in Sessions, NEW m \in base'[s] + 1 .. said'[s]
               PROVE  /\ m \in Buffered(s)' \/ \E e \in Indexed(s)' : m \in ToSet(e.messages)
                      /\ m \in Buffered(s)' \/ ~Lost(m, s)'
  <2>1. MessagesKept'  BY <1>2 DEF MessagesKept
  <2>2. \A s \in DOMAIN state' : Buffered(s)' = ToSet(state'[s].message_buffer)  BY DEF Buffered, Entry
  <2>3. NoMessageLost'  BY <1>0, <1>2, <2>2 DEF NoMessageLost
  <2> QED BY <2>1, <2>3
<1> DEFINE Old == m \in base[s] + 1 .. said[s]
           Kept == m \in Buffered(s) \/ \E e \in Indexed(s) : m \in ToSet(e.messages)
           Found == m \in Buffered(s) \/ ~Lost(m, s)
<1>3. Old => Kept /\ Found  BY <1>0, <1>1 DEF MessagesKept
<1>4. CASE InsertStep
  <2>1. Old \/ m \in said[s] + 1 .. said'[s]  BY <1>0, <1>4 DEF InsertStep
  <2> QED BY <1>3, <1>4, <2>1 DEF InsertStep
<1>5. CASE DeltaStep \/ IdleStep
  <2>1. /\ Old /\ Buffered(s)' = Buffered(s) /\ Indexed(s) \subseteq Indexed(s)'
        /\ s5_index' = s5_index
    BY <1>5 DEF DeltaStep, IdleStep
  <2> QED BY <1>3, <2>1
<1>6. CASE AttemptStep
  <2>1. /\ Old /\ Buffered(s)' = Buffered(s) /\ Indexed(s)' = Indexed(s)
        /\ s5_index'[s] = s5_index[s] \/ ToSet(s5_index'[s]) = Indexed(s)
    BY <1>6 DEF AttemptStep
  <2> QED BY <1>3, <2>1
<1>7. CASE IndexStep
  <2>1. Old /\ Indexed(s)' = Indexed(s)  BY <1>7 DEF IndexStep
  <2>2. CASE s # call.session_id
    <3>1. Buffered(s)' = Buffered(s) /\ s5_index'[s] = s5_index[s]  BY <1>7, <2>2 DEF IndexStep
    <3> QED BY <1>3, <2>1, <3>1
  <2>3. CASE s = call.session_id
    <3>1. \E e \in Indexed(s) : m \in ToSet(e.messages)
      BY <1>0, <1>3, <1>7, <2>1, <2>3 DEF IndexStep, CallIsCurrent, InProgress
    <3>2. ToSet(s5_index'[s]) = Indexed(s)  BY <1>7, <2>3 DEF IndexStep
    <3> QED BY <2>1, <3>1, <3>2
  <2> QED BY <2>2, <2>3
<1>8. CASE CrashStep  BY <1>0, <1>8 DEF CrashStep
<1> QED BY <1>0, <1>4, <1>5, <1>6, <1>7, <1>8, StepShapes

LEMMA PublisherInvNext ==
    ASSUME PublisherInv, [PubNext]_pubVars
    PROVE  PublisherInv'
<1>1. PublisherTypeOK'  BY PublisherTypeNext DEF PublisherInv
<1> QED BY <1>1, DeltaFirstNext, CallIsCurrentNext, PublishedNext, MessagesNext DEF PublisherInv

LEMMA PublisherInvInit == PubInit => PublisherInv
<1> SUFFICES ASSUME PubInit PROVE PublisherInv  OBVIOUS
<1>1. PublisherTypeOK  BY DEF PubInit, PublisherTypeOK, IdleCall
<1>2. \A s \in Sessions : Indexed(s) = {} /\ Buffered(s) = {} /\ ToSet(s5_index[s]) = {}
  BY EmptySet DEF PubInit, Indexed, Buffered, Entry, NewState
<1>3. ~InProgress  BY DEF PubInit, IdleCall, InProgress
<1>4. \A s \in Sessions : base[s] + 1 .. said[s] = {} /\ published[s] = {}  BY DEF PubInit
<1>5. DeltaFirst /\ CallIsCurrent /\ PublishedInMemory /\ MessagesKept
  BY <1>2, <1>3, <1>4 DEF DeltaFirst, CallIsCurrent, PublishedInMemory, MessagesKept
<1>6. IndexedDeltaIsStored /\ PublishedIsIndexed  BY <1>2, <1>4 DEF IndexedDeltaIsStored, PublishedIsIndexed
<1>7. NoMessageLost  BY DEF PubInit, NoMessageLost
<1> QED BY <1>1, <1>5, <1>6, <1>7 DEF PublisherInv

\* The inductive invariant holds of every behaviour of the publisher.
THEOREM PublisherInvariant == PubSpec => []PublisherInv  BY PublisherInvInit, PublisherInvNext, PTL DEF PubSpec

\* What the index in S5 names can be fetched, for any number of sessions, retries
\* and restarts: publish_checkpoint never uploads an index ahead of a delta.
THEOREM IndexedDeltasStored == PubSpec => []IndexedDeltaIsStored
<1>1. PublisherInv => IndexedDeltaIsStored  BY DEF PublisherInv
<1> QED BY <1>1, PublisherInvariant, PTL

\* When publish_checkpoint has returned Ok the client finds the checkpoint in the
\* index in S5, until the node restarts.
THEOREM PublishedEntriesIndexed == PubSpec => []PublishedIsIndexed
<1>1. PublisherInv => PublishedIsIndexed  BY DEF PublisherInv
<1> QED BY <1>1, PublisherInvariant, PTL

\* No message buffered since the node started is lost, whichever uploads of
\* publish_checkpoint fail.
THEOREM MessagesNotLost == PubSpec => []NoMessageLost
<1>1. PublisherInv => NoMessageLost  BY DEF PublisherInv
<1> QED BY <1>1, PublisherInvariant, PTL

-----------------------------------------------------------------------------
(* The order of the recovered messages *)

\* Checkpoint i, which has w messages after the first b, comes after the delta z,
\* which began after m: it takes z's number and place and has all of z, or it goes
\* on where z ended.
Follows(i, b, w, z, m) ==
    \/ i = z.index /\ b = m /\ Len(z.messages) <= w
    \/ i > z.index /\ b = m + Len(z.messages)

\* L[i] is the number of messages before the i-th delta of an index.
Laid(idx, L) ==
    /\ L \in [1 .. Len(idx) -> Nat]
    /\ \A i \in 1 .. Len(idx) : \A k \in 1 .. Len(idx[i].messages) :
          idx[i].messages[k] = L[i] + k
    /\ \A i, j \in 1 .. Len(idx) : i <= j => idx[i].index <= idx[j].index
    /\ \A i, j \in 1 .. Len(idx) : j = i + 1 => Follows(idx[j].index, L[j], Len(idx[j].messages), idx[i], L[i])

\* The buffer of a session has its messages after the first B, up to the n-th, and
\* its next checkpoint comes after the last delta of its index.
Buffers(r, n, B) ==
    /\ B \in Nat
    /\ \A k \in 1 .. Len(r.message_buffer) : r.message_buffer[k] = B + k
    /\ n = B + Len(r.message_buffer)

GoesOn(r, L, B) ==
    r.index # <<>> =>
        Follows(r.checkpoint_index, B, Len(r.message_buffer), r.index[Len(r.index)], L[Len(r.index)])

InOrder(r, n) == \E B, L : Laid(r.index, L) /\ Buffers(r, n, B) /\ GoesOn(r, L, B)

MemoryInOrder == \A s \in Sessions : InOrder(Entry(s), said[s])

S5InOrder == \A s \in Sessions : \E L : Laid(s5_index[s], L)

\* The lock keeps the call's entry the delta of the buffer, and past the first
\* upload the last of the index.
CallInOrder ==
    InProgress =>
        LET r == Entry(call.session_id)
        IN  /\ call.entry.messages = r.message_buffer
            /\ call.entry.index = r.checkpoint_index
            /\ call.stage = "index" =>
                  r.index # <<>> /\ r.index[Len(r.index)] = call.entry

OrderInv == PublisherTypeOK /\ MemoryInOrder /\ S5InOrder /\ CallInOrder

\* A delta put at the end of an index that it follows.
LEMMA LaidAppend ==
    ASSUME NEW q \in Seq(Entries), NEW L, Laid(q, L), NEW e \in Entries, NEW B \in Nat,
           \A k \in 1 .. Len(e.messages) : e.messages[k] = B + k,
           q # <<>> => Follows(e.index, B, Len(e.messages), q[Len(q)], L[Len(q)])
    PROVE  LET M == [i \in 1 .. Len(q) + 1 |-> IF i = Len(q) + 1 THEN B ELSE L[i]]
           IN  Laid(Append(q, e), M) /\ M[Len(q) + 1] = B
<1> DEFINE n == Len(q)
           p == Append(q, e)
           M == [i \in 1 .. n + 1 |-> IF i = n + 1 THEN B ELSE L[i]]
<1>1. /\ n \in Nat /\ L \in [1 .. n -> Nat]
      /\ p \in Seq(Entries) /\ Len(p) = n + 1 /\ p[n + 1] = e
      /\ \A i \in 1 .. n : p[i] = q[i] /\ q[i] \in Entries
  BY DEF Laid
<1>2. M \in [1 .. n + 1 -> Nat] /\ M[n + 1] = B /\ \A i \in 1 .. n : M[i] = L[i]  BY <1>1
<1>3. n # 0 => Follows(e.index, B, Len(e.messages), q[n], L[n])  BY <1>1
<1>4. \A i \in 1 .. n + 1 : i = n + 1 \/ i \in 1 .. n  BY <1>1
<1>5. \A i \in 1 .. n : q[i].index \in Nat /\ q[i].messages \in Seq(Nat)  BY <1>1 DEF Entries
<1>6. e.index \in Nat  BY DEF Entries
<1> HIDE DEF n, p, M
<1>7. /\ \A i \in 1 .. n : \A k \in 1 .. Len(q[i].messages) : q[i].messages[k] = L[i] + k
      /\ \A i, j \in 1 .. n : i <= j => q[i].index <= q[j].index
      /\ \A i, j \in 1 .. n : j = i + 1 => Follows(q[j].index, L[j], Len(q[j].messages), q[i], L[i])
  BY Zenon DEF Laid, n
<1>8. \A i \in 1 .. n + 1 : \A k \in 1 .. Len(p[i].messages) : p[i].messages[k] = M[i] + k
  <2> SUFFICES ASSUME NEW i \in 1 .. n + 1
               PROVE  \A k \in 1 .. Len(p[i].messages) : p[i].messages[k] = M[i] + k  OBVIOUS
  <2>1. CASE i = n + 1  BY <1>1, <1>2, <2>1
  <2>2. CASE i \in 1 .. n
    <3>1. p[i] = q[i] /\ M[i] = L[i]  BY <1>1, <1>2, <2>2
    <3> QED BY <1>7, <2>2, <3>1
  <2> QED BY <1>4, <2>1, <2>2
<1>9. \A i \in 1 .. n : q[i].index <= e.index
  <2> SUFFICES ASSUME NEW i \in 1 .. n PROVE q[i].index <= e.index  OBVIOUS
  <2>1. n \in 1 .. n /\ i <= n  BY <1>1
  <2>2. q[i].index <= q[n].index  BY <1>7, <2>1
  <2>3. q[n].index <= e.index  BY <1>3, <1>5, <1>6, <2>1 DEF Follows
  <2> QED BY <1>5, <1>6, <2>1, <2>2, <2>3
<1>10. \A i, j \in 1 .. n + 1 : i <= j => p[i].index <= p[j].index
  <2> SUFFICES ASSUME NEW i \in 1 .. n + 1, NEW j \in 1 .. n + 1, i <= j
               PROVE  p[i].index <= p[j].index  OBVIOUS
  <2>1. CASE j = n + 1  BY <1>1, <1>4, <1>6, <1>9, <2>1
  <2>2. CASE j \in 1 .. n
    <3>1. i \in 1 .. n  BY <1>1, <2>2
    <3> QED BY <1>1, <1>7, <2>2, <3>1
  <2> QED BY <1>4, <2>1, <2>2
<1>11. \A i, j \in 1 .. n + 1 : j = i + 1 => Follows(p[j].index, M[j], Len(p[j].messages), p[i], M[i])
  <2> SUFFICES ASSUME NEW i \in 1 .. n + 1, NEW j \in 1 .. n + 1, j = i + 1
               PROVE  Follows(p[j].index, M[j], Len(p[j].messages), p[i], M[i])  OBVIOUS
  <2>1. i \in 1 .. n  BY <1>1
  <2>2. p[i] = q[i] /\ M[i] = L[i]  BY <1>1, <1>2, <2>1
  <2>3. CASE j = n + 1
    <3>1. i = n /\ n # 0  BY <1>1, <2>1, <2>3
    <3> QED BY <1>1, <1>2, <1>3, <2>2, <2>3, <3>1
  <2>4. CASE j \in 1 .. n
    <3>1. p[j] = q[j] /\ M[j] = L[j]  BY <1>1, <1>2, <2>4
    <3> QED BY <1>7, <2>1, <2>2, <2>4, <3>1
  <2> QED BY <1>4, <2>3, <2>4
<1>12. Laid(p, M)  BY <1>1, <1>2, <1>8, <1>10, <1>11 DEF Laid
<1> QED BY <1>2, <1>12 DEF n, p, M

\* No message is skipped.
NoGap(u) == \A i \in 2 .. Len(u) : u[i] <= u[i - 1] + 1

\* A delta that begins at or before the end of what has been read.
LEMMA JoinNoGap ==
    ASSUME NEW u \in Seq(Nat), NoGap(u), NEW v \in Seq(Nat), NEW b \in Nat,
           \A k \in 1 .. Len(v) : v[k] = b + k,
           u # <<>> => u[Len(u)] >= b
    PROVE  /\ NoGap(u \o v)
           /\ u \o v # <<>> => (u \o v)[Len(u \o v)] >= b + Len(v)
<1> DEFINE w == u \o v
           m == Len(u)
           n == Len(v)
<1>1. /\ m \in Nat /\ n \in Nat /\ Len(w) = m + n /\ w \in Seq(Nat)
      /\ \A i \in 1 .. m : w[i] = u[i]
      /\ \A i \in m + 1 .. m + n : w[i] = v[i - m]
  OBVIOUS
<1>2. m # 0 => u[m] >= b  OBVIOUS
<1>3. w # <<>> => m + n # 0  BY <1>1
<1> HIDE DEF w, m, n
<1>4. \A i \in m + 1 .. m + n : w[i] = b + (i - m)
  <2> SUFFICES ASSUME NEW i \in m + 1 .. m + n PROVE w[i] = b + (i - m)  OBVIOUS
  <2>1. i - m \in 1 .. n  BY <1>1
  <2> QED BY <1>1, <2>1 DEF n
<1>5. m # 0 => w[m] >= b /\ w[m] \in Nat  BY <1>1, <1>2
<1>6. ASSUME NEW i \in 2 .. m + n PROVE w[i] <= w[i - 1] + 1
  <2>1. CASE i <= m
    <3>1. i \in 2 .. m /\ i \in 1 .. m /\ i - 1 \in 1 .. m  BY <1>1, <2>1
    <3>2. u[i] <= u[i - 1] + 1  BY <3>1 DEF NoGap, m
    <3> QED BY <1>1, <3>1, <3>2
  <2>2. CASE i = m + 1
    <3>1. i - 1 = m /\ m # 0 /\ i \in m + 1 .. m + n /\ i - m = 1  BY <1>1, <2>2
    <3>2. w[i] = b + 1 /\ w[i - 1] >= b /\ w[i - 1] \in Nat  BY <1>4, <1>5, <3>1
    <3> QED BY <3>2
  <2>3. CASE i > m + 1
    <3>1. i \in m + 1 .. m + n /\ i - 1 \in m + 1 .. m + n  BY <1>1, <2>3
    <3> QED BY <1>1, <1>4, <3>1
  <2> QED BY <1>1, <2>1, <2>2, <2>3
<1>7. w # <<>> => w[m + n] >= b + n
  <2>1. CASE n = 0  BY <1>1, <1>3, <1>5, <2>1
  <2>2. CASE n # 0  BY <1>1, <1>4, <2>2
  <2> QED BY <2>1, <2>2
<1> QED BY <1>1, <1>6, <1>7 DEF NoGap, w, n

\* The entries joined one after the other skip no message.
LEMMA RecoveredNoGap ==
    ASSUME NEW idx \in Seq(Entries), NEW L, Laid(idx, L)
    PROVE  NoGap(Recovered(idx))
<1> DEFINE n == Len(idx)
           q == [i \in 1 .. n |-> idx[i].messages]
           End(i) == L[i] + Len(idx[i].messages)
<1>1. /\ n \in Nat /\ L \in [1 .. n -> Nat]
      /\ \A i \in 1 .. n : idx[i].messages \in Seq(Nat) /\ Len(idx[i].messages) \in Nat
  <2>1. n \in Nat /\ \A i \in 1 .. n : idx[i] \in Entries  OBVIOUS
  <2>2. \A e \in Entries : e.messages \in Seq(Nat) /\ Len(e.messages) \in Nat  BY DEF Entries
  <2>3. L \in [1 .. n -> Nat]  BY DEF Laid
  <2> QED BY <2>1, <2>2, <2>3
<1>2. q \in Seq(Seq(Nat)) /\ Len(q) = n  BY <1>1
<1>3. PICK f \in [0 .. n -> Seq(Nat)] : Joins(f, q) /\ Recovered(idx) = f[n]  BY <1>2, FlattenJoins DEF Recovered
<1>4. f[0] = <<>> /\ \A i \in 1 .. n : f[i] = f[i - 1] \o q[i]  BY <1>2, <1>3 DEF Joins
<1>5. ASSUME NEW i \in 1 .. n, NEW j \in 1 .. n, j = i + 1
      PROVE  L[j] <= End(i)
  <2>1. Follows(idx[j].index, L[j], Len(idx[j].messages), idx[i], L[i])  BY <1>5 DEF Laid
  <2> QED BY <1>1, <2>1 DEF Follows
<1> DEFINE Good(i) == /\ NoGap(f[i])
                      /\ f[i] # <<>> => i # 0 /\ f[i][Len(f[i])] >= End(i)
           Bad == {i \in 0 .. n : ~Good(i)}
<1>6. Good(0)  BY <1>4 DEF NoGap
<1>7. ASSUME NEW i \in 1 .. n, Good(i - 1) PROVE Good(i)
  <2> DEFINE u == f[i - 1]
             v == idx[i].messages
             b == L[i]
  <2>1. i - 1 \in 0 .. n /\ i # 0  BY <1>1
  <2>2. u \in Seq(Nat) /\ v \in Seq(Nat) /\ b \in Nat /\ f[i] = u \o v /\ NoGap(u)  BY <1>1, <1>3, <1>4, <1>7, <2>1
  <2>3. ASSUME u # <<>> PROVE u[Len(u)] >= b
    <3>1. i - 1 \in 1 .. n /\ i = (i - 1) + 1  BY <1>1, <1>7, <2>3
    <3>2. L[i] <= End(i - 1) /\ End(i - 1) \in Nat
      <4> SUFFICES ASSUME NEW h \in 1 .. n, i = h + 1, h = i - 1
                   PROVE  L[i] <= End(h) /\ End(h) \in Nat  BY <3>1
      <4>1. L[i] <= End(h)  BY <1>5
      <4>2. L[h] \in Nat /\ Len(idx[h].messages) \in Nat  BY <1>1
      <4> QED BY <4>1, <4>2
    <3>3. u[Len(u)] >= End(i - 1)  BY <1>7, <2>3
    <3>4. u[Len(u)] \in Nat  BY <2>2, <2>3
    <3> HIDE DEF u, End
    <3> QED BY <2>2, <3>2, <3>3, <3>4
  <2>4. \A k \in 1 .. Len(v) : v[k] = b + k  BY DEF Laid
  <2> HIDE DEF u, v, b
  <2>5. NoGap(u \o v) /\ (u \o v # <<>> => (u \o v)[Len(u \o v)] >= b + Len(v))  BY <2>2, <2>3, <2>4, JoinNoGap, Zenon
  <2> QED BY <2>1, <2>2, <2>5 DEF v, b
<1> HIDE DEF Good
<1>8. Bad = {}
  <2> SUFFICES ASSUME Bad # {} PROVE FALSE  OBVIOUS
  <2>1. PICK m \in Bad : \A y \in Bad : m <= y
    <3>1. Bad \in SUBSET Nat  BY <1>1
    <3> HIDE DEF Bad
    <3> QED BY <3>1, NatLeast
  <2>2. m \in 0 .. n /\ ~Good(m)  BY <2>1
  <2>3. m # 0  BY <1>6, <2>2
  <2>4. m \in 1 .. n /\ m - 1 \in 0 .. n /\ ~(m <= m - 1)  BY <1>1, <2>2, <2>3
  <2>5. Good(m - 1)  BY <2>1, <2>4
  <2> QED BY <1>7, <2>2, <2>4, <2>5
<1>9. Good(n)  BY <1>1, <1>8
<1> QED BY <1>3, <1>9 DEF Good

\* Entries of different numbers have no message in common.
LEMMA NumbersApart ==
    ASSUME NEW idx \in Seq(Entries), NEW L, Laid(idx, L),
           NEW a \in 1 .. Len(idx), NEW c \in 1 .. Len(idx), idx[a].index # idx[c].index
    PROVE  ToSet(idx[a].messages) \cap ToSet(idx[c].messages) = {}
<1> DEFINE n == Len(idx)
           W(i) == Len(idx[i].messages)
           X(i) == idx[i].index
<1>1. /\ n \in Nat /\ L \in [1 .. n -> Nat]
      /\ \A i \in 1 .. n : /\ idx[i].messages \in Seq(Nat) /\ W(i) \in Nat /\ X(i) \in Nat
                           /\ L[i] \in Nat
  <2>1. n \in Nat /\ \A i \in 1 .. n : idx[i] \in Entries  OBVIOUS
  <2>2. \A e \in Entries : e.messages \in Seq(Nat) /\ Len(e.messages) \in Nat /\ e.index \in Nat  BY DEF Entries
  <2>3. L \in [1 .. n -> Nat]  BY DEF Laid
  <2> QED BY <2>1, <2>2, <2>3
<1>2. \A i, j \in 1 .. n : j = i + 1 =>
          \/ X(j) = X(i) /\ L[j] = L[i] /\ W(i) <= W(j)
          \/ X(j) > X(i) /\ L[j] = L[i] + W(i)
  BY Zenon DEF Laid, Follows
<1>3. \A i, j \in 1 .. n : i <= j => X(i) <= X(j)  BY Zenon DEF Laid
<1>4. \A i \in 1 .. n : \A k \in 1 .. W(i) : idx[i].messages[k] = L[i] + k  BY Zenon DEF Laid
<1> HIDE DEF n, W, X
<1>5. ASSUME NEW i \in 1 .. n, NEW j \in 1 .. n, i <= j, X(i) # X(j)
      PROVE  L[i] + W(i) <= L[j]
  <2> DEFINE Good(k) == IF X(k) = X(i) THEN L[k] = L[i] /\ W(i) <= W(k) ELSE L[i] + W(i) <= L[k]
             Bad == {k \in i .. n : ~Good(k)}
  <2>1. Good(i)  BY <1>1
  <2>2. ASSUME NEW k \in 1 .. n, i < k, Good(k - 1) PROVE Good(k)
    <3>1. k - 1 \in 1 .. n /\ k = (k - 1) + 1 /\ i <= k - 1  BY <1>1, <2>2
    <3>2. \/ X(k) = X(k - 1) /\ L[k] = L[k - 1] /\ W(k - 1) <= W(k)
          \/ X(k) > X(k - 1) /\ L[k] = L[k - 1] + W(k - 1)
      BY <1>2, <3>1
    <3>3. X(i) <= X(k - 1) /\ X(i) \in Nat /\ X(k) \in Nat /\ X(k - 1) \in Nat  BY <1>1, <1>3, <3>1
    <3>4. L[k - 1] \in Nat /\ W(k - 1) \in Nat /\ L[i] \in Nat /\ W(i) \in Nat /\ W(k) \in Nat  BY <1>1, <3>1
    <3>5. CASE X(k) = X(i)
      <4>1. X(k - 1) = X(i) /\ L[k] = L[k - 1] /\ W(k - 1) <= W(k)  BY <3>2, <3>3, <3>5
      <4>2. L[k - 1] = L[i] /\ W(i) <= W(k - 1)  BY <2>2, <4>1
      <4> QED BY <3>4, <3>5, <4>1, <4>2
    <3>6. CASE X(k) # X(i)
      <4>1. CASE X(k - 1) = X(i)
        <5>1. L[k] = L[k - 1] + W(k - 1)  BY <3>2, <3>6, <4>1
        <5>2. L[k - 1] = L[i] /\ W(i) <= W(k - 1)  BY <2>2, <4>1
        <5> QED BY <3>4, <3>6, <5>1, <5>2
      <4>2. CASE X(k - 1) # X(i)
        <5>1. L[i] + W(i) <= L[k - 1]  BY <2>2, <4>2
        <5>2. L[k] = L[k - 1] \/ L[k] = L[k - 1] + W(k - 1)  BY <3>2
        <5> QED BY <3>4, <3>6, <5>1, <5>2
      <4> QED BY <4>1, <4>2
    <3> QED BY <3>5, <3>6
  <2> HIDE DEF Good
  <2>3. Bad = {}
    <3> SUFFICES ASSUME Bad # {} PROVE FALSE  OBVIOUS
    <3>1. PICK m \in Bad : \A y \in Bad : m <= y
      <4>1. Bad \in SUBSET Nat  BY <1>1
      <4> HIDE DEF Bad
      <4> QED BY <4>1, NatLeast
    <3>2. m \in i .. n /\ ~Good(m)  BY <3>1
    <3>3. m # i  BY <2>1, <3>2
    <3>4. m \in 1 .. n /\ i < m /\ m - 1 \in i .. n /\ ~(m <= m - 1)  BY <1>1, <3>2, <3>3
    <3>5. Good(m - 1)  BY <3>1, <3>4
    <3> QED BY <2>2, <3>2, <3>4, <3>5
  <2>4. Good(j)
    <3>1. j \in i .. n  BY <1>1, <1>5
    <3> QED BY <2>3, <3>1
  <2> QED BY <1>5, <2>4 DEF Good
<1>6. ASSUME NEW i \in 1 .. n, NEW j \in 1 .. n, i <= j, X(i) # X(j)
      PROVE  ToSet(idx[i].messages) \cap ToSet(idx[j].messages) = {}
  <2> SUFFICES ASSUME NEW x \in ToSet(idx[i].messages), x \in ToSet(idx[j].messages)
               PROVE  FALSE  OBVIOUS
  <2>0. ASSUME NEW y \in 1 .. n, x \in ToSet(idx[y].messages)
        PROVE  \E k \in 1 .. W(y) : x = L[y] + k
    <3>1. DOMAIN idx[y].messages = 1 .. W(y)
      <4>1. idx[y].messages \in Seq(Nat)  BY <1>1
      <4>2. \A v \in Seq(Nat) : DOMAIN v = 1 .. Len(v)  OBVIOUS
      <4> QED BY <4>1, <4>2 DEF W
    <3>2. PICK k \in 1 .. W(y) : x = idx[y].messages[k]  BY <2>0, <3>1 DEF ToSet
    <3> QED BY <1>4, <3>2
  <2>1. PICK k \in 1 .. W(i) : x = L[i] + k  BY <2>0
  <2>2. PICK h \in 1 .. W(j) : x = L[j] + h  BY <2>0
  <2>3. L[i] + W(i) <= L[j]  BY <1>5, <1>6
  <2> QED BY <1>1, <2>1, <2>2, <2>3
<1>7. a <= c \/ c <= a  BY <1>1 DEF n
<1> QED BY <1>6, <1>7 DEF n, X

\* The checkpoint number of a session changes with a published checkpoint only.
LEMMA CheckpointUpdates ==
    ASSUME NEW r \in SessionRecord
    PROVE  /\ r.checkpoint_index \in Nat
           /\ \A v \in Seq(Nat) : [r EXCEPT !.message_buffer = v].checkpoint_index = r.checkpoint_index
           /\ \A key \in RecoveryKeys :
                 [r EXCEPT !.recovery_public_key = key].checkpoint_index = r.checkpoint_index
           /\ \A v \in Seq(Entries) : [r EXCEPT !.index = v].checkpoint_index = r.checkpoint_index
           /\ NextCheckpoint(r).checkpoint_index = r.checkpoint_index + 1
  BY DEF SessionRecord, NextCheckpoint

\* What a session's order depends on.
LEMMA SameOrder ==
    ASSUME NEW r, NEW w, NEW n, InOrder(r, n), w.index = r.index,
           w.message_buffer = r.message_buffer, w.checkpoint_index = r.checkpoint_index
    PROVE  InOrder(w, n)
<1>1. PICK B, L : Laid(r.index, L) /\ Buffers(r, n, B) /\ GoesOn(r, L, B)  BY Zenon DEF InOrder
<1>2. Laid(w.index, L) /\ Buffers(w, n, B) /\ GoesOn(w, L, B)  BY <1>1 DEF Buffers, GoesOn
<1> QED BY <1>2, Zenon DEF InOrder

\* A session that the map does not hold goes on after all its messages.
LEMMA NewInOrder ==
    ASSUME NEW n \in Nat
    PROVE  InOrder(NewState, n)
<1> DEFINE L == [i \in 1 .. 0 |-> 0]
<1>1. NewState.index = <<>> /\ NewState.message_buffer = <<>>  BY DEF NewState
<1>2. Laid(NewState.index, L)  BY <1>1 DEF Laid
<1>3. Buffers(NewState, n, n)  BY <1>1 DEF Buffers
<1>4. GoesOn(NewState, L, n)  BY <1>1 DEF GoesOn
<1> HIDE DEF L
<1> QED BY <1>2, <1>3, <1>4, Zenon DEF InOrder

\* The next message of the conversation goes to the end of the buffer.
LEMMA BufferedInOrder ==
    ASSUME NEW r \in SessionRecord, NEW n \in Nat, InOrder(r, n)
    PROVE  InOrder([r EXCEPT !.message_buffer = Append(@, n + 1)], n + 1)
<1> DEFINE b == r.message_buffer
           c == Append(b, n + 1)
           w == [r EXCEPT !.message_buffer = c]
<1>1. PICK B, L : Laid(r.index, L) /\ Buffers(r, n, B) /\ GoesOn(r, L, B)  BY Zenon DEF InOrder
<1>2. /\ b \in Seq(Nat) /\ c \in Seq(Nat) /\ Len(c) = Len(b) + 1 /\ c[Len(b) + 1] = n + 1
      /\ \A k \in 1 .. Len(b) : c[k] = b[k]
  BY SessionUpdates
<1>3. /\ w.message_buffer = c /\ w.index = r.index
      /\ w.checkpoint_index = r.checkpoint_index
  BY <1>2, SessionUpdates, CheckpointUpdates
<1>4. B \in Nat /\ n = B + Len(b) /\ \A k \in 1 .. Len(b) : b[k] = B + k  BY <1>1 DEF Buffers
<1> HIDE DEF w, c, b
<1>5. ASSUME NEW k \in 1 .. Len(c) PROVE c[k] = B + k
  <2>1. CASE k = Len(b) + 1  BY <1>2, <1>4, <2>1
  <2>2. CASE k # Len(b) + 1
    <3>1. k \in 1 .. Len(b)  BY <1>2, <2>2
    <3> QED BY <1>2, <1>4, <3>1
  <2> QED BY <2>1, <2>2
<1>6. Len(b) \in Nat /\ n + 1 = B + Len(c)  BY <1>2, <1>4
<1>7. Buffers(w, n + 1, B)  BY <1>3, <1>4, <1>5, <1>6 DEF Buffers
<1>8. Laid(w.index, L) /\ GoesOn(w, L, B)
  <2> DEFINE z == r.index[Len(r.index)]
  <2>1. ASSUME r.index # <<>>
        PROVE  Follows(r.checkpoint_index, B, Len(c), z, L[Len(r.index)])
    <3>1. Follows(r.checkpoint_index, B, Len(b), z, L[Len(r.index)])  BY <1>1, <2>1 DEF GoesOn, b
    <3>2. Len(z.messages) \in Nat
      <4>1. r.index \in Seq(Entries)  BY DEF SessionRecord
      <4>2. z \in Entries  BY <2>1, <4>1
      <4> QED BY <4>2 DEF Entries
    <3> HIDE DEF z
    <3> QED BY <1>2, <1>6, <3>1, <3>2 DEF Follows
  <2> QED BY <1>1, <1>3, <2>1 DEF GoesOn
<1>9. InOrder(w, n + 1)  BY <1>7, <1>8, Zenon DEF InOrder
<1> QED BY <1>9 DEF w, c, b

\* The delta of the buffer goes to the end of the index.
LEMMA IndexedInOrder ==
    ASSUME NEW r \in SessionRecord, NEW n \in Nat, InOrder(r, n), NEW e \in Entries,
           e.messages = r.message_buffer, e.index = r.checkpoint_index
    PROVE  InOrder([r EXCEPT !.index = Append(@, e)], n)
<1> DEFINE q == r.index
           p == Append(q, e)
           w == [r EXCEPT !.index = p]
<1>1. PICK B, L : Laid(r.index, L) /\ Buffers(r, n, B) /\ GoesOn(r, L, B)  BY Zenon DEF InOrder
<1>2. q \in Seq(Entries) /\ p \in Seq(Entries)  BY SessionUpdates
<1>3. /\ w.message_buffer = r.message_buffer /\ w.index = p
      /\ w.checkpoint_index = r.checkpoint_index
  BY <1>2, SessionUpdates, CheckpointUpdates
<1>4. B \in Nat /\ \A k \in 1 .. Len(e.messages) : e.messages[k] = B + k  BY <1>1 DEF Buffers
<1>5. q # <<>> => Follows(e.index, B, Len(e.messages), q[Len(q)], L[Len(q)])  BY <1>1 DEF GoesOn
<1> DEFINE M == [i \in 1 .. Len(q) + 1 |-> IF i = Len(q) + 1 THEN B ELSE L[i]]
<1>6. Laid(p, M) /\ M[Len(q) + 1] = B
  <2>1. Laid(q, L)  BY <1>1
  <2> HIDE DEF q
  <2> QED BY <1>2, <1>4, <1>5, <2>1, LaidAppend
<1>7. Len(p) = Len(q) + 1 /\ p[Len(q) + 1] = e  BY <1>2
<1> HIDE DEF M, w, p, q
<1>8. Buffers(w, n, B)  BY <1>1, <1>3 DEF Buffers
<1>9. GoesOn(w, M, B)  BY <1>3, <1>6, <1>7 DEF GoesOn, Follows
<1>10. InOrder(w, n)  BY <1>3, <1>6, <1>8, <1>9, Zenon DEF InOrder
<1> QED BY <1>10 DEF w, p, q

\* The buffer is cleared when its delta is the last of the index.
LEMMA PublishedInOrder ==
    ASSUME NEW r \in SessionRecord, NEW n \in Nat, InOrder(r, n), r.index # <<>>,
           r.index[Len(r.index)].messages = r.message_buffer,
           r.index[Len(r.index)].index = r.checkpoint_index
    PROVE  InOrder(NextCheckpoint(r), n)
<1> DEFINE w == NextCheckpoint(r)
           z == r.index[Len(r.index)]
<1>1. PICK B, L : Laid(r.index, L) /\ Buffers(r, n, B) /\ GoesOn(r, L, B)  BY Zenon DEF InOrder
<1>2. /\ w.message_buffer = <<>> /\ w.index = r.index
      /\ w.checkpoint_index = r.checkpoint_index + 1 /\ r.checkpoint_index \in Nat
  BY SessionUpdates, CheckpointUpdates
<1>3. L[Len(r.index)] = B  BY <1>1, <1>2 DEF GoesOn, Follows
<1>4. n = L[Len(r.index)] + Len(z.messages)  BY <1>1, <1>3 DEF Buffers
<1> HIDE DEF w
<1>5. Buffers(w, n, n)  BY <1>2 DEF Buffers
<1>6. GoesOn(w, L, n)  BY <1>2, <1>4 DEF GoesOn, Follows
<1>7. Laid(w.index, L)  BY <1>1, <1>2
<1>8. InOrder(w, n)  BY <1>5, <1>6, <1>7, Zenon DEF InOrder
<1> QED BY <1>8 DEF w

\* An upload of the index stores what memory holds.
LEMMA StoredInOrder ==
    ASSUME OrderInv, call.stage = "index", s5_index' \in {s5_index, StoreIndex}
    PROVE  S5InOrder'
<1>0. PublisherTypeOK /\ MemoryInOrder /\ S5InOrder  BY DEF OrderInv
<1>1. call.session_id \in Sessions /\ Entry(call.session_id) = state[call.session_id]  BY <1>0, CallEntry DEF InProgress
<1>2. \A z \in Sessions : \E L : Laid(StoreIndex[z], L)
  <2> SUFFICES ASSUME NEW z \in Sessions PROVE \E L : Laid(StoreIndex[z], L)  OBVIOUS
  <2>1. CASE z = call.session_id
    <3>1. StoreIndex[z] = Entry(z).index  BY <1>0, <1>1, <2>1 DEF StoreIndex, PublisherTypeOK
    <3>2. \E L : Laid(Entry(z).index, L)  BY <1>0, Zenon DEF MemoryInOrder, InOrder
    <3> QED BY <3>1, <3>2
  <2>2. CASE z # call.session_id
    <3>1. StoreIndex[z] = s5_index[z]  BY <1>0, <1>1, <2>2 DEF StoreIndex, PublisherTypeOK
    <3> QED BY <1>0, <3>1, Zenon DEF S5InOrder
  <2> QED BY <2>1, <2>2
<1> QED BY <1>0, <1>2 DEF S5InOrder

LEMMA BufferMessageInOrder ==
    ASSUME OrderInv, NEW s \in Sessions, BufferMessage(s)
    PROVE  MemoryInOrder' /\ S5InOrder' /\ CallInOrder'
<1>0. PublisherTypeOK /\ MemoryInOrder /\ S5InOrder /\ said \in [Sessions -> Nat]  BY DEF OrderInv, PublisherTypeOK
<1> DEFINE r == [Entry(s) EXCEPT !.message_buffer = Append(@, said[s] + 1)]
<1>1. said'[s] = said[s] + 1 /\ \A z \in Sessions \ {s} : said'[z] = said[z]  BY <1>0 DEF BufferMessage
<1>2. Entry(s) \in SessionRecord /\ said[s] \in Nat /\ InOrder(Entry(s), said[s])  BY <1>0, EntryFacts DEF MemoryInOrder
<1>3. r \in SessionRecord
  <2>1. Append(Entry(s).message_buffer, said[s] + 1) \in Seq(Nat)  BY <1>2, SessionUpdates
  <2> QED BY <1>2, <2>1, SessionUpdates
<1>4. InOrder(r, said[s] + 1)  BY <1>2, BufferedInOrder
<1>5. state' = SetState(s, r)  BY <1>1 DEF BufferMessage
<1> HIDE DEF r
<1>6. Entry(s)' = r /\ \A z \in Sessions \ {s} : Entry(z)' = Entry(z)  BY <1>0, <1>3, <1>5, InsertEntry
<1>7. ASSUME NEW z \in Sessions PROVE InOrder(Entry(z)', said'[z])
  <2>1. CASE z = s  BY <1>1, <1>4, <1>6, <2>1
  <2>2. CASE z # s
    <3>1. Entry(z)' = Entry(z) /\ said'[z] = said[z]  BY <1>1, <1>6, <2>2
    <3>2. InOrder(Entry(z), said[z])  BY <1>0 DEF MemoryInOrder
    <3> QED BY <3>1, <3>2
  <2> QED BY <2>1, <2>2
<1>8. MemoryInOrder'  BY <1>7 DEF MemoryInOrder, InOrder, Buffers, GoesOn
<1>9. S5InOrder'  BY <1>0 DEF BufferMessage, S5InOrder
<1>10. ~InProgress'  BY <1>0, LockedCall DEF BufferMessage, InProgress
<1> QED BY <1>8, <1>9, <1>10 DEF CallInOrder

\* A session's state is inserted with the messages it had.
LEMMA ReinsertInOrder ==
    ASSUME OrderInv, NEW s \in Sessions, NEW r \in SessionRecord, state' = SetState(s, r),
           r.index = Entry(s).index, r.message_buffer = Entry(s).message_buffer,
           r.checkpoint_index = Entry(s).checkpoint_index, UNCHANGED <<said, s5_index>>
    PROVE  MemoryInOrder' /\ S5InOrder' /\ Entry(s)' = r
<1>0. PublisherTypeOK /\ MemoryInOrder /\ S5InOrder  BY DEF OrderInv
<1>1. Entry(s)' = r /\ \A z \in Sessions \ {s} : Entry(z)' = Entry(z)  BY <1>0, InsertEntry
<1>2. InOrder(r, said[s])
  <2>1. InOrder(Entry(s), said[s])  BY <1>0 DEF MemoryInOrder
  <2> QED BY <2>1, SameOrder
<1>3. ASSUME NEW z \in Sessions PROVE InOrder(Entry(z)', said'[z])
  <2>1. said'[z] = said[z] /\ InOrder(Entry(z), said[z])  BY <1>0 DEF MemoryInOrder
  <2> QED BY <1>1, <1>2, <2>1
<1>4. MemoryInOrder'  BY <1>3 DEF MemoryInOrder
<1>5. S5InOrder'  BY <1>0 DEF S5InOrder
<1> QED BY <1>1, <1>4, <1>5

LEMMA DeltaStoredInOrder ==
    ASSUME OrderInv, DeltaStored
    PROVE  MemoryInOrder' /\ S5InOrder' /\ CallInOrder'
<1> SUFFICES ASSUME NEW s, s = call.session_id
             PROVE  MemoryInOrder' /\ S5InOrder' /\ CallInOrder'  OBVIOUS
<1>0. /\ PublisherTypeOK /\ MemoryInOrder /\ S5InOrder /\ CallInOrder
      /\ said \in [Sessions -> Nat] /\ InProgress
  BY DEF OrderInv, PublisherTypeOK, DeltaStored, InProgress
<1>1. /\ s \in DOMAIN state /\ s \in Sessions /\ Entry(s) = state[s]
      /\ state[s] \in SessionRecord /\ call.entry \in Entries
  BY <1>0, CallEntry
<1>2. call.entry.messages = state[s].message_buffer /\ call.entry.index = state[s].checkpoint_index
  BY <1>0, <1>1 DEF CallInOrder
<1> DEFINE q == state[s].index
           p == Append(q, call.entry)
           r == [state[s] EXCEPT !.index = p]
<1>3. q \in Seq(Entries) /\ p \in Seq(Entries) /\ p # <<>> /\ p[Len(p)] = call.entry
  <2>1. q \in Seq(Entries)  BY <1>1, SessionUpdates
  <2> HIDE DEF q
  <2>2. Append(q, call.entry) \in Seq(Entries) /\ Len(Append(q, call.entry)) = Len(q) + 1  BY <1>1, <2>1
  <2>3. Append(q, call.entry)[Len(q) + 1] = call.entry /\ Len(q) \in Nat  BY <1>1, <2>1
  <2>4. Append(q, call.entry) # <<>>  BY <2>2, <2>3
  <2> QED BY <2>1, <2>2, <2>3, <2>4
<1>4. /\ r.index = p /\ r.message_buffer = state[s].message_buffer
      /\ r.checkpoint_index = state[s].checkpoint_index
  BY <1>1, <1>3, SessionUpdates, CheckpointUpdates
<1>5. InOrder(r, said[s])
  <2>1. said[s] \in Nat /\ InOrder(state[s], said[s])  BY <1>0, <1>1 DEF MemoryInOrder
  <2> QED BY <1>1, <1>2, <2>1, IndexedInOrder
<1>6. state' = [state EXCEPT ![s] = r]  BY DEF DeltaStored
<1> HIDE DEF r, p, q
<1>7. Entry(s)' = r /\ \A z \in Sessions \ {s} : Entry(z)' = Entry(z)  BY <1>0, <1>1, <1>6 DEF Entry, PublisherTypeOK
<1>8. ASSUME NEW z \in Sessions PROVE InOrder(Entry(z)', said'[z])
  <2>1. said'[z] = said[z] /\ InOrder(Entry(z), said[z])  BY <1>0 DEF MemoryInOrder, DeltaStored
  <2> QED BY <1>5, <1>7, <2>1
<1>9. MemoryInOrder'  BY <1>8 DEF MemoryInOrder
<1>10. S5InOrder'  BY <1>0 DEF S5InOrder, DeltaStored
<1>11. call'.session_id = s /\ call'.entry = call.entry  BY <1>0, DeltaStoredShape DEF DeltaStep, SameCall
<1>12. Entry(call.session_id)' = r  BY <1>7, <1>11 DEF Entry
<1>13. CallInOrder'  BY <1>2, <1>3, <1>4, <1>11, <1>12 DEF CallInOrder
<1> QED BY <1>9, <1>10, <1>13

LEMMA IndexStoredInOrder ==
    ASSUME OrderInv, IndexStored
    PROVE  MemoryInOrder' /\ S5InOrder' /\ CallInOrder'
<1> SUFFICES ASSUME NEW s, s = call.session_id
             PROVE  MemoryInOrder' /\ S5InOrder' /\ CallInOrder'  OBVIOUS
<1>0. /\ PublisherTypeOK /\ MemoryInOrder /\ CallInOrder
      /\ said \in [Sessions -> Nat] /\ InProgress /\ call.stage = "index"
  BY DEF OrderInv, PublisherTypeOK, IndexStored, InProgress
<1>1. /\ s \in DOMAIN state /\ s \in Sessions /\ Entry(s) = state[s]
      /\ state[s] \in SessionRecord
  BY <1>0, CallEntry
<1> DEFINE r == state[s]
           w == NextCheckpoint(r)
<1>2. /\ r.index # <<>> /\ r.index[Len(r.index)].messages = r.message_buffer
      /\ r.index[Len(r.index)].index = r.checkpoint_index
  BY <1>0, <1>1 DEF CallInOrder
<1>3. InOrder(w, said[s])
  <2>1. said[s] \in Nat /\ InOrder(r, said[s])  BY <1>0, <1>1 DEF MemoryInOrder
  <2> HIDE DEF r
  <2>2. r \in SessionRecord  BY <1>1 DEF r
  <2> QED BY <1>2, <2>1, <2>2, PublishedInOrder
<1>4. state' = [state EXCEPT ![s] = w]  BY DEF IndexStored
<1> HIDE DEF w
<1>5. Entry(s)' = w /\ \A z \in Sessions \ {s} : Entry(z)' = Entry(z)  BY <1>0, <1>1, <1>4 DEF Entry, PublisherTypeOK
<1>6. ASSUME NEW z \in Sessions PROVE InOrder(Entry(z)', said'[z])
  <2>1. said'[z] = said[z] /\ InOrder(Entry(z), said[z])  BY <1>0 DEF MemoryInOrder, IndexStored
  <2> QED BY <1>3, <1>5, <2>1
<1>7. MemoryInOrder'  BY <1>6 DEF MemoryInOrder
<1>8. S5InOrder'  BY <1>0, StoredInOrder DEF IndexStored
<1>9. ~InProgress'  BY DEF IndexStored, IdleCall, InProgress
<1> QED BY <1>7, <1>8, <1>9 DEF CallInOrder

\* A failed attempt changes no session in memory.
LEMMA AttemptInOrder ==
    ASSUME OrderInv,
           DeltaAttemptFails \/ DeltaUploadFails \/ IndexAttemptFails \/ IndexUploadFails
    PROVE  MemoryInOrder' /\ S5InOrder' /\ CallInOrder'
<1>0. PublisherTypeOK /\ MemoryInOrder /\ S5InOrder /\ CallInOrder  BY DEF OrderInv
<1>1. UNCHANGED <<state, said>>  BY DEF DeltaAttemptFails, DeltaUploadFails, IndexAttemptFails, IndexUploadFails
<1>2. MemoryInOrder'  BY <1>0, <1>1 DEF MemoryInOrder, Entry
<1>3. S5InOrder'
  <2>1. CASE call.stage = "index" /\ s5_index' \in {s5_index, StoreIndex}  BY <2>1, StoredInOrder
  <2>2. CASE s5_index' = s5_index  BY <1>0, <2>2 DEF S5InOrder
  <2> QED BY <2>1, <2>2 DEF DeltaAttemptFails, DeltaUploadFails, IndexAttemptFails, IndexUploadFails
<1>4. InProgress /\ (~InProgress' \/ (call'.stage = call.stage /\ SameCall))  BY <1>0, AttemptShape DEF AttemptStep
<1>5. CASE ~InProgress'  BY <1>2, <1>3, <1>5 DEF CallInOrder
<1>6. CASE call'.stage = call.stage /\ SameCall
  <2>1. Entry(call.session_id)' = Entry(call.session_id)  BY <1>1, <1>6 DEF Entry, SameCall
  <2>2. CallInOrder'  BY <1>0, <1>4, <1>6, <2>1 DEF CallInOrder, SameCall
  <2> QED BY <1>2, <1>3, <2>2
<1> QED BY <1>4, <1>5, <1>6

LEMMA OrderInvNext ==
    ASSUME OrderInv, [PubNext]_pubVars
    PROVE  OrderInv'
<1>0. PublisherTypeOK /\ MemoryInOrder /\ S5InOrder /\ CallInOrder /\ said \in [Sessions -> Nat]
  BY DEF OrderInv, PublisherTypeOK
<1> DEFINE Goal == MemoryInOrder' /\ S5InOrder' /\ CallInOrder'
<1>1. PublisherTypeOK'  BY <1>0, PublisherTypeNext
<1>2. SUFFICES Goal  BY <1>1 DEF OrderInv
<1>3. ASSUME NEW s \in Sessions, BufferMessage(s) PROVE Goal  BY <1>3, BufferMessageInOrder
<1>4. ASSUME NEW s \in Sessions, NEW key \in RecoveryKeys, SetRecoveryPublicKey(s, key)
      PROVE  Goal
  <2> DEFINE r == [Entry(s) EXCEPT !.recovery_public_key = key]
  <2>1. Entry(s) \in SessionRecord  BY <1>0, EntryFacts
  <2>2. /\ r \in SessionRecord /\ r.index = Entry(s).index
        /\ r.message_buffer = Entry(s).message_buffer
        /\ r.checkpoint_index = Entry(s).checkpoint_index
    BY <2>1, SessionUpdates, CheckpointUpdates
  <2>3. state' = SetState(s, r) /\ UNCHANGED <<said, s5_index>>  BY <1>4 DEF SetRecoveryPublicKey
  <2>4. ~InProgress'  BY <1>0, <1>4, LockedCall DEF SetRecoveryPublicKey, InProgress
  <2> HIDE DEF r
  <2>5. MemoryInOrder' /\ S5InOrder'  BY <2>2, <2>3, ReinsertInOrder
  <2> QED BY <2>4, <2>5 DEF CallInOrder
<1>5. ASSUME NEW s \in Sessions, NEW proof \in Proofs, PublishBegin(s, proof) PROVE Goal
  <2>1. Entry(s) \in SessionRecord /\ state' = SetState(s, Entry(s)) /\ UNCHANGED <<said, s5_index>>
    BY <1>0, <1>5, EntryFacts DEF PublishBegin
  <2>2. MemoryInOrder' /\ S5InOrder' /\ Entry(s)' = Entry(s)  BY <2>1, ReinsertInOrder
  <2>3. /\ call'.session_id = s /\ call'.stage = "delta"
        /\ call'.entry.messages = Entry(s).message_buffer
        /\ call'.entry.index = Entry(s).checkpoint_index
    BY <1>5 DEF PublishBegin, MakeEntry
  <2>4. Entry(call.session_id)' = Entry(s)  BY <2>2, <2>3 DEF Entry
  <2> QED BY <2>2, <2>3, <2>4 DEF CallInOrder
<1>6. ASSUME NEW s \in Sessions, PublishRefused(s) PROVE Goal
  <2>1. Entry(s) \in SessionRecord /\ state' = SetState(s, Entry(s)) /\ UNCHANGED <<said, s5_index>>
    BY <1>0, <1>6, EntryFacts DEF PublishRefused
  <2>2. MemoryInOrder' /\ S5InOrder'  BY <2>1, ReinsertInOrder
  <2>3. ~InProgress'  BY <1>0, <1>6, LockedCall DEF PublishRefused, InProgress
  <2> QED BY <2>2, <2>3 DEF CallInOrder
<1>7. CASE UploadStep  BY <1>7, DeltaStoredInOrder, AttemptInOrder, IndexStoredInOrder DEF UploadStep
<1>8. CASE Crash
  <2>1. ASSUME NEW z \in Sessions PROVE InOrder(Entry(z)', said'[z])
    <3>1. Entry(z)' = NewState /\ said'[z] \in Nat  BY <1>0, <1>8 DEF Crash, Entry
    <3> QED BY <3>1, NewInOrder
  <2>2. MemoryInOrder'  BY <2>1 DEF MemoryInOrder
  <2>3. S5InOrder' /\ ~InProgress'  BY <1>0, <1>8 DEF Crash, S5InOrder, IdleCall, InProgress
  <2> QED BY <2>2, <2>3 DEF CallInOrder
<1>9. CASE UNCHANGED pubVars  BY <1>0, <1>9 DEF pubVars, MemoryInOrder, S5InOrder, CallInOrder, InProgress, Entry
<1> HIDE DEF Goal
<1> QED BY <1>3, <1>4, <1>5, <1>6, <1>7, <1>8, <1>9 DEF PubNext

LEMMA OrderInvInit == PubInit => OrderInv
<1> SUFFICES ASSUME PubInit PROVE OrderInv  OBVIOUS
<1>1. PublisherTypeOK  BY DEF PubInit, PublisherTypeOK, IdleCall
<1>2. MemoryInOrder
  <2>1. ASSUME NEW s \in Sessions PROVE InOrder(Entry(s), said[s])
    <3>1. Entry(s) = NewState /\ said[s] \in Nat  BY DEF PubInit, Entry
    <3> QED BY <3>1, NewInOrder
  <2> QED BY <2>1 DEF MemoryInOrder
<1>3. S5InOrder
  <2> DEFINE L == [i \in 1 .. 0 |-> 0]
  <2>1. Laid(<<>>, L)  BY DEF Laid
  <2> HIDE DEF L
  <2> QED BY <2>1 DEF PubInit, S5InOrder
<1>4. ~InProgress  BY DEF PubInit, IdleCall, InProgress
<1> QED BY <1>1, <1>2, <1>3, <1>4 DEF OrderInv, CallInOrder

\* A client that joins the deltas of all entries of the index skips no message, and
\* finds a message again only in another entry with the same number, for any number
\* of sessions, messages and checkpoints: publish_checkpoint leaves the entry of a
\* failed index upload in memory, numbers the next one the same and begins it at
\* the same message.
THEOREM RecoveryHasNoGaps == PubSpec => []RecoveryIsContiguous
<1>1. OrderInv => RecoveryIsContiguous
  <2> SUFFICES ASSUME OrderInv, NEW s \in Sessions, NEW idx, idx = s5_index[s]
               PROVE  /\ NoGap(Recovered(idx))
                      /\ \A i, j \in 1 .. Len(idx) : idx[i].index # idx[j].index =>
                            ToSet(idx[i].messages) \cap ToSet(idx[j].messages) = {}  BY DEF RecoveryIsContiguous, NoGap
  <2>1. idx \in Seq(Entries) /\ \E L : Laid(idx, L)  BY DEF OrderInv, PublisherTypeOK, S5InOrder
  <2> QED BY <2>1, RecoveredNoGap, NumbersApart
<1> QED BY <1>1, OrderInvInit, OrderInvNext, PTL DEF PubSpec
=============================================================================
