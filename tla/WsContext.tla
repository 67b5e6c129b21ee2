----------------------------- MODULE WsContext -----------------------------
(***************************************************************************)
(* The memory of the WebSocket sessions: the session store and the files   *)
(* behind it (session_store.rs, session.rs, persistence.rs), the           *)
(* conversation caches (memory_cache.rs), the memory manager and session   *)
(* pool (memory_manager.rs), and the context of a prompt                   *)
(* (context_manager.rs, context_strategies.rs).                            *)
(***************************************************************************)
EXTENDS Integers, Sequences, FiniteSets, FiniteSetsExt, SequencesExt

CONSTANTS CtxSessions, CtxChains,   \* session ids, supported chains
          CtxMaxSessions,           \* SessionStoreConfig::max_sessions, MemoryConfig::max_sessions
          CtxLimit,                 \* max_context_tokens
          CtxWindow,                \* ContextConfig::window_size
          PreserveFirst,            \* preserve_first_n
          MaxMsgs,                  \* bound on the messages of a conversation
          MaxCtxOps                 \* bound on the operations of a part

ASSUME CtxAssumption ==
    /\ CtxMaxSessions \in Nat \ {0} /\ CtxLimit \in Nat \ {0} /\ CtxWindow \in Nat \ {0}
    /\ PreserveFirst \in Nat /\ MaxMsgs \in Nat /\ MaxCtxOps \in Nat

VARIABLES ctxPart,    \* the part a behaviour is about
          sstore,     \* the session store, its files and backups
          conv,       \* a conversation cache and the cache manager
          smem,       \* the memory manager and the session pool
          built       \* a session's history and the context built from it

ctxVars == <<ctxPart, sstore, conv, smem, built>>

\* A message by its role and its tokens.
CtxMsgs == [role : {"system", "user"}, tok : {1, 2}]
CtxTokens(ms) == LET tok == [i \in 1 .. Len(ms) |-> ms[i].tok] IN MapThenSumSet(LAMBDA i : tok[i], 1 .. Len(ms))

\* `dead': the sessions destroyed and not back since; `undeleted': those whose file could
\* not be deleted then; `ended': those that expired or were dropped.
NoSessions == [live |-> {}, disk |-> {}, backup |-> {}, dead |-> {}, undeleted |-> {}, ended |-> {}, ops |-> 0]
NewConversation ==
    [messages |-> <<>>, total |-> 0, caches |-> {}, old |-> {}, job |-> 0, ops |-> 0]
NewMemory ==
    [lru |-> <<>>, compressed |-> {}, used |-> 0, data |-> {}, evicted |-> 0,
     pool |-> CtxMaxSessions, permits |-> CtxMaxSessions, stuck |-> FALSE, ops |-> 0]
NewContext ==
    [history |-> <<>>, context |-> <<>>, room |-> CtxLimit, cached |-> <<>>, hits |-> 0, ops |-> 0]

CtxInit ==
    /\ ctxPart \in {"store", "conv", "memory", "context"}
    /\ sstore = NoSessions
    /\ conv = NewConversation
    /\ smem = NewMemory
    /\ built = NewContext

-----------------------------------------------------------------------------
(* SessionStore. A session is on the chain it was made with.  The calls    *)
(* that change the store take &mut self, so none runs beside another.      *)

StoreStep(s) == ctxPart = "store" /\ sstore.ops < MaxCtxOps
                /\ sstore' = [s EXCEPT !.ops = @ + 1] /\ UNCHANGED <<ctxPart, conv, smem, built>>
OnStore(id) == {x \in sstore.live : x[2] = id}

\* A session is saved where its caller saves and the save, whose error is ignored,
\* succeeds; then it is inserted.
InsertSession(s, saved) ==
    StoreStep([sstore EXCEPT !.disk = IF saved THEN @ \cup {s} ELSE @, !.live = (@ \ OnStore(s[2])) \cup {s},
                             !.dead = @ \ {s}])
BelowLimit == Cardinality(sstore.live) < CtxMaxSessions
NewId(id) == \A s \in sstore.live \cup sstore.disk \cup sstore.backup \cup sstore.dead \cup sstore.ended : s[2] # id
DefaultChain == CHOOSE c \in CtxChains : TRUE

\* create_session: a new id, no limit, saved.
CreateSession(id) == NewId(id) /\ \E saved \in BOOLEAN : InsertSession(<<DefaultChain, id>>, saved)

\* create_session_with_id, and try_create_session with a new id: limited, not saved.
CreateSessionWithId(id) == BelowLimit /\ InsertSession(<<DefaultChain, id>>, FALSE)

\* create_session_with_chain: limited and saved; it replaces a session of that id.
CreateSessionWithChain(id, c) == BelowLimit /\ \E saved \in BOOLEAN : InsertSession(<<c, id>>, saved)

\* ensure_session_exists_with_chain, unless the session is there.
EnsureSession(id, c) ==
    OnStore(id) = {} /\ BelowLimit /\ \E saved \in BOOLEAN : InsertSession(<<c, id>>, saved)

\* get_or_create_rag_session: no limit, not saved.
GetOrCreateRagSession(id) == OnStore(id) = {} /\ InsertSession(<<DefaultChain, id>>, FALSE)

\* update_session; an error of the save is ignored.
UpdateSession(s) ==
    /\ s \in sstore.live
    /\ StoreStep([sstore EXCEPT !.disk = @ \cup {s}])

\* Mutant: the file is looked for on the default chain.
DestroySession_DefaultChain(s) ==
    /\ s \in sstore.live
    /\ StoreStep([sstore EXCEPT !.live = @ \ {s}, !.disk = @ \ {<<DefaultChain, s[2]>>}, !.dead = @ \cup {s}])

\* destroy_session deletes the file on the chain of the session it removed; an error of
\* the deletion is ignored and the file stays.
DestroySession(s) ==
    /\ s \in sstore.live
    /\ \/ StoreStep([sstore EXCEPT !.live = @ \ {s}, !.disk = @ \ {s}, !.dead = @ \cup {s}, !.undeleted = @ \ {s}])
       \/ /\ s \in sstore.disk
          /\ StoreStep([sstore EXCEPT !.live = @ \ {s}, !.dead = @ \cup {s}, !.undeleted = @ \cup {s}])

\* remove_session, cleanup_expired and clear_all leave the file.
CleanupExpired(s) ==
    /\ s \in sstore.live
    /\ StoreStep([sstore EXCEPT !.live = @ \ {s}, !.ended = @ \cup {s}])

\* recover_all_sessions: the sessions of all chains, by id.
Recovered(disk) ==
    {keep \in SUBSET disk : /\ \A x \in disk : \E y \in keep : x[2] = y[2]
                            /\ \A x, y \in keep : x[2] = y[2] => x = y}

\* recover_sessions after a restart: what can be loaded of the disk, without a limit; of
\* two chains with the same id the one listed later stays.
RecoverSessions ==
    /\ sstore.disk # {}
    /\ \E loaded \in SUBSET sstore.disk : \E keep \in Recovered(loaded) :
          StoreStep([sstore EXCEPT !.live = keep, !.dead = @ \ keep])

\* create_chain_backup and restore_from_backup
CreateChainBackup(c) ==
    StoreStep([sstore EXCEPT !.backup = (@ \ {x \in @ : x[1] = c}) \cup {x \in sstore.disk : x[1] = c}])

RestoreFromBackup(c) ==
    LET saved == {x \in sstore.backup : x[1] = c}
    IN StoreStep([sstore EXCEPT !.disk = @ \cup saved, !.dead = @ \ saved])

\* migrate_session_chain: the file moves, or is copied when the deletion fails; the
\* session in memory does not move.
MigrateSessionChain(s, c) ==
    /\ s \in sstore.disk /\ c # s[1]
    /\ \E gone \in {{}, {s}} :
          StoreStep([sstore EXCEPT !.disk = (@ \ gone) \cup {<<c, s[2]>>}, !.dead = @ \ {<<c, s[2]>>}])

\* delete_expired_sessions: a session that is loaded was active just now, so none is expired.
DeleteExpired == sstore.disk

-----------------------------------------------------------------------------
(* ConversationCache and CacheManager.                                     *)

ConvStep(s) == ctxPart = "conv" /\ conv.ops < MaxCtxOps
               /\ conv' = [s EXCEPT !.ops = @ + 1] /\ UNCHANGED <<ctxPart, sstore, smem, built>>

\* trim_to_token_limit: the oldest messages go, one by one, until the rest is within the
\* limit; a leading system message and the newest stay.
TrimToTokenLimit(ms, total, system) ==
    LET i == IF system THEN 2 ELSE 1
        left(n) == total - CtxTokens(SubSeq(ms, i, i + n - 1))
        n == Min({k \in 0 .. Len(ms) : Len(ms) - k <= i \/ left(k) <= CtxLimit})
    IN [messages |-> SubSeq(ms, 1, i - 1) \o SubSeq(ms, i + n, Len(ms)), total |-> left(n)]

Trimmed(ms, total) == TrimToTokenLimit(ms, total, ms # <<>> /\ ms[1].role = "system")

\* add_message
CacheMessage(m) ==
    LET t == Trimmed(Append(conv.messages, m), conv.total + m.tok)
    IN Len(conv.messages) < MaxMsgs /\ ConvStep([conv EXCEPT !.messages = t.messages, !.total = t.total])

\* initialize_with_context, and clear with the empty context
InitializeWithContext(ms) ==
    LET t == Trimmed(ms, CtxTokens(ms)) IN ConvStep([conv EXCEPT !.messages = t.messages, !.total = t.total])

\* create_cache, remove_cache, update_job_id and the passing of time
CreateCache(id) == ConvStep([conv EXCEPT !.caches = @ \cup {id}, !.old = @ \ {id}])
RemoveCache(id) == id \in conv.caches /\ ConvStep([conv EXCEPT !.caches = @ \ {id}, !.old = @ \ {id}])
UpdateJobId(j) == ConvStep([conv EXCEPT !.job = j])
CacheAges(id) == id \in conv.caches /\ ConvStep([conv EXCEPT !.old = @ \cup {id}])
CleanupOldCaches == conv.old # {} /\ ConvStep([conv EXCEPT !.caches = @ \ conv.old, !.old = {}])

-----------------------------------------------------------------------------
(* MemoryManager: every session counts one unit; SessionPool.              *)

MemStep(s) == ctxPart = "memory" /\ smem.ops < MaxCtxOps /\ ~smem.stuck
              /\ smem' = [s EXCEPT !.ops = @ + 1] /\ UNCHANGED <<ctxPart, sstore, conv, built>>

\* LruCache::put: the id becomes the newest; a full cache silently loses its oldest.
CtxPut(lru, id) ==
    LET rest == SelectSeq(lru, LAMBDA x : x # id)
    IN Append(IF Len(rest) >= CtxMaxSessions THEN Tail(rest) ELSE rest, id)

\* Mutant: an eviction starts the count again.
AddSession_Restart(id) ==
    LET full == smem.used + 1 > CtxLimit
    IN /\ full => smem.lru # <<>>
       /\ MemStep([smem EXCEPT !.lru = CtxPut(IF full THEN Tail(@) ELSE @, id),
                               !.used = IF full THEN 1 ELSE @ + 1,
                               !.evicted = IF full THEN @ + 1 ELSE @])

\* add_session: over the memory limit one session is evicted, and its bytes taken off.
AddSession(id) ==
    LET full == smem.used + 1 > CtxLimit
    IN /\ full => smem.lru # <<>>
       /\ MemStep([smem EXCEPT !.lru = CtxPut(IF full THEN Tail(@) ELSE @, id),
                               !.used = IF full THEN @ ELSE @ + 1,
                               !.evicted = IF full THEN @ + 1 ELSE @])

\* get_session: a compressed session is asked for under the read lock that its
\* decompression needs for writing; nobody gets that lock again.
GetMemSession(id) ==
    \/ id \in smem.compressed /\ MemStep([smem EXCEPT !.stuck = TRUE])
    \/ id \notin smem.compressed /\ id \in ToSet(smem.lru) /\ MemStep([smem EXCEPT !.lru = CtxPut(@, id)])

\* remove_session takes nothing off the count.
RemoveMemSession(id) ==
    MemStep([smem EXCEPT !.lru = SelectSeq(@, LAMBDA x : x # id), !.compressed = @ \ {id}, !.data = @ \ {id}])

\* mark_idle, compress_session
MarkIdle(id) ==
    /\ id \in ToSet(smem.lru)
    /\ MemStep([smem EXCEPT !.lru = SelectSeq(@, LAMBDA x : x # id), !.compressed = @ \cup {id}])

AddSessionData(id) == MemStep([smem EXCEPT !.data = @ \cup {id}, !.used = @ + 1])

\* acquire consumes a permit before it pops; release pushes before it adds one.
PoolAcquire == smem.permits > 0 /\ MemStep([smem EXCEPT !.permits = @ - 1, !.pool = @ - 1])
PoolRelease == smem.permits < CtxMaxSessions /\ MemStep([smem EXCEPT !.permits = @ + 1, !.pool = @ + 1])

-----------------------------------------------------------------------------
(* ContextManager::build_context.                                          *)

CtxStep(s) == ctxPart = "context" /\ built.ops < MaxCtxOps
              /\ built' = [s EXCEPT !.ops = @ + 1] /\ UNCHANGED <<ctxPart, sstore, conv, smem>>


\* WebSocketSession::add_message, add_message_async; a full session refuses.
AddMessage(m) ==
    /\ Len(built.history) < MaxMsgs
    /\ CtxStep([built EXCEPT !.history = Append(@, m)])

NonSystem(m) == m.role # "system"
FirstInOrder(ms, n) == SubSeq(ms, 1, Min({n, Len(ms)}))
LastOf(ms, n) == SubSeq(ms, Max({1, Len(ms) - n + 1}), Len(ms))

\* The system messages at the beginning.
LeadingSystem(ms) ==
    LET i == SelectInSeq(ms, NonSystem) IN IF i = 0 THEN Len(ms) ELSE i - 1

\* What apply_window keeps whatever the window: the leading system messages and the
\* first others.
PreservedHead(ms) ==
    LET n == LeadingSystem(ms)
    IN FirstInOrder(ms, n) \o FirstInOrder(SelectSeq(SubSeq(ms, n + 1, Len(ms)), NonSystem), PreserveFirst)

\* The rest of the window is filled from the end; a message may be in both.
WindowOf(ms, w) ==
    LET head == PreservedHead(ms)
    IN head \o (IF w > Len(head) THEN LastOf(ms, w - Len(head)) ELSE <<>>)

\* apply_window
ApplyWindow(ms) == IF Len(ms) <= CtxWindow THEN ms ELSE WindowOf(ms, CtxWindow)

\* apply_adaptive_window: three quarters of a short conversation.
ApplyAdaptiveWindow(ms) ==
    IF Len(ms) <= 5 THEN ms ELSE WindowOf(ms, IF Len(ms) <= 20 THEN (Len(ms) * 3) \div 4 ELSE CtxWindow)

\* How many messages the truncation may not touch.
PreservedCount(ms) ==
    LET n == LeadingSystem(ms)
    IN n + Min({Len(SelectSeq(SubSeq(ms, n + 1, Len(ms)), NonSystem)), PreserveFirst})

\* handle_overflow_internal with OverflowStrategy::Truncate: the first message that is
\* not preserved goes, until the rest fits or nothing else is left.
TruncateOnce(ms, room) ==
    LET k == PreservedCount(ms) + 1
    IN IF CtxTokens(ms) <= room \/ k > Len(ms) THEN ms ELSE RemoveAt(ms, k)
Truncate(ms, room) == FoldLeft(LAMBDA rest, i : TruncateOnce(rest, room), ms, [i \in 1 .. Len(ms) |-> i])

\* summarize_context and SummarizeStrategy: one message in place of all but the recent ones.
Summary == [role |-> "system", tok |-> 1]
SummarizeContext(ms, recent) == IF Len(ms) <= recent THEN ms ELSE <<Summary>> \o LastOf(ms, recent)

\* handle_overflow_with_prompt: the prompt's tokens are taken off the limit first.
\* OverflowStrategy::Dynamic summarises conversations of more than fifty messages.
HandleOverflow(ms, prompt) ==
    LET room == Max({0, CtxLimit - prompt})
    IN IF Len(ms) > 50 /\ CtxTokens(ms) > room THEN SummarizeContext(ms, 5) ELSE Truncate(ms, room)

\* TruncateStrategy::apply: each group as far as it fits.
TakeFitting(ms, room) ==
    FoldLeft(LAMBDA kept, m : IF CtxTokens(kept) + m.tok <= room THEN Append(kept, m) ELSE kept, <<>>, ms)

\* WindowingStrategy::create_windows, get_context_windows: where the windows begin.
WindowStarts(ms, size, step) == {i \in 1 .. Len(ms) : (i - 1) % step = 0 /\ (i = 1 \/ i - step + size <= Len(ms))}

\* build_context without its cache; adaptive_sizing is a configuration.
BuildContext(prompt, adaptive) ==
    /\ built.history # <<>>
    /\ LET windowed == IF adaptive THEN ApplyAdaptiveWindow(built.history) ELSE ApplyWindow(built.history)
           context == HandleOverflow(windowed, prompt)
       IN CtxStep([built EXCEPT !.context = context, !.room = Max({0, CtxLimit - prompt}), !.cached = context])

\* With enable_cache the context of an earlier build is answered while it is young,
\* whatever was said since.
CachedContext == built.cached # <<>> /\ CtxStep([built EXCEPT !.context = built.cached, !.hits = @ + 1])

\* WebSocketSession::clear
ClearHistory == built.history # <<>> /\ CtxStep([built EXCEPT !.history = <<>>])

-----------------------------------------------------------------------------

CtxNext ==
    \/ \E id \in CtxSessions : CreateSession(id) \/ CreateSessionWithId(id) \/ GetOrCreateRagSession(id)
    \/ \E id \in CtxSessions, c \in CtxChains : CreateSessionWithChain(id, c) \/ EnsureSession(id, c)
    \/ \E s \in CtxChains \X CtxSessions : UpdateSession(s) \/ DestroySession(s) \/ CleanupExpired(s)
    \/ \E s \in CtxChains \X CtxSessions, c \in CtxChains : MigrateSessionChain(s, c)
    \/ RecoverSessions
    \/ \E c \in CtxChains : CreateChainBackup(c) \/ RestoreFromBackup(c)
    \/ \E m \in CtxMsgs : CacheMessage(m) \/ AddMessage(m)
    \/ \E ms \in {<<>>} \cup {<<m, n>> : m, n \in CtxMsgs} : InitializeWithContext(ms)
    \/ \E id \in CtxSessions : CreateCache(id) \/ RemoveCache(id) \/ CacheAges(id)
    \/ CleanupOldCaches
    \/ UpdateJobId(1)
    \/ \E id \in CtxSessions :
          AddSession(id) \/ GetMemSession(id) \/ RemoveMemSession(id) \/ MarkIdle(id) \/ AddSessionData(id)
    \/ PoolAcquire \/ PoolRelease
    \/ \E prompt \in 0 .. 2, adaptive \in BOOLEAN : BuildContext(prompt, adaptive)
    \/ CachedContext \/ ClearHistory

CtxSpec == CtxInit /\ [][CtxNext]_ctxVars

-----------------------------------------------------------------------------

\* A restart recovers a session that was destroyed on its chain only where the deletion of
\* its file failed, an error destroy_session ignores: otherwise no file of it is left,
\* whatever creations under its id, migrations between chains and recoveries came before,
\* until it is made again or put back by a backup or a migration.
DestroyedIsGone == sstore.dead \cap sstore.disk \subseteq sstore.undeleted

\* The conversation cache counts exactly the tokens it holds, and is over its limit only
\* with the newest message and a leading system message left.
CacheWithinLimit ==
    /\ conv.total = CtxTokens(conv.messages)
    /\ conv.total > CtxLimit => Len(conv.messages) <= IF conv.messages[1].role = "system" THEN 2 ELSE 1

\* The memory manager's count covers every session it holds, so that taking an evicted
\* one off it never underflows.
SessionMemoryCovers == smem.used >= Len(smem.lru)

\* The messages of a context fit the limit next to the prompt, or are only the ones that
\* may never be left out; for conversations of up to fifty messages, as a longer one is
\* summarised and not compared with the limit again (context_manager.rs).
ContextFits ==
    CtxTokens(built.context) <= built.room \/ PreservedCount(built.context) = Len(built.context)
=============================================================================
