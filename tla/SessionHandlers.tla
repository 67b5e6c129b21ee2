-------------------------- MODULE SessionHandlers --------------------------
(***************************************************************************)
(* The handlers of the WebSocket message router (handlers/mod.rs,          *)
(* session_init.rs, session_resume.rs, prompt.rs, response.rs) and the     *)
(* session manager (manager.rs).  A handler takes a clone of a session's   *)
(* conversation cache and goes on with it after other handlers have run:   *)
(* the session may by then have been initialised again, or have ended.     *)
(***************************************************************************)
EXTENDS Integers, Sequences, FiniteSets, FiniteSetsExt, SequencesExt

CONSTANTS HdTasks,       \* handlers that run at the same time
          HdSessions,    \* session ids
          HdJobs,        \* job ids, 0 among them
          HdChains,      \* chains a message may name
          HdSupported,   \* those of them that are supported
          HdContexts,    \* conversation contexts a client sends
          HdIndexes,     \* message indexes a client sends
          HdLimit,       \* max_context_tokens, in messages
          MaxHandled     \* bound on the messages handled

ASSUME HdAssumption ==
    /\ HdSupported \subseteq HdChains /\ HdJobs \subseteq Nat /\ HdIndexes \subseteq Nat
    /\ HdLimit \in Nat \ {0} /\ MaxHandled \in Nat /\ IsFiniteSet(HdTasks) /\ HdTasks # {}
    /\ \A ctx \in HdContexts : ctx \in Seq({"system", "user", "assistant"})

VARIABLES hdPart,   \* "router" or "manager": the part a behaviour is about
          router,   \* the conversation caches and the handlers at work on them
          smgr      \* the session manager and the clones its callers hold

hdVars == <<hdPart, router, smgr>>

NoTask == [pc |-> "idle", obj |-> 0, idx |-> 0, ctx |-> <<>>, role |-> "user", job |-> 0, sess |-> "none"]

\* ConversationCache::new
NewCache(job) == [job |-> job, messages |-> <<>>, trimmed |-> FALSE]

\* The init handler and the resume handler each have a cache manager of their own.  The
\* caches of the first, `objs', are shared with the handlers that have a clone of one;
\* those of the second only its own handler knows, `by' the one that made it.
NoRouter ==
    [caches |-> [s \in HdSessions |-> 0], objs |-> <<>>,
     resumed |-> [s \in HdSessions |-> [by |-> "none", cache |-> NewCache(0)]],
     tasks |-> [t \in HdTasks |-> NoTask], handled |-> 0]
NoManager ==
    [sessions |-> {}, held |-> [t \in HdTasks |-> {}], gone |-> {}, moved |-> 0, handled |-> 0]

HdInit ==
    /\ hdPart \in {"router", "manager"}
    /\ router = NoRouter
    /\ smgr = NoManager

-----------------------------------------------------------------------------
(* The conversation cache, as the handlers use it.                         *)

\* trim_to_token_limit with one token a message: a leading system message and the newest stay.
KeptMessages(ms) ==
    LET n == Len(ms) - HdLimit
        first == IF ms # <<>> /\ ms[1].role = "system" THEN 2 ELSE 1
        cut == Min({n, Len(ms) - first})
    IN IF cut <= 0 THEN ms ELSE SubSeq(ms, 1, first - 1) \o SubSeq(ms, first + cut, Len(ms))

\* initialize_with_context and add_message
FilledWith(cache, ms) == [cache EXCEPT !.messages = KeptMessages(ms), !.trimmed = Len(ms) > Len(KeptMessages(ms))]
Extended(cache, m) ==
    LET ms == Append(cache.messages, m)
    IN [cache EXCEPT !.messages = KeptMessages(ms), !.trimmed = @ \/ Len(ms) > Len(KeptMessages(ms))]

Context(roles, job) == [i \in DOMAIN roles |-> [role |-> roles[i], idx |-> 0, job |-> job]]

-----------------------------------------------------------------------------
(* route_message: each arm is a handler; it awaits between its steps.      *)

RouterStep(r) == hdPart = "router" /\ router' = r /\ UNCHANGED <<hdPart, smgr>>
HandlerGoes(t, task) == [router EXCEPT !.tasks[t] = task]

\* The handler answers, with an error or a response, and is free.
HandlerAnswers(t) == [router EXCEPT !.tasks[t] = NoTask]

\* A message is taken up by a handler that is free.
Received(t) == router.tasks[t].pc = "idle" /\ router.handled < MaxHandled
Counted(r) == [r EXCEPT !.handled = @ + 1]

\* handle_session_init_with_recovery_key: job 0 and an unsupported chain (none is as good
\* as a supported one) are refused before anything is made; create_cache replaces the
\* cache of the session.
HandleSessionInit(t, s, job, c, ctx) ==
    /\ Received(t)
    /\ IF job = 0 \/ c \notin HdSupported THEN RouterStep(Counted(HandlerAnswers(t)))
       ELSE RouterStep(Counted(
              [router EXCEPT !.objs = Append(@, NewCache(job)), !.caches[s] = Len(router.objs) + 1,
                             !.tasks[t] = [NoTask EXCEPT !.pc = IF ctx = <<>> THEN "report" ELSE "fill",
                                                         !.obj = Len(router.objs) + 1,
                                                         !.ctx = ctx, !.job = job]]))

\* handle_session_resume: the index must be the length of the context, or 0; the cache
\* goes to the resume handler's own manager.
HandleSessionResume(t, s, job, ctx, idx) ==
    /\ Received(t)
    /\ IF job = 0 \/ (idx # Len(ctx) /\ idx # 0) THEN RouterStep(Counted(HandlerAnswers(t)))
       ELSE RouterStep(Counted(
              [router EXCEPT !.resumed[s] = [by |-> t, cache |-> NewCache(job)],
                             !.tasks[t] = [NoTask EXCEPT !.pc = "rebuild", !.sess = s, !.ctx = ctx, !.job = job]]))

\* The cache is filled even if a later resume has replaced it.
RebuildCache(t) ==
    LET k == router.tasks[t]
        mine == router.resumed[k.sess].by = t
    IN /\ k.pc = "rebuild"
       /\ RouterStep([HandlerAnswers(t) EXCEPT !.resumed[k.sess].cache =
                                            IF mine THEN FilledWith(@, Context(k.ctx, k.job)) ELSE @])

\* cache.initialize_with_context(conversation_context): what was said since is lost.
FillCache(t) ==
    LET k == router.tasks[t]
    IN /\ k.pc = "fill"
       /\ RouterStep([HandlerGoes(t, [k EXCEPT !.pc = "report"])
                      EXCEPT !.objs[k.obj] = FilledWith(@, Context(k.ctx, k.job))])

\* SessionInitResponse with the count the cache has now.
ReportCount(t) == router.tasks[t].pc = "report" /\ RouterStep(HandlerAnswers(t))

\* handle_prompt takes the cache of the init handler: a session that was only resumed
\* is not found.  An empty prompt is refused first.
HandlePrompt(t, s, idx, empty) ==
    /\ Received(t)
    /\ IF empty \/ router.caches[s] = 0 THEN RouterStep(Counted(HandlerAnswers(t)))
       ELSE RouterStep(Counted(HandlerGoes(t, [NoTask EXCEPT !.pc = "check", !.obj = router.caches[s], !.idx = idx,
                                                      !.sess = s, !.job = router.objs[router.caches[s]].job])))

\* Mutant: the index is not compared with the count.
CheckIndex_Any(t) == router.tasks[t].pc = "check" /\ RouterStep(HandlerGoes(t, [router.tasks[t] EXCEPT !.pc = "add"]))

\* message_count, and the index the client may use: one more, or 0.
CheckIndex(t) ==
    LET k == router.tasks[t]
    IN /\ k.pc = "check"
       /\ IF k.idx \in {0, Len(router.objs[k.obj].messages) + 1}
          THEN RouterStep(HandlerGoes(t, [k EXCEPT !.pc = "add"]))
          ELSE RouterStep(HandlerAnswers(t))

\* Mutant: the cache is looked up again for the message.
AddToCache_Lookup(t) ==
    LET k == router.tasks[t]
        o == router.caches[k.sess]
    IN /\ k.pc = "add" /\ o # 0
       /\ RouterStep([HandlerAnswers(t)
                      EXCEPT !.objs[o] = Extended(@, [role |-> k.role, idx |-> k.idx, job |-> k.job])])

\* cache.add_message, on the cache that was checked.
AddToCache(t) ==
    LET k == router.tasks[t]
    IN /\ k.pc = "add"
       /\ RouterStep([HandlerAnswers(t)
                      EXCEPT !.objs[k.obj] = Extended(@, [role |-> k.role, idx |-> k.idx, job |-> k.job])])

\* ResponseHandler::generate_response: get_cache, then the message after the proof.
HandleResponse(t, s) ==
    /\ Received(t)
    /\ IF router.caches[s] = 0 THEN RouterStep(Counted(HandlerAnswers(t)))
       ELSE RouterStep(Counted(HandlerGoes(t, [NoTask EXCEPT !.pc = "add", !.obj = router.caches[s], !.sess = s,
                                                      !.role = "assistant",
                                                      !.job = router.objs[router.caches[s]].job])))

\* SessionEnd: cleanup_session removes the cache, then clears it.
HandleSessionEnd(t, s) ==
    /\ Received(t)
    /\ IF router.caches[s] = 0 THEN RouterStep(Counted(HandlerAnswers(t)))
       ELSE RouterStep(Counted([HandlerGoes(t, [NoTask EXCEPT !.pc = "clear", !.obj = router.caches[s]])
                                EXCEPT !.caches[s] = 0]))

ClearConversation(t) ==
    /\ router.tasks[t].pc = "clear"
    /\ RouterStep([HandlerAnswers(t) EXCEPT !.objs[router.tasks[t].obj].messages = <<>>])

\* Any other message.
Unsupported(t) == Received(t) /\ RouterStep(Counted(HandlerAnswers(t)))

-----------------------------------------------------------------------------
(* SessionManager: a session is its id and its chain; get_session clones.  *)

SessionsStep(m) == hdPart = "manager" /\ smgr.handled < MaxHandled
                  /\ smgr' = [m EXCEPT !.handled = @ + 1] /\ UNCHANGED <<hdPart, router>>
SessionAt(id) == {x \in smgr.sessions : x[1] = id}

\* create_session takes any chain, create_session_validated a supported one;
\* register_session refuses an id that is there.
CreateManaged(id, c, validated) ==
    /\ SessionAt(id) = {} /\ (validated => c \in HdSupported)
    /\ SessionsStep([smgr EXCEPT !.sessions = @ \cup {<<id, c>>}, !.gone = @ \ {id}])

\* get_session
GetManaged(t, id) == SessionAt(id) # {} /\ SessionsStep([smgr EXCEPT !.held[t] = SessionAt(id)])

\* Mutant: the session is written back whether or not it is still there.
UpdateManaged_Insert(t) ==
    \E x \in smgr.held[t] :
        SessionsStep([smgr EXCEPT !.sessions = (@ \ SessionAt(x[1])) \cup {x}, !.held[t] = {}])

\* update_session writes the clone back, with the chain it was read with.
UpdateManaged(t) ==
    \E x \in smgr.held[t] :
        /\ SessionAt(x[1]) # {}
        /\ SessionsStep([smgr EXCEPT !.sessions = (@ \ SessionAt(x[1])) \cup {x}, !.held[t] = {}])

\* remove_session, clear_all
RemoveManaged(id) ==
    /\ SessionAt(id) # {}
    /\ SessionsStep([smgr EXCEPT !.sessions = @ \ SessionAt(id), !.gone = @ \cup {id}])
ClearManaged == SessionsStep([smgr EXCEPT !.sessions = {}, !.gone = @ \cup {x[1] : x \in smgr.sessions}])

\* migrate_session_to_chain through switch_chain
MigrateManaged(id, c) ==
    /\ SessionAt(id) # {} /\ c \in HdSupported
    /\ SessionsStep([smgr EXCEPT !.sessions = (@ \ SessionAt(id)) \cup {<<id, c>>}])

\* migrate_all_sessions_to_chain: the sessions elsewhere move, if the chain is supported.
MigrateAll(c) ==
    LET away == {x \in smgr.sessions : x[2] # c /\ c \in HdSupported}
    IN SessionsStep([smgr EXCEPT !.sessions = (@ \ away) \cup {<<x[1], c>> : x \in away},
                                 !.moved = Cardinality(away)])

\* list_sessions_by_chain, get_chain_statistics
SessionsOnChain(c) == {x \in smgr.sessions : x[2] = c}
ChainStatistics == [c \in {x[2] : x \in smgr.sessions} |-> Cardinality(SessionsOnChain(c))]

-----------------------------------------------------------------------------

HdNext ==
    \/ \E t \in HdTasks, s \in HdSessions, job \in HdJobs, ctx \in HdContexts :
          \/ \E c \in HdChains : HandleSessionInit(t, s, job, c, ctx)
          \/ \E i \in HdIndexes : HandleSessionResume(t, s, job, ctx, i)
    \/ \E t \in HdTasks, s \in HdSessions, i \in HdIndexes, e \in BOOLEAN : HandlePrompt(t, s, i, e)
    \/ \E t \in HdTasks, s \in HdSessions : HandleResponse(t, s) \/ HandleSessionEnd(t, s)
    \/ \E t \in HdTasks : FillCache(t) \/ ReportCount(t) \/ RebuildCache(t) \/ ClearConversation(t)
    \/ \E t \in HdTasks : CheckIndex(t) \/ AddToCache(t) \/ Unsupported(t)
    \/ \E id \in HdSessions, c \in HdChains, v \in BOOLEAN : CreateManaged(id, c, v)
    \/ \E t \in HdTasks : UpdateManaged(t) \/ \E id \in HdSessions : GetManaged(t, id)
    \/ \E id \in HdSessions : RemoveManaged(id)
    \/ \E id \in HdSessions, c \in HdChains : MigrateManaged(id, c)
    \/ \E c \in HdChains : MigrateAll(c)
    \/ ClearManaged

HdSpec == HdInit /\ [][HdNext]_hdVars

-----------------------------------------------------------------------------

\* A message is in a conversation of the job its sender was on when it was accepted,
\* however often the session was initialised again, resumed or ended before the handler
\* came to add it (prompt.rs handle_prompt, session_init.rs create_cache).
ConversationOfJob ==
    \A cache \in ToSet(router.objs) \cup {router.resumed[s].cache : s \in HdSessions} :
        \A m \in ToSet(cache.messages) : m.job = cache.job

\* The count is read before the message is added: at its place or after it an index is
\* used no more often than handlers were at work together, and before its place only by
\* handlers that had compared it with a conversation that the context of the client, or
\* the end of the session, then replaced; as long as nothing was trimmed (prompt.rs
\* handle_prompt, session_init.rs initialize_with_context).
IndexUsedOnce ==
    \A o \in DOMAIN router.objs, n \in HdIndexes \ {0} :
        LET ms == router.objs[o].messages
            used(k) == ms[k].idx = n
        IN ~router.objs[o].trimmed =>
              /\ Cardinality({k \in 1 .. Len(ms) : used(k) /\ k >= n}) <= Cardinality(HdTasks)
              /\ Cardinality({k \in 1 .. Len(ms) : used(k) /\ k < n}) <= Cardinality(HdTasks) - 1

\* A session that was removed does not come back with the clone somebody held of it, and
\* the statistics count every session id on exactly one chain (manager.rs).
RemovedStaysRemoved ==
    /\ \A x \in smgr.sessions : x[1] \notin smgr.gone
    /\ MapThenSumSet(LAMBDA c : ChainStatistics[c], DOMAIN ChainStatistics)
          = Cardinality({x[1] : x \in smgr.sessions})

=============================================================================
