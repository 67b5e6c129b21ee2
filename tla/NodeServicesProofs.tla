------------------------- MODULE NodeServicesProofs -------------------------
(***************************************************************************)
(* Proofs about all the services together, the sum MCNodeServices: the     *)
(* pairs of tables that nine of the components keep agree (IndexesAgree),  *)
(* and ten components keep to their limits (LimitsHold).  A step of        *)
(* the sum is a step of the component in focus, so the invariants of the   *)
(* components, here and in ServicePartsProofs, are one for the sum.        *)
(***************************************************************************)
EXTENDS MCNodeServices, ServicePartsProofs

-----------------------------------------------------------------------------
(* Tables that agree: small inductive invariants of nine components, each  *)
(* of the shape of its records and of the property.                        *)

\* What a dashboard's other tables hold of it goes with it (monitoring/dashboards.rs).
DashInv ==
    /\ DOMAIN dash = {"known", "panels", "data", "subscribed", "annotated", "layouts", "links", "task"}
    /\ DashboardsCleaned

\* It holds at first.
LEMMA DashInvInit == DashInit => DashInv  BY DEF DashInit, DashInv, DashboardsCleaned

\* Every step keeps it.
LEMMA DashInvNext == DashInv /\ DashNext => DashInv'
<1> SUFFICES ASSUME DashInv, DashNext PROVE DashInv'  OBVIOUS
<1> USE DEF DashInv, DashboardsCleaned
<1>1. CASE \E d \in Dashboards : CreateDashboard(d)  BY <1>1 DEF CreateDashboard
<1>2. CASE \E d \in Dashboards : AddPanel(d) \/ SetLayout(d) \/ CreatePublicLink(d) \/ (\E t \in MonTasks : FindPanel(t, d))
    BY <1>2 DEF AddPanel, SetLayout, CreatePublicLink, FindPanel
<1>3. CASE \E d \in Dashboards : SubscribeToUpdates(d) \/ AddAnnotation(d)
    BY <1>3 DEF SubscribeToUpdates, AddAnnotation
<1>4. CASE \E d \in Dashboards : DeleteDashboard(d)  BY <1>4 DEF DeleteDashboard
<1>5. CASE \E t \in MonTasks : StorePanelData(t)  BY <1>5 DEF StorePanelData
<1> QED BY <1>1, <1>2, <1>3, <1>4, <1>5 DEF DashNext

\* A rating that is about to be listed is stored (qa/ratings.rs).
RatingInv ==
    /\ DOMAIN ratings = {"next", "stored", "byModel", "byHost", "queue", "rejected", "reputation", "alerted",
                         "applied", "task"}
    /\ DOMAIN ratings.task = QaTasks
    /\ \A t \in QaTasks :
          /\ DOMAIN ratings.task[t] = {"pc", "id", "stars", "spam", "host"}
          /\ ratings.task[t].pc \in {"model", "alert", "host"} => \E s \in ratings.stored : s.id = ratings.task[t].id
    /\ ListedRatingIsStored

\* It holds at first.
LEMMA RatingInvInit == RatingsInit => RatingInv  BY DEF RatingsInit, RatingInv, ListedRatingIsStored, NoRating

\* Every step keeps it.
LEMMA RatingInvNext == RatingInv /\ RatingsNext => RatingInv'
<1> SUFFICES ASSUME RatingInv, RatingsNext PROVE RatingInv'  OBVIOUS
<1> USE DEF RatingInv, ListedRatingIsStored
<1>1. CASE CalculateReputationImpact  BY <1>1 DEF CalculateReputationImpact
<1>2. CASE \E id \in ratings.queue, approved \in BOOLEAN : ModerateRating(id, approved)  BY <1>2 DEF ModerateRating
<1>3. ASSUME NEW t \in QaTasks, NEW stars \in Stars, NEW spam \in BOOLEAN, NEW host \in BOOLEAN,
             SubmitRating(t, stars, spam, host)
      PROVE  RatingInv'  BY <1>3 DEF SubmitRating
<1>4. ASSUME NEW t \in QaTasks, StoreRating(t)
      PROVE  RatingInv'
    <2> DEFINE r == ratings.task[t]  new == [id |-> r.id, stars |-> r.stars]
    <2>1. new.id = r.id  OBVIOUS
    <2> HIDE DEF new
    <2>2. ratings' = [ratings EXCEPT !.task[t].pc = "model", !.stored = @ \cup {new}]  BY <1>4 DEF StoreRating, new
    <2>3. \E s \in ratings.stored \cup {new} : s.id = r.id  BY <2>1
    <2> QED BY <2>1, <2>2, <2>3
<1>5. ASSUME NEW t \in QaTasks, IndexRating(t)
      PROVE  RatingInv'  BY <1>5 DEF IndexRating
<1>6. ASSUME NEW t \in QaTasks, CheckRatingAlerts(t)
      PROVE  RatingInv'  BY <1>6 DEF CheckRatingAlerts, NoRating
<1>7. ASSUME NEW t \in QaTasks, IndexHostRating(t)
      PROVE  RatingInv'  BY <1>7 DEF IndexHostRating, NoRating
<1> QED BY <1>1, <1>2, <1>3, <1>4, <1>5, <1>6, <1>7 DEF RatingsNext

\* What the registry lists is a file (inference/models.rs).
RegistryInv ==
    /\ DOMAIN manager = {"registry", "files", "downloads", "ops"}
    /\ RegistryListsFiles

\* It holds at first.
LEMMA RegistryInvInit == EngInit => RegistryInv  BY DEF EngInit, RegistryInv, RegistryListsFiles

\* Every step keeps it.
LEMMA RegistryInvNext == RegistryInv /\ [EngNext]_engVars => RegistryInv'
<1> SUFFICES ASSUME RegistryInv, [EngNext]_engVars PROVE RegistryInv'  OBVIOUS
<1> USE DEF RegistryInv, RegistryListsFiles, ManagerOp, ManagerStep
<1>1. CASE UNCHANGED manager  BY <1>1
<1>2. CASE ScanModels \/ CleanupOldModels  BY <1>2 DEF ScanModels, CleanupOldModels
<1>3. CASE \E t \in EngTasks, m \in EngModels : DownloadModel(t, m)  BY <1>3 DEF DownloadModel
<1>4. CASE \E t \in EngTasks : DownloadTurn(t) \/ CancelDownload(t)  BY <1>4 DEF DownloadTurn, CancelDownload
<1>5. CASE \E t \in EngTasks, ok \in BOOLEAN : DownloadFile(t, ok)  BY <1>5 DEF DownloadFile
<1>6. CASE \E m \in EngModels, ok \in BOOLEAN : DeleteModel(m, ok)  BY <1>6 DEF DeleteModel
<1>7. CASE \E m, into \in EngModels : ConvertModel(m, into)  BY <1>7 DEF ConvertModel
<1> QED BY <1>1, <1>2, <1>3, <1>4, <1>5, <1>6, <1>7
       DEF EngNext, engVars, LoadEngineModel, StoreEngineModel, EngineModelReady, UnloadEngineModel, ForgetEngineModel,
           RunBegin, RunCounted, RunLocked, RunMetered, RunEnds, CancelHandle,
           ResetEngineMetrics, CacheTick, GetCached, PutCached, ClearInfCache, InvalidateCached, ResetCacheStats,
           EngStep, CacheOp, CacheStep

\* A session that is destroyed is live no more, nor on disk unless its file could not be
\* deleted (api/websocket/session_store.rs).
DestroyedInv ==
    /\ DOMAIN sstore = {"live", "disk", "backup", "dead", "undeleted", "ended", "ops"}
    /\ sstore.dead \cap sstore.live = {}
    /\ DestroyedIsGone

\* It holds at first.
LEMMA DestroyedInvInit == CtxInit => DestroyedInv  BY DEF CtxInit, NoSessions, DestroyedInv, DestroyedIsGone

\* Every step keeps it.
LEMMA DestroyedInvNext == DestroyedInv /\ [CtxNext]_ctxVars => DestroyedInv'
<1> SUFFICES ASSUME DestroyedInv, [CtxNext]_ctxVars PROVE DestroyedInv'  OBVIOUS
<1> USE DEF DestroyedInv, DestroyedIsGone, StoreStep
<1>1. CASE UNCHANGED sstore  BY <1>1
<1>2. ASSUME NEW x, NEW saved, InsertSession(x, saved)
      PROVE  DestroyedInv'  BY <1>2 DEF InsertSession
<1>3. CASE \E id \in CtxSessions : CreateSession(id) \/ CreateSessionWithId(id) \/ GetOrCreateRagSession(id)
    BY <1>2, <1>3, Zenon DEF CreateSession, CreateSessionWithId, GetOrCreateRagSession
<1>4. CASE \E id \in CtxSessions, c \in CtxChains : CreateSessionWithChain(id, c) \/ EnsureSession(id, c)
    BY <1>2, <1>4, Zenon DEF CreateSessionWithChain, EnsureSession
<1>5. CASE \E s : UpdateSession(s) \/ DestroySession(s) \/ CleanupExpired(s)
    <2>1. PICK s : UpdateSession(s) \/ DestroySession(s) \/ CleanupExpired(s)  BY <1>5
    <2>2. CASE UpdateSession(s)  BY <2>2 DEF UpdateSession
    <2>3. CASE DestroySession(s)  BY <2>3 DEF DestroySession
    <2>4. CASE CleanupExpired(s)  BY <2>4 DEF CleanupExpired
    <2> QED BY <2>1, <2>2, <2>3, <2>4
<1>6. ASSUME NEW s, NEW c \in CtxChains, MigrateSessionChain(s, c)
      PROVE  DestroyedInv'
    <2> DEFINE x == <<c, s[2]>>
    <2>1. PICK gone : StoreStep([sstore EXCEPT !.disk = (@ \ gone) \cup {x}, !.dead = @ \ {x}])
        BY <1>6 DEF MigrateSessionChain
    <2> HIDE DEF x
    <2> QED BY <2>1
<1>7. CASE RecoverSessions
    <2>1. PICK keep \in SUBSET sstore.disk : StoreStep([sstore EXCEPT !.live = keep, !.dead = @ \ keep])
        BY <1>7 DEF RecoverSessions, Recovered
    <2> QED BY <2>1
<1>8. CASE \E c \in CtxChains : CreateChainBackup(c) \/ RestoreFromBackup(c)
    <2>1. PICK c \in CtxChains : CreateChainBackup(c) \/ RestoreFromBackup(c)  BY <1>8
    <2> DEFINE kept == (sstore.backup \ {x \in sstore.backup : x[1] = c}) \cup {x \in sstore.disk : x[1] = c}
               saved == {x \in sstore.backup : x[1] = c}
    <2>2. CASE CreateChainBackup(c)
        <3>1. StoreStep([sstore EXCEPT !.backup = kept])  BY <2>2 DEF CreateChainBackup
        <3> HIDE DEF kept, saved
        <3> QED BY <3>1
    <2>3. CASE RestoreFromBackup(c)
        <3>1. StoreStep([sstore EXCEPT !.disk = @ \cup saved, !.dead = @ \ saved])  BY <2>3 DEF RestoreFromBackup
        <3> HIDE DEF kept, saved
        <3> QED BY <3>1
    <2> QED BY <2>1, <2>2, <2>3
<1> HIDE DEF DestroyedInv, DestroyedIsGone, StoreStep
<1>9. \A s : ConvStep(s) \/ MemStep(s) \/ CtxStep(s) => UNCHANGED sstore  BY DEF ConvStep, MemStep, CtxStep
<1>10. CASE (\E m : CacheMessage(m)) \/ (\E ms : InitializeWithContext(ms))
    BY <1>1, <1>9, <1>10, Zenon DEF CacheMessage, InitializeWithContext
<1>11. CASE \/ \E id \in CtxSessions : CreateCache(id) \/ RemoveCache(id) \/ CacheAges(id)
            \/ CleanupOldCaches \/ UpdateJobId(1)
    BY <1>1, <1>9, <1>11, Zenon DEF CreateCache, RemoveCache, CacheAges, CleanupOldCaches, UpdateJobId
<1>12. CASE \/ \E id \in CtxSessions :
                 AddSession(id) \/ GetMemSession(id) \/ RemoveMemSession(id) \/ MarkIdle(id) \/ AddSessionData(id)
            \/ PoolAcquire \/ PoolRelease
    BY <1>1, <1>9, <1>12, Zenon
       DEF AddSession, GetMemSession, RemoveMemSession, MarkIdle, AddSessionData, PoolAcquire, PoolRelease
<1>13. CASE \/ \E m \in CtxMsgs : AddMessage(m)
            \/ \E prompt \in 0 .. 2, adaptive \in BOOLEAN : BuildContext(prompt, adaptive)
            \/ CachedContext \/ ClearHistory
    BY <1>1, <1>9, <1>13, Zenon DEF AddMessage, BuildContext, CachedContext, ClearHistory
<1> QED BY <1>1, <1>2, <1>3, <1>4, <1>5, <1>6, <1>7, <1>8, <1>10, <1>11, <1>12, <1>13, SMT DEF CtxNext, ctxVars

\* A connection of the table is one of a task that serves it (api/websocket/server.rs).
ServedInv ==
    /\ DOMAIN wsServer = {"running", "conns", "session", "task"}
    /\ DOMAIN wsServer.task = TrTasks /\ wsServer.conns \subseteq TrTasks
    /\ ConnectionsAreServed

\* It holds at first.
LEMMA ServedInvInit == TrInit => ServedInv  BY DEF TrInit, ServedInv, ConnectionsAreServed

\* Every step keeps it.
LEMMA ServedInvNext == ServedInv /\ [TrNext]_trVars => ServedInv'
<1> SUFFICES ASSUME ServedInv, [TrNext]_trVars PROVE ServedInv'  OBVIOUS
<1> USE DEF ServedInv, ConnectionsAreServed, ServerStep
<1>1. CASE UNCHANGED wsServer  BY <1>1
<1>2. CASE ServerTransportNext
    <2>1. CASE ShutdownServer  BY <2>1 DEF ShutdownServer
    <2>2. ASSUME NEW t \in TrTasks, AcceptConnection(t)
          PROVE  ServedInv'  BY <2>2 DEF AcceptConnection
    <2>3. ASSUME NEW t \in TrTasks, FinishHandshake(t)
          PROVE  ServedInv'
        <3>1. t \notin wsServer.conns  BY <2>3 DEF FinishHandshake
        <3>2. CASE wsServer' = [wsServer EXCEPT !.task[t] = "open", !.conns = @ \cup {t}]  BY <3>2
        <3>3. CASE wsServer' = [wsServer EXCEPT !.task[t] = "none"]  BY <3>1, <3>3
        <3> QED BY <2>3, <3>2, <3>3 DEF FinishHandshake
    <2>4. ASSUME NEW t \in TrTasks, ConnectionEnds(t)
          PROVE  ServedInv'  BY <2>4 DEF ConnectionEnds
    <2>5. ASSUME NEW t \in TrTasks, ConnectionRemoved(t)
          PROVE  ServedInv'  BY <2>5 DEF ConnectionRemoved
    <2>6. ASSUME NEW t \in TrTasks, NEW s \in TrSessions, HandleText(t, s)
          PROVE  ServedInv'  BY <2>6 DEF HandleText
    <2> QED BY <1>2, <2>1, <2>2, <2>3, <2>4, <2>5, <2>6 DEF ServerTransportNext
<1> HIDE DEF ServedInv, ConnectionsAreServed, ServerStep
<1>3. \A s : \/ FrameStep(s) \/ PayloadStep(s) \/ SessionHandlerStep(s) \/ StreamStep(s) \/ EnginesStep(s)
             \/ WorkersStep(s) \/ JobChainStep(s) \/ AuthStep(s) \/ TrackerStep(s) \/ AnswerStep(s)
             => UNCHANGED wsServer
    BY DEF FrameStep, PayloadStep, SessionHandlerStep, StreamStep, EnginesStep, WorkersStep, JobChainStep, AuthStep,
           TrackerStep, AnswerStep
<1>4. CASE FrameNext
    BY <1>1, <1>3, <1>4, Zenon DEF FrameNext, EncodeFrame, ParseFrame, FragmentMessage, ReassembleFragments
<1>5. CASE HandlerNext
    <2>1. ASSUME NEW s, OnConnect(s) \/ OnDisconnect(s) \/ SessionTimesOut(s) \/ ClearSession(s) PROVE UNCHANGED wsServer
        BY <1>3, <2>1, Zenon DEF OnConnect, OnDisconnect, SessionTimesOut, ClearSession
    <2>2. ASSUME NEW t, CheckSession(t) \/ BuildPrompt(t) PROVE UNCHANGED wsServer
        BY <1>3, <2>2, Zenon DEF CheckSession, BuildPrompt
    <2>3. ASSUME NEW t, NEW s, HandleInference(t, s) PROVE UNCHANGED wsServer  BY <1>3, <2>3, Zenon DEF HandleInference
    <2>4. ASSUME NEW t, NEW from, NEW to, AddSessionMessage(t, from, to) PROVE UNCHANGED wsServer
        BY <1>3, <2>4, Zenon DEF AddSessionMessage
    <2> QED BY <1>1, <1>5, <2>1, <2>2, <2>3, <2>4, Zenon DEF HandlerNext
<1>6. CASE StreamNext
    BY <1>1, <1>3, <1>6, Zenon DEF StreamNext, CreateStreamingResponse, ReceiverDropped, SendPart, RecordAnswer
<1>7. CASE AnswersNext  BY <1>1, <1>3, <1>7, Zenon
       DEF AnswersNext, EngineChanges, HandlerWithoutEngine, UserSays, GenerateWithConfig, GenerateResponse,
           GenerateWithModel, AnswerSaid, AnswerOp
<1>8. CASE WorkersNext  BY <1>1, <1>3, <1>8, Zenon
       DEF WorkersNext, SetSessionTimeout, TimeoutRings, ShutdownSessions, AssignSession, HandoffSession
<1>9. CASE JobChainNext  BY <1>1, <1>3, <1>9, Zenon
       DEF JobChainNext, EndJobSession, CheckOtherChain, InsertJobSession, MapJobChain, CreateJobSession
<1>10. CASE ValidatePayload \/ \E kind, reason, key, nonce, signature : ReceivePayload(kind, key, nonce, signature, reason)
    BY <1>1, <1>3, <1>10, Zenon DEF ValidatePayload, ReceivePayload
<1>11. CASE EngineLoaded \/ \E m : TouchEngine(m) \/ LoadEngine(m, TRUE) \/ LoadEngine(m, FALSE)
    BY <1>1, <1>3, <1>11, Zenon DEF EngineLoaded, TouchEngine, LoadEngine
<1>12. CASE AuthTick \/ JobExpires \/ AuthenticateJob \/ CreateAuthToken \/ VerifyAuthToken
    BY <1>1, <1>3, <1>12, Zenon DEF AuthTick, JobExpires, AuthenticateJob, CreateAuthToken, VerifyAuthToken
<1>13. CASE ForceCheckpoint \/ CleanupJob \/ \E n \in 1 .. TrTokens : TrackJobTokens(n)
    BY <1>1, <1>3, <1>13, Zenon DEF ForceCheckpoint, CleanupJob, TrackJobTokens
<1>14. TrNext \/ UNCHANGED trVars  OBVIOUS
<1> QED BY <1>1, <1>2, <1>4, <1>5, <1>6, <1>7, <1>8, <1>9, <1>10, <1>11, <1>12, <1>13, <1>14 DEF TrNext, trVars

\* What a put answered for has a copy on this node (storage/).
CopiesInv ==
    /\ DOMAIN bridge = {"remote", "local", "answered", "task", "ops"}
    /\ bridge.ops \in Nat
    /\ DOMAIN bridge.local = StoKeys /\ DOMAIN bridge.task = StoTasks /\ bridge.answered \subseteq StoKeys
    /\ \A t \in StoTasks :
          /\ DOMAIN bridge.task[t] = {"pc", "k", "v"}
          /\ bridge.task[t].pc # "idle" => bridge.task[t].k \in StoKeys /\ bridge.task[t].v # 0
    /\ \A k \in bridge.answered : bridge.local[k] # 0

\* What has a copy can be read.
LEMMA CopiesAreRead == CopiesInv => AnsweredCanBeRead  BY DEF CopiesInv, AnsweredCanBeRead, ReadsCopy, GetFile

\* It holds at first.
LEMMA CopiesInvInit == StoInit => CopiesInv  BY DEF StoInit, CopiesInv, BridgeIdle

\* Every step keeps it.
LEMMA CopiesInvNext == CopiesInv /\ [StoNext]_stoVars => CopiesInv'
<1> SUFFICES ASSUME CopiesInv, [StoNext]_stoVars PROVE CopiesInv'  OBVIOUS
<1> USE DEF CopiesInv, BrOp, BrStep, BrEnd, BridgeIdle
<1>1. CASE UNCHANGED bridge  BY <1>1
<1>2. ASSUME NEW t \in StoTasks, NEW k \in StoKeys, PutFile(t, k)
      PROVE  CopiesInv'  BY <1>2 DEF PutFile
<1>3. ASSUME NEW t \in StoTasks, BridgeStores(t)
      PROVE  CopiesInv'  BY <1>3 DEF BridgeStores, BrAt
<1>4. ASSUME NEW t \in StoTasks, PutFails(t)
      PROVE  CopiesInv'  BY <1>4 DEF PutFails
<1>5. ASSUME NEW t \in StoTasks, PutAnswered(t)
      PROVE  CopiesInv'  BY <1>5 DEF PutAnswered, BrAt
<1>6. ASSUME NEW t \in StoTasks, PutCopies(t)
      PROVE  CopiesInv'  BY <1>6 DEF PutCopies, BrAt
<1>7. ASSUME NEW k \in StoKeys, DeleteFile(k)
      PROVE  CopiesInv'  BY <1>7 DEF DeleteFile
<1> HIDE DEF CopiesInv, BrOp, BrStep, BrEnd, BridgeIdle
<1>8. \A s : S5Step(s) \/ MsStep(s) \/ RcStep(s) \/ PcStep(s) \/ JobStep(s) => UNCHANGED bridge
    BY DEF S5Step, MsStep, RcStep, PcStep, JobStep
<1>9. CASE \/ InjectError \/ S5Fails \/ (\E k \in StoKeys : S5Delete(k))
           \/ \E t \in StoTasks : S5Insert(t) \/ \E k \in StoKeys, size \in StoSizes : S5Put(t, k, size)
    BY <1>1, <1>8, <1>9, Zenon DEF InjectError, S5Fails, S5Delete, S5Insert, S5Put, S5Op
<1>10. CASE \/ DeleteStored
            \/ \E t \in StoTasks :
                  \/ ListVersions(t)
                  \/ \E v, n : StoreModel(t, v, n)
                  \/ \E ok \in BOOLEAN :
                        \/ StorePart(t, ok) \/ StoreIndex(t, ok) \/ StoreMeta(t, ok) \/ StoreVersion(t, ok)
                        \/ Unflag(t, ok) \/ Flag(t, ok) \/ StoreLatest(t, ok)
    <2>1. \A t : MsFailed(t) => UNCHANGED bridge  BY <1>8, Zenon DEF MsFailed
    <2>2. \A t, ok : StorePart(t, ok) \/ StoreIndex(t, ok) \/ StoreMeta(t, ok) \/ StoreVersion(t, ok) => UNCHANGED bridge
        BY <1>8, <2>1, Zenon DEF StorePart, StoreIndex, StoreMeta, StoreVersion
    <2>3. \A t, ok : Unflag(t, ok) \/ Flag(t, ok) \/ StoreLatest(t, ok) => UNCHANGED bridge
        BY <1>8, <2>1, Zenon DEF Unflag, Flag, StoreLatest
    <2> QED BY <1>1, <1>8, <1>10, <2>2, <2>3, Zenon DEF DeleteStored, ListVersions, StoreModel
<1>11. CASE ResultCacheNext
    BY <1>1, <1>8, <1>11, Zenon DEF ResultCacheNext, RcClear, RcDelete, RcValid, RcFetch, RcPut, RcGet
<1>12. CASE \/ PcTick \/ PcClear
            \/ \E t \in StoTasks :
                  \/ PcMemory(t) \/ PcPut(t) \/ PcRemote(t) \/ PcFromS5(t) \/ PcMiss(t)
                  \/ \E ok \in BOOLEAN : PcUpload(t, ok)
                  \/ \E k \in StoKeys : PcSimilar(t, k) \/ \E op, size : PcBegin(t, op, k, size)
    BY <1>1, <1>8, <1>12 DEF PcTick, PcClear, PcMemory, PcPut, PcRemote, PcFromS5, PcMiss, PcUpload, PcSimilar, PcBegin
<1>13. CASE \/ ClearByJob
            \/ \E k \in StoKeys : RetrieveByJob(k) \/ RemoveByJob(k) \/ \E n \in StoSizes : StoreByJob(k, n)
    BY <1>1, <1>8, <1>13, Zenon DEF ClearByJob, RetrieveByJob, RemoveByJob, StoreByJob
<1> QED BY <1>1, <1>2, <1>3, <1>4, <1>5, <1>6, <1>7, <1>9, <1>10, <1>11, <1>12, <1>13 DEF StoNext, stoVars

\* A session's node is one of those the balancer knows (performance/load_balancing.rs).
AffinityInv ==
    /\ DOMAIN balancer = {"status", "conns", "failures", "errors", "busy", "affinity"}
    /\ DOMAIN balancer.status = LbNodes /\ DOMAIN balancer.affinity = LbSessions
    /\ \A s \in LbSessions : balancer.affinity[s] \in LbNodes \cup {NoNode}
    /\ AffinityIsKnown

\* It holds at first.
LEMMA AffinityInvInit == BalancerInit => AffinityInv  BY DEF BalancerInit, AffinityInv, AffinityIsKnown

\* Every step keeps it.
LEMMA AffinityInvNext == AffinityInv /\ BalanceNext => AffinityInv'
<1> SUFFICES ASSUME AffinityInv, BalanceNext PROVE AffinityInv'  OBVIOUS
<1> USE DEF AffinityInv, AffinityIsKnown, Known
<1>1. ASSUME NEW s \in LbSessions, SelectNode(s)
      PROVE  AffinityInv'  BY <1>1 DEF SelectNode, Eligible
<1>2. ASSUME NEW n \in LbNodes, AcquireConnection(n) \/ ReleaseConnection(n) \/ ReleaseAll(n)
      PROVE  AffinityInv'
    <2>1. CASE AcquireConnection(n)  BY <2>1 DEF AcquireConnection
    <2>2. CASE ReleaseConnection(n)  BY <2>2 DEF ReleaseConnection
    <2>3. CASE ReleaseAll(n)  BY <2>3 DEF ReleaseAll
    <2> QED BY <1>2, <2>1, <2>2, <2>3
<1>3. ASSUME NEW n \in LbNodes, AddNode(n)
      PROVE  AffinityInv'  BY <1>3 DEF AddNode, Reset
<1>4. ASSUME NEW n \in LbNodes, RemoveNode(n)
      PROVE  AffinityInv'  BY <1>4 DEF RemoveNode, Reset
<1>5. ASSUME NEW n \in LbNodes, RecordRequestFailure(n)
      PROVE  AffinityInv'  BY <1>5 DEF RecordRequestFailure
<1>6. ASSUME NEW n \in LbNodes, NEW st \in {"Draining", "Unhealthy"}, SetNodeStatus(n, st)
      PROVE  AffinityInv'  BY <1>6 DEF SetNodeStatus
<1>7. ASSUME NEW n \in LbNodes, NEW b \in BOOLEAN, UpdateNodeMetrics(n, b)
      PROVE  AffinityInv'  BY <1>7 DEF UpdateNodeMetrics
<1>8. ASSUME NEW n \in LbNodes, NEW ok \in BOOLEAN, NEW b \in BOOLEAN, HealthCheck(n, ok, b)
      PROVE  AffinityInv'  BY <1>8 DEF HealthCheck
<1> QED BY <1>1, <1>2, <1>3, <1>4, <1>5, <1>6, <1>7, <1>8 DEF BalanceNext

\* An open circuit has a timer to close it (api/websocket/health.rs).
CircuitInv ==
    /\ DOMAIN circuit = {"state", "failures", "timers", "ops"}
    /\ circuit.timers \in Seq({"reset"})
    /\ OpenCircuitHasTimer

\* It holds at first.
LEMMA CircuitInvInit == SvcInit => CircuitInv  BY DEF SvcInit, ClosedCircuit, CircuitInv, OpenCircuitHasTimer

\* Every step keeps it.
LEMMA CircuitInvNext == CircuitInv /\ [SvcNext]_svcVars => CircuitInv'
<1> SUFFICES ASSUME CircuitInv, [SvcNext]_svcVars PROVE CircuitInv'  OBVIOUS
<1> USE DEF CircuitInv, OpenCircuitHasTimer, CircuitStep
<1>1. CASE UNCHANGED circuit  BY <1>1
<1>2. CASE RecordFailure
    <2>1. Append(circuit.timers, "reset") \in Seq({"reset"}) /\ Append(circuit.timers, "reset") # <<>>  OBVIOUS
    <2> DEFINE more == Append(circuit.timers, "reset")  n == circuit.failures + 1  opens == n >= CircuitFailures
    <2>2. circuit' = [[circuit EXCEPT !.failures = n, !.state = IF opens THEN "open" ELSE @,
                                      !.timers = IF opens THEN more ELSE @] EXCEPT !.ops = @ + 1]
        BY <1>2 DEF RecordFailure
    <2>3. more \in Seq({"reset"}) /\ more # <<>>  BY <2>1
    <2> HIDE DEF more, n, opens
    <2> QED BY <2>2, <2>3
<1>3. CASE TimerFires
    <2>1. Tail(circuit.timers) \in Seq({"reset"})  BY <1>3 DEF TimerFires
    <2> QED BY <1>3, <2>1 DEF TimerFires
<1>4. CASE RecordSuccess  BY <1>4 DEF RecordSuccess
<1> HIDE DEF CircuitInv, OpenCircuitHasTimer, CircuitStep
<1>5. \A s : TokenStep(s) \/ SvcJobStep(s) \/ ConnStep(s) \/ StatsStep(s) \/ ProofStep(s) => UNCHANGED circuit
    BY DEF TokenStep, SvcJobStep, ConnStep, StatsStep, ProofStep
<1>6. CASE \/ \E j : VerifyToken(j) \/ VerifyJobId(j) \/ CreateMfaToken(j) \/ \E perms : CreateSessionToken(j, perms)
           \/ \E t : CacheJob(t) \/ \E j, c : VerifyJob(t, j, c)
    BY <1>1, <1>5, <1>6, Zenon DEF VerifyToken, VerifyJobId, CreateMfaToken, CreateSessionToken, CacheJob, VerifyJob
<1>7. CASE \/ \E t : StoreProof(t) \/ \E j : SvcGenerateProof(t, j)
           \/ ClearProofs
    BY <1>1, <1>5, <1>7, Zenon DEF StoreProof, SvcGenerateProof, ClearProofs
<1>8. CASE \/ \E c : \/ RegisterConnection(c) \/ ConnMessage(c) \/ RemoveConnection(c) \/ RemoveStale(c)
                     \/ \E s : SetConnState(c, s)
           \/ CollectStale
    BY <1>1, <1>5, <1>8, Zenon
       DEF RegisterConnection, ConnMessage, RemoveConnection, RemoveStale, SetConnState, CollectStale
<1>9. CASE \E c : \/ \E x : RecordConnection(c, x) \/ RecordDisconnection(c, x) \/ CleanupIdle(c, x)
                  \/ RecordMessageSent(c) \/ ResetConnections(c) \/ ResetStats(c)
    BY <1>1, <1>5, <1>9, Zenon
       DEF RecordConnection, RecordDisconnection, CleanupIdle, RecordMessageSent, ResetConnections, ResetStats
<1>10. CASE SvcTick  BY <1>1, <1>10 DEF SvcTick
<1> QED BY <1>1, <1>2, <1>3, <1>4, <1>6, <1>7, <1>8, <1>9, <1>10 DEF SvcNext, svcVars

-----------------------------------------------------------------------------
(* The session manager.                                                    *)

\* The session manager: one chain for every id, and none of those removed.
MgrInv ==
    /\ DOMAIN smgr = {"sessions", "held", "gone", "moved", "handled"}
    /\ IsFiniteSet(smgr.sessions)
    /\ \A x, y \in smgr.sessions : x[1] = y[1] => x = y
    /\ \A x \in smgr.sessions : x[1] \notin smgr.gone

\* Then the statistics count every id once.
LEMMA MgrInvCounts == MgrInv => RemovedStaysRemoved
<1> SUFFICES ASSUME MgrInv PROVE RemovedStaysRemoved  OBVIOUS
<1> DEFINE S == smgr.sessions
           D == {x[2] : x \in S}
           g == ChainStatistics
           I == {x[1] : x \in S}
<1>1. IsFiniteSet(S) /\ \A x, y \in S : x[1] = y[1] => x = y  BY DEF MgrInv
<1>2. IsFiniteSet(D)
  <2> HIDE DEF S
  <2> DEFINE f == [x \in S |-> x[2]]
  <2>1. f \in [S -> {f[x] : x \in S}] /\ {f[x] : x \in S} = D  OBVIOUS
  <2> HIDE DEF f, D
  <2> QED BY <1>1, <2>1, FiniteValues
<1>3. DOMAIN g = D /\ \A c \in D : g[c] = Cardinality({x \in S : x[2] = c})  BY DEF ChainStatistics, SessionsOnChain
<1>4. {x \in S : x[2] \in D} = S  OBVIOUS
<1>5. Cardinality(I) = Cardinality(S)
  <2> DEFINE f == [x \in S |-> x[1]]
  <2>1. f \in [S -> {f[x] : x \in S}] /\ {f[x] : x \in S} = I /\ \A x, y \in S : f[x] = f[y] => x = y  BY <1>1
  <2> HIDE DEF S, I, f
  <2> QED BY <1>1, <2>1, FiniteValues
<1> HIDE DEF S, D, g, I
<1>6. Sum(g, D) = Cardinality(S)  BY <1>1, <1>2, <1>3, <1>4, SumOfGroups
<1>7. Sum(g, DOMAIN g) = Cardinality(I)  BY <1>3, <1>5, <1>6
<1>8. MapThenSumSet(LAMBDA c : ChainStatistics[c], DOMAIN ChainStatistics) = Cardinality({x[1] : x \in smgr.sessions})
  BY <1>7, Zenon DEF Sum, g, I, S
<1> QED BY <1>8 DEF RemovedStaysRemoved, MgrInv

\* It holds at first.
LEMMA MgrInvInit == HdInit => MgrInv  BY FS_EmptySet DEF HdInit, NoManager, MgrInv

\* A step of the manager, by what it leaves in the table.
MgrMoves(S, G) ==
    /\ smgr'.sessions = S /\ smgr'.gone = G
    /\ DOMAIN smgr' = {"sessions", "held", "gone", "moved", "handled"}

\* Every step keeps it.
LEMMA MgrInvNext == MgrInv /\ [HdNext]_hdVars => MgrInv'
<1> SUFFICES ASSUME MgrInv, [HdNext]_hdVars PROVE MgrInv'  OBVIOUS
<1> DEFINE S == smgr.sessions
           G == smgr.gone
<1>0. ASSUME NEW T, NEW H, MgrMoves(T, H), IsFiniteSet(T),
             \A x, y \in T : x[1] = y[1] => x = y, \A x \in T : x[1] \notin H
      PROVE  MgrInv'  BY <1>0 DEF MgrMoves, MgrInv
<1>1. ASSUME NEW id, NEW c, NEW v, CreateManaged(id, c, v) PROVE MgrInv'
  <2>1. MgrMoves(S \cup {<<id, c>>}, G \ {id})  BY <1>1 DEF CreateManaged, SessionsStep, MgrMoves, MgrInv
  <2>2. IsFiniteSet(S \cup {<<id, c>>})  BY FS_AddElement DEF MgrInv
  <2>3. \A x \in S : x[1] # id  BY <1>1 DEF CreateManaged, SessionAt
  <2> QED BY <1>0, <2>1, <2>2, <2>3 DEF MgrInv
<1>2. ASSUME NEW t, NEW id, GetManaged(t, id) PROVE MgrInv'
  <2>1. MgrMoves(S, G)  BY <1>2 DEF GetManaged, SessionsStep, MgrMoves, MgrInv
  <2> QED BY <1>0, <2>1 DEF MgrInv
<1>3. ASSUME NEW t, UpdateManaged(t) PROVE MgrInv'
  <2>1. PICK x \in smgr.held[t] : SessionAt(x[1]) # {} /\
           SessionsStep([smgr EXCEPT !.sessions = (@ \ SessionAt(x[1])) \cup {x}, !.held[t] = {}])
    BY <1>3 DEF UpdateManaged
  <2> DEFINE R == S \ SessionAt(x[1])
             T == R \cup {x}
  <2>2. MgrMoves(T, G)  BY <2>1 DEF SessionsStep, MgrMoves, MgrInv
  <2>3. IsFiniteSet(R)  BY FS_Subset DEF MgrInv
  <2>4. IsFiniteSet(T)  BY <2>3, FS_AddElement
  <2>5. x[1] \notin G  BY <2>1 DEF SessionAt, MgrInv
  <2>6. \A y \in R : y \in S /\ y[1] # x[1]  BY DEF SessionAt
  <2> QED BY <1>0, <2>2, <2>4, <2>5, <2>6 DEF MgrInv
<1>4. ASSUME NEW id, RemoveManaged(id) PROVE MgrInv'
  <2>1. MgrMoves(S \ SessionAt(id), G \cup {id})  BY <1>4 DEF RemoveManaged, SessionsStep, MgrMoves, MgrInv
  <2>2. IsFiniteSet(S \ SessionAt(id))  BY FS_Subset DEF MgrInv
  <2> QED BY <1>0, <2>1, <2>2 DEF MgrInv, SessionAt
<1>5. ASSUME ClearManaged PROVE MgrInv'
  <2>1. MgrMoves({}, G \cup {x[1] : x \in S})  BY <1>5 DEF ClearManaged, SessionsStep, MgrMoves, MgrInv
  <2> QED BY <1>0, <2>1, FS_EmptySet
<1>6. ASSUME NEW id, NEW c, MigrateManaged(id, c) PROVE MgrInv'
  <2> DEFINE R == S \ SessionAt(id)
             T == R \cup {<<id, c>>}
  <2>1. MgrMoves(T, G)  BY <1>6 DEF MigrateManaged, SessionsStep, MgrMoves, MgrInv
  <2>2. IsFiniteSet(T)  BY FS_Subset, FS_AddElement DEF MgrInv
  <2>3. id \notin G  BY <1>6 DEF MigrateManaged, SessionAt, MgrInv
  <2>4. \A y \in R : y \in S /\ y[1] # id  BY DEF SessionAt
  <2> QED BY <1>0, <2>1, <2>2, <2>3, <2>4 DEF MgrInv
<1>7. ASSUME NEW c, MigrateAll(c) PROVE MgrInv'
  <2> DEFINE A == {x \in S : x[2] # c /\ c \in HdSupported}
             M == {<<x[1], c>> : x \in A}
             T == (S \ A) \cup M
  <2>1. MgrMoves(T, G)  BY <1>7 DEF MigrateAll, SessionsStep, MgrMoves, MgrInv
  <2>2. IsFiniteSet(T)
    <3>1. IsFiniteSet(A) /\ IsFiniteSet(S \ A)  BY FS_Subset DEF MgrInv
    <3>2. IsFiniteSet(M)
      <4> DEFINE f == [x \in A |-> <<x[1], c>>]
      <4> HIDE DEF A
      <4>1. f \in [A -> {f[x] : x \in A}] /\ {f[x] : x \in A} = M  OBVIOUS
      <4> HIDE DEF f, M
      <4> QED BY <3>1, <4>1, FiniteValues
    <3> HIDE DEF A, M
    <3> QED BY <3>1, <3>2, FS_Union
  <2>3. \A y \in M : \E x \in A : y = <<x[1], c>> /\ y[1] = x[1]  OBVIOUS
  <2>4. \A x, y \in T : x[1] = y[1] => x = y
    <3>1. \A x \in S \ A : \A y \in M : x[1] # y[1]  BY <2>3 DEF MgrInv
    <3>2. \A x, y \in M : x[1] = y[1] => x = y  BY <2>3
    <3> QED BY <3>1, <3>2 DEF MgrInv
  <2>5. \A x \in T : x[1] \notin G  BY <2>3 DEF MgrInv
  <2> QED BY <1>0, <2>1, <2>2, <2>4, <2>5
<1>8. CASE UNCHANGED smgr  BY <1>8 DEF MgrInv
<1>9. \A s : RouterStep(s) => UNCHANGED smgr  BY DEF RouterStep
<1>10. ASSUME NEW t, NEW s, NEW job, NEW ctx, NEW c, NEW i, NEW e,
              \/ HandleSessionInit(t, s, job, c, ctx) \/ HandleSessionResume(t, s, job, ctx, i)
              \/ HandlePrompt(t, s, i, e) \/ HandleResponse(t, s) \/ HandleSessionEnd(t, s)
       PROVE  UNCHANGED smgr
  BY <1>9, <1>10, Zenon DEF HandleSessionInit, HandleSessionResume, HandlePrompt, HandleResponse, HandleSessionEnd
<1>11. ASSUME NEW t, \/ FillCache(t) \/ ReportCount(t) \/ RebuildCache(t) \/ ClearConversation(t)
                     \/ CheckIndex(t) \/ AddToCache(t) \/ Unsupported(t)
       PROVE  UNCHANGED smgr
  BY <1>9, <1>11, Zenon DEF FillCache, ReportCount, RebuildCache, ClearConversation, CheckIndex, AddToCache, Unsupported
<1>12. CASE UNCHANGED hdVars  BY <1>8, <1>12 DEF hdVars
<1> HIDE DEF MgrInv
<1> QED BY <1>1, <1>2, <1>3, <1>4, <1>5, <1>6, <1>7, <1>8, <1>10, <1>11, <1>12, Zenon DEF HdNext

-----------------------------------------------------------------------------
(* The stores of vectors of sessions (rag/session_vector_store.rs)         *)

\* A store is within its capacity, and filled only by uploads to sessions with RAG.
VectorInv ==
    /\ DOMAIN ragStore = VlSessions /\ DOMAIN upload = Uploads
    /\ \A u \in Uploads : DOMAIN upload[u] = {"session", "todo", "rejected"}
    /\ \A s \in VlSessions : /\ IsFiniteSet(ragStore[s]) /\ Cardinality(ragStore[s]) <= MaxVectors
                             /\ s \notin ragOn => ragStore[s] = {}
    /\ \A u \in Uploads : upload[u].todo # {} => upload[u].session \in ragOn

\* It says what the runs check.
LEMMA VectorInvSays == VectorInv => VectorCapacity
  BY FS_EmptySet, VlAssumption DEF VectorInv, VectorCapacity, SearchResults

\* It holds at first.
LEMMA VectorInvInit == VlInit => VectorInv  BY FS_EmptySet, VlAssumption DEF VlInit, VectorInv, IdleUpload

\* Every step keeps it.
LEMMA VectorInvNext == VectorInv /\ [VlNext]_vlVars => VectorInv'
<1> SUFFICES ASSUME VectorInv, [VlNext]_vlVars PROVE VectorInv'  OBVIOUS
<1>1. ASSUME NEW u \in Uploads, NEW s \in VlSessions, NEW ids, NEW replace, UploadBegin(u, s, ids, replace)
      PROVE  VectorInv'  BY <1>1, FS_EmptySet, VlAssumption DEF UploadBegin, VectorInv
<1>2. ASSUME NEW u \in Uploads, NEW v, UploadAdd(u, v) PROVE VectorInv'
  <2> DEFINE s == upload[u].session
             new == IF Accepts(s, v) THEN ragStore[s] \cup {v} ELSE ragStore[s]
             x == [upload[u] EXCEPT !.todo = @ \ {v}, !.rejected = IF Accepts(s, v) THEN @ ELSE @ + 1]
  <2>1. ragStore' = [ragStore EXCEPT ![s] = new] /\ s \in ragOn /\ ragOn' = ragOn  BY <1>2 DEF UploadAdd, VectorInv
  <2>6. upload' = [upload EXCEPT ![u] = x]  BY <1>2 DEF UploadAdd, VectorInv
  <2>7. DOMAIN x = {"session", "todo", "rejected"} /\ x.session = upload[u].session /\ x.todo \subseteq upload[u].todo
    BY DEF VectorInv
  <2> HIDE DEF x
  <2>2. s \in VlSessions => IsFiniteSet(new) /\ Cardinality(new) <= MaxVectors
    <3>1. CASE s \in VlSessions /\ v \notin ragStore[s] /\ Accepts(s, v)
      <4>1. IsFiniteSet(ragStore[s]) /\ Cardinality(ragStore[s]) < MaxVectors  BY <3>1 DEF Accepts, VectorInv
      <4>2. IsFiniteSet(ragStore[s] \cup {v}) /\ Cardinality(ragStore[s] \cup {v}) = Cardinality(ragStore[s]) + 1
        BY <3>1, <4>1, FS_AddElement
      <4> QED BY <3>1, <4>1, <4>2, FS_CardinalityType, VlAssumption
    <3>2. CASE v \in ragStore[s] \/ ~Accepts(s, v)
      <4>1. new = ragStore[s]  BY <3>2
      <4> QED BY <4>1 DEF VectorInv
    <3> QED BY <3>1, <3>2
  <2> HIDE DEF new
  <2>3. /\ DOMAIN upload' = Uploads /\ \A w \in Uploads : DOMAIN upload'[w] = {"session", "todo", "rejected"}
        /\ \A w \in Uploads : upload'[w].session = upload[w].session /\ upload'[w].todo \subseteq upload[w].todo
    BY <2>6, <2>7 DEF VectorInv
  <2>4. DOMAIN ragStore' = VlSessions /\ \A r \in VlSessions : ragStore'[r] = IF r = s THEN new ELSE ragStore[r]
    BY <2>1 DEF VectorInv
  <2>5. \A w \in Uploads : upload'[w].todo # {} => upload'[w].session \in ragOn  BY <2>3 DEF VectorInv
  <2> QED BY <2>1, <2>2, <2>3, <2>4, <2>5 DEF VectorInv
<1>3. ASSUME NEW u \in Uploads, UploadEnd(u) PROVE VectorInv'  BY <1>3 DEF UploadEnd, IdleUpload, VectorInv
<1>4. CASE UNCHANGED <<ragStore, ragOn, upload>>  BY <1>4 DEF VectorInv
<1>5. ASSUME NEW l, LoadStep(l) \/ \E s : StartLoad(l, s) PROVE UNCHANGED <<ragStore, ragOn, upload>>
  BY <1>5, Zenon DEF LoadStep, StartLoad, FetchManifest, VerifyOwner, CheckMemoryLimit, LoadTimeout, CheckToken, ManifestLoaded,
     FetchChunk, ChunkLoaded, ChunksComplete, LoadFails, LoadCancelled, IndexBuilt
<1>6. ASSUME WindowPasses \/ \E s : VlSessionInit(s) \/ VlDisconnect(s) PROVE UNCHANGED <<ragStore, ragOn, upload>>
  BY <1>6, Zenon DEF WindowPasses, VlSessionInit, VlDisconnect
<1>7. CASE UNCHANGED vlVars  BY <1>4, <1>7 DEF vlVars
<1> HIDE DEF VectorInv
<1> QED BY <1>1, <1>2, <1>3, <1>4, <1>5, <1>6, <1>7, Zenon DEF VlNext

-----------------------------------------------------------------------------
(* The cache of proofs (api/websocket/proof_manager.rs)                    *)

\* Evicting in the order ends within the size and leaves the rest of the cache in the order.
LEMMA EvictedProofs ==
    ASSUME NEW S, NEW order \in Seq(S), NEW cache, IsFiniteSet(cache), cache \subseteq Elements(order)
    PROVE  LET e == EvictProofs(cache, order)
           IN  /\ IsFiniteSet(e.cache) /\ Cardinality(e.cache) <= ProofCacheSize
               /\ e.order \in Seq(S) /\ e.cache \subseteq Elements(e.order)
<1> DEFINE gone(k) == {order[i] : i \in 1 .. k}
           T == {k \in 0 .. Len(order) : Cardinality(cache \ gone(k)) <= ProofCacheSize \/ k = Len(order)}
           n == Min(T)  c == cache \ gone(n)  o == SubSeq(order, n + 1, Len(order))
<1>0. Len(order) \in Nat /\ \A j \in 1 .. Len(order) : order[j] \in S  OBVIOUS
<1>1. T \in SUBSET Nat /\ Len(order) \in T  BY <1>0
<1>2. n \in T  BY <1>1, MinIs
<1>3. EvictProofs(cache, order) = [cache |-> c, order |-> o]  BY DEF EvictProofs
<1>4. n \in 0 .. Len(order) /\ (Cardinality(c) <= ProofCacheSize \/ n = Len(order))  BY <1>2
<1> HIDE DEF n, T
<1>5. n = Len(order) => c = {}  BY DEF Elements
<1>6. IsFiniteSet(c) /\ Cardinality(c) <= ProofCacheSize
  <2>1. IsFiniteSet(c)  BY FS_Subset
  <2> QED BY <1>4, <1>5, <2>1, FS_EmptySet, SvcAssumption
<1>7. o \in Seq(S) /\ Len(o) = Len(order) - n /\ \A j \in 1 .. Len(order) - n : o[j] = order[n + j]
  <2>1. \A j \in n + 1 .. Len(order) : order[j] \in S  BY <1>0, <1>4
  <2>2. n + 1 \in Int /\ Len(order) \in Int  BY <1>0, <1>4
  <2>3. /\ o \in Seq(S) /\ Len(o) = IF n + 1 <= Len(order) THEN Len(order) - (n + 1) + 1 ELSE 0
        /\ \A j \in 1 .. Len(order) - (n + 1) + 1 : o[j] = order[(n + 1) + j - 1]
    BY <2>1, <2>2, SubSeqProperties
  <2> HIDE DEF o
  <2> QED BY <1>0, <1>4, <2>3
<1> HIDE DEF o
<1>8. c \subseteq Elements(o)
  <2> SUFFICES ASSUME NEW x \in c PROVE x \in Elements(o)  OBVIOUS
  <2>1. PICK i \in 1 .. Len(order) : order[i] = x  BY DEF Elements
  <2>2. i > n  BY <1>0, <1>4, <2>1
  <2>3. i - n \in 1 .. Len(order) - n /\ n + (i - n) = i  BY <1>0, <1>4, <2>2
  <2> QED BY <1>7, <2>1, <2>3 DEF Elements
<1> QED BY <1>3, <1>6, <1>7, <1>8

\* Every cached proof is in the order, once at least, and there are not too many.
ProofsInv ==
    /\ DOMAIN proofs = {"cache", "order", "making", "ops"}
    /\ proofs.order \in Seq(SvcJobs \cup {"none"})
    /\ DOMAIN proofs.making = SvcTasks /\ \A t \in SvcTasks : proofs.making[t] \in SvcJobs \cup {"none"}
    /\ IsFiniteSet(proofs.cache) /\ Cardinality(proofs.cache) <= ProofCacheSize
    /\ proofs.cache \subseteq Elements(proofs.order)

\* It says what the runs check.
LEMMA ProofsInvSays == ProofsInv => ProofCacheBounded  BY ToSetElements DEF ProofsInv, ProofCacheBounded

\* It holds at first.
LEMMA ProofsInvInit == SvcInit => ProofsInv  BY FS_EmptySet, SvcAssumption DEF SvcInit, NoProofs, ProofsInv, Elements

\* Every step keeps it.
LEMMA ProofsInvNext == ProofsInv /\ [SvcNext]_svcVars => ProofsInv'
<1> SUFFICES ASSUME ProofsInv, [SvcNext]_svcVars PROVE ProofsInv'  OBVIOUS
<1> DEFINE ProofKeys == SvcJobs \cup {"none"}
<1>0. proofs.order \in Seq(ProofKeys)  BY DEF ProofsInv
<1>1. CASE UNCHANGED proofs  BY <1>1 DEF ProofsInv
<1>2. ASSUME NEW t \in SvcTasks, NEW k \in SvcJobs, SvcGenerateProof(t, k) PROVE ProofsInv'
  <2>1. CASE k \notin proofs.cache
    <3> DEFINE m == [proofs.making EXCEPT ![t] = k]
    <3>1. proofs' = [[proofs EXCEPT !.making = m] EXCEPT !.ops = @ + 1]  BY <1>2, <2>1 DEF SvcGenerateProof, ProofStep
    <3>2. DOMAIN m = SvcTasks /\ \A u \in SvcTasks : m[u] \in SvcJobs \cup {"none"}  BY DEF ProofsInv
    <3> HIDE DEF m
    <3> QED BY <3>1, <3>2 DEF ProofsInv
  <2>2. CASE k \in proofs.cache
    <3> DEFINE I == {j \in 1 .. Len(proofs.order) : proofs.order[j] = k}
               i == IF I # {} THEN Min(I) ELSE 0
               o == IF i = 0 THEN proofs.order ELSE Append(RemoveAt(proofs.order, i), k)
    <3>1. proofs' = [[proofs EXCEPT !.order = o] EXCEPT !.ops = @ + 1]
      BY <1>2, <2>2 DEF SvcGenerateProof, ProofStep, SelectInSeq
    <3>2. I \in SUBSET Nat  BY <1>0
    <3>3. i = 0 \/ (i \in 1 .. Len(proofs.order) /\ proofs.order[i] = k)  BY <3>2, MinIs
    <3> HIDE DEF i, I
    <3>4. o \in Seq(ProofKeys) /\ Elements(proofs.order) \subseteq Elements(o)
      <4>1. CASE i = 0  BY <1>0, <4>1
      <4>2. CASE i # 0
        <5> DEFINE r == RemoveAt(proofs.order, i)
        <5>1. r \in Seq(ProofKeys) /\ Elements(proofs.order) \subseteq Elements(r) \cup {k}
          BY <1>0, <3>3, <4>2, MovedElements
        <5> HIDE DEF r
        <5>2. Append(r, k) \in Seq(ProofKeys) /\ Elements(Append(r, k)) = Elements(r) \cup {k}  BY <5>1, AppendElements
        <5>3. o = Append(r, k)  BY <4>2 DEF r
        <5> QED BY <5>1, <5>2, <5>3
      <4> QED BY <4>1, <4>2
    <3> HIDE DEF o
    <3> QED BY <3>1, <3>4 DEF ProofsInv
  <2> QED BY <2>1, <2>2
<1>3. ASSUME NEW t \in SvcTasks, StoreProof(t) PROVE ProofsInv'
  <2> DEFINE k == proofs.making[t]
             cache == proofs.cache \cup {k}
             order == Append(proofs.order, k)
             e == EvictProofs(cache, order)
  <2>1. proofs' = [[proofs EXCEPT !.cache = e.cache, !.order = e.order, !.making[t] = "none"] EXCEPT !.ops = @ + 1]
    BY <1>3 DEF StoreProof, ProofStep
  <2>2. k \in ProofKeys  BY DEF ProofsInv
  <2>3. order \in Seq(ProofKeys) /\ Elements(order) = Elements(proofs.order) \cup {k}  BY <1>0, <2>2, AppendElements
  <2>4. IsFiniteSet(cache) /\ cache \subseteq Elements(order)
    <3>1. IsFiniteSet(proofs.cache) /\ proofs.cache \subseteq Elements(proofs.order)  BY DEF ProofsInv
    <3>2. IsFiniteSet(cache)  BY <3>1, FS_AddElement
    <3> QED BY <2>3, <3>1, <3>2
  <2> HIDE DEF cache, order
  <2>5. /\ IsFiniteSet(e.cache) /\ Cardinality(e.cache) <= ProofCacheSize
        /\ e.order \in Seq(ProofKeys) /\ e.cache \subseteq Elements(e.order)
    BY <2>3, <2>4, EvictedProofs
  <2> HIDE DEF e
  <2> QED BY <2>1, <2>5 DEF ProofsInv
<1>4. CASE ClearProofs  BY <1>4, FS_EmptySet, SvcAssumption DEF ClearProofs, ProofStep, ProofsInv
<1>5. \A s : TokenStep(s) \/ SvcJobStep(s) \/ ConnStep(s) \/ StatsStep(s) \/ CircuitStep(s) => UNCHANGED proofs
    BY DEF TokenStep, SvcJobStep, ConnStep, StatsStep, CircuitStep
<1> HIDE DEF ProofsInv
<1>6. CASE \/ \E j : VerifyToken(j) \/ VerifyJobId(j) \/ CreateMfaToken(j) \/ \E perms : CreateSessionToken(j, perms)
           \/ \E t : CacheJob(t) \/ \E j, c : VerifyJob(t, j, c)
    BY <1>1, <1>5, <1>6, Zenon DEF VerifyToken, VerifyJobId, CreateMfaToken, CreateSessionToken, CacheJob, VerifyJob
<1>7. CASE RecordFailure \/ TimerFires \/ RecordSuccess
    BY <1>1, <1>5, <1>7, Zenon DEF RecordFailure, TimerFires, RecordSuccess
<1>8. CASE \/ \E c : \/ RegisterConnection(c) \/ ConnMessage(c) \/ RemoveConnection(c) \/ RemoveStale(c)
                     \/ \E s : SetConnState(c, s)
           \/ CollectStale
    BY <1>1, <1>5, <1>8, Zenon
       DEF RegisterConnection, ConnMessage, RemoveConnection, RemoveStale, SetConnState, CollectStale
<1>9. CASE \E c : \/ \E x : RecordConnection(c, x) \/ RecordDisconnection(c, x) \/ CleanupIdle(c, x)
                  \/ RecordMessageSent(c) \/ ResetConnections(c) \/ ResetStats(c)
    <2>1. ASSUME NEW c, NEW x, RecordConnection(c, x) \/ RecordDisconnection(c, x) \/ CleanupIdle(c, x) PROVE UNCHANGED proofs
        BY <1>5, <2>1, Zenon DEF RecordConnection, RecordDisconnection, CleanupIdle
    <2>2. ASSUME NEW c, RecordMessageSent(c) \/ ResetConnections(c) \/ ResetStats(c) PROVE UNCHANGED proofs
        BY <1>5, <2>2, Zenon DEF RecordMessageSent, ResetConnections, ResetStats
    <2> QED BY <1>1, <1>9, <2>1, <2>2, Zenon
<1>10. CASE SvcTick  BY <1>1, <1>10 DEF SvcTick
<1> QED BY <1>1, <1>2, <1>3, <1>4, <1>6, <1>7, <1>8, <1>9, <1>10 DEF SvcNext, svcVars

-----------------------------------------------------------------------------
(* The cache of indexes (vector/index_cache.rs)                            *)

\* The keys of indexes are distinct.
DistinctKeys(o) == \A i, j \in 1 .. Len(o) : o[i].key = o[j].key => i = j

\* The sizes of indexes.
MbOf(o) == [i \in 1 .. Len(o) |-> o[i].mb]

\* The code adds the sizes.
LEMMA UsageIs == ASSUME NEW o PROVE IndexUsage(o) = Sum(MbOf(o), 1 .. Len(o))  BY Zenon DEF IndexUsage, MbOf, Sum

\* Sizes are natural numbers, and so is their sum.
LEMMA UsageType ==
    ASSUME NEW o \in Seq(IndexEntry)
    PROVE  IndexUsage(o) \in Nat /\ IsFiniteSet(1 .. Len(o)) /\ \A i \in 1 .. Len(o) : MbOf(o)[i] \in Nat /\ MbOf(o)[i] = o[i].mb
<1>1. \A i \in 1 .. Len(o) : o[i] \in IndexEntry  OBVIOUS
<1>2. \A i \in 1 .. Len(o) : MbOf(o)[i] \in Nat /\ MbOf(o)[i] = o[i].mb  BY <1>1, VecAssumption DEF MbOf, IndexEntry
<1>3. IsFiniteSet(1 .. Len(o))  BY FS_Interval
<1> QED BY <1>2, <1>3, SumNat, UsageIs

\* No index has no size.
LEMMA NoUsage == IndexUsage(<<>>) = 0
<1>1. 1 .. Len(<<>>) = {}  OBVIOUS
<1> QED BY <1>1, UsageIs, SumEmpty

\* Indexes that were there before use no more than all of them did.
LEMMA FewerIndexes ==
    ASSUME NEW o \in Seq(IndexEntry), NEW p \in Seq(IndexEntry), DistinctKeys(o), NEW h,
           \A j \in 1 .. Len(p) : h[j] \in 1 .. Len(o) /\ p[j] = o[h[j]],
           \A i, j \in 1 .. Len(p) : h[i] = h[j] => i = j
    PROVE  DistinctKeys(p) /\ IndexUsage(p) <= IndexUsage(o)
<1>1. DistinctKeys(p)  BY DEF DistinctKeys
<1>2. \A j \in 1 .. Len(p) : h[j] \in 1 .. Len(o) /\ MbOf(p)[j] = MbOf(o)[h[j]]
  <2>1. (\A i \in 1 .. Len(o) : MbOf(o)[i] = o[i].mb) /\ \A j \in 1 .. Len(p) : MbOf(p)[j] = p[j].mb  BY UsageType
  <2> QED BY <2>1
<1> DEFINE A == 1 .. Len(p)  B == 1 .. Len(o)  f == MbOf(o)  g == MbOf(p)
<1>3. /\ IsFiniteSet(A) /\ IsFiniteSet(B) /\ \A x \in B : f[x] \in Nat
      /\ \A a \in A : h[a] \in B /\ g[a] = f[h[a]]
      /\ \A a, b \in A : h[a] = h[b] => a = b
  BY <1>2, UsageType
<1> HIDE DEF A, B, f, g
<1>4. Sum(g, A) <= Sum(f, B)  BY <1>3, SumInjection
<1> QED BY <1>1, <1>4, UsageIs DEF A, B, f, g

\* Some of the indexes are no larger than all of them.
LEMMA KeptIndexes ==
    ASSUME NEW o \in Seq(IndexEntry), NEW S, DistinctKeys(o)
    PROVE  LET p == Filtered(o, S)
           IN  /\ p \in Seq(IndexEntry) /\ DistinctKeys(p) /\ IndexUsage(p) <= IndexUsage(o)
               /\ \A j \in 1 .. Len(p) : p[j] \in S
               /\ Len(p) <= Len(o)
<1> DEFINE p == Filtered(o, S)
<1>1. p \in Seq(IndexEntry) /\ \E h : FilteredFrom(h, p, o, S, Len(o))  BY KeptPlaces
<1>2. Len(p) <= Len(o)
  <2>1. S \in SUBSET S  OBVIOUS
  <2>2. Len(p) = HowMany(o, S)  BY <2>1, KeptCount
  <2> QED BY <2>2, CountType
<1> HIDE DEF p
<1>3. PICK h : FilteredFrom(h, p, o, S, Len(o))  BY <1>1
<1>4. \A j \in 1 .. Len(p) : h[j] \in 1 .. Len(o) /\ p[j] = o[h[j]] /\ p[j] \in S  BY <1>3 DEF FilteredFrom
<1>5. \A i, j \in 1 .. Len(p) : h[i] = h[j] => i = j
  <2> SUFFICES ASSUME NEW i \in 1 .. Len(p), NEW j \in 1 .. Len(p), h[i] = h[j], i # j PROVE FALSE  OBVIOUS
  <2>1. h[i] \in Nat /\ (i < j => h[i] < h[j]) /\ (j < i => h[j] < h[i])  BY <1>3, <1>4 DEF FilteredFrom
  <2> QED BY <1>1, <2>1
<1>6. DistinctKeys(p) /\ IndexUsage(p) <= IndexUsage(o)  BY <1>1, <1>4, <1>5, FewerIndexes
<1> QED BY <1>1, <1>2, <1>4, <1>6 DEF p

\* Enforcing the limit keeps indexes within the memory.
LEMMA KeptWithin ==
    ASSUME NEW o \in Seq(IndexEntry), DistinctKeys(o)
    PROVE  LET p == IndexKept(o)
           IN  p \in Seq(IndexEntry) /\ DistinctKeys(p) /\ IndexUsage(p) <= IndexMb
<1> DEFINE T == {i \in 1 .. Len(o) + 1 : IndexUsage(SubSeq(o, i, Len(o))) <= IndexMb}
           n == Min(T)
           p == SubSeq(o, n, Len(o))
<1>0. Len(o) \in Nat /\ \A j \in 1 .. Len(o) : o[j] \in IndexEntry  OBVIOUS
<1>1. Len(o) + 1 \in T
  <2>1. SubSeq(o, Len(o) + 1, Len(o)) = <<>>  BY <1>0, SubSeqEmpty
  <2>2. 0 <= IndexMb  BY VecAssumption
  <2>3. IndexUsage(SubSeq(o, Len(o) + 1, Len(o))) <= IndexMb  BY <2>1, <2>2, NoUsage
  <2>4. Len(o) + 1 \in 1 .. Len(o) + 1  BY <1>0
  <2> QED BY <2>3, <2>4, Zenon
<1>2. PICK x \in T : \A y \in T : x <= y
  <2>1. T \in SUBSET Nat  BY <1>0
  <2> HIDE DEF T
  <2> QED BY <1>1, <2>1, NatLeast
<1>3. n \in T  BY <1>2 DEF Min
<1>4. n \in 1 .. Len(o) + 1 /\ IndexUsage(p) <= IndexMb  BY <1>3
<1>5. IndexKept(o) = p  BY Zenon DEF IndexKept
<1> HIDE DEF n, T
<1>6. p \in Seq(IndexEntry) /\ Len(p) = Len(o) + 1 - n /\ \A j \in 1 .. Len(p) : p[j] = o[n + j - 1]
  <2>1. \A j \in n .. Len(o) : o[j] \in IndexEntry  BY <1>0, <1>4
  <2>2. n \in Int /\ Len(o) \in Int  BY <1>0, <1>4
  <2>3. /\ p \in Seq(IndexEntry) /\ Len(p) = IF n <= Len(o) THEN Len(o) - n + 1 ELSE 0
        /\ \A j \in 1 .. Len(o) - n + 1 : p[j] = o[n + j - 1]
    BY <2>1, <2>2, SubSeqProperties
  <2> HIDE DEF p
  <2> QED BY <1>0, <1>4, <2>3
<1> HIDE DEF p
<1>7. DistinctKeys(p)
  <2> SUFFICES ASSUME NEW i \in 1 .. Len(p), NEW j \in 1 .. Len(p), p[i].key = p[j].key PROVE i = j  BY DEF DistinctKeys
  <2>1. n + i - 1 \in 1 .. Len(o) /\ n + j - 1 \in 1 .. Len(o)  BY <1>0, <1>4, <1>6
  <2>2. n + i - 1 = n + j - 1  BY <1>6, <2>1 DEF DistinctKeys
  <2> QED BY <1>4, <1>6, <2>2
<1> QED BY <1>4, <1>5, <1>6, <1>7

\* The state of the index cache.
IndexCacheOK(x) ==
    /\ DOMAIN x = {"order", "now", "hits", "misses", "evictions", "inserted", "cleared", "ops"}
    /\ x.order \in Seq(IndexEntry) /\ x.now \in 0 .. MaxVecNow /\ DistinctKeys(x.order)
    /\ x.evictions \in Int /\ x.inserted \in Int /\ x.cleared \in Int
    /\ IndexUsage(x.order) <= IndexMb
    /\ Len(x.order) + x.evictions + x.cleared = x.inserted

\* The cache of the behaviour.
IndexCacheInv == IndexCacheOK(vecIndex)

\* It says what the runs check.
LEMMA IndexCacheInvSays == IndexCacheInv => IndexWithinMemory  BY DEF IndexCacheInv, IndexCacheOK, IndexWithinMemory

\* It holds at first.
LEMMA IndexCacheInvInit == VecInit => IndexCacheInv
<1> SUFFICES ASSUME VecInit PROVE IndexCacheOK(vecIndex)  BY DEF IndexCacheInv
<1>1. <<>> \in Seq(IndexEntry) /\ DistinctKeys(<<>>) /\ Len(<<>>) = 0  BY DEF DistinctKeys
<1>2. vecIndex = [order |-> <<>>, now |-> 0, hits |-> 0, misses |-> 0, evictions |-> 0,
                 inserted |-> 0, cleared |-> 0, ops |-> 0]  BY DEF VecInit
<1>3. 0 <= IndexMb /\ 0 \in 0 .. MaxVecNow  BY VecAssumption
<1> QED BY <1>1, <1>2, <1>3, NoUsage DEF IndexCacheOK

\* The indexes of a key, and the others.
KeyedBy(k) == {e \in IndexEntry : e.key = k}
KeyedNot(k) == {e \in IndexEntry : e.key # k}

\* The parts the code takes of the order.
LEMMA PartsAreKept ==
    ASSUME vecIndex.order \in Seq(IndexEntry), NEW k
    PROVE  /\ IndexOther(k) = Filtered(vecIndex.order, KeyedNot(k))
           /\ IndexFind(k) = Filtered(vecIndex.order, KeyedBy(k))
           /\ IndexesWith(LAMBDA e : ~IndexExpired(e)) = Filtered(vecIndex.order, {e \in IndexEntry : ~IndexExpired(e)})
<1> DEFINE o == vecIndex.order  n == Len(o)
           A == {e \in IndexEntry : e.key # k}  B == {e \in IndexEntry : e.key = k}
           C == {e \in IndexEntry : ~IndexExpired(e)}
<1>1. \A i \in 1 .. n : o[i] \in IndexEntry  OBVIOUS
<1>2. [i \in 1 .. n |-> IF o[i].key # k THEN <<o[i]>> ELSE <<>>] = [i \in 1 .. n |-> IF o[i] \in A THEN <<o[i]>> ELSE <<>>]
  BY <1>1
<1>3. [i \in 1 .. n |-> IF o[i].key = k THEN <<o[i]>> ELSE <<>>] = [i \in 1 .. n |-> IF o[i] \in B THEN <<o[i]>> ELSE <<>>]
  BY <1>1
<1>4. [i \in 1 .. n |-> IF ~IndexExpired(o[i]) THEN <<o[i]>> ELSE <<>>] = [i \in 1 .. n |-> IF o[i] \in C THEN <<o[i]>> ELSE <<>>]
  BY <1>1
<1>5. IndexOther(k) = FlattenSeq([i \in 1 .. n |-> IF o[i].key # k THEN <<o[i]>> ELSE <<>>])
  BY Zenon DEF IndexOther, IndexesWith
<1>6. IndexFind(k) = FlattenSeq([i \in 1 .. n |-> IF o[i].key = k THEN <<o[i]>> ELSE <<>>])
  BY Zenon DEF IndexFind, IndexesWith
<1>7. IndexesWith(LAMBDA e : ~IndexExpired(e)) = FlattenSeq([i \in 1 .. n |-> IF ~IndexExpired(o[i]) THEN <<o[i]>> ELSE <<>>])
  BY Zenon DEF IndexesWith
<1>8. \A S : Filtered(o, S) = FlattenSeq([i \in 1 .. n |-> IF o[i] \in S THEN <<o[i]>> ELSE <<>>])
  BY Zenon DEF Filtered
<1> HIDE DEF A, B, C, o, n
<1>9. IndexOther(k) = Filtered(o, A) /\ IndexFind(k) = Filtered(o, B) /\ IndexesWith(LAMBDA e : ~IndexExpired(e)) = Filtered(o, C)
  BY <1>2, <1>3, <1>4, <1>5, <1>6, <1>7, <1>8, Zenon
<1> QED BY <1>9, Zenon DEF A, B, C, o, KeyedBy, KeyedNot

\* A find gives one of the indexes, and the others are one less.
LEMMA FoundIndex ==
    ASSUME NEW o \in Seq(IndexEntry), DistinctKeys(o), NEW k,
           NEW found, found = Filtered(o, KeyedBy(k)), found # <<>>,
           NEW other, other = Filtered(o, KeyedNot(k))
    PROVE  /\ Len(other) + 1 = Len(o) /\ found[1] \in IndexEntry
           /\ Append(other, found[1]) \in Seq(IndexEntry) /\ DistinctKeys(Append(other, found[1]))
           /\ IndexUsage(Append(other, found[1])) <= IndexUsage(o) /\ Len(Append(other, found[1])) = Len(o)
<1> DEFINE B == {e \in IndexEntry : e.key = k}  A == {e \in IndexEntry : e.key # k}
           p == Append(other, found[1])
<1>0. Len(o) \in Nat /\ \A i \in 1 .. Len(o) : o[i] \in IndexEntry  OBVIOUS
<1>1. found \in Seq(IndexEntry) /\ \E h : FilteredFrom(h, found, o, B, Len(o))
  <2>1. found = Filtered(o, B)  BY DEF KeyedBy
  <2> HIDE DEF B
  <2> QED BY <2>1, KeptPlaces
<1>2. other \in Seq(IndexEntry) /\ \E h : FilteredFrom(h, other, o, A, Len(o))
  <2>1. other = Filtered(o, A)  BY DEF KeyedNot
  <2> HIDE DEF A
  <2> QED BY <2>1, KeptPlaces
<1>3. found # <<>>  OBVIOUS
<1>4. Len(other) = Cardinality({i \in 1 .. Len(o) : o[i] \in A})
  <2>1. A \in SUBSET A  OBVIOUS
  <2>2. other = Filtered(o, A)  BY DEF KeyedNot
  <2> HIDE DEF A
  <2>3. Len(other) = HowMany(o, A)  BY <2>1, <2>2, KeptCount
  <2> QED BY <2>3 DEF HowMany
<1>5. 1 \in 1 .. Len(found)  BY <1>1, <1>3
<1>6. PICK h : FilteredFrom(h, found, o, B, Len(o))  BY <1>1
<1>7. PICK g : FilteredFrom(g, other, o, A, Len(o))  BY <1>2
<1> DEFINE a == h[1]
<1>8. a \in 1 .. Len(o) /\ found[1] = o[a] /\ o[a] \in B  BY <1>5, <1>6 DEF FilteredFrom
<1> HIDE DEF a
<1>9. {i \in 1 .. Len(o) : o[i] \in A} = (1 .. Len(o)) \ {a}
  <2>1. \A i \in 1 .. Len(o) : o[i].key = k => i = a  BY <1>0, <1>8 DEF DistinctKeys
  <2> QED BY <1>0, <1>8, <2>1
<1>10. Len(other) = Len(o) - 1
  <2>1. IsFiniteSet(1 .. Len(o)) /\ Cardinality(1 .. Len(o)) = Len(o)  BY <1>0, PlacesAreFinite
  <2> DEFINE I == 1 .. Len(o)
  <2>2. a \in I  BY <1>8
  <2> HIDE DEF I
  <2>3. Cardinality(I \ {a}) = Cardinality(I) - 1  BY <2>1, <2>2, FS_RemoveElement DEF I
  <2> QED BY <1>4, <1>9, <2>1, <2>3 DEF I
<1>11. found[1] \in IndexEntry  BY <1>8
<1>12. /\ p \in Seq(IndexEntry) /\ Len(p) = Len(other) + 1 /\ Len(other) \in Nat
       /\ p[Len(other) + 1] = found[1] /\ \A i \in 1 .. Len(other) : p[i] = other[i]
  BY <1>2, <1>11, AppendProperties
<1> DEFINE L == Len(other)
           w == [j \in 1 .. L + 1 |-> IF j = L + 1 THEN a ELSE g[j]]
<1> HIDE DEF p
<1>13. \A j \in 1 .. L : g[j] \in 1 .. Len(o) /\ other[j] = o[g[j]] /\ g[j] # a
  <2>1. \A j \in 1 .. L : g[j] \in 1 .. Len(o) /\ other[j] = o[g[j]] /\ o[g[j]] \in A  BY <1>7 DEF FilteredFrom
  <2>2. o[a] \notin A  BY <1>8
  <2> HIDE DEF A
  <2> QED BY <2>1, <2>2
<1>14. \A j \in 1 .. Len(p) : j = L + 1 \/ (j \in 1 .. L /\ j # L + 1)  BY <1>12
<1>15. \A j \in 1 .. Len(p) : w[j] \in 1 .. Len(o) /\ p[j] = o[w[j]]
  <2> SUFFICES ASSUME NEW j \in 1 .. Len(p) PROVE w[j] \in 1 .. Len(o) /\ p[j] = o[w[j]]  OBVIOUS
  <2>1. w[j] = IF j = L + 1 THEN a ELSE g[j]  BY <1>12
  <2> HIDE DEF w, L
  <2> QED BY <1>8, <1>12, <1>13, <1>14, <2>1 DEF L
<1>16. \A i, j \in 1 .. Len(p) : w[i] = w[j] => i = j
  <2> SUFFICES ASSUME NEW i \in 1 .. Len(p), NEW j \in 1 .. Len(p), w[i] = w[j] PROVE i = j  OBVIOUS
  <2>1. (w[i] = IF i = L + 1 THEN a ELSE g[i]) /\ (w[j] = IF j = L + 1 THEN a ELSE g[j])  BY <1>12
  <2>2. \A x, y \in 1 .. L : x < y => g[x] < g[y]  BY <1>7 DEF FilteredFrom
  <2> HIDE DEF w, L
  <2>3. CASE i \in 1 .. L /\ j \in 1 .. L /\ i # L + 1 /\ j # L + 1
    <3>1. g[i] = g[j] /\ g[i] \in Nat
      <4>1. g[i] = g[j]  BY <2>1, <2>3
      <4>2. g[i] \in 1 .. Len(o)  BY <1>13, <2>3
      <4> QED BY <4>1, <4>2
    <3>2. i \in Nat /\ j \in Nat  BY <1>12, <2>3 DEF L
    <3> QED BY <2>2, <2>3, <3>1, <3>2
  <2>4. CASE i = L + 1 \/ j = L + 1  BY <1>13, <1>14, <2>1, <2>4
  <2> QED BY <1>14, <2>3, <2>4
<1> HIDE DEF w
<1>17. DistinctKeys(p) /\ IndexUsage(p) <= IndexUsage(o)  BY <1>12, <1>15, <1>16, FewerIndexes
<1>18. Len(other) + 1 = Len(o) /\ Len(p) = Len(o)  BY <1>0, <1>10, <1>12
<1> QED BY <1>11, <1>12, <1>17, <1>18 DEF p

\* Every step keeps it.
LEMMA IndexCacheInvNext == IndexCacheInv /\ [VecNext]_vecVars => IndexCacheInv'
<1> SUFFICES ASSUME IndexCacheInv, [VecNext]_vecVars PROVE IndexCacheInv'  OBVIOUS
<1> DEFINE o == vecIndex.order
<1>0. /\ o \in Seq(IndexEntry) /\ DistinctKeys(o) /\ IndexUsage(o) <= IndexMb /\ Len(o) \in Nat
      /\ vecIndex.evictions \in Int /\ vecIndex.cleared \in Int /\ vecIndex.inserted \in Int
      /\ Len(o) + vecIndex.evictions + vecIndex.cleared = vecIndex.inserted
  BY DEF IndexCacheInv, IndexCacheOK
<1>1. CASE UNCHANGED vecIndex  BY <1>1 DEF IndexCacheInv
<1>2. CASE IndexTick  BY <1>2, VecAssumption DEF IndexTick, IndexStep, IndexCacheInv, IndexCacheOK
<1>3. CASE IndexClear
  <2>1. vecIndex' = [[vecIndex EXCEPT !.order = <<>>, !.cleared = @ + Len(o)] EXCEPT !.ops = @ + 1]
    BY <1>3 DEF IndexClear, IndexOp, IndexStep
  <2>2. <<>> \in Seq(IndexEntry) /\ DistinctKeys(<<>>) /\ Len(<<>>) = 0 /\ IndexUsage(<<>>) <= IndexMb
    BY NoUsage, VecAssumption DEF DistinctKeys
  <2> QED BY <1>0, <2>1, <2>2 DEF IndexCacheInv, IndexCacheOK
<1>4. CASE IndexEvictExpired
  <2> DEFINE p == IndexesWith(LAMBDA e : ~IndexExpired(e))
  <2>1. vecIndex' = [[vecIndex EXCEPT !.order = p, !.evictions = @ + (Len(o) - Len(p))] EXCEPT !.ops = @ + 1]
    BY <1>4 DEF IndexEvictExpired, IndexOp, IndexStep
  <2>2. p = Filtered(o, {e \in IndexEntry : ~IndexExpired(e)})  BY <1>0, PartsAreKept
  <2> HIDE DEF p
  <2>3. p \in Seq(IndexEntry) /\ DistinctKeys(p) /\ IndexUsage(p) <= IndexUsage(o)  BY <1>0, <2>2, KeptIndexes
  <2>4. IndexUsage(p) <= IndexMb  BY <1>0, <2>3, UsageType, VecAssumption
  <2>5. Len(p) \in Nat  BY <2>3
  <2> QED BY <1>0, <2>1, <2>3, <2>4, <2>5 DEF IndexCacheInv, IndexCacheOK
<1>5. ASSUME NEW k \in VecIds, IndexGet(k) PROVE IndexCacheInv'
  <2> DEFINE found == IndexFind(k)  other == IndexOther(k)
  <2>1. found = Filtered(o, KeyedBy(k)) /\ other = Filtered(o, KeyedNot(k))  BY <1>0, PartsAreKept
  <2>2. vecIndex' = [(IF found = <<>> THEN [vecIndex EXCEPT !.misses = @ + 1]
             ELSE IF IndexExpired(found[1])
             THEN [vecIndex EXCEPT !.order = other, !.misses = @ + 1, !.evictions = @ + 1]
             ELSE [vecIndex EXCEPT !.order = Append(other, found[1]), !.hits = @ + 1]) EXCEPT !.ops = @ + 1]
    BY <1>5 DEF IndexGet, IndexOp, IndexStep
  <2> HIDE DEF found, other
  <2>3. CASE found = <<>>  BY <2>2, <2>3 DEF IndexCacheInv, IndexCacheOK
  <2>4. CASE found # <<>>
    <3> DEFINE p == Append(other, found[1])
    <3>1. /\ Len(other) + 1 = Len(o) /\ found[1] \in IndexEntry
          /\ p \in Seq(IndexEntry) /\ DistinctKeys(p) /\ IndexUsage(p) <= IndexUsage(o) /\ Len(p) = Len(o)
      BY <1>0, <2>1, <2>4, FoundIndex
    <3> HIDE DEF p
    <3>2. other \in Seq(IndexEntry) /\ DistinctKeys(other) /\ IndexUsage(other) <= IndexUsage(o)
      BY <1>0, <2>1, KeptIndexes
    <3>3. IndexUsage(p) <= IndexMb /\ IndexUsage(other) <= IndexMb  BY <1>0, <3>1, <3>2, UsageType, VecAssumption
    <3>4. Len(other) \in Nat  BY <3>2
    <3>5. CASE IndexExpired(found[1])
      <4>1. vecIndex' = [[vecIndex EXCEPT !.order = other, !.misses = @ + 1, !.evictions = @ + 1] EXCEPT !.ops = @ + 1]
        BY <2>2, <2>4, <3>5
      <4>2. /\ vecIndex'.order = other /\ vecIndex'.evictions = vecIndex.evictions + 1 /\ vecIndex'.cleared = vecIndex.cleared
            /\ vecIndex'.inserted = vecIndex.inserted /\ vecIndex'.now = vecIndex.now /\ DOMAIN vecIndex' = DOMAIN vecIndex
        BY <4>1 DEF IndexCacheInv, IndexCacheOK
      <4>3. Len(other) + (vecIndex.evictions + 1) + vecIndex.cleared = vecIndex.inserted
        <5> DEFINE a == Len(other)  n == Len(o)  v == vecIndex.evictions  c == vecIndex.cleared  x == vecIndex.inserted
        <5>1. a \in Nat /\ a + 1 = n /\ v \in Int /\ c \in Int /\ x \in Int /\ n + v + c = x  BY <1>0, <3>1, <3>4
        <5> HIDE DEF a, n, v, c, x
        <5>2. a + (v + 1) + c = x  BY <5>1
        <5> QED BY <5>2 DEF a, v, c, x
      <4> QED BY <1>0, <3>2, <3>3, <4>2, <4>3 DEF IndexCacheInv, IndexCacheOK
    <3>6. CASE ~IndexExpired(found[1])
      <4>1. vecIndex' = [[vecIndex EXCEPT !.order = p, !.hits = @ + 1] EXCEPT !.ops = @ + 1]  BY <2>2, <2>4, <3>6 DEF p
      <4>2. /\ vecIndex'.order = p /\ vecIndex'.evictions = vecIndex.evictions /\ vecIndex'.cleared = vecIndex.cleared
            /\ vecIndex'.inserted = vecIndex.inserted /\ vecIndex'.now = vecIndex.now /\ DOMAIN vecIndex' = DOMAIN vecIndex
        BY <4>1 DEF IndexCacheInv, IndexCacheOK
      <4> QED BY <1>0, <3>1, <3>3, <4>2 DEF IndexCacheInv, IndexCacheOK
    <3> QED BY <3>5, <3>6
  <2> QED BY <2>3, <2>4
<1>6. ASSUME NEW k \in VecIds, NEW mb \in VecSizes, IndexInsert(k, mb) PROVE IndexCacheInv'
  <2> DEFINE other == IndexOther(k)
             e == [key |-> k, mb |-> mb, at |-> vecIndex.now]
             full == Len(other) = Len(o) /\ Len(other) >= IndexCap
             rest == IF full THEN Tail(other) ELSE other
             pushed == Append(rest, e)
             kept == IndexKept(pushed)
  <2>1. vecIndex' = [[vecIndex EXCEPT !.order = kept, !.inserted = @ + 1,
                                     !.evictions = @ + (Len(o) + 1 - Len(kept))] EXCEPT !.ops = @ + 1]
    BY <1>6 DEF IndexInsert, IndexOp, IndexStep
  <2>2. other = Filtered(o, KeyedNot(k))  BY <1>0, PartsAreKept
  <2>3. e \in IndexEntry /\ e.key = k  BY DEF IndexCacheInv, IndexCacheOK, IndexEntry
  <2> HIDE DEF other, e
  <2>4. other \in Seq(IndexEntry) /\ DistinctKeys(other) /\ \A j \in 1 .. Len(other) : other[j].key # k
    <3>1. other \in Seq(IndexEntry) /\ DistinctKeys(other) /\ \A j \in 1 .. Len(other) : other[j] \in KeyedNot(k)
      BY <1>0, <2>2, KeptIndexes
    <3> QED BY <3>1 DEF KeyedNot
  <2>5. rest \in Seq(IndexEntry) /\ DistinctKeys(rest) /\ \A j \in 1 .. Len(rest) : rest[j].key # k
    <3>1. CASE ~full  BY <2>4, <3>1
    <3>2. CASE full
      <4>1. Len(other) \in Nat /\ Len(other) > 0  BY <2>4, <3>2, VecAssumption
      <4>2. other # <<>>  BY <4>1
      <4>3. /\ rest \in Seq(IndexEntry) /\ Len(rest) = Len(other) - 1
            /\ \A i \in 1 .. Len(rest) : rest[i] = other[i + 1]
        BY <2>4, <3>2, <4>2, HeadTailProperties
      <4> HIDE DEF rest, full
      <4>4. \A i \in 1 .. Len(rest) : i + 1 \in 1 .. Len(other) /\ i \in Nat  BY <4>1, <4>3
      <4>5. \A i, j \in 1 .. Len(rest) : rest[i].key = rest[j].key => i + 1 = j + 1
        BY <2>4, <4>3, <4>4 DEF DistinctKeys
      <4>6. \A i, j \in 1 .. Len(rest) : rest[i].key = rest[j].key => i = j  BY <4>4, <4>5
      <4>7. DistinctKeys(rest)  BY <4>6 DEF DistinctKeys
      <4> QED BY <2>4, <4>3, <4>4, <4>7
    <3> QED BY <3>1, <3>2
  <2> HIDE DEF rest, full
  <2>6. pushed \in Seq(IndexEntry) /\ DistinctKeys(pushed)
    <3>1. /\ pushed \in Seq(IndexEntry) /\ Len(pushed) = Len(rest) + 1 /\ pushed[Len(rest) + 1] = e
          /\ \A i \in 1 .. Len(rest) : pushed[i] = rest[i]
      BY <2>3, <2>5, AppendProperties
    <3>2. Len(rest) \in Nat  BY <2>5
    <3>3. \A i \in 1 .. Len(pushed) : i = Len(rest) + 1 \/ i \in 1 .. Len(rest)  BY <3>1, <3>2
    <3> HIDE DEF pushed
    <3> QED BY <2>3, <2>5, <3>1, <3>3 DEF DistinctKeys
  <2> HIDE DEF pushed
  <2>7. kept \in Seq(IndexEntry) /\ DistinctKeys(kept) /\ IndexUsage(kept) <= IndexMb  BY <2>6, KeptWithin
  <2>8. Len(kept) \in Nat  BY <2>7
  <2> HIDE DEF kept
  <2> QED BY <1>0, <2>1, <2>7, <2>8 DEF IndexCacheInv, IndexCacheOK
<1>7. \A s : SemStep(s) \/ DbStep(s) \/ EmbedStep(s) => UNCHANGED vecIndex  BY DEF SemStep, DbStep, EmbedStep
<1> HIDE DEF IndexCacheInv, o
<1>8. CASE \E t : \/ SemVictim(t) \/ SemUntrack(t) \/ SemUncount(t) \/ SemTrack(t) \/ SemCount(t)
                  \/ SemLookup(t) \/ SemMissed(t) \/ SemHit(t) \/ SemCountHit(t)
                  \/ \E ok : SemDelete(t, ok) \/ SemInsert(t, ok)
                  \/ \E id : SemStore(t, id) \/ SemFound(t, id)
  BY <1>1, <1>7, <1>8, Zenon
     DEF SemVictim, SemUntrack, SemUncount, SemTrack, SemCount, SemLookup, SemMissed, SemHit, SemCountHit, SemDelete,
         SemInsert, SemStore, SemFound
<1>9. CASE \/ \E v : DbDelete(v) \/ DeleteMock(v) \/ \E size : DbInsert(v, size) \/ StoreMock(v, size)
           \/ DbUseS5 \/ EmbedTick \/ \E v : GenerateEmbedding(v)
  BY <1>1, <1>7, <1>9, Zenon DEF DbDelete, DeleteMock, DbInsert, StoreMock, DbUseS5, EmbedTick, GenerateEmbedding
<1>10. CASE \E ids, tagged, score, k : SearchSession(ids, score, k, tagged)  BY <1>1, <1>10, Zenon DEF SearchSession
<1> QED BY <1>1, <1>2, <1>3, <1>4, <1>5, <1>6, <1>8, <1>9, <1>10 DEF VecNext, vecVars

-----------------------------------------------------------------------------
(* The engines and the sessions of the WebSocket transport (api/websocket/) *)

\* The cache of engines: what loads for it is not in it.
EnginesInv ==
    /\ DOMAIN engines = {"cache", "loaded", "loading", "lru", "ops"}
    /\ engines.cache \in Seq(TrModels) /\ NoRepeats(engines.cache) /\ Len(engines.cache) <= TrEngines
    /\ engines.loading # "none" => engines.loading \in TrModels
    /\ engines.loading # "none" /\ engines.lru => \A i \in 1 .. Len(engines.cache) : engines.cache[i] # engines.loading

\* It says what the runs check.
LEMMA EnginesInvSays == EnginesInv => EnginesBounded
<1> SUFFICES ASSUME EnginesInv PROVE EnginesBounded  OBVIOUS
<1>1. DOMAIN engines.cache = 1 .. Len(engines.cache)  BY DEF EnginesInv
<1> QED BY <1>1 DEF EnginesInv, EnginesBounded, IsInjective, NoRepeats

\* It holds at first.
LEMMA EnginesInvInit == TrInit => EnginesInv
<1> SUFFICES ASSUME TrInit PROVE EnginesInv  OBVIOUS
<1>1. engines = [cache |-> <<>>, loaded |-> {}, loading |-> "none", lru |-> FALSE, ops |-> 0]  BY DEF TrInit
<1> QED BY <1>1, TrAssumption DEF EnginesInv, NoRepeats

\* The steps of the engines keep it.
LEMMA EnginesInvStep ==
    ASSUME EnginesInv, EngineLoaded \/ \E m \in TrModels : TouchEngine(m) \/ \E lru \in BOOLEAN : LoadEngine(m, lru)
    PROVE  EnginesInv'
<1> DEFINE c == engines.cache
<1>0. /\ DOMAIN engines = {"cache", "loaded", "loading", "lru", "ops"}
      /\ c \in Seq(TrModels) /\ NoRepeats(c) /\ Len(c) <= TrEngines /\ Len(c) \in Nat
  BY DEF EnginesInv
<1>1. ASSUME NEW m \in TrModels, TouchEngine(m) PROVE EnginesInv'
  <2> DEFINE k == EnginesBut(c, m)
  <2>1. engines' = [[engines EXCEPT !.cache = Append(k, m)] EXCEPT !.ops = @ + 1]  BY <1>1 DEF TouchEngine, EnginesStep
  <2>2. k = Filtered(c, TrModels \ {m})
    <3>1. \A i \in 1 .. Len(c) : c[i] \in TrModels  BY <1>0
    <3>2. [i \in 1 .. Len(c) |-> IF c[i] = m THEN <<>> ELSE <<c[i]>>]
          = [i \in 1 .. Len(c) |-> IF c[i] \in TrModels \ {m} THEN <<c[i]>> ELSE <<>>]  BY <3>1
    <3> QED BY <3>2, Zenon DEF Filtered, EnginesBut
  <2>3. PICK a \in 1 .. Len(c) : c[a] = m  BY <1>0, <1>1 DEF TouchEngine, ToSet
  <2>4. k \in Seq(TrModels) /\ NoRepeats(k)  BY <1>0, <2>2, KeptDistinct, KeptPlaces
  <2>5. Len(k) <= Len(c) - 1
    <3>1. c[a] \notin TrModels \ {m}  BY <2>3
    <3> QED BY <1>0, <2>2, <3>1, KeptShorter
  <2>6. \A i \in 1 .. Len(k) : k[i] # m
    <3>1. PICK h : FilteredFrom(h, k, c, TrModels \ {m}, Len(c))  BY <1>0, <2>2, KeptPlaces
    <3> QED BY <3>1 DEF FilteredFrom
  <2> HIDE DEF k
  <2>7. Append(k, m) \in Seq(TrModels) /\ NoRepeats(Append(k, m)) /\ Len(Append(k, m)) = Len(k) + 1 /\ Len(k) \in Nat
    BY <2>4, <2>6, OneMoreDistinct
  <2> DEFINE p == Append(k, m)
  <2>8. Len(p) <= TrEngines  BY <1>0, <2>5, <2>7, TrAssumption
  <2>9. engines.loading = "none"  BY <1>1 DEF TouchEngine
  <2> HIDE DEF p
  <2>10. engines' = [[engines EXCEPT !.cache = p] EXCEPT !.ops = @ + 1]  BY <2>1 DEF p
  <2> QED BY <1>0, <2>7, <2>8, <2>9, <2>10 DEF EnginesInv, p
<1>2. ASSUME NEW m \in TrModels, NEW lru \in BOOLEAN, LoadEngine(m, lru) PROVE EnginesInv'
  <2>1. engines' = [[engines EXCEPT !.loading = m, !.lru = lru] EXCEPT !.ops = @ + 1]
    BY <1>2 DEF LoadEngine, EnginesStep
  <2>2. lru => \A i \in 1 .. Len(c) : c[i] # m
    <3>1. lru => m \notin ToSet(c)  BY <1>2 DEF LoadEngine
    <3>2. \A i \in 1 .. Len(c) : c[i] \in ToSet(c)  BY <1>0 DEF ToSet
    <3> QED BY <3>1, <3>2
  <2> QED BY <1>0, <2>1, <2>2 DEF EnginesInv
<1>3. CASE EngineLoaded
  <2> DEFINE m == engines.loading  r == MakeEngineRoom(c)  p == Append(r, m)
  <2>0. m # "none" /\ m \in TrModels  BY <1>3 DEF EngineLoaded, EnginesInv
  <2>1. CASE engines' = [[engines EXCEPT !.loading = "none"] EXCEPT !.ops = @ + 1]  BY <1>0, <2>1 DEF EnginesInv
  <2>2. CASE engines' = [[engines EXCEPT !.loading = "none", !.loaded = @ \cup {engines.loading}] EXCEPT !.ops = @ + 1]
    BY <1>0, <2>2 DEF EnginesInv
  <2>3. CASE engines.lru /\ engines' = [[engines EXCEPT !.loading = "none", !.cache = p] EXCEPT !.ops = @ + 1]
    <3>1. \A i \in 1 .. Len(c) : c[i] # m  BY <2>0, <2>3 DEF EnginesInv
    <3>2. r \in Seq(TrModels) /\ NoRepeats(r) /\ Len(r) + 1 <= TrEngines /\ \A i \in 1 .. Len(r) : r[i] # m
      <4>1. CASE ~(Len(c) >= TrEngines)
        <5>1. r = c  BY <4>1 DEF MakeEngineRoom
        <5> QED BY <1>0, <3>1, <4>1, <5>1, TrAssumption
      <4>2. CASE Len(c) >= TrEngines
        <5>1. r = Tail(c)  BY <4>2 DEF MakeEngineRoom
        <5>2. Len(c) > 0  BY <1>0, <4>2, TrAssumption
        <5>3. c # <<>>  BY <5>2
        <5>4. r \in Seq(TrModels) /\ Len(r) = Len(c) - 1 /\ \A i \in 1 .. Len(r) : r[i] = c[i + 1]
          BY <1>0, <5>1, <5>3, HeadTailProperties
        <5> HIDE DEF r
        <5>5. \A i \in 1 .. Len(r) : i + 1 \in 1 .. Len(c) /\ i \in Nat  BY <1>0, <5>4
        <5>6. \A i, j \in 1 .. Len(r) : r[i] = r[j] => i + 1 = j + 1  BY <1>0, <5>4, <5>5 DEF NoRepeats
        <5>7. NoRepeats(r)  BY <5>5, <5>6 DEF NoRepeats
        <5>8. Len(r) + 1 <= TrEngines  BY <1>0, <5>4, TrAssumption
        <5> QED BY <3>1, <5>4, <5>5, <5>7, <5>8
      <4> QED BY <4>1, <4>2
    <3> HIDE DEF r, m
    <3>3. p \in Seq(TrModels) /\ NoRepeats(p) /\ Len(p) = Len(r) + 1  BY <2>0, <3>2, OneMoreDistinct
    <3> HIDE DEF p
    <3> QED BY <1>0, <2>3, <3>2, <3>3 DEF EnginesInv
  <2> QED BY <1>3, <2>1, <2>2, <2>3 DEF EngineLoaded, EnginesStep
<1> QED BY <1>1, <1>2, <1>3

\* The sessions of the handler: what is recorded of a session is what it holds.
MemoryInv ==
    /\ DOMAIN wsHandler = {"sessions", "processed", "task"}
    /\ DOMAIN wsHandler.sessions = TrSessions
    /\ \A s \in TrSessions :
          /\ DOMAIN wsHandler.sessions[s] = {"live", "history", "memory", "expired"}
          /\ wsHandler.sessions[s].memory \in Nat /\ wsHandler.sessions[s].memory = wsHandler.sessions[s].history
          /\ wsHandler.sessions[s].memory <= TrMemory

\* It says what the runs check.
LEMMA MemoryInvSays == MemoryInv => SessionWithinMemory  BY DEF MemoryInv, SessionWithinMemory

\* It holds at first.
LEMMA MemoryInvInit == TrInit => MemoryInv
<1> SUFFICES ASSUME TrInit PROVE MemoryInv  OBVIOUS
<1> DEFINE r == [live |-> FALSE, history |-> 0, memory |-> 0, expired |-> FALSE]
           ss == [s \in TrSessions |-> r]
           tt == [t \in TrTasks |-> [pc |-> "idle", session |-> "none"]]
<1>1. wsHandler = [sessions |-> ss, processed |-> 0, task |-> tt]  BY DEF TrInit
<1> HIDE DEF tt
<1>2. DOMAIN r = {"live", "history", "memory", "expired"} /\ r.memory = 0 /\ r.history = 0  OBVIOUS
<1> HIDE DEF r
<1> QED BY <1>1, <1>2, TrAssumption DEF MemoryInv

\* The steps of the handler keep it.
LEMMA MemoryInvStep ==
    ASSUME MemoryInv, HandlerNext
    PROVE  MemoryInv'
<1> USE DEF SessionHandlerStep
<1>1. ASSUME NEW s \in TrSessions, OnConnect(s) PROVE MemoryInv'
  <2> DEFINE r == [live |-> TRUE, history |-> 0, memory |-> 0, expired |-> FALSE]
  <2>1. wsHandler' = [wsHandler EXCEPT !.sessions[s] = r, !.processed = @ + 1]  BY <1>1 DEF OnConnect
  <2>2. DOMAIN r = {"live", "history", "memory", "expired"} /\ r.memory = 0 /\ r.history = 0  OBVIOUS
  <2> HIDE DEF r
  <2> QED BY <2>1, <2>2, TrAssumption DEF MemoryInv
<1>2. ASSUME NEW s \in TrSessions, OnDisconnect(s) PROVE MemoryInv'  BY <1>2 DEF OnDisconnect, MemoryInv
<1>3. ASSUME NEW s \in TrSessions, SessionTimesOut(s) PROVE MemoryInv'  BY <1>3 DEF SessionTimesOut, MemoryInv
<1>4. ASSUME NEW s \in TrSessions, ClearSession(s) PROVE MemoryInv'  BY <1>4, TrAssumption DEF ClearSession, MemoryInv
<1>5. ASSUME NEW t \in TrTasks, HandlerDone(wsHandler, t) = wsHandler' PROVE MemoryInv'
  BY <1>5 DEF HandlerDone, MemoryInv
<1>6. ASSUME NEW t \in TrTasks, CheckSession(t) \/ BuildPrompt(t) PROVE MemoryInv'
  <2>1. CASE \E pc : wsHandler' = [wsHandler EXCEPT !.task[t].pc = pc]  BY <2>1 DEF MemoryInv
  <2> QED BY <1>5, <1>6, <2>1 DEF CheckSession, BuildPrompt
<1>7. ASSUME NEW t \in TrTasks, NEW s, HandleInference(t, s) PROVE MemoryInv'  BY <1>7 DEF HandleInference, MemoryInv
<1>8. ASSUME NEW t \in TrTasks, NEW from, NEW to, AddSessionMessage(t, from, to) PROVE MemoryInv'
  <2> DEFINE s == wsHandler.task[t].session
             r == wsHandler.sessions[s]
             added == [wsHandler EXCEPT !.sessions[s].history = @ + 1, !.sessions[s].memory = @ + 1,
                                        !.sessions[s].expired = FALSE]
  <2>1. CASE r.live /\ MessageFits(r)
    <3>1. wsHandler' = HandlerDone(added, t) \/ wsHandler' = [added EXCEPT !.task[t].pc = to]
      BY <1>8, <2>1 DEF AddSessionMessage, HandlerSession
    <3> DEFINE ss == added.sessions
    <3>2. DOMAIN added = {"sessions", "processed", "task"} /\ DOMAIN ss = TrSessions  BY DEF MemoryInv
    <3>3. ASSUME NEW x \in TrSessions, x # s PROVE ss[x] = wsHandler.sessions[x]  BY <3>3 DEF MemoryInv
    <3>4. ASSUME s \in TrSessions
          PROVE  DOMAIN ss[s] = {"live", "history", "memory", "expired"} /\ ss[s].memory = r.memory + 1 /\ ss[s].history = r.history + 1
      BY <3>4 DEF MemoryInv
    <3> HIDE DEF added
    <3>5. wsHandler'.sessions = ss /\ DOMAIN wsHandler' = DOMAIN added  BY <3>1, <3>2 DEF HandlerDone
    <3> HIDE DEF ss
    <3>6. s \in TrSessions => r.memory \in Nat /\ r.memory = r.history /\ r.memory + 1 <= TrMemory
      BY <2>1 DEF MessageFits, MemoryInv
    <3>7. \A x \in TrSessions :
                /\ DOMAIN ss[x] = {"live", "history", "memory", "expired"}
                /\ ss[x].memory \in Nat /\ ss[x].memory = ss[x].history /\ ss[x].memory <= TrMemory
      <4> SUFFICES ASSUME NEW x \in TrSessions
                   PROVE  /\ DOMAIN ss[x] = {"live", "history", "memory", "expired"}
                          /\ ss[x].memory \in Nat /\ ss[x].memory = ss[x].history /\ ss[x].memory <= TrMemory
        OBVIOUS
      <4>1. CASE x # s  BY <3>3, <4>1 DEF MemoryInv
      <4>2. CASE x = s  BY <3>4, <3>6, <4>2
      <4> QED BY <4>1, <4>2
    <3> QED BY <3>2, <3>5, <3>7 DEF MemoryInv
  <2>2. CASE ~(r.live /\ MessageFits(r))  BY <1>5, <1>8, <2>2 DEF AddSessionMessage, HandlerSession
  <2> QED BY <2>1, <2>2
<1> QED BY HandlerNext, <1>1, <1>2, <1>3, <1>4, <1>6, <1>7, <1>8 DEF HandlerNext

\* Every step keeps it.
LEMMA EnginesInvNext == EnginesInv /\ [TrNext]_trVars => EnginesInv'
<1> SUFFICES ASSUME EnginesInv, [TrNext]_trVars PROVE EnginesInv'  OBVIOUS
<1>1. CASE UNCHANGED engines  BY <1>1 DEF EnginesInv
<1>2. \A s : \/ ServerStep(s) \/ FrameStep(s) \/ PayloadStep(s) \/ SessionHandlerStep(s) \/ StreamStep(s)
             \/ WorkersStep(s) \/ JobChainStep(s) \/ AuthStep(s) \/ TrackerStep(s) \/ AnswerStep(s)
             => UNCHANGED engines
  BY DEF ServerStep, FrameStep, PayloadStep, SessionHandlerStep, StreamStep, WorkersStep, JobChainStep, AuthStep, TrackerStep, AnswerStep
<1>3. CASE ServerTransportNext  BY <1>1, <1>2, <1>3, Zenon
     DEF ServerTransportNext, ShutdownServer, AcceptConnection, FinishHandshake, ConnectionEnds,
           ConnectionRemoved, HandleText
<1>4. CASE FrameNext  BY <1>1, <1>2, <1>4, Zenon
     DEF FrameNext, EncodeFrame, ParseFrame, FragmentMessage, ReassembleFragments
<1>5. CASE HandlerNext
  <2>1. ASSUME NEW s, OnConnect(s) \/ OnDisconnect(s) \/ SessionTimesOut(s) \/ ClearSession(s) PROVE UNCHANGED engines
    BY <1>2, <2>1, Zenon DEF OnConnect, OnDisconnect, SessionTimesOut, ClearSession
  <2>2. ASSUME NEW t, CheckSession(t) \/ BuildPrompt(t) PROVE UNCHANGED engines
    BY <1>2, <2>2, Zenon DEF CheckSession, BuildPrompt
  <2>3. ASSUME NEW t, NEW s, HandleInference(t, s) PROVE UNCHANGED engines  BY <1>2, <2>3, Zenon DEF HandleInference
  <2>4. ASSUME NEW t, NEW from, NEW to, AddSessionMessage(t, from, to) PROVE UNCHANGED engines
    BY <1>2, <2>4, Zenon DEF AddSessionMessage
  <2> QED BY <1>1, <1>5, <2>1, <2>2, <2>3, <2>4, Zenon DEF HandlerNext
<1>6. CASE StreamNext  BY <1>1, <1>2, <1>6, Zenon
     DEF StreamNext, CreateStreamingResponse, ReceiverDropped, SendPart, RecordAnswer
<1>7. CASE AnswersNext  BY <1>1, <1>2, <1>7, Zenon
     DEF AnswersNext, EngineChanges, HandlerWithoutEngine, UserSays, GenerateWithConfig, GenerateResponse,
           GenerateWithModel, AnswerSaid, AnswerOp
<1>8. CASE WorkersNext  BY <1>1, <1>2, <1>8, Zenon
     DEF WorkersNext, SetSessionTimeout, TimeoutRings, ShutdownSessions, AssignSession, HandoffSession
<1>9. CASE JobChainNext  BY <1>1, <1>2, <1>9, Zenon
     DEF JobChainNext, EndJobSession, CheckOtherChain, InsertJobSession, MapJobChain, CreateJobSession
<1>10. CASE ValidatePayload \/ \E kind, reason, key, nonce, signature : ReceivePayload(kind, key, nonce, signature, reason)
  BY <1>1, <1>2, <1>10, Zenon DEF ValidatePayload, ReceivePayload
<1>11. CASE EngineLoaded \/ \E m \in TrModels : TouchEngine(m) \/ LoadEngine(m, TRUE) \/ LoadEngine(m, FALSE)
  BY <1>11, EnginesInvStep
<1>12. CASE AuthTick \/ JobExpires \/ AuthenticateJob \/ CreateAuthToken \/ VerifyAuthToken  BY <1>1, <1>2, <1>12, Zenon
     DEF AuthTick, JobExpires, AuthenticateJob, CreateAuthToken, VerifyAuthToken
<1>13. CASE ForceCheckpoint \/ CleanupJob \/ \E n \in 1 .. TrTokens : TrackJobTokens(n)  BY <1>1, <1>2, <1>13, Zenon
     DEF ForceCheckpoint, CleanupJob, TrackJobTokens
<1>14. TrNext \/ UNCHANGED trVars  OBVIOUS
<1> QED BY <1>1, <1>3, <1>4, <1>5, <1>6, <1>7, <1>8, <1>9, <1>10, <1>11, <1>12, <1>13, <1>14 DEF TrNext, trVars

\* Every step keeps it.
LEMMA MemoryInvNext == MemoryInv /\ [TrNext]_trVars => MemoryInv'
<1> SUFFICES ASSUME MemoryInv, [TrNext]_trVars PROVE MemoryInv'  OBVIOUS
<1>1. CASE UNCHANGED wsHandler  BY <1>1 DEF MemoryInv
<1>2. \A s : \/ ServerStep(s) \/ FrameStep(s) \/ PayloadStep(s) \/ StreamStep(s) \/ EnginesStep(s)
             \/ WorkersStep(s) \/ JobChainStep(s) \/ AuthStep(s) \/ TrackerStep(s) \/ AnswerStep(s)
             => UNCHANGED wsHandler
  BY DEF ServerStep, FrameStep, PayloadStep, StreamStep, EnginesStep, WorkersStep, JobChainStep, AuthStep, TrackerStep, AnswerStep
<1>3. CASE ServerTransportNext  BY <1>1, <1>2, <1>3, Zenon
     DEF ServerTransportNext, ShutdownServer, AcceptConnection, FinishHandshake, ConnectionEnds,
           ConnectionRemoved, HandleText
<1>4. CASE FrameNext  BY <1>1, <1>2, <1>4, Zenon
     DEF FrameNext, EncodeFrame, ParseFrame, FragmentMessage, ReassembleFragments
<1>5. CASE HandlerNext  BY <1>5, MemoryInvStep
<1>6. CASE StreamNext  BY <1>1, <1>2, <1>6, Zenon
     DEF StreamNext, CreateStreamingResponse, ReceiverDropped, SendPart, RecordAnswer
<1>7. CASE AnswersNext  BY <1>1, <1>2, <1>7, Zenon
     DEF AnswersNext, EngineChanges, HandlerWithoutEngine, UserSays, GenerateWithConfig, GenerateResponse,
           GenerateWithModel, AnswerSaid, AnswerOp
<1>8. CASE WorkersNext  BY <1>1, <1>2, <1>8, Zenon
     DEF WorkersNext, SetSessionTimeout, TimeoutRings, ShutdownSessions, AssignSession, HandoffSession
<1>9. CASE JobChainNext  BY <1>1, <1>2, <1>9, Zenon
     DEF JobChainNext, EndJobSession, CheckOtherChain, InsertJobSession, MapJobChain, CreateJobSession
<1>10. CASE ValidatePayload \/ \E kind, reason, key, nonce, signature : ReceivePayload(kind, key, nonce, signature, reason)
  BY <1>1, <1>2, <1>10, Zenon DEF ValidatePayload, ReceivePayload
<1>11. CASE EngineLoaded \/ \E m \in TrModels : TouchEngine(m) \/ LoadEngine(m, TRUE) \/ LoadEngine(m, FALSE)
  BY <1>1, <1>2, <1>11, Zenon DEF EngineLoaded, TouchEngine, LoadEngine
<1>12. CASE AuthTick \/ JobExpires \/ AuthenticateJob \/ CreateAuthToken \/ VerifyAuthToken  BY <1>1, <1>2, <1>12, Zenon
     DEF AuthTick, JobExpires, AuthenticateJob, CreateAuthToken, VerifyAuthToken
<1>13. CASE ForceCheckpoint \/ CleanupJob \/ \E n \in 1 .. TrTokens : TrackJobTokens(n)  BY <1>1, <1>2, <1>13, Zenon
     DEF ForceCheckpoint, CleanupJob, TrackJobTokens
<1>14. TrNext \/ UNCHANGED trVars  OBVIOUS
<1> QED BY <1>1, <1>3, <1>4, <1>5, <1>6, <1>7, <1>8, <1>9, <1>10, <1>11, <1>12, <1>13, <1>14 DEF TrNext, trVars

-----------------------------------------------------------------------------
(* The caches of the web search (search/cache.rs, search/content/cache.rs) *)

\* A cache of search results or pages within its limit.
CacheBounded(cache, limit) == IsFiniteSet(Stored(cache)) /\ Cardinality(Stored(cache)) <= limit

\* An insertion that makes room keeps a cache within its limit.
LEMMA InsertedBounded ==
    ASSUME NEW cache, NEW limit \in Nat \ {0}, CacheBounded(cache, limit), NEW k, NEW v, NEW c \in Inserted(cache, limit, k, v)
    PROVE  CacheBounded(c, limit)
<1> DEFINE S == Stored(cache)
<1>0. IsFiniteSet(S) /\ Cardinality(S) \in Nat /\ Cardinality(S) <= limit  BY FS_CardinalityType DEF CacheBounded
<1>1. PICK d \in Evicted(cache, limit) : c = [d EXCEPT ![k] = [at |-> web.now, value |-> v]]  BY DEF Inserted
<1>2. Stored(c) \subseteq Stored(d) \cup {k}  BY <1>1 DEF Stored
<1>3. IsFiniteSet(Stored(d)) /\ Cardinality(Stored(d)) + 1 <= limit
  <2>1. CASE Cardinality(S) >= limit
    <3>1. PICK j \in Oldest(cache) : d = [cache EXCEPT ![j] = NoPageEntry]  BY <1>1, <2>1 DEF Evicted
    <3>2. j \in S  BY DEF Oldest
    <3>3. Stored(d) = S \ {j}
      <4>1. NoPageEntry.at = -1  BY DEF NoPageEntry
      <4> HIDE DEF NoPageEntry
      <4> QED BY <3>1, <4>1 DEF Stored
    <3> HIDE DEF S
    <3>4. IsFiniteSet(S \ {j}) /\ Cardinality(S \ {j}) = Cardinality(S) - 1  BY <1>0, <3>2, FS_RemoveElement
    <3>5. Cardinality(Stored(d)) + 1 <= limit  BY <1>0, <3>3, <3>4
    <3> QED BY <3>3, <3>4, <3>5
  <2>2. CASE ~(Cardinality(S) >= limit)
    <3>1. d = cache  BY <1>1, <2>2 DEF Evicted
    <3> QED BY <1>0, <2>2, <3>1
  <2> QED BY <2>1, <2>2
<1> DEFINE D == Stored(d)  E == D \cup {k}
<1>4. IsFiniteSet(E) /\ Cardinality(E) <= Cardinality(D) + 1
  <2> HIDE DEF D
  <2>0. IsFiniteSet(D) /\ Cardinality(D) \in Nat  BY <1>3, FS_CardinalityType DEF D
  <2> QED BY <2>0, FS_AddElement
<1>5. IsFiniteSet(Stored(c)) /\ Cardinality(Stored(c)) <= Cardinality(E)  BY <1>2, <1>4, FS_Subset
<1>6. Cardinality(D) \in Nat /\ Cardinality(E) \in Nat /\ Cardinality(Stored(c)) \in Nat
  BY <1>3, <1>4, <1>5, FS_CardinalityType
<1> HIDE DEF D, E
<1> QED BY <1>3, <1>4, <1>5, <1>6 DEF CacheBounded, D

\* A cache that holds less is within its limit.
LEMMA FewerBounded ==
    ASSUME NEW cache, NEW limit \in Nat \ {0}, CacheBounded(cache, limit), NEW c, Stored(c) \subseteq Stored(cache)
    PROVE  CacheBounded(c, limit)
<1>1. IsFiniteSet(Stored(c)) /\ Cardinality(Stored(c)) <= Cardinality(Stored(cache))  BY FS_Subset DEF CacheBounded
<1>2. Cardinality(Stored(c)) \in Nat /\ Cardinality(Stored(cache)) \in Nat  BY <1>1, FS_CardinalityType DEF CacheBounded
<1> QED BY <1>1, <1>2 DEF CacheBounded

\* The caches of search results and of pages.
WebInv ==
    /\ DOMAIN web = {"providers", "fetching", "now", "quota", "made", "found", "pages", "task"}
    /\ DOMAIN web.found = SearchQueries
    /\ CacheBounded(web.found, MaxFound) /\ CacheBounded(web.pages, MaxPageCache)

\* It says what the runs check.
LEMMA WebInvSays == WebInv => SearchCachesBounded  BY DEF WebInv, CacheBounded, SearchCachesBounded

\* An empty cache is within its limit.
LEMMA EmptyBounded == ASSUME NEW S, NEW limit \in Nat PROVE CacheBounded([k \in S |-> NoPageEntry], limit)
<1> DEFINE c == [k \in S |-> NoPageEntry]
<1>1. Stored(c) = {}  BY DEF Stored, NoPageEntry
<1> HIDE DEF c
<1>2. CacheBounded(c, limit)  BY <1>1, FS_EmptySet DEF CacheBounded
<1> QED BY <1>2 DEF c

\* It holds at first.
LEMMA WebInvInit == SearchInit => WebInv
<1> SUFFICES ASSUME SearchInit PROVE WebInv  OBVIOUS
<1> DEFINE f == [q \in SearchQueries |-> NoPageEntry]  p == [s \in Sites |-> NoPageEntry]
           tt == [t \in SearchTasks |-> SearchIdle]
<1>1. PICK prov, fe : web = [providers |-> prov, fetching |-> fe, now |-> 0, quota |-> SearchQuota, made |-> 0,
                             found |-> f, pages |-> p, task |-> tt]  BY Zenon DEF SearchInit
<1>2. CacheBounded(f, MaxFound) /\ CacheBounded(p, MaxPageCache) /\ DOMAIN f = SearchQueries
  BY EmptyBounded, SearchAssumption
<1> HIDE DEF f, p, tt
<1> QED BY <1>1, <1>2 DEF WebInv

\* Every step keeps it.
LEMMA WebInvNext == WebInv /\ [SearchNext]_web => WebInv'
<1> SUFFICES ASSUME WebInv, [SearchNext]_web PROVE WebInv'  OBVIOUS
<1>0. MaxFound \in Nat \ {0} /\ MaxPageCache \in Nat \ {0}  BY SearchAssumption
<1>1. ASSUME web'.found = web.found, web'.pages = web.pages, DOMAIN web' = DOMAIN web PROVE WebInv'
  BY <1>1 DEF WebInv, CacheBounded, Stored
<1>2. CASE UNCHANGED web  BY <1>1, <1>2
<1>3. CASE SearchTick \/ QuotaReturns  BY <1>1, <1>3 DEF SearchTick, QuotaReturns, WebInv
<1>4. CASE ClearSearchCache
  <2> DEFINE f == [q \in SearchQueries |-> NoPageEntry]
  <2>1. CacheBounded(f, MaxFound) /\ DOMAIN f = SearchQueries  BY <1>0, EmptyBounded
  <2>2. web' = [web EXCEPT !.found = f]  BY <1>4 DEF ClearSearchCache
  <2> HIDE DEF f
  <2> QED BY <2>1, <2>2 DEF WebInv, CacheBounded, Stored
<1>5. CASE CleanupSearchCache
  <2> DEFINE f == [q \in SearchQueries |-> IF FreshIn(web.found, q) THEN web.found[q] ELSE NoPageEntry]
  <2>1. web' = [web EXCEPT !.found = f] /\ DOMAIN f = SearchQueries  BY <1>5 DEF CleanupSearchCache
  <2>2. Stored(f) \subseteq Stored(web.found)  BY DEF Stored, FreshIn, NoPageEntry, WebInv
  <2>3. CacheBounded(f, MaxFound)  BY <1>0, <2>2, FewerBounded DEF WebInv
  <2> HIDE DEF f
  <2> QED BY <2>1, <2>3 DEF WebInv, CacheBounded, Stored
<1>6. ASSUME NEW t, NEW q, NEW n, NEW content, SearchCached(t, q, content) \/ SearchAsks(t, q, n, content) PROVE WebInv'
  <2>1. CASE \E m, x : web' = [web EXCEPT !.made = m, !.task[t] = x]  BY <1>1, <2>1 DEF WebInv
  <2>2. CASE \E m, x, y : web' = [web EXCEPT !.made = m, !.quota = y, !.task[t] = x]  BY <1>1, <2>2 DEF WebInv
  <2> QED BY <1>6, <2>1, <2>2, Zenon DEF SearchCached, SearchAsks
<1>7. ASSUME NEW t, NEW i, ProviderFails(t) \/ FetchTimeout(t) \/ PageFails(t, i) PROVE WebInv'
  <2>1. CASE \E x : web' = [web EXCEPT !.task[t] = x]  BY <1>1, <2>1 DEF WebInv
  <2>2. CASE \E x : web' = [web EXCEPT !.task[t].provider = x]  BY <1>1, <2>2 DEF WebInv
  <2> QED BY <1>7, <2>1, <2>2, Zenon DEF ProviderFails, FetchTimeout, PageFails
<1>8. ASSUME NEW t, ProviderAnswers(t) PROVE WebInv'
  <2>1. PICK results, c, x :
           /\ c \in Inserted(web.found, MaxFound, web.task[t].query, results)
           /\ web' = [web EXCEPT !.found = c, !.task[t] = x]
    <3> DEFINE In(results, c) == c \in Inserted(web.found, MaxFound, web.task[t].query, results)
               To(c, x) == web' = [web EXCEPT !.found = c, !.task[t] = x]
    <3>1. \E results, c : In(results, c) /\ To(c, Found(web.task[t].content, results, 0))
      BY <1>8, Zenon DEF ProviderAnswers
    <3>2. \A c, x : To(c, x) <=> web' = [web EXCEPT !.found = c, !.task[t] = x]  OBVIOUS
    <3>3. \A results, c : In(results, c) <=> c \in Inserted(web.found, MaxFound, web.task[t].query, results)  OBVIOUS
    <3> HIDE DEF In, To
    <3> QED BY <3>1, <3>2, <3>3, Zenon
  <2>2. CacheBounded(c, MaxFound)  BY <1>0, <2>1, InsertedBounded DEF WebInv
  <2>3. DOMAIN c = SearchQueries  BY <2>1 DEF Inserted, Evicted, WebInv
  <2> QED BY <2>1, <2>2, <2>3 DEF WebInv, CacheBounded, Stored
<1>9. ASSUME NEW t, NEW i, PageFetched(t, i) PROVE WebInv'
  <2>1. PICK u, c, x :
           /\ c \in Inserted(web.pages, MaxPageCache, NormalizeUrl(u), u)
           /\ web' = [web EXCEPT !.pages = c, !.task[t] = x]
    BY <1>9, Zenon DEF PageFetched
  <2>2. CacheBounded(c, MaxPageCache)  BY <1>0, <2>1, InsertedBounded DEF WebInv
  <2> QED BY <2>1, <2>2 DEF WebInv, CacheBounded, Stored
<1> HIDE DEF WebInv
<1> QED BY <1>2, <1>3, <1>4, <1>5, <1>6, <1>7, <1>8, <1>9, Zenon DEF SearchNext

-----------------------------------------------------------------------------
(* All of them, under the steps of the component in focus.                 *)

\* The invariants together.
IndexInv ==
    /\ RatingInv /\ DashInv /\ DestroyedInv /\ RegistryInv
    /\ ServedInv /\ CopiesInv /\ AffinityInv /\ CircuitInv /\ MgrInv

\* A step of the whole is a step of a component, or leaves it as it was.
LEMMA ComponentSteps ==
    ASSUME [SumNext]_sumVars
    PROVE  /\ [QaNext]_qaVars /\ [MonNext]_monVars /\ [CtxNext]_ctxVars /\ [EngNext]_engVars
           /\ [TrNext]_trVars /\ [StoNext]_stoVars /\ [PerfNext]_perfVars /\ [SvcNext]_svcVars /\ [HdNext]_hdVars
<1>1. [QaNext]_qaVars  BY Zenon DEF SumNext, sumVars
<1>2. [MonNext]_monVars  BY Zenon DEF SumNext, sumVars
<1>3. [CtxNext]_ctxVars  BY Zenon DEF SumNext, sumVars
<1>4. [EngNext]_engVars  BY Zenon DEF SumNext, sumVars
<1>6. [TrNext]_trVars  BY Zenon DEF SumNext, sumVars
<1>7. [StoNext]_stoVars  BY Zenon DEF SumNext, sumVars
<1>8. [PerfNext]_perfVars  BY Zenon DEF SumNext, sumVars
<1>9. [SvcNext]_svcVars  BY Zenon DEF SumNext, sumVars
<1>10. [HdNext]_hdVars  BY Zenon DEF SumNext, sumVars
<1> QED BY <1>1, <1>2, <1>3, <1>4, <1>6, <1>7, <1>8, <1>9, <1>10

\* Every step keeps the invariants.
LEMMA IndexInvNext == IndexInv /\ [SumNext]_sumVars => IndexInv'
<1> SUFFICES ASSUME IndexInv, [SumNext]_sumVars PROVE IndexInv'  OBVIOUS
<1>1. RatingInv'
  <2>1. CASE RatingsNext  BY <2>1, RatingInvNext DEF IndexInv
  <2>2. CASE UNCHANGED ratings  BY <2>2 DEF IndexInv, RatingInv, ListedRatingIsStored
  <2> QED BY <2>1, <2>2, ComponentSteps DEF QaNext, qaVars
<1>2. DashInv'
  <2>1. CASE DashNext  BY <2>1, DashInvNext DEF IndexInv
  <2>2. CASE UNCHANGED dash  BY <2>2 DEF IndexInv, DashInv, DashboardsCleaned
  <2> QED BY <2>1, <2>2, ComponentSteps DEF MonNext, monVars
<1>3. AffinityInv'
  <2>1. CASE BalanceNext  BY <2>1, AffinityInvNext DEF IndexInv
  <2>2. CASE UNCHANGED balancer  BY <2>2 DEF IndexInv, AffinityInv, AffinityIsKnown, Known
  <2> QED BY <2>1, <2>2, ComponentSteps DEF PerfNext, perfVars
<1>4. DestroyedInv' /\ RegistryInv' /\ ServedInv' /\ CopiesInv' /\ CircuitInv' /\ MgrInv'
  BY ComponentSteps, DestroyedInvNext, RegistryInvNext, ServedInvNext, CopiesInvNext,
     CircuitInvNext, MgrInvNext DEF IndexInv
<1> QED BY <1>1, <1>2, <1>3, <1>4 DEF IndexInv

\* They hold at first.
LEMMA IndexInvInit == SumInit => IndexInv
<1> SUFFICES ASSUME SumInit PROVE IndexInv  OBVIOUS
<1>1. /\ QaInit /\ MonInit /\ CtxInit /\ EngInit
      /\ TrInit /\ StoInit /\ PerfInit /\ SvcInit /\ HdInit
  BY DEF SumInit
<1>2. RatingInv  BY <1>1, RatingInvInit DEF QaInit
<1>3. DashInv  BY <1>1, DashInvInit DEF MonInit
<1>4. AffinityInv  BY <1>1, AffinityInvInit DEF PerfInit
<1> QED BY <1>1, <1>2, <1>3, <1>4, DestroyedInvInit, RegistryInvInit, ServedInvInit, CopiesInvInit,
           CircuitInvInit, MgrInvInit DEF IndexInv

\* The tables of a component agree whenever a reader can look, for any tasks, keys, nodes,
\* sessions and bounds: listed ratings and registered models are stored, a destroyed or
\* removed session is gone, but for a file whose deletion failed, connections are
\* served, an answered put can be read, an open circuit has its timer (qa/ratings.rs,
\* inference/models.rs, api/websocket/, storage/, performance/load_balancing.rs).
THEOREM IndexesStayInAgreement == SumSpec => []IndexesAgree
<1>1. IndexInv => IndexesAgree  BY CopiesAreRead, MgrInvCounts
     DEF IndexInv, IndexesAgree, RatingInv, DashInv, DestroyedInv, RegistryInv, ServedInv, AffinityInv, CircuitInv
<1> QED BY <1>1, IndexInvInit, IndexInvNext, PTL DEF SumSpec

-----------------------------------------------------------------------------
(* The limits                                                              *)

\* The invariants of the components.
LimitsInv ==
    /\ PoolInv /\ ChainInv /\ RateInv /\ VectorInv /\ QuotaInv /\ IndexCacheInv /\ McInv
    /\ ProofsInv /\ EnginesInv /\ MemoryInv /\ WebInv

\* A step of the whole is a step of a component, or leaves it as it was.
LEMMA StepsOfParts ==
    ASSUME [SumNext]_sumVars
    PROVE  /\ [PoolNext]_poolVars /\ [ChainPoolNext]_chainVars /\ [RateNext]_rateVars /\ [VlNext]_vlVars
           /\ [StoNext]_stoVars /\ [VecNext]_vecVars /\ [McNext]_mcVars /\ [SvcNext]_svcVars
           /\ [TrNext]_trVars /\ [SearchNext]_web
<1>1. [PoolNext]_poolVars  BY Zenon DEF SumNext, sumVars
<1>2. [ChainPoolNext]_chainVars  BY Zenon DEF SumNext, sumVars
<1>3. [RateNext]_rateVars  BY Zenon DEF SumNext, sumVars
<1>4. [VlNext]_vlVars  BY Zenon DEF SumNext, sumVars
<1>5. [StoNext]_stoVars  BY Zenon DEF SumNext, sumVars
<1>6. [VecNext]_vecVars  BY Zenon DEF SumNext, sumVars
<1>7. [McNext]_mcVars  BY Zenon DEF SumNext, sumVars
<1>8. [SvcNext]_svcVars  BY Zenon DEF SumNext, sumVars
<1>10. [TrNext]_trVars  BY Zenon DEF SumNext, sumVars
<1>11. [SearchNext]_web  BY Zenon DEF SumNext, sumVars
<1> QED BY <1>1, <1>2, <1>3, <1>4, <1>5, <1>6, <1>7, <1>8, <1>10, <1>11

\* They hold at first.
LEMMA LimitsInvInit == SumInit => LimitsInv
<1> SUFFICES ASSUME SumInit PROVE LimitsInv  OBVIOUS
<1>1. /\ PoolInit /\ ChainInit /\ RateInit /\ VlInit /\ StoInit /\ VecInit /\ McInit
      /\ SvcInit /\ TrInit /\ SearchInit
  BY DEF SumInit
<1> QED BY <1>1, PoolInvInit, ChainInvInit, RateInvInit, VectorInvInit, QuotaInvInit, IndexCacheInvInit, McInvInit,
           ProofsInvInit, EnginesInvInit, MemoryInvInit, WebInvInit
           DEF LimitsInv

\* Every step keeps them.
LEMMA LimitsInvNext == LimitsInv /\ [SumNext]_sumVars => LimitsInv'
  BY StepsOfParts, PoolInvNext, ChainInvNext, RateInvNext, VectorInvNext, QuotaInvNext, IndexCacheInvNext, McInvNext,
     ProofsInvNext, EnginesInvNext, MemoryInvNext, WebInvNext DEF LimitsInv

\* The limits of the node hold in every state, for any tasks, keys and bounds: pools and quotas
\* are exceeded by one request per other task at most, connections are lent once, requests
\* stay within their rates and caches within their sizes.
THEOREM LimitsAreKept == SumSpec => []LimitsHold
<1>1. LimitsInv => LimitsHold
  BY PoolInvSays, ChainInvSays, RateInvSays, VectorInvSays, QuotaInvSays, IndexCacheInvSays, McInvSays, ProofsInvSays,
     EnginesInvSays, MemoryInvSays, WebInvSays DEF LimitsInv, LimitsHold
<1> QED BY <1>1, LimitsInvInit, LimitsInvNext, PTL DEF SumSpec

=============================================================================
