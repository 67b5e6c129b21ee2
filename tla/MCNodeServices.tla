------------------------------- MODULE MCNodeServices -------------------------------
(***************************************************************************)
(* The components that serve requests, each on a small instance of its     *)
(* own.  They share no variable; a behaviour is one of the component in    *)
(* `focus', so the states of the run are the sum of theirs, not the        *)
(* product.                                                                *)
(***************************************************************************)
EXTENDS WebSocketSession, VectorLoading, ConnectionLimits, NodeServer, WsContext,
        WsServices, WsTransport, InferenceEngine, VectorStores, Storage,
        Performance, ModelCache, Monitoring, QualityAssurance, WebSearch,
        ImageGeneration, SessionHandlers, ModelEndpoints, Vision

VARIABLE focus   \* the component a behaviour is about

sumVars == <<focus, wsVars, vlVars, poolVars, chainVars, rateVars, serverVars,
             ctxVars, svcVars, trVars, engVars, vecVars, stoVars,
             perfVars, mcVars, monVars, qaVars, web, img,
             hdVars, meVars, vis>>

\* A component that is not in focus stays in one initial state of its own.
SumInit ==
    /\ focus \in {"stream", "vectors", "pool", "chains", "rates", "server",
                 "context", "services", "transport", "engine", "stores", "storage",
                 "performance", "models", "monitoring", "quality", "search", "images",
                 "handlers", "endpoints", "vision"}
    /\ WsInit
    /\ VlInit /\ (focus = "vectors" \/ (loader.limit = "none"))
    /\ PoolInit
    /\ ChainInit
    /\ RateInit /\ (focus = "rates" \/ (which = "server"))
    /\ ServerInit
    /\ CtxInit /\ (focus = "context" \/ (ctxPart = "store"))
    /\ SvcInit /\ (focus = "services" \/ (svcPart = "tokens"))
    /\ TrInit /\ (focus = "transport" \/ (trPart = "frame"))
    /\ EngInit /\ (focus = "engine" \/ (engPart = "engine" /\ manager.files = {}))
    /\ VecInit /\ (focus = "stores" \/ (vecPart = "index" /\ vecDb.backend = "mock"))
    /\ StoInit /\ (focus = "storage" \/ (stoPart = "s5" /\ "k1" \in rcache.stored))
    /\ PerfInit /\ (focus = "performance" \/ (perfPart = "gpu"))
    /\ McInit
    /\ MonInit /\ (focus = "monitoring" \/ (monPart = "dash"))
    /\ QaInit /\ (focus = "quality" \/ (qaPart = "response"))
    /\ SearchInit /\ (focus = "search" \/ (web.providers = <<"duckduckgo">> /\ web.fetching))
    /\ ImgInit
    /\ HdInit /\ (focus = "handlers" \/ (hdPart = "manager"))
    /\ MeInit /\ (focus = "endpoints" \/ (mePart = "embed" /\ embedder.config = <<"m1", "m2">>))
    /\ VisInit /\ (focus = "vision" \/ (vis.part = "batch" /\ vis.in = <<<<2>>>>))

\* The steps of the component in focus.
SumNext ==
    \/ /\ focus = "stream" /\ WsNext
       /\ UNCHANGED <<focus, vlVars, poolVars, chainVars, rateVars, serverVars, ctxVars, svcVars, trVars,
                      engVars, vecVars, stoVars, perfVars, mcVars, monVars, qaVars, web,
                      img, hdVars, meVars, vis>>
    \/ /\ focus = "vectors" /\ VlNext
       /\ UNCHANGED <<focus, wsVars, poolVars, chainVars, rateVars, serverVars, ctxVars, svcVars, trVars,
                      engVars, vecVars, stoVars, perfVars, mcVars, monVars, qaVars, web,
                      img, hdVars, meVars, vis>>
    \/ /\ focus = "pool" /\ PoolNext
       /\ UNCHANGED <<focus, wsVars, vlVars, chainVars, rateVars, serverVars, ctxVars, svcVars, trVars,
                      engVars, vecVars, stoVars, perfVars, mcVars, monVars, qaVars, web,
                      img, hdVars, meVars, vis>>
    \/ /\ focus = "chains" /\ ChainPoolNext
       /\ UNCHANGED <<focus, wsVars, vlVars, poolVars, rateVars, serverVars, ctxVars, svcVars, trVars,
                      engVars, vecVars, stoVars, perfVars, mcVars, monVars, qaVars, web,
                      img, hdVars, meVars, vis>>
    \/ /\ focus = "rates" /\ RateNext
       /\ UNCHANGED <<focus, wsVars, vlVars, poolVars, chainVars, serverVars, ctxVars, svcVars, trVars,
                      engVars, vecVars, stoVars, perfVars, mcVars, monVars, qaVars, web,
                      img, hdVars, meVars, vis>>
    \/ /\ focus = "server" /\ ServerNext
       /\ UNCHANGED <<focus, wsVars, vlVars, poolVars, chainVars, rateVars, ctxVars, svcVars, trVars,
                      engVars, vecVars, stoVars, perfVars, mcVars, monVars, qaVars, web,
                      img, hdVars, meVars, vis>>
    \/ /\ focus = "context" /\ CtxNext
       /\ UNCHANGED <<focus, wsVars, vlVars, poolVars, chainVars, rateVars, serverVars, svcVars, trVars,
                      engVars, vecVars, stoVars, perfVars, mcVars, monVars, qaVars, web,
                      img, hdVars, meVars, vis>>
    \/ /\ focus = "services" /\ SvcNext
       /\ UNCHANGED <<focus, wsVars, vlVars, poolVars, chainVars, rateVars, serverVars, ctxVars, trVars,
                      engVars, vecVars, stoVars, perfVars, mcVars, monVars, qaVars, web,
                      img, hdVars, meVars, vis>>
    \/ /\ focus = "transport" /\ TrNext
       /\ UNCHANGED <<focus, wsVars, vlVars, poolVars, chainVars, rateVars, serverVars, ctxVars, svcVars,
                      engVars, vecVars, stoVars, perfVars, mcVars, monVars, qaVars, web,
                      img, hdVars, meVars, vis>>
    \/ /\ focus = "engine" /\ EngNext
       /\ UNCHANGED <<focus, wsVars, vlVars, poolVars, chainVars, rateVars, serverVars, ctxVars, svcVars,
                      trVars, vecVars, stoVars, perfVars, mcVars, monVars, qaVars, web,
                      img, hdVars, meVars, vis>>
    \/ /\ focus = "stores" /\ VecNext
       /\ UNCHANGED <<focus, wsVars, vlVars, poolVars, chainVars, rateVars, serverVars, ctxVars, svcVars,
                      trVars, engVars, stoVars, perfVars, mcVars, monVars, qaVars, web,
                      img, hdVars, meVars, vis>>
    \/ /\ focus = "storage" /\ StoNext
       /\ UNCHANGED <<focus, wsVars, vlVars, poolVars, chainVars, rateVars, serverVars, ctxVars, svcVars,
                      trVars, engVars, vecVars, perfVars, mcVars, monVars, qaVars, web,
                      img, hdVars, meVars, vis>>
    \/ /\ focus = "performance" /\ PerfNext
       /\ UNCHANGED <<focus, wsVars, vlVars, poolVars, chainVars, rateVars, serverVars, ctxVars, svcVars,
                      trVars, engVars, vecVars, stoVars, mcVars, monVars, qaVars, web,
                      img, hdVars, meVars, vis>>
    \/ /\ focus = "models" /\ McNext
       /\ UNCHANGED <<focus, wsVars, vlVars, poolVars, chainVars, rateVars, serverVars, ctxVars, svcVars,
                      trVars, engVars, vecVars, stoVars, perfVars, monVars, qaVars, web,
                      img, hdVars, meVars, vis>>
    \/ /\ focus = "monitoring" /\ MonNext
       /\ UNCHANGED <<focus, wsVars, vlVars, poolVars, chainVars, rateVars, serverVars, ctxVars, svcVars,
                      trVars, engVars, vecVars, stoVars, perfVars, mcVars, qaVars, web,
                      img, hdVars, meVars, vis>>
    \/ /\ focus = "quality" /\ QaNext
       /\ UNCHANGED <<focus, wsVars, vlVars, poolVars, chainVars, rateVars, serverVars, ctxVars, svcVars,
                      trVars, engVars, vecVars, stoVars, perfVars, mcVars, monVars, web,
                      img, hdVars, meVars, vis>>
    \/ /\ focus = "search" /\ SearchNext
       /\ UNCHANGED <<focus, wsVars, vlVars, poolVars, chainVars, rateVars, serverVars, ctxVars, svcVars,
                      trVars, engVars, vecVars, stoVars, perfVars, mcVars, monVars, qaVars,
                      img, hdVars, meVars, vis>>
    \/ /\ focus = "images" /\ ImgNext
       /\ UNCHANGED <<focus, wsVars, vlVars, poolVars, chainVars, rateVars, serverVars, ctxVars, svcVars,
                      trVars, engVars, vecVars, stoVars, perfVars, mcVars, monVars, qaVars,
                      web, hdVars, meVars, vis>>
    \/ /\ focus = "handlers" /\ HdNext
       /\ UNCHANGED <<focus, wsVars, vlVars, poolVars, chainVars, rateVars, serverVars, ctxVars, svcVars,
                      trVars, engVars, vecVars, stoVars, perfVars, mcVars, monVars, qaVars,
                      web, img, meVars, vis>>
    \/ /\ focus = "endpoints" /\ MeNext
       /\ UNCHANGED <<focus, wsVars, vlVars, poolVars, chainVars, rateVars, serverVars, ctxVars, svcVars,
                      trVars, engVars, vecVars, stoVars, perfVars, mcVars, monVars, qaVars,
                      web, img, hdVars, vis>>
    \/ /\ focus = "vision" /\ VisNext
       /\ UNCHANGED <<focus, wsVars, vlVars, poolVars, chainVars, rateVars, serverVars, ctxVars, svcVars,
                      trVars, engVars, vecVars, stoVars, perfVars, mcVars, monVars, qaVars,
                      web, img, hdVars, meVars>>

-----------------------------------------------------------------------------
SumSpec == SumInit /\ [][SumNext]_sumVars

\* The first model is twice the size of the others.
McSizes == [m \in McModels |-> IF m = "m1" THEN 2 ELSE 1]

\* What providers answer: two pages, pages of which one is not allowed, or no text.
SomeHits ==
    {<<<<"a", "plain">>, <<"b", "plain">>>>, <<<<"b", "slash">>, <<"bad", "plain">>>>, <<<<"bin", "plain">>>>}

\* 1024x768 with the default of 4 steps: 0.75 * 0.2 * 1000.0 is above 150.
SomeRounded == {<<12, 4>>}

\* The context of a client has a system message.
SomeContexts == {<<"system">>}

\* Two embedding models, or the same one twice.
SomeConfigs == {<<"m1", "m2">>, <<"m1", "m1">>}

\* No files of vision models, those of the OCR, and those of both with the older names.
SomeFiles ==
    LET paddle == {"det_model", "rec_model"}
    IN {{}, paddle \cup {"en_dict"},
        paddle \cup {"ppocr_keys", "tokenizer", "embed_tokens", "encoder", "vision_encoder", "decoder"}}

\* The recogniser's dictionary, words for the segmentation, texts for a batch.
SomeDictionary == <<"a", "x">>
SomeWords == {<<"a">>, <<"x", "a">>, <<"a", "x", "x">>}
SomeTexts == {<<2>>, <<2, 3>>, <<4, 2, 3>>}

-----------------------------------------------------------------------------

\* The types of the engine, the WebSocket transport, the stores and the vector stores:
\* no counter of theirs leaves its range (inference/, api/websocket/, storage/, vector/).
ServiceTypes ==
    /\ focus = "engine" => EngTypeOK
    /\ focus = "transport" => TrTypeOK
    /\ focus = "storage" => StoTypeOK
    /\ focus = "stores" => VecTypeOK

\* What is checked before an await and used after it bounds the pools, caches, stores
\* and rates of the node, by the limit or by the limit and the tasks that can pass the
\* check together (pool.rs, chain_connection_pool.rs, rate limiters, search/cache.rs,
\* session_vector_store.rs, s5_client.rs, semantic and embedding caches, models/
\* caching.rs, proof_manager.rs, inference.rs).
LimitsHold ==
    /\ focus = "pool" => PoolOvershoot
    /\ focus = "chains" => LentToOne
    /\ focus = "rates" => GrantedWithinRate
    /\ focus = "vectors" => VectorCapacity
    /\ focus = "storage" => QuotaOvershoot
    /\ focus = "stores" => IndexWithinMemory
    /\ focus = "models" => ModelMemoryBounded
    /\ focus = "services" => ProofCacheBounded
    /\ focus = "transport" => EnginesBounded /\ SessionWithinMemory
    /\ focus = "search" => SearchCachesBounded

\* The totals and orders that evictions, allocations and reports go by cover what is there, however
\* insertions, replacements, evictions, expiries and clears follow each other.
TotalsCover ==
    /\ focus = "monitoring" => AlertsAccounted
    /\ focus = "quality" => VerificationsAccounted
    /\ focus = "services" => ActiveIsCounted
    /\ focus = "engine" => EngineCountsResults /\ InfMemoryCovers
    /\ focus = "performance" => GpuMemoryConserved /\ CacheMemoryCovers
    /\ focus = "context" => SessionMemoryCovers
    /\ focus = "storage" => PromptCacheCovers /\ ByJobCounts
    /\ focus = "stores" => VectorTotalsCover /\ StoredCanBeEvicted
    /\ focus = "models" => ModelMemoryCovers
    /\ focus = "images" => ImagesAreBilled

\* Two tables of a component that are written one after the other, or under two locks,
\* agree whenever a reader can look: what one lists the other holds, an
\* open circuit has a timer that will close it, a session's file goes with it unless its
\* deletion failed (session_store.rs:226 ignores that).
IndexesAgree ==
    /\ focus = "quality" => ListedRatingIsStored
    /\ focus = "monitoring" => DashboardsCleaned
    /\ focus = "context" => DestroyedIsGone
    /\ focus = "engine" => RegistryListsFiles
    /\ focus = "transport" => ConnectionsAreServed
    /\ focus = "storage" => AnsweredCanBeRead
    /\ focus = "performance" => AffinityIsKnown
    /\ focus = "services" => OpenCircuitHasTimer
    /\ focus = "handlers" => RemovedStaysRemoved

\* What a component answers with is of its time to live, was checked, is the best of
\* what was asked for, fits the context and the cache of its conversation
\* (context_manager.rs, memory_cache.rs), is drawn within the rate of its session
\* (image_generation.rs), takes an index of its conversation once (prompt.rs), and is
\* recorded as it was given, also where it is computed from what a network gives
\* (vision/, embeddings/) or comes from the next model to try.
AnswersAreSound ==
    /\ focus = "services" => JobDetailsAreFresh
    /\ focus = "stores" => EmbeddingIsFresh /\ FilteredSearchIsBest
    /\ focus = "vectors" => LoadIsChecked
    /\ focus = "context" => ContextFits /\ CacheWithinLimit
    /\ focus = "transport" => NoPayloadPanics /\ FrameLengthKept /\ ReceivedIsRecorded /\ PromptIsAsked /\ WorkersInTurn
    /\ focus = "search" => PagesMatchResults
    /\ focus = "images" => OnlyAllowedIsDrawn /\ ImagesWithinRate
    /\ focus = "handlers" => ConversationOfJob /\ IndexUsedOnce
    /\ focus = "endpoints" => DefaultIsFirstConfigured /\ EveryTextEmbedded /\ FailsAfterAllTried
    /\ focus = "vision" =>
          /\ DetectionCovers /\ BoxesMapBack /\ CtcIsCollapse
          /\ SegmentationIsBest /\ CaptionHasNoLoop /\ BatchIsEach
=============================================================================
