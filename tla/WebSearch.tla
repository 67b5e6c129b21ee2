----------------------------- MODULE WebSearch -----------------------------
(***************************************************************************)
(* Web search (search/service.rs): the providers tried in the order of     *)
(* their priority, the cache of results, the rate limit, and the pages     *)
(* fetched in parallel for the first results, with a cache of their own.   *)
(* Time is counted in ticks.                                               *)
(***************************************************************************)
EXTENDS Integers, Sequences, FiniteSets, FiniteSetsExt

CONSTANTS SearchTasks,   \* requests that search
          SearchQueries, \* queries, up to case and surrounding blanks
          Sites,         \* pages, up to the case and the trailing slash of their URL
          UnsafeSites,   \* local hosts, private addresses, other schemes
          BinarySites,   \* URLs with the extension of a binary file
          SearchTtl,     \* time to live of both caches
          MaxFound,      \* max_entries of the cache of results
          MaxPages,      \* max_pages
          MaxPageCache,  \* max_cache_entries
          SearchQuota,   \* searches a window of the rate limit allows
          Hits,          \* what providers may answer: sequences of URLs
          MaxSearches,   \* bound on the searches
          MaxSearchNow   \* bound on time

ASSUME SearchAssumption ==
    /\ UnsafeSites \subseteq Sites /\ BinarySites \subseteq Sites
    /\ {SearchTtl, MaxSearches, MaxSearchNow} \subseteq Nat
    /\ {MaxFound, MaxPages, MaxPageCache, SearchQuota} \subseteq Nat \ {0}
    /\ \A h \in Hits : h \in Seq(Sites \X {"plain", "slash"})

VARIABLE web  \* configuration, clock, rate limit, both caches and the requests

\* A URL is a page and its spelling, "plain" or "slash": both have one key in the cache of pages (normalize_url).
NormalizeUrl(u) == u[1]
IsSafeUrl(u) == u[1] \notin UnsafeSites
IsBinaryUrl(u) == u[1] \in BinarySites

Order == <<"brave", "bing", "duckduckgo">>
NoPageEntry == [at |-> -1, value |-> <<>>]
SearchIdle == [pc |-> "idle", query |-> "none", wanted |-> 0, content |-> FALSE, provider |-> 0,
               results |-> <<>>, pages |-> <<>>, age |-> 0]

\* SearchService::new: Brave and Bing need a key, DuckDuckGo does not.
SearchInit ==
    \E keys \in SUBSET {"brave", "bing"}, fetching \in BOOLEAN :
        web = [providers |-> SelectSeq(Order, LAMBDA p : p \in keys \cup {"duckduckgo"}),
                  fetching |-> fetching, now |-> 0, quota |-> SearchQuota, made |-> 0,
                  found |-> [q \in SearchQueries |-> NoPageEntry],
                  pages |-> [s \in Sites |-> NoPageEntry],
                  task |-> [t \in SearchTasks |-> SearchIdle]]

SearchTick ==
    /\ web.now < MaxSearchNow
    /\ web' = [web EXCEPT !.now = @ + 1]

\* External: governor gives the quota of a window back.
QuotaReturns ==
    /\ web.quota < SearchQuota
    /\ web' = [web EXCEPT !.quota = SearchQuota]

Stored(cache) == {k \in DOMAIN cache : cache[k].at >= 0}
FreshIn(cache, k) == cache[k].at >= 0 /\ web.now - cache[k].at <= SearchTtl

\* evict_oldest: one entry of the earliest time; entries of one tick are told apart
\* by their instants, so any of them may be the oldest.
Oldest(cache) == {k \in Stored(cache) : \A j \in Stored(cache) : cache[k].at <= cache[j].at}

\* Mutant: the oldest entry goes only when the cache has outgrown its limit.
Evicted_Late(cache, limit) ==
    IF Cardinality(Stored(cache)) > limit THEN {[cache EXCEPT ![k] = NoPageEntry] : k \in Oldest(cache)} ELSE {cache}

\* A full cache loses its oldest entry, also when the new one replaces another.
Evicted(cache, limit) ==
    IF Cardinality(Stored(cache)) >= limit THEN {[cache EXCEPT ![k] = NoPageEntry] : k \in Oldest(cache)} ELSE {cache}

Inserted(cache, limit, k, v) ==
    {[c EXCEPT ![k] = [at |-> web.now, value |-> v]] : c \in Evicted(cache, limit)}

\* The state of the fetch of one URL after its first poll: refused, found in the cache
\* of pages, or waiting for the server.
FetchBegins(u) ==
    IF ~IsSafeUrl(u) \/ IsBinaryUrl(u) THEN <<"error">>
    ELSE IF FreshIn(web.pages, NormalizeUrl(u))
         THEN <<"page", web.pages[NormalizeUrl(u)].value, web.now - web.pages[NormalizeUrl(u)].at>>
         ELSE <<"wait", u>>

\* fetch_multiple: the first max_pages URLs.
FetchMultiple(urls) == [i \in 1 .. Min({Len(urls), MaxPages}) |-> FetchBegins(urls[i])]

\* Results and pages are zipped when no page is waited for: a result beyond the pages
\* is left out.
WaitingIn(pages) == {i \in DOMAIN pages : pages[i][1] = "wait"}
CombineContent(task) ==
    IF WaitingIn(task.pages) # {} THEN task
    ELSE [SearchIdle EXCEPT !.pc = "done", !.age = task.age, !.pages = task.pages,
                            !.results = SubSeq(task.results, 1, Len(task.pages))]

\* What follows a search, in the same step: the pages are asked for, if the fetcher is
\* on and the caller wants them.
Found(content, results, age) ==
    IF content /\ web.fetching
    THEN CombineContent([SearchIdle EXCEPT !.pc = "fetch", !.results = results, !.age = age,
                                           !.pages = FetchMultiple(results)])
    ELSE [SearchIdle EXCEPT !.pc = "done", !.results = results, !.age = age]

SearchBegins(t) == web.task[t].pc \in {"idle", "done", "failed"} /\ web.made < MaxSearches

\* search, for search_handler (results only) and for prompts (search_with_content): a
\* hit of the cache does not look at the number of results asked for.
SearchCached(t, q, content) ==
    /\ SearchBegins(t) /\ FreshIn(web.found, q)
    /\ web' = [web EXCEPT !.made = @ + 1,
                     !.task[t] = Found(content, web.found[q].value, web.now - web.found[q].at)]

\* SearchRateLimiter::check, and the first provider.
SearchAsks(t, q, n, content) ==
    /\ SearchBegins(t) /\ ~FreshIn(web.found, q)
    /\ web' = IF web.quota = 0
                 THEN [web EXCEPT !.made = @ + 1, !.task[t] = [SearchIdle EXCEPT !.pc = "failed"]]
                 ELSE [web EXCEPT !.made = @ + 1, !.quota = @ - 1,
                          !.task[t] = [SearchIdle EXCEPT !.pc = "ask", !.query = q, !.wanted = n,
                                                         !.content = content, !.provider = 1]]

ProviderOf(t) == web.providers[web.task[t].provider]

\* The answers of the providers: the two with a key pass the number on to their API and
\* take what it returns, the parser of DuckDuckGo stops at the number itself.
BraveResults(t) == Hits
BingResults(t) == Hits
ParseDdgHtml(t) == {h \in Hits : Len(h) <= web.task[t].wanted}
ResultsOf(t) ==
    [brave |-> BraveResults(t), bing |-> BingResults(t), duckduckgo |-> ParseDdgHtml(t)][ProviderOf(t)]

\* A provider answers, if only with no result: the answer is cached and the search ends.
ProviderAnswers(t) ==
    /\ web.task[t].pc = "ask"
    /\ \E results \in ResultsOf(t) :
       \E c \in Inserted(web.found, MaxFound, web.task[t].query, results) :
          web' = [web EXCEPT !.found = c, !.task[t] = Found(web.task[t].content, results, 0)]

\* A timeout, a refused key or an error: the next provider, or none is left.
ProviderFails(t) ==
    /\ web.task[t].pc = "ask"
    /\ web' = IF web.task[t].provider = Len(web.providers)
                 THEN [web EXCEPT !.task[t] = [SearchIdle EXCEPT !.pc = "failed"]]
                 ELSE [web EXCEPT !.task[t].provider = @ + 1]

\* clear_cache and cleanup_expired
ClearSearchCache == web' = [web EXCEPT !.found = [q \in SearchQueries |-> NoPageEntry]]
CleanupSearchCache ==
    web' = [web EXCEPT !.found = [q \in SearchQueries |->
                  IF FreshIn(web.found, q) THEN web.found[q] ELSE NoPageEntry]]

Waiting(t) == WaitingIn(web.task[t].pages)
Fetched(t, i, page) == CombineContent([web.task[t] EXCEPT !.pages[i] = page])

\* Mutant: the pages are put in the order in which they come.
PagePlace_ByArrival(t, i) == Min(Waiting(t))
\* join_all keeps the order of the URLs.
PagePlace(t, i) == i

\* fetch_content: a page that has text is cached; an error, a status, a binary content
\* type or too little text is the result of this URL only.
PageFetched(t, i) ==
    /\ web.task[t].pc = "fetch" /\ i \in Waiting(t)
    /\ LET u == web.task[t].pages[i][2]
       IN \E c \in Inserted(web.pages, MaxPageCache, NormalizeUrl(u), u) :
             web' = [web EXCEPT !.pages = c, !.task[t] = Fetched(t, PagePlace(t, i), <<"page", u, 0>>)]
PageFails(t, i) ==
    /\ web.task[t].pc = "fetch" /\ i \in Waiting(t)
    /\ web' = [web EXCEPT !.task[t] = Fetched(t, i, <<"error">>)]

\* The total timeout makes errors of the pages that were already there, too.
FetchTimeout(t) ==
    /\ web.task[t].pc = "fetch"
    /\ web' = [web EXCEPT !.task[t] = CombineContent(
                 [web.task[t] EXCEPT !.pages = [i \in DOMAIN web.task[t].pages |-> <<"error">>]])]

SearchNext ==
    \/ SearchTick \/ QuotaReturns \/ ClearSearchCache \/ CleanupSearchCache
    \/ \E t \in SearchTasks :
          \/ ProviderAnswers(t) \/ ProviderFails(t) \/ FetchTimeout(t)
          \/ \E i \in 1 .. MaxPages : PageFetched(t, i) \/ PageFails(t, i)
          \/ \E q \in SearchQueries, content \in BOOLEAN :
                SearchCached(t, q, content) \/ \E n \in {1, MaxPages} : SearchAsks(t, q, n, content)

SearchSpec == SearchInit /\ [][SearchNext]_web

-----------------------------------------------------------------------------

\* A page given with a result is a page of that result's URL, in whatever order pages
\* arrive, are cached by another request or run into the timeout, and never one the
\* fetcher must not ask for; results and pages are of their time to live.
PagesMatchResults ==
    \A t \in SearchTasks : web.task[t].pc = "done" =>
        /\ web.task[t].age <= SearchTtl
        /\ \A i \in DOMAIN web.task[t].pages : web.task[t].pages[i][1] = "page" =>
              /\ NormalizeUrl(web.task[t].pages[i][2]) = NormalizeUrl(web.task[t].results[i])
              /\ IsSafeUrl(web.task[t].pages[i][2])
              /\ web.task[t].pages[i][3] <= SearchTtl

\* Neither cache outgrows its limit.
SearchCachesBounded ==
    Cardinality(Stored(web.found)) <= MaxFound /\ Cardinality(Stored(web.pages)) <= MaxPageCache
=============================================================================
