-------------------------- MODULE ConnectionLimits --------------------------
(***************************************************************************)
(* What bounds the connections and the requests of clients: the pool of    *)
(* the API server, the pools of the chains, and the rate limiters.  The    *)
(* three share no state.                                                   *)
(***************************************************************************)
EXTENDS Integers, Sequences, FiniteSets, SequencesExt

-----------------------------------------------------------------------------
(***************************************************************************)
(* The connection pool of the API server (api/pool.rs): clients acquire and*)
(* release connections while the maintenance task runs.  Connections are   *)
(* numbered in the order they are made; ids are not unique.                *)
(***************************************************************************)

CONSTANTS Clients,         \* tasks that use a pool
          MinConnections,  \* PoolConfig.min_connections
          MaxConnections,  \* PoolConfig / ChainConnectionConfig.max_connections
          MaxUses          \* bound on the acquires of one client

ASSUME PoolAssumption ==
    /\ MinConnections \in Nat /\ MaxConnections \in Nat \ {0} /\ MaxUses \in Nat
    /\ MinConnections <= MaxConnections /\ IsFiniteSet(Clients) /\ Clients # {}

VARIABLES
    names,   \* connections: the id number of each connection ever made
    idle,    \* idle_connections, the stack of connection numbers
    active,  \* active_connections: id number -> connection number
    user,    \* user[c]: the locals of acquire in client c
    maint    \* where maintenance_loop is

poolVars == <<names, idle, active, user, maint>>

\* The write guard of idle_connections that maintenance_loop holds while stats
\* asks for a read guard of the same lock.
IdleLocked == maint = "stats"

PoolInit ==
    /\ names = [i \in 1 .. MinConnections |-> i - 1]
    /\ idle = [i \in 1 .. MinConnections |-> i]
    /\ active = [i \in {} |-> 0]
    /\ user = [c \in Clients |-> [pc |-> "out", total |-> 0, conn |-> 0, uses |-> 0]]
    /\ maint = "tick"

Insert(f, k, v) == [i \in DOMAIN f \cup {k} |-> IF i = k THEN v ELSE f[i]]

AcquireBegin(c) ==
    /\ user[c].pc = "out" /\ user[c].uses < MaxUses
    /\ user' = [user EXCEPT ![c].pc = "pop", ![c].uses = @ + 1]
    /\ UNCHANGED <<names, idle, active, maint>>

\* An idle connection is popped, and marked active before the guard is dropped.
AcquireIdle(c) ==
    /\ user[c].pc = "pop" /\ ~IdleLocked /\ idle # <<>>
    /\ LET k == idle[Len(idle)] IN
         /\ idle' = SubSeq(idle, 1, Len(idle) - 1)
         /\ active' = Insert(active, names[k], k)
         /\ user' = [user EXCEPT ![c].pc = "held", ![c].conn = k]
    /\ UNCHANGED <<names, maint>>

\* Mutant: the number is compared as an index.
AcquireCount_OffByOne(c) ==
    /\ user[c].pc = "pop" /\ ~IdleLocked /\ idle = <<>>
    /\ user' = [user EXCEPT ![c].total = Len(names),
                            ![c].pc = IF Len(names) <= MaxConnections THEN "make" ELSE "wait"]
    /\ UNCHANGED <<names, idle, active, maint>>

\* There is none: the number of connections is read under its own lock ...
AcquireCount(c) ==
    /\ user[c].pc = "pop" /\ ~IdleLocked /\ idle = <<>>
    /\ user' = [user EXCEPT ![c].total = Len(names),
                            ![c].pc = IF Len(names) < MaxConnections THEN "make" ELSE "wait"]
    /\ UNCHANGED <<names, idle, active, maint>>

\* ... and the connection named after it is made under two others.
AcquireCreate(c) ==
    /\ user[c].pc = "make"
    /\ names' = Append(names, user[c].total)
    /\ active' = Insert(active, user[c].total, Len(names) + 1)
    /\ user' = [user EXCEPT ![c].pc = "held", ![c].conn = Len(names) + 1]
    /\ UNCHANGED <<idle, maint>>

\* connection_timeout is over: an error; otherwise 10 ms later the loop repeats.
AcquireTimeout(c) ==
    /\ user[c].pc = "wait"
    /\ \E pc \in {"out", "pop"} : user' = [user EXCEPT ![c].pc = pc]
    /\ UNCHANGED <<names, idle, active, maint>>

\* release: remove from active by id, then push onto idle.
ReleaseActive(c) ==
    /\ user[c].pc = "held"
    /\ active' = [i \in DOMAIN active \ {names[user[c].conn]} |-> active[i]]
    /\ user' = [user EXCEPT ![c].pc = "push"]
    /\ UNCHANGED <<names, idle, maint>>

ReleaseIdle(c) ==
    /\ user[c].pc = "push" /\ ~IdleLocked
    /\ idle' = Append(idle, user[c].conn)
    /\ user' = [user EXCEPT ![c].pc = "out", ![c].conn = 0]
    /\ UNCHANGED <<names, active, maint>>

\* One tick of maintenance_loop: the write guard is taken and some idle
\* connections are too old.  stats then waits for a read guard of that lock for
\* ever, so the scaling below it is never reached.
Maintain ==
    /\ maint = "tick"
    /\ \E n \in 0 .. Len(names) :
         LET Young(k) == k > n IN idle' = SelectSeq(idle, Young)
    /\ maint' = "stats"
    /\ UNCHANGED <<names, active, user>>

UserStep(c) ==
    \/ AcquireBegin(c) \/ AcquireIdle(c) \/ AcquireCount(c) \/ AcquireCreate(c)
    \/ AcquireTimeout(c) \/ ReleaseActive(c) \/ ReleaseIdle(c)

PoolNext == Maintain \/ \E c \in Clients : UserStep(c)

PoolSpec == PoolInit /\ [][PoolNext]_poolVars

-----------------------------------------------------------------------------

\* The racing acquires of the other clients are all that can push the pool beyond
\* max_connections (acquire, 118-130: check and push under two locks): each connection
\* was made by a client that had counted fewer than that.
PoolOvershoot ==
    /\ Len(names) <= MaxConnections + Cardinality(Clients) - 1
    /\ \A i \in DOMAIN names : names[i] < MaxConnections

-----------------------------------------------------------------------------
(***************************************************************************)
(* The connection pool of one chain (ChainPool in                          *)
(* api/websocket/chain_connection_pool.rs), at the granularity of its      *)
(* locks: acquire_connection holds idle while it waits for active, and     *)
(* connections while it waits for active; release_connection holds active  *)
(* while it waits for either of the two; cleanup_expired holds idle while  *)
(* it waits for connections.  Ages are left open: any check may find the   *)
(* connections of an id older than five minutes.                           *)
(***************************************************************************)

CONSTANTS ChainTasks,   \* tasks that use the pool
          ConnIds,      \* connection ids they ask for
          MaxChainConns,\* ChainConnectionConfig.max_connections
          MaxChainUses  \* bound on the operations of one task

Free == "free"

ASSUME ChainPoolAssumption ==
    /\ MaxChainConns \in Nat \ {0} /\ MaxChainUses \in Nat /\ Free \notin ChainTasks

VARIABLES
    known,    \* ids in connections
    lent,     \* ids in active_connections
    spare,    \* idle_connections, a stack of ids
    twice,    \* ids that were asked for while a connection of that id was there
    lock,     \* lock[l]: the task that holds l, or Free
    task      \* task[t]: the program counter and locals of task t

chainVars == <<known, lent, spare, twice, lock, task>>

Locks == {"idle", "active", "connections"}

ChainInit ==
    /\ known = {} /\ lent = {} /\ spare = <<>> /\ twice = {}
    /\ lock = [l \in Locks |-> Free]
    /\ task = [t \in ChainTasks |-> [pc |-> "out", id |-> "", uses |-> 0]]

Available(l) == lock[l] = Free
Goto(t, pc) == task' = [task EXCEPT ![t].pc = pc]
Unlocked(ls) == [l \in Locks |-> IF l \in ls THEN Free ELSE lock[l]]

InUse(id) ==
    \/ id \in known \cup lent \/ \E i \in DOMAIN spare : spare[i] = id
    \/ \E t \in ChainTasks : task[t].pc # "out" /\ task[t].id = id

\* acquire_connection, with whatever id the caller gives: idle is locked first.
AcquireChainConn(t, id) ==
    /\ task[t].pc = "out" /\ task[t].uses < MaxChainUses /\ Available("idle")
    /\ lock' = [lock EXCEPT !["idle"] = t]
    /\ task' = [task EXCEPT ![t] = [pc |-> "popping", id |-> id, uses |-> @.uses + 1]]
    /\ twice' = IF InUse(id) THEN twice \cup {id} ELSE twice
    /\ UNCHANGED <<known, lent, spare>>

\* Mutant: the idle connection is cloned, not popped.
PopIdle_Cloned(t) ==
    /\ task[t].pc = "popping" /\ spare # <<>>
    /\ spare' = spare
    /\ task' = [task EXCEPT ![t].pc = "activate", ![t].id = spare[Len(spare)]]
    /\ UNCHANGED <<known, lent, twice, lock>>

\* An idle connection is popped; active is awaited with idle held.
PopIdle(t) ==
    /\ task[t].pc = "popping" /\ spare # <<>>
    /\ spare' = SubSeq(spare, 1, Len(spare) - 1)
    /\ task' = [task EXCEPT ![t].pc = "activate", ![t].id = spare[Len(spare)]]
    /\ UNCHANGED <<known, lent, twice, lock>>

ActivateIdle(t) ==
    /\ task[t].pc = "activate" /\ Available("active")
    /\ lent' = lent \cup {task[t].id}
    /\ lock' = Unlocked({"idle"})
    /\ Goto(t, "using")
    /\ UNCHANGED <<known, spare, twice>>

NoneIdle(t) ==
    /\ task[t].pc = "popping" /\ spare = <<>>
    /\ lock' = Unlocked({"idle"})
    /\ Goto(t, "counting")
    /\ UNCHANGED <<known, lent, spare, twice>>

\* The limit is checked under a guard of connections that is dropped again.
CheckLimit(t) ==
    /\ task[t].pc = "counting" /\ Available("connections")
    /\ Goto(t, IF Cardinality(known) >= MaxChainConns THEN "out" ELSE "insert")
    /\ UNCHANGED <<known, lent, spare, twice, lock>>

\* A new connection: connections is held until active has been updated.
InsertConnection(t) ==
    /\ task[t].pc = "insert" /\ Available("connections")
    /\ lock' = [lock EXCEPT !["connections"] = t]
    /\ known' = known \cup {task[t].id}
    /\ Goto(t, "record")
    /\ UNCHANGED <<lent, spare, twice>>

RecordActive(t) ==
    /\ task[t].pc = "record" /\ Available("active")
    /\ lent' = lent \cup {task[t].id}
    /\ lock' = Unlocked({"connections"})
    /\ Goto(t, "using")
    /\ UNCHANGED <<known, spare, twice>>

\* release_connection: the active guard is held to the end.
ReleaseChainConn(t) ==
    /\ task[t].pc = "using" /\ Available("active") /\ task[t].id \in lent
    /\ lock' = [lock EXCEPT !["active"] = t]
    /\ lent' = lent \ {task[t].id}
    /\ \E pc \in {"forget", "putback"} : Goto(t, pc)
    /\ UNCHANGED <<known, spare, twice>>

\* Another holder of the id has released it: an error, and nothing changes.
ReleaseUnknown(t) ==
    /\ task[t].pc = "using" /\ Available("active") /\ task[t].id \notin lent
    /\ Goto(t, "out")
    /\ UNCHANGED <<known, lent, spare, twice, lock>>

Forget(t) ==
    /\ task[t].pc = "forget" /\ Available("connections")
    /\ known' = known \ {task[t].id}
    /\ lock' = Unlocked({"active"})
    /\ Goto(t, "out")
    /\ UNCHANGED <<lent, spare, twice>>

PutBack(t) ==
    /\ task[t].pc = "putback" /\ Available("idle")
    /\ spare' = Append(spare, task[t].id)
    /\ lock' = Unlocked({"active"})
    /\ Goto(t, "out")
    /\ UNCHANGED <<known, lent, twice>>

\* cleanup_expired: idle, then connections with idle held.  A connection that is
\* in use is dropped from connections too.
CleanupIdleChains(t) ==
    /\ task[t].pc = "out" /\ task[t].uses < MaxChainUses /\ Available("idle")
    /\ lock' = [lock EXCEPT !["idle"] = t]
    /\ \E gone \in SUBSET ConnIds :
          spare' = FlattenSeq([i \in 1 .. Len(spare) |-> IF spare[i] \in gone THEN <<>> ELSE <<spare[i]>>])
    /\ task' = [task EXCEPT ![t].pc = "cleanup", ![t].uses = @ + 1]
    /\ UNCHANGED <<known, lent, twice>>

CleanupConnections(t) ==
    /\ task[t].pc = "cleanup" /\ Available("connections")
    /\ \E gone \in SUBSET known : known' = known \ gone
    /\ lock' = Unlocked({"idle"})
    /\ Goto(t, "out")
    /\ UNCHANGED <<lent, spare, twice>>

ChainTaskStep(t) ==
    \/ \E id \in ConnIds : AcquireChainConn(t, id)
    \/ PopIdle(t) \/ ActivateIdle(t) \/ NoneIdle(t) \/ CheckLimit(t)
    \/ InsertConnection(t) \/ RecordActive(t)
    \/ ReleaseChainConn(t) \/ ReleaseUnknown(t) \/ Forget(t) \/ PutBack(t)
    \/ CleanupIdleChains(t) \/ CleanupConnections(t)

ChainPoolNext == \E t \in ChainTasks : ChainTaskStep(t)

ChainPoolSpec == ChainInit /\ [][ChainPoolNext]_chainVars

-----------------------------------------------------------------------------

\* The tasks that have connection id in their hands, and its places among the idle ones.
Holders(id) ==
    {t \in ChainTasks : task[t].id = id /\ task[t].pc \in {"activate", "record", "using", "forget", "putback"}}
IdlePlaces(id) == {i \in DOMAIN spare : spare[i] = id}

\* A connection is idle once or lent to one task, never both, whatever acquires, releases
\* and cleanups hold of the three locks; and a task uses one that is counted as active.
\* Of an id that was asked for while it was in use there may be two connections, of which
\* active_connections keeps one; the property is about the other ids, also when such
\* connections are in the pool.
LentToOne ==
    /\ \A id \in ConnIds \ twice : Cardinality(Holders(id)) + Cardinality(IdlePlaces(id)) <= 1
    /\ \A t \in ChainTasks : task[t].pc = "using" /\ task[t].id \notin twice => task[t].id \in lent

-----------------------------------------------------------------------------
(***************************************************************************)
(* The rate limiters: the sliding window of the API server (RateLimiter in *)
(* api/server.rs), the token buckets of the WebSocket limiter              *)
(* (api/websocket/rate_limiter.rs) for ips and for sessions and those of   *)
(* the per-chain limiter (api/websocket/chain_rate_limiter.rs).  Time is   *)
(* counted in ticks; a behaviour is about one of the four, with its kind   *)
(* of limit enabled: otherwise every request passes and nothing changes.   *)
(***************************************************************************)

CONSTANTS Peers,         \* client ips or session ids
          Window,        \* ticks of the sliding window (one minute)
          Limit,         \* RateLimiter.limit, the burst_size of the buckets
          RefillTicks,   \* ticks in which a bucket earns one token
          CleanupTicks,  \* age at which cleanup_old_buckets drops a bucket
          MaxNow         \* bound on time

ASSUME RateAssumption ==
    /\ Window \in Nat \ {0} /\ Limit \in Nat \ {0} /\ RefillTicks \in Nat \ {0}
    \* 300 s refill every bucket: 100 tokens at 600 a minute, 50 at 300.
    /\ CleanupTicks \in Nat /\ CleanupTicks >= Limit * RefillTicks
    /\ MaxNow \in Nat

VARIABLES
    which,   \* the limiter this behaviour is about
    now,     \* the clock
    seen,    \* server: seen[p], the times of the requests kept for p
    bucket,  \* ws, chain: bucket[p], or Absent
    global,  \* the global bucket
    white,   \* ws: the whitelist
    granted, \* granted[p]: the times p was let through, since its bucket was reset
    reset    \* chain: reset has refilled the global bucket and is to clear the others

rateVars == <<which, now, seen, bucket, global, white, granted, reset>>

Absent == [tokens |-> -1, last |-> -1]
Fresh(cap, t) == [tokens |-> cap, last |-> t]

\* SingleChainRateLimiter's global bucket is ten times as large and fast; the
\* WebSocket limiter's has the capacity of one client's bucket.
GlobalCap == IF which = "chain" THEN Limit * 10 ELSE Limit
GlobalTicks == IF which = "chain" THEN 1 ELSE RefillTicks

RateInit ==
    /\ which \in {"server", "ws", "session", "chain"}
    /\ now = 0
    /\ seen = [p \in Peers |-> <<>>]
    /\ bucket = [p \in Peers |-> Absent]
    /\ global = Fresh(IF which = "chain" THEN Limit * 10 ELSE Limit, 0)
    /\ white = {}
    /\ granted = [p \in Peers |-> <<>>]
    /\ reset = FALSE

Tick ==
    /\ now < MaxNow
    /\ now' = now + 1
    /\ UNCHANGED <<which, seen, bucket, global, white, granted, reset>>

Smaller(a, b) == IF a < b THEN a ELSE b

\* Mutant: what is earned is added to a full bucket.
Refill_NoCap(b, cap, ticks) ==
    LET new == (now - b.last) \div ticks
    IN IF new > 0 THEN [tokens |-> b.tokens + new, last |-> now] ELSE b

\* refill: whole tokens only, and the clock of the bucket moves only then.
Refill(b, cap, ticks) ==
    LET new == (now - b.last) \div ticks
    IN IF new > 0 THEN [tokens |-> Smaller(b.tokens + new, cap), last |-> now] ELSE b

\* try_consume(1): refilled first, charged if there is a token.
CanPay(b) == b.tokens >= 1
Charge(b) == [b EXCEPT !.tokens = @ - 1]
TryConsume(b) == IF CanPay(b) THEN Charge(b) ELSE b

\* entry.retain(|t| t > one_minute_ago)
Recent(p) ==
    FlattenSeq([i \in 1 .. Len(seen[p]) |-> IF seen[p][i] > now - Window THEN <<seen[p][i]>> ELSE <<>>])

Grant(p) == granted' = [granted EXCEPT ![p] = Append(@, now)]

\* RateLimiter::check_rate_limit of the server: a refused request is not kept.
CheckWindow(p) ==
    /\ which = "server"
    /\ IF Len(Recent(p)) >= Limit
       THEN seen' = [seen EXCEPT ![p] = Recent(p)] /\ UNCHANGED granted
       ELSE seen' = [seen EXCEPT ![p] = Append(Recent(p), now)] /\ Grant(p)
    /\ UNCHANGED <<which, now, bucket, global, white, reset>>

BucketOf(p) == IF bucket[p] = Absent THEN Fresh(Limit, now) ELSE bucket[p]

\* check_rate_limit of a chain, check_ip with a global limit: the global bucket
\* is charged first, also for a request the client's own bucket then refuses.
CheckBuckets(p) ==
    /\ which \in {"ws", "chain"} /\ p \notin white
    /\ LET g == Refill(global, GlobalCap, GlobalTicks)
           b == Refill(BucketOf(p), Limit, RefillTicks)
       IN /\ global' = TryConsume(g)
          /\ IF ~CanPay(g) THEN UNCHANGED <<bucket, granted>>
             ELSE /\ bucket' = [bucket EXCEPT ![p] = TryConsume(b)]
                  /\ IF CanPay(b) THEN Grant(p) ELSE UNCHANGED granted
    /\ UNCHANGED <<which, now, seen, white, reset>>

\* check_session: the bucket of the session only; check_ip of a limiter without a global
\* bucket and without a whitelist does the same.
CheckSessionBucket(p) ==
    /\ which = "session"
    /\ LET b == Refill(BucketOf(p), Limit, RefillTicks)
       IN /\ bucket' = [bucket EXCEPT ![p] = TryConsume(b)]
          /\ IF CanPay(b) THEN Grant(p) ELSE UNCHANGED granted
    /\ UNCHANGED <<which, now, seen, global, white, reset>>

\* add_whitelist; check_ip lets a whitelisted ip through before anything else.
AddWhitelist(p) ==
    /\ which = "ws" /\ p \notin white
    /\ white' = white \cup {p}
    /\ UNCHANGED <<which, now, seen, bucket, global, granted, reset>>

\* cleanup_old_buckets: a bucket that has not been refilled for long is dropped.
CleanupOldBuckets ==
    /\ which = "chain"
    /\ bucket' = [p \in Peers |->
          IF bucket[p] # Absent /\ bucket[p].last <= now - CleanupTicks
          THEN Absent ELSE bucket[p]]
    /\ UNCHANGED <<which, now, seen, global, white, granted, reset>>

\* reset (reset_chain_limits, reset_all_limits), the global bucket; add_chain_config and
\* shutdown_chain put a new limiter in the place of the old one.
ResetLimits ==
    /\ which = "chain" /\ ~reset
    /\ global' = Fresh(GlobalCap, now)
    /\ reset' = TRUE
    /\ UNCHANGED <<which, now, seen, bucket, white, granted>>

\* reset goes on to clear the buckets; cleanup_old_entries clears them whatever their
\* age.  From here on every client has a full bucket again.
ClearBuckets ==
    /\ which \in {"ws", "session"} \/ (which = "chain" /\ reset)
    /\ bucket' = [p \in Peers |-> Absent]
    /\ granted' = [p \in Peers |-> <<>>]
    /\ reset' = FALSE
    /\ UNCHANGED <<which, now, seen, global, white>>

RateNext ==
    \/ Tick
    \/ CleanupOldBuckets \/ ResetLimits \/ ClearBuckets
    \/ \E p \in Peers : CheckWindow(p) \/ CheckBuckets(p) \/ CheckSessionBucket(p) \/ AddWhitelist(p)

RateSpec == RateInit /\ [][RateNext]_rateVars

-----------------------------------------------------------------------------

GrantedIn(p, from, to) ==
    Cardinality({i \in 1 .. Len(granted[p]) : granted[p][i] > from /\ granted[p][i] <= to})

\* In every period since the buckets were last cleared on purpose (reset,
\* cleanup_old_entries), what a client is let through is what its limiter allows: the
\* limit per window, or a full bucket and what it earned in the period, also after
\* cleanup_old_buckets dropped its bucket.
GrantedWithinRate ==
    \A p \in Peers : \A t \in -1 .. now :
        IF which = "server"
        THEN GrantedIn(p, t, t + Window) <= Limit
        ELSE GrantedIn(p, t, now) <= Limit + (now - t + RefillTicks - 2) \div RefillTicks
=============================================================================
