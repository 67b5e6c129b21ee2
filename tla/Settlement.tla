----------------------------- MODULE Settlement -----------------------------
(***************************************************************************)
(* Settlement of sessions when a client disconnects: AutoSettlement and the*)
(* DisconnectHandler, the SettlementManager and its priority queue         *)
(* (settlement/, api/websocket/handlers/disconnect.rs).  The heap holds    *)
(* copies of requests made when they were queued, so a copy may be stale.  *)
(***************************************************************************)
EXTENDS Integers, FiniteSets, Bags

CONSTANTS SettleSessions,  \* sessions in the store at the start
          SettleId,        \* SettleId[s]: parse::<u64>().unwrap_or(0) of the session's
                           \* name, so all names that are not numbers share 0
          SettleTasks,     \* tasks that handle disconnects or serve the queue
          SettleBatch,     \* requests handled by one pass over the queue (10)
          SettleRetries,   \* RetryConfig.max_retries
          MaxSettles       \* bound on the operations of one task

NoRequest == [status |-> "none", prio |-> 0, retry |-> 0]
Nobody == "nobody"

ASSUME SettleAssumption ==
    /\ IsFiniteSet(SettleSessions) /\ DOMAIN SettleId = SettleSessions
    /\ SettleBatch \in Nat \ {0} /\ SettleRetries \in Nat /\ MaxSettles \in Nat
    /\ IsFiniteSet(SettleTasks) /\ Nobody \notin SettleTasks

SettleIds == {SettleId[s] : s \in SettleSessions}

VARIABLES
    live,      \* sessions in the session store
    auto,      \* config.enable_auto_settlement
    manager,   \* the DisconnectHandler has a SettlementManager
    request,   \* request[i]: the entry of requests, by numeric id
    heap,      \* pending_queue: a bag of copies
    queueLock, \* the task that holds the manager's queue, or Nobody
    stask,     \* stask[t]: program counter and locals
    settled,   \* settled[i]: settle_session(i) calls of the DisconnectHandler
    reopened   \* a worker put a request it had taken back into the queue

settleVars == <<live, auto, manager, request, heap, queueLock, stask, settled, reopened>>

Copy(i, r) == [id |-> i, prio |-> r.prio, retry |-> r.retry]

\* A task between two operations.
Idle(ops) == [pc |-> "out", s |-> CHOOSE s \in SettleSessions : TRUE,
              id |-> CHOOSE i \in SettleIds : TRUE, tries |-> 0, n |-> 0, ops |-> ops]

SettleInit ==
    /\ live = SettleSessions
    /\ auto \in BOOLEAN /\ manager \in BOOLEAN
    /\ request = [i \in SettleIds |-> NoRequest]
    /\ heap = EmptyBag
    /\ queueLock = Nobody
    /\ stask = [t \in SettleTasks |-> Idle(0)]
    /\ settled = [i \in SettleIds |-> 0]
    /\ reopened = FALSE

\* SettlementQueue::add: the entry is replaced, and only a pending one is pushed.
Add(i, r) ==
    /\ request' = [request EXCEPT ![i] = r]
    /\ heap' = IF r.status = "Pending" THEN heap (+) SetToBag({Copy(i, r)}) ELSE heap

\* The maximum of the heap: higher priority first, then fewer retries.
Top(c) ==
    /\ BagIn(c, heap)
    /\ \A d \in BagToSet(heap) :
         d.prio < c.prio \/ (d.prio = c.prio /\ c.retry <= d.retry)

Step(t, pc) == stask' = [stask EXCEPT ![t].pc = pc]

Return(t) == stask' = [stask EXCEPT ![t] = Idle(@.ops)]

\* An operation begins, or is done in one step.
Start(t, s, i, pc) ==
    /\ stask[t].pc = "out" /\ stask[t].ops < MaxSettles
    /\ stask' = [stask EXCEPT ![t] =
                   [pc |-> pc, s |-> s, id |-> i, tries |-> 0, n |-> 0, ops |-> @.ops + 1]]

AtOnce(t) ==
    /\ stask[t].pc = "out" /\ stask[t].ops < MaxSettles
    /\ stask' = [stask EXCEPT ![t] = Idle(@.ops + 1)]

\* settle_with_retry calls handle_disconnect.
SettleWithRetry(t, s) ==
    /\ Start(t, s, SettleId[s], "lookup")
    /\ UNCHANGED <<live, auto, manager, request, heap, queueLock, settled, reopened>>

\* handle_disconnect: the session is looked up; a missing one is an error that
\* is retried max_retries times, and then given up (MaxRetriesExceeded).
LookUp(t) ==
    /\ stask[t].pc = "lookup"
    /\ IF stask[t].s \in live THEN Step(t, "queue")
       ELSE IF stask[t].tries < SettleRetries
            THEN stask' = [stask EXCEPT ![t].tries = @ + 1]
            ELSE Return(t)
    /\ UNCHANGED <<live, auto, manager, request, heap, queueLock, settled, reopened>>

\* queue_settlement with the default priority, under the manager's lock.  The
\* queue is processed at once only if auto settlement is enabled.
QueueSettlement(t) ==
    /\ stask[t].pc = "queue" /\ queueLock = Nobody
    /\ Add(stask[t].id, [status |-> "Pending", prio |-> 1, retry |-> 0])
    /\ IF auto THEN Step(t, "process") ELSE Return(t)
    /\ UNCHANGED <<live, auto, manager, queueLock, settled, reopened>>

\* queue_failed_settlement, a call of its own: status Failed, so it is not pushed.
\* The retry count is what settle_with_retry last recorded for the session.
QueueFailedSettlement(t, s, retry) ==
    /\ queueLock = Nobody
    /\ AtOnce(t)
    /\ Add(SettleId[s], [status |-> "Failed", prio |-> 0, retry |-> retry])
    /\ UNCHANGED <<live, auto, manager, queueLock, settled, reopened>>

\* Mutant: a pass that finds another one under way is skipped.
ProcessBegin_TryLock(t) ==
    /\ stask[t].pc = "process"
    /\ IF queueLock = Nobody THEN queueLock' = t /\ Step(t, "pass")
       ELSE queueLock' = queueLock /\ Return(t)
    /\ UNCHANGED <<live, auto, manager, request, heap, settled, reopened>>

\* process_settlement_queue holds the lock over the whole pass.
ProcessBegin(t) ==
    /\ stask[t].pc = "process" /\ queueLock = Nobody
    /\ queueLock' = t
    /\ Step(t, "pass")
    /\ UNCHANGED <<live, auto, manager, request, heap, settled, reopened>>

\* get_next: the best copy is popped, and skipped unless its request is pending;
\* a pending one goes through Processing to Completed under the same lock.
ProcessNext(t) ==
    /\ stask[t].pc = "pass" /\ stask[t].n < SettleBatch
    /\ \E c \in BagToSet(heap) :
         /\ Top(c)
         /\ heap' = heap (-) SetToBag({c})
         /\ IF request[c.id].status = "Pending"
            THEN /\ request' = [request EXCEPT ![c.id].status = "Completed"]
                 /\ stask' = [stask EXCEPT ![t].n = @ + 1]
            ELSE UNCHANGED <<request, stask>>
    /\ UNCHANGED <<live, auto, manager, queueLock, settled, reopened>>

ProcessEnd(t) ==
    /\ stask[t].pc = "pass" /\ (stask[t].n = SettleBatch \/ heap = EmptyBag)
    /\ queueLock' = Nobody
    /\ Return(t)
    /\ UNCHANGED <<live, auto, manager, request, heap, settled, reopened>>

\* get_next_settlement: a worker takes a request, which stays pending.  (Stale
\* copies above it are dropped by the same call.)
GetNextSettlement(t) ==
    /\ queueLock = Nobody
    /\ \E c \in BagToSet(heap) :
         /\ request[c.id].status = "Pending"
         /\ \A d \in BagToSet(heap) : request[d.id].status = "Pending" =>
              d.prio < c.prio \/ (d.prio = c.prio /\ c.retry <= d.retry)
         /\ Start(t, stask[t].s, c.id, "worker")
         /\ heap' = LET gone == {d \in BagToSet(heap) : request[d.id].status # "Pending"
                                   /\ (d.prio > c.prio \/ (d.prio = c.prio /\ d.retry < c.retry))}
                    IN [d \in BagToSet(heap) \ gone |-> heap[d]] (-) SetToBag({c})
    /\ UNCHANGED <<live, auto, manager, request, queueLock, settled, reopened>>

\* The worker's update_status.
UpdateSettlement(t, status) ==
    /\ stask[t].pc = "worker" /\ queueLock = Nobody
    /\ IF request[stask[t].id] = NoRequest THEN UNCHANGED <<request, heap>>
       ELSE Add(stask[t].id, [request[stask[t].id] EXCEPT !.status = status])
    /\ reopened' = (reopened \/ status = "Pending")
    /\ Return(t)
    /\ UNCHANGED <<live, auto, manager, queueLock, settled>>

\* The worker's increment_retry and reset_for_retry.
ResetForRetry(t) ==
    /\ stask[t].pc = "worker" /\ queueLock = Nobody
    /\ IF request[stask[t].id] = NoRequest THEN UNCHANGED <<request, heap>>
       ELSE Add(stask[t].id, [request[stask[t].id] EXCEPT !.status = "Pending", !.retry = @ + 1])
    /\ reopened' = TRUE
    /\ Return(t)
    /\ UNCHANGED <<live, auto, manager, queueLock, settled>>

\* SettlementQueue::remove leaves the copies in the heap.
RemoveEntry(t, i) ==
    /\ queueLock = Nobody /\ request[i] # NoRequest
    /\ AtOnce(t)
    /\ request' = [request EXCEPT ![i] = NoRequest]
    /\ UNCHANGED <<live, auto, manager, heap, queueLock, settled, reopened>>

\* Mutant: the session is settled whether or not it was found in the store.
HandleDisconnect_Again(t, s) ==
    /\ IF manager THEN Start(t, s, SettleId[s], "settle") ELSE AtOnce(t)
    /\ live' = live \ {s}
    /\ UNCHANGED <<auto, manager, request, heap, queueLock, settled, reopened>>

\* DisconnectHandler::handle_disconnect: looked up and destroyed under one write
\* guard of the session store, then settled directly if there is a manager.
HandleDisconnect(t, s) ==
    /\ IF s \in live /\ manager THEN Start(t, s, SettleId[s], "settle") ELSE AtOnce(t)
    /\ live' = live \ {s}
    /\ UNCHANGED <<auto, manager, request, heap, queueLock, settled, reopened>>

SettleSession(t) ==
    /\ stask[t].pc = "settle"
    /\ settled' = [settled EXCEPT ![stask[t].id] = @ + 1]
    /\ Return(t)
    /\ UNCHANGED <<live, auto, manager, request, heap, queueLock, reopened>>

SettleStep(t) ==
    \/ LookUp(t) \/ QueueSettlement(t)
    \/ ProcessBegin(t) \/ ProcessNext(t) \/ ProcessEnd(t)
    \/ GetNextSettlement(t) \/ ResetForRetry(t) \/ SettleSession(t)
    \/ \E status \in {"Completed", "Failed", "Pending"} : UpdateSettlement(t, status)
    \/ \E s \in SettleSessions :
         \/ SettleWithRetry(t, s) \/ HandleDisconnect(t, s)
         \/ \E retry \in 0..SettleRetries : QueueFailedSettlement(t, s, retry)
    \/ \E i \in SettleIds : RemoveEntry(t, i)

SettleNext == \E t \in SettleTasks : SettleStep(t)

SettleSpec == SettleInit /\ [][SettleNext]_settleVars

-----------------------------------------------------------------------------

\* With auto settlement every disconnect that queues a settlement also runs a pass
\* that completes one, so when all have returned nothing is left pending, whatever
\* the batch size.  Without it a request stays pending, but never one that no copy
\* in the heap leads to: a worker can still find it.
SettlementsDrained ==
    (~reopened /\ \A t \in SettleTasks : stask[t].pc = "out") =>
        \A i \in SettleIds : request[i].status = "Pending" =>
            ~auto /\ \E c \in BagToSet(heap) : c.id = i

\* The sessions of a numeric id that were taken out of the store.
Destroyed(i) == {s \in SettleSessions \ live : SettleId[s] = i}

\* However many disconnects of a session are handled at once, the one that takes it
\* out of the store settles it: an id is settled no more often than sessions that
\* parse to it were destroyed.  (Sessions whose names are not numbers all settle
\* session 0: the code does not tell them apart.)
SettledOnce == \A i \in SettleIds : settled[i] <= Cardinality(Destroyed(i))
=============================================================================
