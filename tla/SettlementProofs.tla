-------------------------- MODULE SettlementProofs --------------------------
(***************************************************************************)
(* Theorems about the money: Settlement, for any sessions, tasks, batch    *)
(* size, retries and number of operations; the records of results, proofs, *)
(* payments and revenue of SettlementRecords; the fees and withdrawals of  *)
(* Payouts; and the claims, splits and assignments of Claims, for any jobs,*)
(* hosts and amounts.                                                      *)
(***************************************************************************)
EXTENDS Settlement, SettlementRecords, Payouts, Claims, FiniteSums, FiniteSetTheorems, SequenceTheorems, TLAPS

-----------------------------------------------------------------------------
(* Types *)

SomeSession == CHOOSE s \in SettleSessions : TRUE
SomeId == CHOOSE i \in SettleIds : TRUE

RequestRecord ==
    [status : {"none", "Pending", "Completed", "Failed"}, prio : Nat, retry : Nat]

TaskStages ==
    {"out", "lookup", "queue", "process", "pass", "worker", "settle"}

TaskRecord ==
    [pc : TaskStages, s : SettleSessions \cup {SomeSession}, id : SettleIds \cup {SomeId},
     tries : Nat, n : Nat, ops : Nat]

SettleTypeOK ==
    /\ live \subseteq SettleSessions /\ auto \in BOOLEAN
    /\ request \in [SettleIds -> RequestRecord]
    /\ heap \in [DOMAIN heap -> Nat \ {0}]
    /\ DOMAIN heap \subseteq [id : SettleIds, prio : Nat, retry : Nat]
    /\ stask \in [SettleTasks -> TaskRecord]
    /\ \A t \in SettleTasks : stask[t].pc # "out" => stask[t].id \in SettleIds
    /\ settled \in [SettleIds -> Nat]
    /\ reopened \in BOOLEAN

-----------------------------------------------------------------------------
(* The inductive invariants *)

\* The disconnects that took a session of the id out of the store and are still to
\* settle it.
Settling(i) == {t \in SettleTasks : stask[t].pc = "settle" /\ stask[t].id = i}

\* Every settlement made or on its way has a destroyed session of its own.
OnceInv ==
    \A i \in SettleIds :
        settled[i] + Cardinality(Settling(i)) <= Cardinality(Destroyed(i))

Pending(s) == request[s].status = "Pending"

\* Pending requests that the heap has a copy of.
Queued == {s \in SettleIds : Pending(s) /\ \E c \in DOMAIN heap : c.id = s}

\* Disconnects whose pass over the queue has not completed a request yet.
Owed == {t \in SettleTasks :
           stask[t].pc = "process" \/ (stask[t].pc = "pass" /\ stask[t].n = 0)}

\* A worker has taken the request of the session.
Taken(s) == \E t \in SettleTasks : stask[t].pc = "worker" /\ stask[t].id = s

\* As long as no worker gives a request back, each queued request has (with auto
\* settlement) a pass that is still to complete one, and a pending request that is not queued has a worker.
DrainInv ==
    /\ \A t \in SettleTasks : stask[t].pc \notin {"out", "pass"} => stask[t].n = 0
    /\ IsFiniteSet(Queued) /\ IsFiniteSet(Owed)
    /\ ~reopened =>
          /\ auto => Cardinality(Queued) <= Cardinality(Owed)
          /\ \A s \in SettleIds : Pending(s) => s \in Queued \/ Taken(s)

SettlementInv == SettleTypeOK /\ OnceInv /\ DrainInv

-----------------------------------------------------------------------------
(* Bags, as far as the heap needs them *)

\* What push and pop do to the copies that the heap holds.
LEMMA HeapFacts ==
    ASSUME NEW B, B \in [DOMAIN B -> Nat \ {0}], NEW c
    PROVE  /\ DOMAIN EmptyBag = {}
           /\ LET A == B (+) SetToBag({c})
              IN  DOMAIN A = DOMAIN B \cup {c} /\ A \in [DOMAIN A -> Nat \ {0}]
           /\ LET R == B (-) SetToBag({c})
              IN  /\ DOMAIN R \subseteq DOMAIN B /\ DOMAIN B \subseteq DOMAIN R \cup {c}
                  /\ R \in [DOMAIN R -> Nat \ {0}]
<1>1. DOMAIN EmptyBag = {}  BY DEF EmptyBag, SetToBag
<1>2. SetToBag({c}) = [e \in {c} |-> 1]  BY DEF SetToBag
<1> DEFINE S == [e \in {c} |-> 1]
           A == [e \in DOMAIN B \cup {c} |->
                   (IF e \in DOMAIN B THEN B[e] ELSE 0) + (IF e \in {c} THEN 1 ELSE 0)]
           D == [e \in DOMAIN B |-> IF e = c THEN B[e] - 1 ELSE B[e]]
           R == [d \in {d \in DOMAIN D : D[d] > 0} |-> D[d]]
<1>3. B (+) SetToBag({c}) = A  BY <1>2 DEF (+)
<1>4. B (-) SetToBag({c}) = R  BY <1>2 DEF (-)
<1>5. DOMAIN A = DOMAIN B \cup {c} /\ A \in [DOMAIN A -> Nat \ {0}]  OBVIOUS
<1>6. /\ DOMAIN R \subseteq DOMAIN B /\ DOMAIN B \subseteq DOMAIN R \cup {c}
      /\ R \in [DOMAIN R -> Nat \ {0}]
  OBVIOUS
<1> HIDE DEF A, R
<1> QED BY <1>1, <1>3, <1>4, <1>5, <1>6

-----------------------------------------------------------------------------
(* The steps of a task *)

\* The program counter moves, and nothing else of the task.
LEMMA StepEffect ==
    ASSUME SettleTypeOK, NEW t \in SettleTasks, NEW pc \in TaskStages, Step(t, pc)
    PROVE  /\ stask' \in [SettleTasks -> TaskRecord]
           /\ stask'[t].pc = pc /\ stask'[t].id = stask[t].id /\ stask'[t].n = stask[t].n
           /\ \A u \in SettleTasks \ {t} : stask'[u] = stask[u]
  BY DEF SettleTypeOK, Step, TaskRecord

\* An idle task starts an operation.
LEMMA StartEffect ==
    ASSUME SettleTypeOK, NEW t \in SettleTasks, NEW z \in SettleSessions \cup {SomeSession},
           NEW s \in SettleIds, NEW pc \in TaskStages, Start(t, z, s, pc)
    PROVE  /\ stask' \in [SettleTasks -> TaskRecord] /\ stask[t].pc = "out"
           /\ stask'[t].pc = pc /\ stask'[t].id = s /\ stask'[t].n = 0
           /\ \A u \in SettleTasks \ {t} : stask'[u] = stask[u]
<1>1. stask[t].ops + 1 \in Nat /\ stask \in [SettleTasks -> TaskRecord]  BY DEF SettleTypeOK, TaskRecord
<1>2. [pc |-> pc, s |-> z, id |-> s, tries |-> 0, n |-> 0, ops |-> stask[t].ops + 1] \in TaskRecord
  BY <1>1 DEF TaskRecord
<1> QED BY <1>1, <1>2 DEF Start

\* A task is done.
LEMMA IdleRecord == \A n \in Nat : Idle(n) \in TaskRecord /\ Idle(n).pc = "out" /\ Idle(n).n = 0
  BY DEF Idle, TaskRecord, TaskStages, SomeSession, SomeId

LEMMA ReturnEffect ==
    ASSUME SettleTypeOK, NEW t \in SettleTasks, Return(t) \/ AtOnce(t)
    PROVE  /\ stask' \in [SettleTasks -> TaskRecord] /\ stask'[t].pc = "out"
           /\ stask'[t].n = 0
           /\ \A u \in SettleTasks \ {t} : stask'[u] = stask[u]
<1>1. stask[t].ops \in Nat /\ stask[t].ops + 1 \in Nat /\ stask \in [SettleTasks -> TaskRecord]
  BY DEF SettleTypeOK, TaskRecord
<1>2. \E n \in Nat : stask' = [stask EXCEPT ![t] = Idle(n)]  BY <1>1 DEF Return, AtOnce
<1> QED BY <1>1, <1>2, IdleRecord

\* An entry of requests is replaced and, if pending, a copy of it is pushed.
LEMMA AddEffect ==
    ASSUME SettleTypeOK, NEW s \in SettleIds, NEW r \in RequestRecord, Add(s, r)
    PROVE  /\ request' \in [SettleIds -> RequestRecord]
           /\ request'[s] = r
           /\ \A z \in SettleIds \ {s} : request'[z] = request[z]
           /\ heap' \in [DOMAIN heap' -> Nat \ {0}]
           /\ DOMAIN heap' \subseteq [id : SettleIds, prio : Nat, retry : Nat]
           /\ r.status = "Pending" => DOMAIN heap' = DOMAIN heap \cup {Copy(s, r)}
           /\ r.status # "Pending" => heap' = heap
           /\ Copy(s, r).id = s
<1>1. Copy(s, r) \in [id : SettleIds, prio : Nat, retry : Nat] /\ Copy(s, r).id = s  BY DEF Copy, RequestRecord
<1>2. /\ heap \in [DOMAIN heap -> Nat \ {0}]
      /\ DOMAIN heap \subseteq [id : SettleIds, prio : Nat, retry : Nat]
      /\ request \in [SettleIds -> RequestRecord]
  BY DEF SettleTypeOK
<1>3. CASE r.status = "Pending"
  <2>1. /\ DOMAIN heap' = DOMAIN heap \cup {Copy(s, r)}
        /\ heap' \in [DOMAIN heap' -> Nat \ {0}]
    BY <1>2, <1>3, HeapFacts DEF Add
  <2> QED BY <1>1, <1>2, <1>3, <2>1 DEF Add
<1>4. CASE r.status # "Pending"  BY <1>1, <1>2, <1>4 DEF Add
<1> QED BY <1>3, <1>4

-----------------------------------------------------------------------------
(* What a step of one task needs to keep the invariant *)

\* A step of task t: the other tasks stay as they are.
StepOf(t) ==
    /\ stask' \in [SettleTasks -> TaskRecord]
    /\ stask'[t].pc # "out" => stask'[t].id \in SettleIds
    /\ stask'[t].pc \notin {"out", "pass"} => stask'[t].n = 0
    /\ \A u \in SettleTasks \ {t} : stask'[u] = stask[u]

\* The sets that are counted are finite.
LEMMA SettleFinite ==
    ASSUME NEW i
    PROVE  /\ IsFiniteSet(Settling(i)) /\ Cardinality(Settling(i)) \in Nat
           /\ IsFiniteSet(Destroyed(i)) /\ Cardinality(Destroyed(i)) \in Nat
<1>1. Settling(i) \subseteq SettleTasks /\ Destroyed(i) \subseteq SettleSessions  BY DEF Settling, Destroyed
<1> QED BY <1>1, SettleAssumption, FS_Subset, FS_CardinalityType

\* The step leaves the sessions alone and settles none.
LEMMA OnceKept ==
    ASSUME OnceInv, NEW t \in SettleTasks, StepOf(t), UNCHANGED <<live, settled>>,
           stask[t].pc # "settle", stask'[t].pc # "settle"
    PROVE  OnceInv'
<1>1. \A i : Settling(i)' = Settling(i) /\ Destroyed(i)' = Destroyed(i)  BY DEF StepOf, Settling, Destroyed
<1> QED BY <1>1 DEF OnceInv

\* The step queues nothing, completes no pass and drops no pending request.
LEMMA DrainKept ==
    ASSUME DrainInv, NEW t \in SettleTasks, StepOf(t),
           Owed' = Owed, Queued' \subseteq Queued, ~reopened' => ~reopened, auto' = auto,
           ~reopened' => \A s \in SettleIds : Pending(s)' =>
               /\ Pending(s)
               /\ s \in Queued => s \in Queued' \/ Taken(s)'
               /\ Taken(s) => Taken(s)'
    PROVE  DrainInv'
<1>1. /\ IsFiniteSet(Queued) /\ IsFiniteSet(Owed)
      /\ IsFiniteSet(Queued') /\ Cardinality(Queued') <= Cardinality(Queued)
  BY FS_Subset DEF DrainInv
<1>2. /\ Cardinality(Queued) \in Nat /\ Cardinality(Queued') \in Nat
      /\ Cardinality(Owed) \in Nat
  BY <1>1, FS_CardinalityType
<1>3. \A u \in SettleTasks : stask'[u].pc \notin {"out", "pass"} => stask'[u].n = 0  BY DEF StepOf, DrainInv
<1>4. ~reopened' /\ auto' => Cardinality(Queued') <= Cardinality(Owed')  BY <1>1, <1>2 DEF DrainInv
<1>5. ~reopened' => \A s \in SettleIds : Pending(s)' => s \in Queued' \/ Taken(s)'  BY DEF DrainInv
<1> QED BY <1>1, <1>3, <1>4, <1>5 DEF DrainInv

\* A step between stages that neither owe a pass nor hold a request.
Free == {"out", "lookup", "queue", "settle"}

LEMMA FreeStep ==
    ASSUME NEW t \in SettleTasks, StepOf(t), stask[t].pc \in Free, stask'[t].pc \in Free
    PROVE  Owed' = Owed /\ \A s \in SettleIds : Taken(s) <=> Taken(s)'
<1>1. Owed' = Owed  BY DEF StepOf, Owed, Free
<1>2. \A s \in SettleIds : Taken(s) <=> Taken(s)'  BY DEF StepOf, Taken, Free
<1> QED BY <1>1, <1>2

\* The same for a step that leaves the queue alone.
LEMMA QueueUntouched ==
    ASSUME DrainInv, NEW t \in SettleTasks, StepOf(t), stask[t].pc \in Free,
           stask'[t].pc \in Free, UNCHANGED <<auto, request, heap, reopened>>
    PROVE  DrainInv'
<1>1. Queued' = Queued /\ \A s \in SettleIds : Pending(s)' = Pending(s)  BY DEF Queued, Pending
<1> QED BY <1>1, FreeStep, DrainKept

\* The types of the variables that such a step leaves alone.
LEMMA TypeKept ==
    ASSUME SettleTypeOK, NEW t \in SettleTasks, StepOf(t)
    PROVE  /\ stask' \in [SettleTasks -> TaskRecord]
           /\ \A u \in SettleTasks : stask'[u].pc # "out" => stask'[u].id \in SettleIds
  BY DEF SettleTypeOK, StepOf

-----------------------------------------------------------------------------
(* The invariant is preserved, action by action *)

\* Looking a session up, or starting to, leaves the queue and the store alone.
LEMMA LookUpKeeps ==
    ASSUME SettlementInv, NEW t \in SettleTasks,
           LookUp(t) \/ \E s \in SettleSessions : SettleWithRetry(t, s)
    PROVE  SettlementInv'
<1>0. SettleTypeOK /\ OnceInv /\ DrainInv  BY DEF SettlementInv
<1>1. /\ StepOf(t) /\ stask[t].pc \in Free \ {"settle"} /\ stask'[t].pc \in Free \ {"settle"}
      /\ UNCHANGED <<live, auto, request, heap, queueLock, settled, reopened>>
  <2>1. CASE LookUp(t)
    <3>1. stask[t].pc = "lookup" /\ stask[t].id \in SettleIds /\ stask[t].n = 0
      BY <1>0, <2>1 DEF LookUp, SettleTypeOK, DrainInv
    <3>2. CASE Step(t, "queue")  BY <1>0, <2>1, <3>1, <3>2, StepEffect DEF LookUp, StepOf, Free, TaskStages
    <3>3. CASE Return(t)  BY <1>0, <2>1, <3>1, <3>3, ReturnEffect DEF LookUp, StepOf, Free
    <3>4. CASE stask' = [stask EXCEPT ![t].tries = @ + 1]
      <4>1. /\ stask' \in [SettleTasks -> TaskRecord] /\ stask'[t].pc = "lookup"
            /\ stask'[t].id = stask[t].id /\ stask'[t].n = stask[t].n
            /\ \A u \in SettleTasks \ {t} : stask'[u] = stask[u]
        BY <1>0, <3>1, <3>4 DEF SettleTypeOK, TaskRecord
      <4> QED BY <2>1, <3>1, <4>1 DEF LookUp, StepOf, Free
    <3> QED BY <2>1, <3>2, <3>3, <3>4 DEF LookUp
  <2>2. ASSUME NEW s \in SettleSessions, SettleWithRetry(t, s)
        PROVE  /\ StepOf(t) /\ stask[t].pc \in Free \ {"settle"} /\ stask'[t].pc \in Free \ {"settle"}
               /\ UNCHANGED <<live, auto, request, heap, queueLock, settled, reopened>>
    <3>1. SettleId[s] \in SettleIds  BY DEF SettleIds
    <3> QED BY <1>0, <2>2, <3>1, StartEffect DEF SettleWithRetry, StepOf, Free, TaskStages
  <2> QED BY <2>1, <2>2
<1>2. SettleTypeOK'  BY <1>0, <1>1, TypeKept DEF SettleTypeOK
<1>3. OnceInv' /\ DrainInv'  BY <1>0, <1>1, OnceKept, QueueUntouched
<1> QED BY <1>2, <1>3 DEF SettlementInv

\* The DisconnectHandler destroys the session before it settles it.
LEMMA DisconnectKeeps ==
    ASSUME SettlementInv, NEW t \in SettleTasks, NEW z \in SettleSessions,
           HandleDisconnect(t, z)
    PROVE  SettlementInv'
<1>0. SettleTypeOK /\ OnceInv /\ DrainInv  BY DEF SettlementInv
<1> DEFINE s == SettleId[z]
<1>1. s \in SettleIds  BY DEF SettleIds
<1>2. /\ stask' \in [SettleTasks -> TaskRecord] /\ stask[t].pc = "out"
      /\ \/ stask'[t].pc = "settle" /\ stask'[t].id = s /\ z \in live
         \/ stask'[t].pc = "out"
      /\ stask'[t].n = 0
      /\ \A u \in SettleTasks \ {t} : stask'[u] = stask[u]
      /\ live' = live \ {z} /\ UNCHANGED <<auto, request, heap, queueLock, settled, reopened>>
  <2>1. CASE z \in live /\ manager  BY <1>0, <1>1, <2>1, StartEffect DEF HandleDisconnect, TaskStages
  <2>2. CASE ~(z \in live /\ manager)  BY <1>0, <2>2, ReturnEffect DEF HandleDisconnect, AtOnce
  <2> QED BY <2>1, <2>2
<1> HIDE DEF s
<1>3. StepOf(t) /\ stask[t].pc \in Free /\ stask'[t].pc \in Free  BY <1>1, <1>2 DEF StepOf, Free
<1>4. SettleTypeOK'  BY <1>0, <1>2, <1>3, TypeKept DEF SettleTypeOK
<1>5. OnceInv'
  <2> SUFFICES ASSUME NEW i \in SettleIds
               PROVE  settled[i] + Cardinality(Settling(i)') <= Cardinality(Destroyed(i)')  BY <1>2 DEF OnceInv
  <2>1. /\ settled[i] + Cardinality(Settling(i)) <= Cardinality(Destroyed(i))
        /\ settled[i] \in Nat
    BY <1>0 DEF OnceInv, SettleTypeOK
  <2>2. /\ IsFiniteSet(Settling(i)) /\ Cardinality(Settling(i)) \in Nat
        /\ IsFiniteSet(Destroyed(i)) /\ Cardinality(Destroyed(i)) \in Nat
    BY SettleFinite
  <2>3. CASE stask'[t].pc = "settle" /\ i = s
    <3>1. Settling(i)' = Settling(i) \cup {t} /\ t \notin Settling(i)  BY <1>2, <2>3 DEF Settling
    <3>2. Destroyed(i)' = Destroyed(i) \cup {z} /\ z \notin Destroyed(i)  BY <1>2, <2>3 DEF Destroyed, s
    <3>3. /\ Cardinality(Settling(i)') = Cardinality(Settling(i)) + 1
          /\ Cardinality(Destroyed(i)') = Cardinality(Destroyed(i)) + 1
      BY <2>2, <3>1, <3>2, FS_AddElement
    <3> QED BY <2>1, <2>2, <3>3
  <2>4. CASE ~(stask'[t].pc = "settle" /\ i = s)
    <3>1. Settling(i)' = Settling(i)  BY <1>2, <2>4 DEF Settling
    <3>2. Destroyed(i) \subseteq Destroyed(i)'  BY <1>2 DEF Destroyed
    <3>3. IsFiniteSet(Destroyed(i)')
      <4>1. Destroyed(i)' \subseteq SettleSessions  BY DEF Destroyed
      <4> QED BY <4>1, SettleAssumption, FS_Subset
    <3>4. Cardinality(Destroyed(i)) <= Cardinality(Destroyed(i)') /\ Cardinality(Destroyed(i)') \in Nat
      BY <3>2, <3>3, FS_Subset, FS_CardinalityType
    <3> QED BY <2>1, <2>2, <3>1, <3>4
  <2> QED BY <2>3, <2>4
<1>6. DrainInv'  BY <1>0, <1>2, <1>3, QueueUntouched
<1> QED BY <1>4, <1>5, <1>6 DEF SettlementInv

\* The session is settled by the one disconnect that destroyed it.
LEMMA SettleSessionKeeps ==
    ASSUME SettlementInv, NEW t \in SettleTasks, SettleSession(t)
    PROVE  SettlementInv'
<1>0. SettleTypeOK /\ OnceInv /\ DrainInv  BY DEF SettlementInv
<1> SUFFICES ASSUME NEW s, s = stask[t].id PROVE SettlementInv'  OBVIOUS
<1>1. /\ stask[t].pc = "settle" /\ s \in SettleIds
      /\ settled \in [SettleIds -> Nat] /\ settled' = [settled EXCEPT ![s] = @ + 1]
      /\ UNCHANGED <<live, auto, request, heap, queueLock, reopened>>
  BY <1>0 DEF SettleSession, SettleTypeOK
<1>2. /\ stask' \in [SettleTasks -> TaskRecord] /\ stask'[t].pc = "out"
      /\ \A u \in SettleTasks \ {t} : stask'[u] = stask[u]
  BY <1>0, ReturnEffect DEF SettleSession
<1>3. StepOf(t) /\ stask[t].pc \in Free /\ stask'[t].pc \in Free  BY <1>1, <1>2 DEF StepOf, Free
<1>4. /\ settled' \in [SettleIds -> Nat] /\ settled'[s] = settled[s] + 1
      /\ \A i \in SettleIds \ {s} : settled'[i] = settled[i]
  BY <1>1
<1>5. SettleTypeOK'  BY <1>0, <1>1, <1>3, <1>4, TypeKept DEF SettleTypeOK
<1>6. OnceInv'
  <2> SUFFICES ASSUME NEW i \in SettleIds
               PROVE  settled'[i] + Cardinality(Settling(i)') <= Cardinality(Destroyed(i)')  BY DEF OnceInv
  <2>1. /\ settled[i] + Cardinality(Settling(i)) <= Cardinality(Destroyed(i))
        /\ settled[i] \in Nat /\ Destroyed(i)' = Destroyed(i)
    BY <1>0, <1>1 DEF OnceInv, Destroyed
  <2>2. /\ IsFiniteSet(Settling(i)) /\ Cardinality(Settling(i)) \in Nat
        /\ Cardinality(Destroyed(i)) \in Nat
    BY SettleFinite
  <2>3. CASE i = s
    <3>1. Settling(i)' = Settling(i) \ {t} /\ t \in Settling(i)  BY <1>1, <1>2, <2>3 DEF Settling
    <3>2. Cardinality(Settling(i)') = Cardinality(Settling(i)) - 1  BY <2>2, <3>1, FS_RemoveElement
    <3> QED BY <1>4, <2>1, <2>2, <2>3, <3>2
  <2>4. CASE i # s
    <3>1. Settling(i)' = Settling(i)  BY <1>2, <2>4 DEF Settling
    <3> QED BY <1>4, <2>1, <2>4, <3>1
  <2> QED BY <2>3, <2>4
<1>7. DrainInv'  BY <1>0, <1>1, <1>3, QueueUntouched
<1> QED BY <1>5, <1>6, <1>7 DEF SettlementInv

\* A queued settlement brings the pass that will complete one.
LEMMA QueueKeeps ==
    ASSUME SettlementInv, NEW t \in SettleTasks, QueueSettlement(t)
    PROVE  SettlementInv'
<1>0. SettleTypeOK /\ OnceInv /\ DrainInv  BY DEF SettlementInv
<1> SUFFICES ASSUME NEW s, s = stask[t].id PROVE SettlementInv'  OBVIOUS
<1> DEFINE r == [status |-> "Pending", prio |-> 1, retry |-> 0]
<1>1. /\ stask[t].pc = "queue" /\ s \in SettleIds /\ stask[t].n = 0
      /\ r \in RequestRecord /\ r.status = "Pending" /\ Add(s, r)
      /\ UNCHANGED <<live, auto, settled, reopened>>
  BY <1>0 DEF QueueSettlement, SettleTypeOK, DrainInv, RequestRecord
<1>2. /\ stask' \in [SettleTasks -> TaskRecord] /\ stask'[t].n = 0
      /\ auto => stask'[t].pc = "process" /\ stask'[t].id = s
      /\ ~auto => stask'[t].pc = "out"
      /\ \A u \in SettleTasks \ {t} : stask'[u] = stask[u]
  <2>1. CASE auto  BY <1>0, <1>1, <2>1, StepEffect DEF QueueSettlement, TaskStages
  <2>2. CASE ~auto  BY <1>0, <1>1, <2>2, ReturnEffect DEF QueueSettlement
  <2> QED BY <2>1, <2>2
<1> HIDE DEF r
<1>3. /\ request' \in [SettleIds -> RequestRecord] /\ request'[s] = r
      /\ \A z \in SettleIds \ {s} : request'[z] = request[z]
      /\ heap' \in [DOMAIN heap' -> Nat \ {0}]
      /\ DOMAIN heap' \subseteq [id : SettleIds, prio : Nat, retry : Nat]
      /\ DOMAIN heap' = DOMAIN heap \cup {Copy(s, r)} /\ Copy(s, r).id = s
  BY <1>0, <1>1, AddEffect
<1>4. StepOf(t)  BY <1>1, <1>2 DEF StepOf
<1>5. SettleTypeOK'  BY <1>0, <1>1, <1>3, <1>4, TypeKept DEF SettleTypeOK
<1>6. OnceInv'  BY <1>0, <1>1, <1>2, <1>4, OnceKept
<1>7. DrainInv'
  <2>1. Queued' = Queued \cup {s}
    <3>1. s \in Queued'  BY <1>1, <1>3 DEF Queued, Pending
    <3>2. ASSUME NEW z \in SettleIds, z # s PROVE z \in Queued' <=> z \in Queued  BY <1>3, <3>2 DEF Queued, Pending
    <3>3. Queued \subseteq SettleIds /\ Queued' \subseteq SettleIds  BY DEF Queued
    <3> QED BY <3>1, <3>2, <3>3, <1>1
  <2>2. t \notin Owed /\ Owed' = IF auto THEN Owed \cup {t} ELSE Owed  BY <1>1, <1>2 DEF Owed
  <2>3. IsFiniteSet(Queued) /\ IsFiniteSet(Owed)  BY <1>0 DEF DrainInv
  <2>4. /\ IsFiniteSet(Queued') /\ Cardinality(Queued') \in {Cardinality(Queued), Cardinality(Queued) + 1}
        /\ IsFiniteSet(Owed') /\ (auto => Cardinality(Owed') = Cardinality(Owed) + 1)
    BY <2>1, <2>2, <2>3, FS_AddElement
  <2>5. Cardinality(Queued) \in Nat /\ Cardinality(Owed) \in Nat  BY <2>3, FS_CardinalityType
  <2>6. ~reopened' /\ auto' => Cardinality(Queued') <= Cardinality(Owed')  BY <1>0, <1>1, <2>4, <2>5 DEF DrainInv
  <2>7. \A z \in SettleIds : Taken(z) => Taken(z)'  BY <1>1, <1>2 DEF Taken
  <2>8. ~reopened' => \A z \in SettleIds : Pending(z)' => z \in Queued' \/ Taken(z)'
    <3>1. \A z \in SettleIds : Pending(z)' => z = s \/ Pending(z)  BY <1>3 DEF Pending
    <3> QED BY <1>0, <1>1, <2>1, <2>7, <3>1 DEF DrainInv
  <2>9. \A u \in SettleTasks : stask'[u].pc \notin {"out", "pass"} => stask'[u].n = 0
    BY <1>0, <1>4 DEF StepOf, DrainInv
  <2> QED BY <2>4, <2>6, <2>8, <2>9 DEF DrainInv
<1> QED BY <1>5, <1>6, <1>7 DEF SettlementInv

\* A request that stops being pending only makes the queue shorter.
LEMMA Unqueued ==
    ASSUME NEW s \in SettleIds, ~Pending(s)',
           \A z \in SettleIds \ {s} : request'[z] = request[z],
           heap' = heap
    PROVE  /\ Queued' = Queued \ {s}
           /\ \A z \in SettleIds : Pending(z)' => z # s /\ Pending(z)
  BY DEF Queued, Pending

\* queue_failed_settlement and remove take a request out of the pending ones.
LEMMA DropKeeps ==
    ASSUME SettlementInv, NEW t \in SettleTasks,
           \/ \E z \in SettleSessions, n \in 0..SettleRetries : QueueFailedSettlement(t, z, n)
           \/ \E s \in SettleIds : RemoveEntry(t, s)
    PROVE  SettlementInv'
<1>0. SettleTypeOK /\ OnceInv /\ DrainInv  BY DEF SettlementInv
<1>1. ASSUME NEW s \in SettleIds, NEW r \in RequestRecord, r.status # "Pending",
             StepOf(t), stask[t].pc \in Free \ {"settle"}, stask'[t].pc \in Free \ {"settle"},
             request' = [request EXCEPT ![s] = r], UNCHANGED <<live, auto, heap, settled, reopened>>
      PROVE  SettlementInv'
  <2>1. /\ request' \in [SettleIds -> RequestRecord] /\ ~Pending(s)'
        /\ \A z \in SettleIds \ {s} : request'[z] = request[z]
    BY <1>0, <1>1 DEF SettleTypeOK, Pending
  <2>2. /\ Queued' = Queued \ {s}
        /\ \A z \in SettleIds : Pending(z)' => z # s /\ Pending(z)
    BY <1>1, <2>1, Unqueued
  <2>3. SettleTypeOK'  BY <1>0, <1>1, <2>1, TypeKept DEF SettleTypeOK
  <2>4. OnceInv'  BY <1>0, <1>1, OnceKept
  <2>5. Owed' = Owed /\ \A z \in SettleIds : Taken(z) <=> Taken(z)'  BY <1>1, FreeStep
  <2>6. DrainInv'  BY <1>0, <1>1, <2>2, <2>5, DrainKept
  <2> QED BY <2>3, <2>4, <2>6 DEF SettlementInv
<1>2. ASSUME AtOnce(t)
      PROVE  /\ StepOf(t) /\ stask[t].pc \in Free \ {"settle"}
             /\ stask'[t].pc \in Free \ {"settle"}
  BY <1>0, <1>2, ReturnEffect DEF AtOnce, StepOf, Free
<1>3. ASSUME NEW z \in SettleSessions, NEW n \in 0..SettleRetries,
             QueueFailedSettlement(t, z, n)
      PROVE  SettlementInv'
  <2> DEFINE r == [status |-> "Failed", prio |-> 0, retry |-> n]
             s == SettleId[z]
  <2>1. s \in SettleIds /\ r \in RequestRecord /\ r.status # "Pending"  BY SettleAssumption DEF RequestRecord, SettleIds
  <2>2. /\ request' = [request EXCEPT ![s] = r] /\ heap' = heap /\ AtOnce(t)
        /\ UNCHANGED <<live, auto, settled, reopened>>
    BY <1>3, <2>1 DEF QueueFailedSettlement, Add
  <2> HIDE DEF r, s
  <2> QED BY <1>1, <1>2, <2>1, <2>2
<1>4. ASSUME NEW s \in SettleIds, RemoveEntry(t, s)
      PROVE  SettlementInv'
  <2>1. NoRequest \in RequestRecord /\ NoRequest.status # "Pending"  BY DEF NoRequest, RequestRecord
  <2> QED BY <1>1, <1>2, <1>4, <2>1 DEF RemoveEntry
<1> QED BY <1>3, <1>4

\* A pass begins: it is still owed.
LEMMA ProcessBeginKeeps ==
    ASSUME SettlementInv, NEW t \in SettleTasks, ProcessBegin(t)
    PROVE  SettlementInv'
<1>0. SettleTypeOK /\ OnceInv /\ DrainInv  BY DEF SettlementInv
<1>1. /\ stask[t].pc = "process" /\ stask[t].id \in SettleIds /\ stask[t].n = 0
      /\ UNCHANGED <<live, auto, request, heap, settled, reopened>>
  BY <1>0 DEF ProcessBegin, SettleTypeOK, DrainInv
<1>2. /\ stask' \in [SettleTasks -> TaskRecord] /\ stask'[t].pc = "pass"
      /\ stask'[t].id = stask[t].id /\ stask'[t].n = 0
      /\ \A u \in SettleTasks \ {t} : stask'[u] = stask[u]
  BY <1>0, <1>1, StepEffect DEF ProcessBegin, TaskStages
<1>3. StepOf(t)  BY <1>1, <1>2 DEF StepOf
<1>4. SettleTypeOK'  BY <1>0, <1>1, <1>3, TypeKept DEF SettleTypeOK
<1>5. OnceInv'  BY <1>0, <1>1, <1>2, <1>3, OnceKept
<1>6. DrainInv'
  <2>1. Owed' = Owed  BY <1>1, <1>2 DEF Owed
  <2>2. Queued' = Queued /\ \A s \in SettleIds : Pending(s)' = Pending(s)  BY <1>1 DEF Queued, Pending
  <2>3. \A s \in SettleIds : Taken(s) => Taken(s)'  BY <1>1, <1>2 DEF Taken
  <2> QED BY <1>0, <1>1, <1>3, <2>1, <2>2, <2>3, DrainKept
<1> QED BY <1>4, <1>5, <1>6 DEF SettlementInv

\* A pass pops the best copy.  A stale one is dropped; a pending one is completed,
\* which pays for the pass.
LEMMA ProcessNextKeeps ==
    ASSUME SettlementInv, NEW t \in SettleTasks, ProcessNext(t)
    PROVE  SettlementInv'
<1>0. SettleTypeOK /\ OnceInv /\ DrainInv  BY DEF SettlementInv
<1>1. PICK c \in DOMAIN heap :
         /\ heap' = heap (-) SetToBag({c})
         /\ IF request[c.id].status = "Pending"
            THEN /\ request' = [request EXCEPT ![c.id].status = "Completed"]
                 /\ stask' = [stask EXCEPT ![t].n = @ + 1]
            ELSE UNCHANGED <<request, stask>>  BY DEF ProcessNext, BagToSet
<1> SUFFICES ASSUME NEW s, s = c.id PROVE SettlementInv'  OBVIOUS
<1>2. /\ stask[t].pc = "pass" /\ UNCHANGED <<live, auto, settled, reopened>>
      /\ stask[t] \in TaskRecord /\ stask[t].id \in SettleIds /\ stask[t].n \in Nat
      /\ s \in SettleIds /\ request[s] \in RequestRecord
      /\ heap \in [DOMAIN heap -> Nat \ {0}]
      /\ DOMAIN heap \subseteq [id : SettleIds, prio : Nat, retry : Nat]
  BY <1>0 DEF ProcessNext, SettleTypeOK, TaskRecord
<1>3. /\ DOMAIN heap' \subseteq DOMAIN heap /\ DOMAIN heap \subseteq DOMAIN heap' \cup {c}
      /\ heap' \in [DOMAIN heap' -> Nat \ {0}]
  BY <1>1, <1>2, HeapFacts
<1>4. CASE ~Pending(s)
  <2>1. request' = request /\ stask' = stask  BY <1>1, <1>4 DEF Pending
  <2>2. StepOf(t) /\ stask'[t].pc # "settle"  BY <1>0, <1>2, <2>1 DEF StepOf, SettleTypeOK, DrainInv
  <2>3. SettleTypeOK'  BY <1>0, <1>2, <1>3, <2>1 DEF SettleTypeOK
  <2>4. OnceInv'  BY <1>0, <1>2, <2>2, OnceKept
  <2>5. Owed' = Owed /\ \A z \in SettleIds : Taken(z)' = Taken(z) /\ Pending(z)' = Pending(z)
    BY <2>1 DEF Owed, Taken, Pending
  <2>6. Queued' = Queued  BY <1>3, <1>4, <2>1 DEF Queued, Pending
  <2>7. DrainInv'  BY <1>0, <1>2, <2>2, <2>5, <2>6, DrainKept
  <2> QED BY <2>3, <2>4, <2>7 DEF SettlementInv
<1>5. CASE Pending(s)
  <2>1. /\ request' = [request EXCEPT ![s].status = "Completed"]
        /\ stask' = [stask EXCEPT ![t].n = @ + 1]
    BY <1>1, <1>5 DEF Pending
  <2>2. /\ request' \in [SettleIds -> RequestRecord] /\ ~Pending(s)'
        /\ \A z \in SettleIds \ {s} : request'[z] = request[z]
    BY <1>0, <1>2, <2>1 DEF SettleTypeOK, RequestRecord, Pending
  <2>3. /\ stask' \in [SettleTasks -> TaskRecord]
        /\ stask'[t].pc = "pass" /\ stask'[t].id = stask[t].id /\ stask'[t].n = stask[t].n + 1
        /\ \A u \in SettleTasks \ {t} : stask'[u] = stask[u]
    BY <1>0, <1>2, <2>1 DEF SettleTypeOK, TaskRecord
  <2>4. StepOf(t)  BY <1>2, <2>3 DEF StepOf
  <2>5. SettleTypeOK'  BY <1>0, <1>2, <1>3, <2>2, <2>4, TypeKept DEF SettleTypeOK
  <2>6. OnceInv'  BY <1>0, <1>2, <2>3, <2>4, OnceKept
  <2>7. s \in Queued /\ Queued' = Queued \ {s}
    <3>1. s \in Queued  BY <1>2, <1>5 DEF Queued
    <3>2. ASSUME NEW z \in SettleIds, z # s PROVE z \in Queued' <=> z \in Queued
      BY <1>3, <2>2, <3>2 DEF Queued, Pending
    <3>3. s \notin Queued' /\ Queued \subseteq SettleIds /\ Queued' \subseteq SettleIds  BY <2>2 DEF Queued
    <3> QED BY <3>1, <3>2, <3>3
  <2>8. Owed' = Owed \ {t}  BY <1>2, <2>3 DEF Owed
  <2>9. IsFiniteSet(Queued) /\ IsFiniteSet(Owed)  BY <1>0 DEF DrainInv
  <2>10. /\ IsFiniteSet(Queued') /\ Cardinality(Queued') = Cardinality(Queued) - 1
         /\ IsFiniteSet(Owed')
         /\ Cardinality(Owed') \in {Cardinality(Owed), Cardinality(Owed) - 1}
    BY <2>7, <2>8, <2>9, FS_RemoveElement
  <2>11. Cardinality(Queued) \in Nat /\ Cardinality(Owed) \in Nat  BY <2>9, FS_CardinalityType
  <2>12. ~reopened' /\ auto' => Cardinality(Queued') <= Cardinality(Owed')  BY <1>0, <1>2, <2>10, <2>11 DEF DrainInv
  <2>13. ~reopened' => \A z \in SettleIds : Pending(z)' => z \in Queued' \/ Taken(z)'
    <3>1. \A z \in SettleIds : Pending(z)' => z # s /\ Pending(z)  BY <2>2 DEF Pending
    <3>2. \A z \in SettleIds : Taken(z) => Taken(z)'  BY <1>2, <2>3 DEF Taken
    <3> QED BY <1>0, <1>2, <2>7, <3>1, <3>2 DEF DrainInv
  <2>14. \A u \in SettleTasks : stask'[u].pc \notin {"out", "pass"} => stask'[u].n = 0
    BY <1>0, <2>4 DEF StepOf, DrainInv
  <2>15. DrainInv'  BY <2>10, <2>12, <2>13, <2>14 DEF DrainInv
  <2> QED BY <2>5, <2>6, <2>15 DEF SettlementInv
<1> QED BY <1>4, <1>5

\* A pass ends when it has completed its batch, or when the heap is empty.
LEMMA ProcessEndKeeps ==
    ASSUME SettlementInv, NEW t \in SettleTasks, ProcessEnd(t)
    PROVE  SettlementInv'
<1>0. SettleTypeOK /\ OnceInv /\ DrainInv  BY DEF SettlementInv
<1>1. /\ stask[t].pc = "pass" /\ (stask[t].n = SettleBatch \/ heap = EmptyBag)
      /\ UNCHANGED <<live, auto, request, heap, settled, reopened>>
  BY DEF ProcessEnd
<1>2. /\ stask' \in [SettleTasks -> TaskRecord] /\ stask'[t].pc = "out"
      /\ \A u \in SettleTasks \ {t} : stask'[u] = stask[u]
  BY <1>0, ReturnEffect DEF ProcessEnd
<1>3. StepOf(t)  BY <1>1, <1>2 DEF StepOf
<1>4. SettleTypeOK'  BY <1>0, <1>1, <1>3, TypeKept DEF SettleTypeOK
<1>5. OnceInv'  BY <1>0, <1>1, <1>2, <1>3, OnceKept
<1>6. Queued' = Queued /\ \A s \in SettleIds : Pending(s)' = Pending(s)  BY <1>1 DEF Queued, Pending
<1>7. \A s \in SettleIds : Taken(s) => Taken(s)'  BY <1>1, <1>2 DEF Taken
<1>8. CASE stask[t].n = SettleBatch
  <2>1. Owed' = Owed  BY <1>1, <1>2, <1>8, SettleAssumption DEF Owed
  <2>2. DrainInv'  BY <1>0, <1>1, <1>3, <1>6, <1>7, <2>1, DrainKept
  <2> QED BY <1>4, <1>5, <2>2 DEF SettlementInv
<1>9. CASE heap = EmptyBag
  <2>1. Queued' = {}
    <3>1. DOMAIN heap = {}  BY <1>0, <1>9, HeapFacts DEF SettleTypeOK
    <3> QED BY <1>6, <3>1 DEF Queued
  <2>2. IsFiniteSet(Owed') /\ IsFiniteSet(Queued') /\ Cardinality(Queued') = 0
    <3>1. Owed' = Owed \ {t}  BY <1>1, <1>2 DEF Owed
    <3> QED BY <1>0, <2>1, <3>1, FS_EmptySet, FS_RemoveElement DEF DrainInv
  <2>3. Cardinality(Queued') <= Cardinality(Owed')  BY <2>2, FS_CardinalityType
  <2>4. \A u \in SettleTasks : stask'[u].pc \notin {"out", "pass"} => stask'[u].n = 0
    BY <1>0, <1>3 DEF StepOf, DrainInv
  <2>5. ~reopened' => \A s \in SettleIds : Pending(s)' => s \in Queued' \/ Taken(s)'
    BY <1>0, <1>1, <1>6, <1>7 DEF DrainInv
  <2>6. DrainInv'  BY <2>2, <2>3, <2>4, <2>5 DEF DrainInv
  <2> QED BY <1>4, <1>5, <2>6 DEF SettlementInv
<1> QED BY <1>1, <1>8, <1>9

\* A worker takes a pending request, whose copy leaves the heap with the stale
\* copies above it.
LEMMA GetNextKeeps ==
    ASSUME SettlementInv, NEW t \in SettleTasks, GetNextSettlement(t)
    PROVE  SettlementInv'
<1>0. SettleTypeOK /\ OnceInv /\ DrainInv  BY DEF SettlementInv
<1>1. PICK c \in DOMAIN heap :
         /\ request[c.id].status = "Pending" /\ Start(t, stask[t].s, c.id, "worker")
         /\ heap' = LET gone == {d \in BagToSet(heap) : request[d.id].status # "Pending"
                                 /\ (d.prio > c.prio \/ (d.prio = c.prio /\ d.retry < c.retry))}
                    IN [d \in BagToSet(heap) \ gone |-> heap[d]] (-) SetToBag({c})  BY DEF GetNextSettlement, BagToSet
<1> SUFFICES ASSUME NEW s, s = c.id PROVE SettlementInv'  OBVIOUS
<1> DEFINE gone == {d \in DOMAIN heap : request[d.id].status # "Pending"
                      /\ (d.prio > c.prio \/ (d.prio = c.prio /\ d.retry < c.retry))}
           B == [d \in DOMAIN heap \ gone |-> heap[d]]
<1>2. /\ UNCHANGED <<live, auto, request, settled, reopened>>
      /\ s \in SettleIds /\ Pending(s) /\ stask[t].s \in SettleSessions \cup {SomeSession}
      /\ heap \in [DOMAIN heap -> Nat \ {0}]
      /\ DOMAIN heap \subseteq [id : SettleIds, prio : Nat, retry : Nat]
  BY <1>0, <1>1 DEF GetNextSettlement, SettleTypeOK, Pending, TaskRecord
<1>3. /\ stask' \in [SettleTasks -> TaskRecord] /\ stask[t].pc = "out"
      /\ stask'[t].pc = "worker" /\ stask'[t].id = s /\ stask'[t].n = 0
      /\ \A u \in SettleTasks \ {t} : stask'[u] = stask[u]
  BY <1>0, <1>1, <1>2, StartEffect DEF TaskStages
<1>4. StepOf(t)  BY <1>2, <1>3 DEF StepOf
<1>5. /\ DOMAIN heap' \subseteq DOMAIN heap /\ heap' \in [DOMAIN heap' -> Nat \ {0}]
      /\ \A d \in DOMAIN heap : request[d.id].status = "Pending" => d \in DOMAIN heap' \/ d = c
  <2>1. DOMAIN B = DOMAIN heap \ gone /\ B \in [DOMAIN B -> Nat \ {0}]  BY <1>2
  <2>2. heap' = B (-) SetToBag({c})  BY <1>1 DEF BagToSet
  <2>3. \A d \in DOMAIN heap : request[d.id].status = "Pending" => d \notin gone  OBVIOUS
  <2> HIDE DEF B, gone
  <2>4. /\ DOMAIN heap' \subseteq DOMAIN B /\ DOMAIN B \subseteq DOMAIN heap' \cup {c}
        /\ heap' \in [DOMAIN heap' -> Nat \ {0}]
    BY <2>1, <2>2, HeapFacts
  <2> QED BY <2>1, <2>3, <2>4
<1>6. SettleTypeOK'  BY <1>0, <1>2, <1>4, <1>5, TypeKept DEF SettleTypeOK
<1>7. OnceInv'  BY <1>0, <1>2, <1>3, <1>4, OnceKept
<1>8. DrainInv'
  <2>1. Owed' = Owed  BY <1>3 DEF Owed
  <2>2. Queued' \subseteq Queued /\ \A z \in SettleIds : Pending(z)' = Pending(z)  BY <1>2, <1>5 DEF Queued, Pending
  <2>3. Taken(s)' /\ \A z \in SettleIds : Taken(z) => Taken(z)'  BY <1>3 DEF Taken
  <2>4. \A z \in SettleIds : z \in Queued => z \in Queued' \/ z = s  BY <1>2, <1>5 DEF Queued, Pending
  <2> QED BY <1>0, <1>2, <1>4, <2>1, <2>2, <2>3, <2>4, DrainKept
<1> QED BY <1>6, <1>7, <1>8 DEF SettlementInv

\* A request is rewritten for another try.
LEMMA RetryRecord ==
    ASSUME NEW q \in RequestRecord, NEW n \in Nat
    PROVE  [q EXCEPT !.status = "Pending", !.retry = n] \in RequestRecord  BY DEF RequestRecord

\* A worker reports back.  Unless it gives the request back, the request is no
\* longer pending, or was removed meanwhile.
LEMMA WorkerKeeps ==
    ASSUME SettlementInv, NEW t \in SettleTasks,
           \/ ResetForRetry(t)
           \/ \E status \in {"Completed", "Failed", "Pending"} : UpdateSettlement(t, status)
    PROVE  SettlementInv'
<1>0. SettleTypeOK /\ OnceInv /\ DrainInv  BY DEF SettlementInv
<1> SUFFICES ASSUME NEW s, s = stask[t].id PROVE SettlementInv'  OBVIOUS
<1>1. /\ stask[t].pc = "worker" /\ s \in SettleIds /\ Return(t)
      /\ UNCHANGED <<live, auto, settled>>
      /\ request \in [SettleIds -> RequestRecord] /\ request[s] \in RequestRecord
  BY <1>0 DEF ResetForRetry, UpdateSettlement, SettleTypeOK
<1>2. /\ stask' \in [SettleTasks -> TaskRecord] /\ stask'[t].pc = "out"
      /\ \A u \in SettleTasks \ {t} : stask'[u] = stask[u]
  BY <1>0, <1>1, ReturnEffect
<1>3. StepOf(t)  BY <1>2 DEF StepOf
<1>4. /\ \/ UNCHANGED <<request, heap>>
         \/ \E r \in RequestRecord : Add(s, r) /\ (r.status = "Pending" => reopened')
      /\ Pending(s)' => reopened'
      /\ ~reopened' => ~reopened /\ UNCHANGED heap
      /\ reopened' \in BOOLEAN
  <2>1. CASE request[s] = NoRequest
    <3>1. UNCHANGED <<request, heap>>  BY <2>1 DEF ResetForRetry, UpdateSettlement
    <3>2. ~Pending(s)'  BY <2>1, <3>1 DEF Pending, NoRequest
    <3>3. ~reopened' => ~reopened  BY DEF ResetForRetry, UpdateSettlement
    <3>4. reopened' \in BOOLEAN  BY <1>0 DEF ResetForRetry, UpdateSettlement, SettleTypeOK
    <3> QED BY <3>1, <3>2, <3>3, <3>4
  <2>2. ASSUME request[s] # NoRequest, ResetForRetry(t)
        PROVE  /\ reopened' = TRUE
               /\ \E r \in RequestRecord : Add(s, r)
    <3> DEFINE r == [request[s] EXCEPT !.status = "Pending", !.retry = @ + 1]
    <3>1. r \in RequestRecord
      <4>1. request[s].retry + 1 \in Nat  BY <1>1 DEF RequestRecord
      <4> DEFINE n == request[s].retry + 1
      <4>2. r = [request[s] EXCEPT !.status = "Pending", !.retry = n]  BY <1>1 DEF RequestRecord
      <4> HIDE DEF n, r
      <4>3. n \in Nat  BY <4>1 DEF n
      <4> QED BY <1>1, <4>2, <4>3, RetryRecord
    <3> HIDE DEF r
    <3>2. Add(s, r)  BY <2>2 DEF ResetForRetry, r
    <3> QED BY <2>2, <3>1, <3>2 DEF ResetForRetry
  <2>3. ASSUME request[s] # NoRequest, NEW status \in {"Completed", "Failed", "Pending"},
               UpdateSettlement(t, status)
        PROVE  /\ reopened' = (reopened \/ status = "Pending")
               /\ \E r \in RequestRecord : Add(s, r) /\ r.status = status
    <3> DEFINE r == [request[s] EXCEPT !.status = status]
    <3>1. r \in RequestRecord /\ r.status = status  BY <1>1 DEF RequestRecord
    <3> HIDE DEF r
    <3>2. Add(s, r)  BY <2>3 DEF UpdateSettlement, r
    <3> QED BY <2>3, <3>1, <3>2 DEF UpdateSettlement
  <2>4. \A r \in RequestRecord : Add(s, r) =>
            /\ Pending(s)' => r.status = "Pending"
            /\ r.status # "Pending" => UNCHANGED heap
    <3> SUFFICES ASSUME NEW r \in RequestRecord, Add(s, r)
                 PROVE  /\ Pending(s)' => r.status = "Pending"
                        /\ r.status # "Pending" => UNCHANGED heap
      OBVIOUS
    <3>0. SettleTypeOK /\ s \in SettleIds  BY <1>0, <1>1
    <3>1. request'[s] = r /\ (r.status # "Pending" => heap' = heap)
      BY ONLY <3>0, Add(s, r), r \in RequestRecord, AddEffect
    <3> QED BY <3>1 DEF Pending
  <2>5. reopened \in BOOLEAN  BY <1>0 DEF SettleTypeOK
  <2> QED BY <2>1, <2>2, <2>3, <2>4, <2>5
<1>5. /\ request' \in [SettleIds -> RequestRecord]
      /\ \A z \in SettleIds \ {s} : request'[z] = request[z]
      /\ heap' \in [DOMAIN heap' -> Nat \ {0}]
      /\ DOMAIN heap' \subseteq [id : SettleIds, prio : Nat, retry : Nat]
      /\ Queued' \subseteq Queued \cup {s}
  <2>1. CASE UNCHANGED <<request, heap>>  BY <1>0, <2>1 DEF SettleTypeOK, Queued, Pending
  <2>2. ASSUME NEW r \in RequestRecord, Add(s, r)
        PROVE  /\ request' \in [SettleIds -> RequestRecord]
               /\ \A z \in SettleIds \ {s} : request'[z] = request[z]
               /\ heap' \in [DOMAIN heap' -> Nat \ {0}]
               /\ DOMAIN heap' \subseteq [id : SettleIds, prio : Nat, retry : Nat]
               /\ \A c \in DOMAIN heap' : c \in DOMAIN heap \/ c.id = s
    <3>1. /\ r.status = "Pending" => DOMAIN heap' = DOMAIN heap \cup {Copy(s, r)}
          /\ r.status # "Pending" => heap' = heap
          /\ Copy(s, r).id = s
      BY <1>0, <1>1, <2>2, AddEffect
    <3>2. \A c \in DOMAIN heap' : c \in DOMAIN heap \/ c.id = s  BY <3>1
    <3>3. /\ request' \in [SettleIds -> RequestRecord]
          /\ \A z \in SettleIds \ {s} : request'[z] = request[z]
          /\ heap' \in [DOMAIN heap' -> Nat \ {0}]
          /\ DOMAIN heap' \subseteq [id : SettleIds, prio : Nat, retry : Nat]
      BY <1>0, <1>1, <2>2, AddEffect
    <3> QED BY <3>2, <3>3
  <2>3. ASSUME NEW r \in RequestRecord, Add(s, r)
        PROVE  Queued' \subseteq Queued \cup {s}  BY <2>2, <2>3 DEF Queued, Pending
  <2> QED BY <1>4, <2>1, <2>2, <2>3
<1>6. SettleTypeOK'  BY <1>0, <1>1, <1>3, <1>4, <1>5, TypeKept DEF SettleTypeOK
<1>7. OnceInv'  BY <1>0, <1>1, <1>2, <1>3, OnceKept
<1>8. DrainInv'
  <2>1. Owed' = Owed  BY <1>1, <1>2 DEF Owed
  <2>2. CASE ~reopened'
    <3>1. ~Pending(s)' /\ UNCHANGED heap  BY <1>4, <2>2
    <3>2. /\ Queued' = Queued \ {s}
          /\ \A z \in SettleIds : Pending(z)' => z # s /\ Pending(z)
      BY <1>1, <1>5, <3>1, Unqueued
    <3>3. \A z \in SettleIds : z # s /\ Taken(z) => Taken(z)'  BY <1>1, <1>2 DEF Taken
    <3>4. /\ Queued' \subseteq Queued /\ (~reopened' => ~reopened)
          /\ \A z \in SettleIds : Pending(z)' =>
                /\ Pending(z)
                /\ z \in Queued => z \in Queued' \/ Taken(z)'
                /\ Taken(z) => Taken(z)'
      BY <1>4, <3>2, <3>3
    <3> QED BY <1>0, <1>1, <1>3, <2>1, <3>4, DrainKept
  <2>3. CASE reopened'
    <3>1. IsFiniteSet(Queued \cup {s})  BY <1>0, FS_AddElement DEF DrainInv
    <3>2. IsFiniteSet(Queued')  BY <1>5, <3>1, FS_Subset
    <3>3. \A u \in SettleTasks : stask'[u].pc \notin {"out", "pass"} => stask'[u].n = 0
      BY <1>0, <1>3 DEF StepOf, DrainInv
    <3> QED BY <1>0, <2>1, <2>3, <3>2, <3>3 DEF DrainInv
  <2> QED BY <1>4, <2>2, <2>3
<1> QED BY <1>6, <1>7, <1>8 DEF SettlementInv

-----------------------------------------------------------------------------
(* The theorems *)

LEMMA SettlementInvInit == SettleInit => SettlementInv
<1> SUFFICES ASSUME SettleInit PROVE SettlementInv  OBVIOUS
<1>1. /\ stask \in [SettleTasks -> TaskRecord]
      /\ \A t \in SettleTasks : stask[t].pc = "out" /\ stask[t].n = 0
  BY IdleRecord DEF SettleInit
<1>2. DOMAIN heap = {} /\ heap \in [DOMAIN heap -> Nat \ {0}]  BY DEF SettleInit, EmptyBag, SetToBag
<1>3. NoRequest \in RequestRecord /\ \A s \in SettleIds : ~Pending(s)
  BY DEF SettleInit, NoRequest, RequestRecord, Pending
<1>4. SettleTypeOK  BY <1>1, <1>2, <1>3 DEF SettleInit, SettleTypeOK
<1>5. OnceInv
  <2> SUFFICES ASSUME NEW i \in SettleIds
               PROVE  settled[i] + Cardinality(Settling(i)) <= Cardinality(Destroyed(i))  BY DEF OnceInv
  <2>1. Settling(i) = {} /\ settled[i] = 0  BY <1>1 DEF Settling, SettleInit
  <2> QED BY <2>1, SettleFinite, FS_EmptySet
<1>6. Queued = {} /\ Owed = {}  BY <1>1, <1>3 DEF Queued, Owed
<1>7. DrainInv
  <2>1. IsFiniteSet({}) /\ Cardinality({}) = 0  BY FS_EmptySet
  <2> QED BY <1>1, <1>3, <1>6, <2>1 DEF DrainInv
<1> QED BY <1>4, <1>5, <1>7 DEF SettlementInv

LEMMA SettlementInvNext ==
    ASSUME SettlementInv, [SettleNext]_settleVars
    PROVE  SettlementInv'
<1>1. ASSUME NEW t \in SettleTasks, SettleStep(t)
      PROVE  SettlementInv'  BY <1>1, LookUpKeeps, DisconnectKeeps, SettleSessionKeeps, QueueKeeps, DropKeeps,
     ProcessBeginKeeps, ProcessNextKeeps, ProcessEndKeeps, GetNextKeeps, WorkerKeeps
  DEF SettleStep
<1>2. CASE UNCHANGED settleVars  BY <1>2 DEF settleVars, SettlementInv, SettleTypeOK, OnceInv, Settling, Destroyed,
              DrainInv, Queued, Owed, Taken, Pending
<1> QED BY <1>1, <1>2 DEF SettleNext

\* The inductive invariant holds of every behaviour of the settlement tasks.
THEOREM SettlementInvariant == SettleSpec => []SettlementInv
  BY SettlementInvInit, SettlementInvNext, PTL DEF SettleSpec

\* However many disconnects of a session are handled at once, handle_disconnect of
\* the DisconnectHandler settles an id no more often than it destroyed sessions whose
\* names parse to it.
THEOREM SessionsSettledOnce == SettleSpec => []SettledOnce
<1>1. SettlementInv => SettledOnce  BY SettleFinite DEF SettlementInv, OnceInv, SettledOnce, SettleTypeOK
<1> QED BY <1>1, SettlementInvariant, PTL

\* When every disconnect has returned, process_settlement_queue has left no request
\* pending if auto settlement is enabled, for any number of tasks and any batch size,
\* unless a worker gave a request back; if it is disabled, each pending request still
\* has a copy in the heap.
THEOREM QueueIsDrained == SettleSpec => []SettlementsDrained
<1>1. SettlementInv => SettlementsDrained
  <2> SUFFICES ASSUME SettlementInv, ~reopened, \A t \in SettleTasks : stask[t].pc = "out",
                      NEW s \in SettleIds, Pending(s)
               PROVE  ~auto /\ \E c \in BagToSet(heap) : c.id = s  BY DEF SettlementsDrained, Pending
  <2>1. Owed = {} /\ ~Taken(s)  BY DEF Owed, Taken
  <2>2. s \in Queued /\ IsFiniteSet(Queued)  BY <2>1 DEF SettlementInv, DrainInv
  <2>3. ~auto
    <3>1. Cardinality(Queued) \in Nat /\ Cardinality(Owed) = 0 /\ Cardinality(Queued) # 0
      BY <2>1, <2>2, FS_EmptySet, FS_CardinalityType
    <3> QED BY <3>1 DEF SettlementInv, DrainInv
  <2> QED BY <2>2, <2>3 DEF Queued, BagToSet
<1> QED BY <1>1, SettlementInvariant, PTL
-----------------------------------------------------------------------------
(* The packaged results: the lock of the data is held until the metadata   *)
(* are written.                                                            *)

PackTask == [pc : {"idle", "meta", "unlist"}, job : RecJobs \cup {NoOutput}, out : Outputs \cup {NoOutput}]

PackedFields ==
    [path : [RecJobs -> Outputs \cup {NoOutput}], cids : SUBSET Outputs, meta : [RecJobs -> Outputs \cup {NoOutput}],
     lock : RecTasks \cup {NoOutput}, task : [RecTasks -> PackTask], ops : Nat]

\* A task between its two writes has the lock; the others wait.
PackLocked(s) == \A t \in RecTasks : s.task[t].pc # "idle" => s.lock = t /\ t # NoOutput /\ s.task[t].job \in RecJobs

\* Only the job of the task that has the lock may differ.
PackAgrees(s) ==
    \A j \in RecJobs :
        \/ s.meta[j] # NoOutput => s.path[j] = s.meta[j] /\ s.meta[j] \in s.cids
        \/ \E t \in RecTasks : s.task[t].pc # "idle" /\ s.task[t].job = j

PackWritten(s) ==
    \A t \in RecTasks : s.task[t].pc = "meta" => /\ s.path[s.task[t].job] = s.task[t].out
                                                 /\ s.task[t].out \in s.cids

PackOK(s) == s \in PackedFields /\ PackLocked(s) /\ PackAgrees(s) /\ PackWritten(s)

LEMMA PackInitial == ASSUME RecInit PROVE PackOK(packed)
<1>1. packed \in PackedFields  BY DEF RecInit, PackedFields, PackTask
<1>2. PackLocked(packed) /\ PackAgrees(packed) /\ PackWritten(packed)
  BY DEF RecInit, PackLocked, PackAgrees, PackWritten
<1> QED BY <1>1, <1>2 DEF PackOK

LEMMA PackFieldsOf ==
    ASSUME NEW s, s \in PackedFields
    PROVE  /\ s.path \in [RecJobs -> Outputs \cup {NoOutput}] /\ s.cids \in SUBSET Outputs
           /\ s.meta \in [RecJobs -> Outputs \cup {NoOutput}] /\ s.lock \in RecTasks \cup {NoOutput}
           /\ s.task \in [RecTasks -> PackTask] /\ s.ops \in Nat
  BY DEF PackedFields

\* A task takes the lock and writes the data of a job.
LEMMA PackTakes ==
    ASSUME PackOK(packed), NEW t \in RecTasks, NEW j \in RecJobs, packed.lock = NoOutput,
           packed' \in PackedFields, packed'.lock = t, packed'.meta = packed.meta, packed.cids \subseteq packed'.cids,
           \A i \in RecJobs : i # j => packed'.path[i] = packed.path[i],
           \A u \in RecTasks : u # t => packed'.task[u] = packed.task[u],
           packed'.task[t].pc # "idle", packed'.task[t].job = j,
           packed'.task[t].pc = "meta" => packed'.task[t].out = packed'.path[j] /\ packed'.path[j] \in packed'.cids
    PROVE  PackOK(packed')
<1>1. PackLocked(packed) /\ PackAgrees(packed) /\ t # NoOutput  BY RecAssumption DEF PackOK, NoOutput
<1>2. \A u \in RecTasks : packed.task[u].pc = "idle"  BY <1>1 DEF PackLocked
<1>3. \A i \in RecJobs : packed.meta[i] # NoOutput => packed.path[i] = packed.meta[i] /\ packed.meta[i] \in packed.cids
  BY <1>1, <1>2 DEF PackAgrees
<1>4. PackLocked(packed')  BY <1>1, <1>2 DEF PackLocked
<1>5. PackAgrees(packed')  BY <1>3 DEF PackAgrees
<1>6. PackWritten(packed')  BY <1>2 DEF PackWritten
<1> QED BY <1>4, <1>5, <1>6 DEF PackOK

\* The fields after a task took the lock for a job.
PackedBy(t, j, p, c, r) ==
    [packed EXCEPT !.path[j] = p, !.cids = c, !.lock = t, !.ops = @ + 1, !.task[t] = r]

LEMMA PackWrites ==
    ASSUME packed \in PackedFields, NEW t \in RecTasks, NEW j \in RecJobs, NEW p \in Outputs \cup {NoOutput},
           NEW c \in SUBSET Outputs, NEW r \in PackTask,
           packed' = PackedBy(t, j, p, c, r)
    PROVE  /\ packed' \in PackedFields /\ packed'.lock = t /\ packed'.meta = packed.meta /\ packed'.cids = c
           /\ packed'.path[j] = p /\ packed'.task[t] = r
           /\ \A i \in RecJobs : i # j => packed'.path[i] = packed.path[i]
           /\ \A u \in RecTasks : u # t => packed'.task[u] = packed.task[u]
<1> DEFINE f == [packed.path EXCEPT ![j] = p]
           g == [packed.task EXCEPT ![t] = r]
           n == packed.ops + 1
<1>1. packed' = [packed EXCEPT !.path = f, !.cids = c, !.lock = t, !.ops = n, !.task = g]  BY DEF PackedFields, PackedBy
<1>2. f \in [RecJobs -> Outputs \cup {NoOutput}] /\ f[j] = p /\ \A i \in RecJobs : i # j => f[i] = packed.path[i]
  BY PackFieldsOf
<1>3. g \in [RecTasks -> PackTask] /\ g[t] = r /\ \A u \in RecTasks : u # t => g[u] = packed.task[u]  BY PackFieldsOf
<1>4. n \in Nat  BY PackFieldsOf
<1> HIDE DEF f, g, n
<1>5. packed' \in PackedFields  BY <1>1, <1>2, <1>3, <1>4 DEF PackedFields
<1>6. packed'.path = f /\ packed'.cids = c /\ packed'.lock = t /\ packed'.task = g /\ packed'.meta = packed.meta
  BY <1>1 DEF PackedFields
<1> QED BY <1>2, <1>3, <1>5, <1>6

\* The task that has the lock writes the metadata and lets go.
LEMMA PackLetsGo ==
    ASSUME PackOK(packed), NEW t \in RecTasks, packed.task[t].pc # "idle", NEW m \in Outputs \cup {NoOutput},
           m # NoOutput => m = packed.path[packed.task[t].job] /\ m \in packed.cids,
           packed' = [packed EXCEPT !.meta[packed.task[t].job] = m, !.lock = NoOutput,
                                    !.task[t] = [pc |-> "idle", job |-> NoOutput, out |-> NoOutput]]
    PROVE  PackOK(packed')
<1> DEFINE j == packed.task[t].job
           r == [pc |-> "idle", job |-> NoOutput, out |-> NoOutput]
           f == [packed.meta EXCEPT ![j] = m]
           g == [packed.task EXCEPT ![t] = r]
<1>1. packed \in PackedFields /\ PackLocked(packed) /\ PackAgrees(packed) /\ PackWritten(packed)  BY DEF PackOK
<1>2. packed' = [packed EXCEPT !.meta = f, !.lock = NoOutput, !.task = g]  BY <1>1 DEF PackedFields
<1>3. j \in RecJobs /\ packed.lock = t /\ \A u \in RecTasks : u # t => packed.task[u].pc = "idle"
  BY <1>1 DEF PackLocked
<1>4. r \in PackTask /\ r.pc = "idle"  BY DEF PackTask
<1>5. \A i \in RecJobs : i # j => (packed.meta[i] # NoOutput => packed.path[i] = packed.meta[i] /\ packed.meta[i] \in packed.cids)
  BY <1>1, <1>3 DEF PackAgrees
<1> HIDE DEF j, r
<1>6. f \in [RecJobs -> Outputs \cup {NoOutput}] /\ f[j] = m /\ \A i \in RecJobs : i # j => f[i] = packed.meta[i]
  BY <1>1, <1>3, PackFieldsOf
<1>7. g \in [RecTasks -> PackTask] /\ g[t] = r /\ \A u \in RecTasks : u # t => g[u] = packed.task[u]
  BY <1>1, <1>4, PackFieldsOf
<1> HIDE DEF f, g
<1>8. packed' \in PackedFields  BY <1>1, <1>2, <1>6, <1>7 DEF PackedFields
<1>9. packed'.path = packed.path /\ packed'.cids = packed.cids /\ packed'.lock = NoOutput /\ packed'.task = g /\ packed'.meta = f
  BY <1>1, <1>2 DEF PackedFields
<1>10. PackLocked(packed') /\ PackWritten(packed')  BY <1>3, <1>4, <1>7, <1>9 DEF PackLocked, PackWritten
<1>11. PackAgrees(packed')  BY <1>5, <1>6, <1>9 DEF PackAgrees, j
<1> QED BY <1>8, <1>10, <1>11 DEF PackOK

LEMMA PackSteps == ASSUME PackOK(packed), PackNext PROVE PackOK(packed')
<1>1. packed \in PackedFields /\ PackLocked(packed) /\ PackWritten(packed) /\ NoOutput \notin Outputs
  BY RecAssumption DEF PackOK, NoOutput
<1>2. ASSUME NEW t \in RecTasks, NEW j \in RecJobs, NEW o \in Outputs, StoreData(t, j, o) PROVE PackOK(packed')
  <2> DEFINE c == packed.cids \cup {o}
             r == [pc |-> "meta", job |-> j, out |-> o]
  <2>1. /\ packed.lock = NoOutput
        /\ packed' = [packed EXCEPT !.path[j] = o, !.cids = @ \cup {o}, !.lock = t, !.ops = @ + 1, !.task[t] = r]
    BY <1>2 DEF StoreData, PackOp, PackStep, DataLock
  <2>2. packed' = PackedBy(t, j, o, c, r)  BY <1>1, <2>1 DEF PackedFields, PackedBy
  <2>3. r \in PackTask /\ r.pc = "meta" /\ r.job = j /\ r.out = o /\ o \in Outputs \cup {NoOutput}  BY DEF PackTask
  <2>4. c \in SUBSET Outputs /\ packed.cids \subseteq c /\ o \in c  BY <1>1, PackFieldsOf
  <2> HIDE DEF c, r
  <2>5. /\ packed' \in PackedFields /\ packed'.lock = t /\ packed'.meta = packed.meta /\ packed'.cids = c
        /\ packed'.path[j] = o /\ packed'.task[t] = r
        /\ \A i \in RecJobs : i # j => packed'.path[i] = packed.path[i]
        /\ \A u \in RecTasks : u # t => packed'.task[u] = packed.task[u]
    BY ONLY <1>1, t \in RecTasks, j \in RecJobs, <2>2, <2>3, <2>4, PackWrites
  <2> QED BY <2>1, <2>3, <2>4, <2>5, PackTakes
<1>3. ASSUME NEW t \in RecTasks, NEW j \in RecJobs, DeleteData(t, j) PROVE PackOK(packed')
  <2> DEFINE c == packed.cids
             r == [pc |-> "unlist", job |-> j, out |-> NoOutput]
  <2>1. /\ packed.lock = NoOutput
        /\ packed' = [packed EXCEPT !.path[j] = NoOutput, !.lock = t, !.ops = @ + 1, !.task[t] = r]
    BY <1>3 DEF DeleteData, PackOp, PackStep, DataLock
  <2>2. packed' = PackedBy(t, j, NoOutput, c, r)  BY <1>1, <2>1 DEF PackedFields, PackedBy
  <2>3. r \in PackTask /\ r.pc = "unlist" /\ r.job = j /\ NoOutput \in Outputs \cup {NoOutput}  BY DEF PackTask
  <2>4. c \in SUBSET Outputs /\ packed.cids \subseteq c  BY <1>1, PackFieldsOf
  <2> HIDE DEF c, r
  <2>5. /\ packed' \in PackedFields /\ packed'.lock = t /\ packed'.meta = packed.meta /\ packed'.cids = c
        /\ packed'.path[j] = NoOutput /\ packed'.task[t] = r
        /\ \A i \in RecJobs : i # j => packed'.path[i] = packed.path[i]
        /\ \A u \in RecTasks : u # t => packed'.task[u] = packed.task[u]
    BY ONLY <1>1, t \in RecTasks, j \in RecJobs, <2>2, <2>3, <2>4, PackWrites
  <2> QED BY <2>1, <2>3, <2>4, <2>5, PackTakes
<1>4. ASSUME NEW t \in RecTasks, StoreMetadata(t) PROVE PackOK(packed')
  <2>1. packed.task[t].pc = "meta" /\ packed' = [packed EXCEPT !.meta[packed.task[t].job] = packed.task[t].out,
            !.lock = NoOutput, !.task[t] = [pc |-> "idle", job |-> NoOutput, out |-> NoOutput]]
    BY <1>4 DEF StoreMetadata, PackStep
  <2>2. packed.task[t].out = packed.path[packed.task[t].job] /\ packed.task[t].out \in packed.cids
        /\ packed.task[t].out \in Outputs \cup {NoOutput}
    BY <1>1, <2>1, PackFieldsOf DEF PackWritten, PackTask
  <2> QED BY <2>1, <2>2, PackLetsGo
<1>5. ASSUME NEW t \in RecTasks, DeleteMetadata(t) PROVE PackOK(packed')
  <2>1. packed.task[t].pc = "unlist" /\ packed' = [packed EXCEPT !.meta[packed.task[t].job] = NoOutput,
            !.lock = NoOutput, !.task[t] = [pc |-> "idle", job |-> NoOutput, out |-> NoOutput]]
    BY <1>5 DEF DeleteMetadata, PackStep
  <2> QED BY <2>1, PackLetsGo
<1> QED BY <1>2, <1>3, <1>4, <1>5 DEF PackNext

LEMMA PackSafe == PackOK(packed) => NamedResultIsStored  BY DEF PackOK, PackLocked, PackAgrees, NamedResultIsStored

-----------------------------------------------------------------------------
(* Revenue: what is still to be written by job is counted with it.         *)

RevenueEntry == [gross : Nat, bonus : Nat, fees : Nat, net : Nat]
RevenueFields ==
    [history : Seq(RevenueEntry), byJob : [RecJobs -> Nat], late : [RecTasks -> {<<>>} \cup (RecJobs \X Nat)]]

Balanced(r) == (r.net > 0 => r.net + r.fees = r.gross + r.bonus) /\ (r.net = 0 => r.fees >= r.gross + r.bonus)
LateNet(s) == [t \in RecTasks |-> IF s.late[t] = <<>> THEN 0 ELSE s.late[t][2]]
NetsOf(s) == [i \in DOMAIN s.history |-> s.history[i].net]

RevOK(s) ==
    /\ s \in RevenueFields
    /\ \A i \in DOMAIN s.history : Balanced(s.history[i])
    /\ Sum(s.byJob, RecJobs) + Sum(LateNet(s), RecTasks) <= Sum(NetsOf(s), DOMAIN s.history)

LEMMA PercentIsNat == ASSUME NEW a \in Nat, NEW p \in Nat PROVE PercentOf(a, p) \in Nat
<1>1. a * p \in Nat  OBVIOUS
<1> QED BY <1>1 DEF PercentOf

LEMMA RevenueIsBalanced ==
    ASSUME NEW a \in RecAmounts, NEW many \in BOOLEAN, NEW slow \in BOOLEAN
    PROVE  CalculateRevenue(a, many, slow) \in RevenueEntry /\ Balanced(CalculateRevenue(a, many, slow))
<1> DEFINE bonus == IF many THEN PercentOf(a, BonusPct) ELSE 0
           penalty == IF slow THEN PercentOf(a, PenaltyPct) ELSE 0
           cut == PercentOf(a, MarketFee)
           fees == cut + NetworkFee + penalty
           left == NetAmount(a, bonus, fees)
<1>1. a \in Nat /\ bonus \in Nat /\ penalty \in Nat /\ cut \in Nat /\ NetworkFee \in Nat  BY RecAssumption, PercentIsNat
<1>2. CalculateRevenue(a, many, slow) = [gross |-> a, bonus |-> bonus, fees |-> fees, net |-> left]
  BY DEF CalculateRevenue
<1> HIDE DEF bonus, penalty, cut
<1>3. fees \in Nat  BY <1>1
<1> HIDE DEF fees
<1>4. left \in Nat /\ (left > 0 => left + fees = a + bonus) /\ (left = 0 => fees >= a + bonus)
  BY <1>1, <1>3 DEF NetAmount
<1> HIDE DEF left
<1> QED BY <1>1, <1>2, <1>3, <1>4 DEF RevenueEntry, Balanced

LEMMA RevFieldsOf ==
    ASSUME NEW s, s \in RevenueFields
    PROVE  /\ s.history \in Seq(RevenueEntry) /\ s.byJob \in [RecJobs -> Nat]
           /\ s.late \in [RecTasks -> {<<>>} \cup (RecJobs \X Nat)]
           /\ DOMAIN s.history = 1 .. Len(s.history) /\ Len(s.history) \in Nat
           /\ IsFiniteSet(DOMAIN s.history)
           /\ (\A i \in DOMAIN s.history : NetsOf(s)[i] \in Nat) /\ (\A t \in RecTasks : LateNet(s)[t] \in Nat)
           /\ IsFiniteSet(RecTasks) /\ IsFiniteSet(RecJobs)
<1>1. s.history \in Seq(RevenueEntry) /\ s.byJob \in [RecJobs -> Nat]
      /\ s.late \in [RecTasks -> {<<>>} \cup (RecJobs \X Nat)]
  BY DEF RevenueFields
<1>2. DOMAIN s.history = 1 .. Len(s.history) /\ Len(s.history) \in Nat  BY <1>1
<1>3. IsFiniteSet(1 .. Len(s.history))  BY <1>2, FS_Interval
<1>4. \A i \in DOMAIN s.history : NetsOf(s)[i] \in Nat
  <2> TAKE i \in DOMAIN s.history
  <2>1. s.history[i] \in RevenueEntry  BY <1>1
  <2> QED BY <2>1 DEF NetsOf, RevenueEntry
<1>5. ASSUME NEW t \in RecTasks PROVE LateNet(s)[t] \in Nat
  <2>1. s.late[t] = <<>> \/ s.late[t] \in RecJobs \X Nat  BY <1>1
  <2>2. s.late[t] \in RecJobs \X Nat => s.late[t][2] \in Nat  OBVIOUS
  <2> QED BY <2>1, <2>2 DEF LateNet
<1> QED BY <1>1, <1>2, <1>3, <1>4, <1>5, RecAssumption

LEMMA RevInitial == ASSUME RecInit PROVE RevOK(revenue)
<1>1. revenue = [history |-> <<>>, byJob |-> [j \in RecJobs |-> 0], late |-> [t \in RecTasks |-> <<>>]]  BY DEF RecInit
<1>2. revenue \in RevenueFields  BY <1>1 DEF RevenueFields
<1>3. DOMAIN revenue.history = {} /\ (\A j \in RecJobs : revenue.byJob[j] = 0) /\ \A t \in RecTasks : LateNet(revenue)[t] = 0
  BY <1>1 DEF LateNet
<1>4. Sum(revenue.byJob, RecJobs) = 0 /\ Sum(LateNet(revenue), RecTasks) = 0 /\ Sum(NetsOf(revenue), DOMAIN revenue.history) = 0
  BY <1>3, SumZero, SumEmpty, RecAssumption
<1> QED BY <1>2, <1>3, <1>4 DEF RevOK

LEMMA RecordRevenueKeeps ==
    ASSUME RevOK(revenue), NEW t \in RecTasks, NEW j \in RecJobs, NEW r \in RevenueEntry, Balanced(r),
           RecordRevenue(t, j, r)
    PROVE  RevOK(revenue')
<1> DEFINE h == Append(revenue.history, r)
           l == [revenue.late EXCEPT ![t] = <<j, r.net>>]
           n == Len(revenue.history) + 1
<1>1. revenue \in RevenueFields /\ revenue.late[t] = <<>>  BY DEF RevOK, RecordRevenue
<1>2. revenue' = [revenue EXCEPT !.history = Append(@, r), !.late[t] = <<j, r.net>>]  BY DEF RecordRevenue, RevStep
<1>3. revenue' = [revenue EXCEPT !.history = h, !.late = l]  BY <1>1, <1>2 DEF RevenueFields
<1>4. r.net \in Nat /\ <<j, r.net>> \in RecJobs \X Nat  BY DEF RevenueEntry
<1>5. l \in [RecTasks -> {<<>>} \cup (RecJobs \X Nat)] /\ l[t] = <<j, r.net>> /\ \A u \in RecTasks : u # t => l[u] = revenue.late[u]
  BY <1>1, <1>4, RevFieldsOf
<1>6. /\ revenue.history \in Seq(RevenueEntry) /\ Len(revenue.history) \in Nat
      /\ DOMAIN revenue.history = 1 .. Len(revenue.history)
  BY <1>1, RevFieldsOf
<1>7. /\ h \in Seq(RevenueEntry) /\ Len(h) = n /\ DOMAIN h = 1 .. n /\ h[n] = r
      /\ \A i \in 1 .. Len(revenue.history) : h[i] = revenue.history[i]
  BY <1>6
<1>7a. n \in Nat /\ n = Len(revenue.history) + 1  BY <1>6
<1> HIDE DEF h, l, n
<1>8. revenue' \in RevenueFields /\ revenue'.history = h /\ revenue'.late = l /\ revenue'.byJob = revenue.byJob
  BY <1>1, <1>3, <1>5, <1>7 DEF RevenueFields
<1>9. \A i \in DOMAIN revenue'.history : Balanced(revenue'.history[i])
  <2>1. \A i \in 1 .. n : i = n \/ i \in 1 .. Len(revenue.history)  BY <1>6, <1>7a
  <2> QED BY <1>6, <1>7, <1>8, <2>1 DEF RevOK
<1>10. Sum(LateNet(revenue'), RecTasks) = Sum(LateNet(revenue), RecTasks) + r.net
  <2>1. LateNet(revenue)[t] = 0 /\ LateNet(revenue')[t] = r.net
        /\ \A u \in RecTasks : u # t => LateNet(revenue')[u] = LateNet(revenue)[u]
    <3>1. <<j, r.net>> # <<>> /\ <<j, r.net>>[2] = r.net  OBVIOUS
    <3>2. LateNet(revenue)[t] = 0  BY <1>1 DEF LateNet
    <3>3. LateNet(revenue')[t] = r.net  BY <1>5, <1>8, <3>1 DEF LateNet
    <3>4. \A u \in RecTasks : u # t => LateNet(revenue')[u] = LateNet(revenue)[u]  BY <1>5, <1>8 DEF LateNet
    <3> QED BY <3>2, <3>3, <3>4
  <2>2. (\A u \in RecTasks : LateNet(revenue)[u] \in Int) /\ IsFiniteSet(RecTasks)  BY <1>1, RevFieldsOf
  <2>3. Sum(LateNet(revenue'), RecTasks) = Sum(LateNet(revenue), RecTasks) - LateNet(revenue)[t] + LateNet(revenue')[t]
    <3> DEFINE f == LateNet(revenue)
               g == LateNet(revenue')
    <3>1. (\A u \in RecTasks : f[u] \in Int) /\ g[t] \in Int /\ (\A u \in RecTasks : u # t => g[u] = f[u])
          /\ IsFiniteSet(RecTasks)
      BY <1>4, <2>1, <2>2
    <3> HIDE DEF f, g
    <3>2. Sum(g, RecTasks) = Sum(f, RecTasks) - f[t] + g[t]  BY ONLY t \in RecTasks, <3>1, SumUpdate
    <3> QED BY ONLY <3>2 DEF f, g
  <2>4. Sum(LateNet(revenue), RecTasks) \in Int  BY <2>2, SumType
  <2> QED BY ONLY <1>4, <2>1, <2>3, <2>4
<1>11. Sum(NetsOf(revenue'), DOMAIN revenue'.history) = Sum(NetsOf(revenue), DOMAIN revenue.history) + r.net
  <2>1. DOMAIN revenue'.history = 1 .. n /\ n \in 1 .. n /\ (1 .. n) \ {n} = 1 .. Len(revenue.history)
    BY <1>6, <1>7, <1>7a, <1>8
  <2>2. (\A i \in 1 .. n : NetsOf(revenue')[i] \in Int) /\ IsFiniteSet(1 .. n)  BY <1>8, <2>1, RevFieldsOf
  <2>3. Sum(NetsOf(revenue'), 1 .. n) = NetsOf(revenue')[n] + Sum(NetsOf(revenue'), 1 .. Len(revenue.history))
    <3> DEFINE k == NetsOf(revenue')
               S == 1 .. n
    <3>1. (\A i \in S : k[i] \in Int) /\ IsFiniteSet(S) /\ n \in S  BY <2>1, <2>2
    <3> HIDE DEF k, S
    <3>2. Sum(k, S) = k[n] + Sum(k, S \ {n})  BY ONLY <3>1, SumRemove
    <3> QED BY ONLY <2>1, <3>2 DEF k, S
  <2>4. NetsOf(revenue')[n] = r.net  BY <1>7, <1>8, <2>1 DEF NetsOf
  <2>5. \A i \in 1 .. Len(revenue.history) : NetsOf(revenue')[i] = NetsOf(revenue)[i]
    BY <1>6, <1>7, <1>7a, <1>8, <2>1 DEF NetsOf
  <2>6. (\A i \in 1 .. Len(revenue.history) : NetsOf(revenue)[i] \in Int) /\ IsFiniteSet(1 .. Len(revenue.history))
    BY <1>1, <1>6, RevFieldsOf
  <2>7. Sum(NetsOf(revenue'), 1 .. Len(revenue.history)) = Sum(NetsOf(revenue), 1 .. Len(revenue.history))
    BY <2>5, <2>6, SumSame
  <2>8. Sum(NetsOf(revenue), 1 .. Len(revenue.history)) \in Int  BY <2>6, SumType
  <2> QED BY <1>4, <1>6, <2>1, <2>3, <2>4, <2>7, <2>8
<1>12. Sum(revenue.byJob, RecJobs) \in Int /\ Sum(LateNet(revenue), RecTasks) \in Int
       /\ Sum(NetsOf(revenue), DOMAIN revenue.history) \in Int
  BY <1>1, RevFieldsOf, SumType
<1> QED BY <1>4, <1>8, <1>9, <1>10, <1>11, <1>12 DEF RevOK

\* A later revenue of the job takes the place of an earlier one.
LEMMA RecordByJobKeeps == ASSUME RevOK(revenue), NEW t \in RecTasks, RecordByJob(t) PROVE RevOK(revenue')
<1> DEFINE j == revenue.late[t][1]
           m == revenue.late[t][2]
           b == [revenue.byJob EXCEPT ![j] = m]
           l == [revenue.late EXCEPT ![t] = <<>>]
<1>1. revenue \in RevenueFields /\ revenue.late[t] # <<>>  BY DEF RevOK, RecordByJob
<1>2. revenue' = [revenue EXCEPT !.byJob[revenue.late[t][1]] = revenue.late[t][2], !.late[t] = <<>>]
  BY DEF RecordByJob, RevStep
<1>3. revenue' = [revenue EXCEPT !.byJob = b, !.late = l]  BY <1>1, <1>2 DEF RevenueFields
<1>4. j \in RecJobs /\ m \in Nat
  <2>1. revenue.late[t] \in RecJobs \X Nat  BY <1>1, RevFieldsOf
  <2> QED BY <2>1
<1> HIDE DEF j, m
<1>5. b \in [RecJobs -> Nat] /\ b[j] = m /\ \A i \in RecJobs : i # j => b[i] = revenue.byJob[i]
  BY <1>1, <1>4, RevFieldsOf
<1>6. l \in [RecTasks -> {<<>>} \cup (RecJobs \X Nat)] /\ l[t] = <<>> /\ \A u \in RecTasks : u # t => l[u] = revenue.late[u]
  BY <1>1, RevFieldsOf
<1> HIDE DEF b, l
<1>7. revenue' \in RevenueFields /\ revenue'.history = revenue.history /\ revenue'.late = l /\ revenue'.byJob = b
  BY <1>1, <1>3, <1>5, <1>6 DEF RevenueFields
<1>8. LateNet(revenue)[t] = m /\ LateNet(revenue')[t] = 0
      /\ \A u \in RecTasks : u # t => LateNet(revenue')[u] = LateNet(revenue)[u]
  BY <1>1, <1>6, <1>7 DEF LateNet, m
<1>9. (\A u \in RecTasks : LateNet(revenue)[u] \in Int) /\ IsFiniteSet(RecTasks) /\ IsFiniteSet(RecJobs)
      /\ revenue.byJob \in [RecJobs -> Nat] /\ revenue.byJob[j] \in Nat
  BY <1>1, <1>4, RevFieldsOf
<1>10. Sum(LateNet(revenue'), RecTasks) = Sum(LateNet(revenue), RecTasks) - m + 0  BY <1>8, <1>9, SumUpdate
<1>11. Sum(b, RecJobs) = Sum(revenue.byJob, RecJobs) - revenue.byJob[j] + m  BY <1>4, <1>5, <1>9, SumUpdate
<1>12. Sum(revenue.byJob, RecJobs) \in Int /\ Sum(LateNet(revenue), RecTasks) \in Int
       /\ Sum(NetsOf(revenue), DOMAIN revenue.history) \in Int
  BY <1>1, RevFieldsOf, SumType
<1>13. NetsOf(revenue') = NetsOf(revenue)  BY <1>7 DEF NetsOf
<1> QED BY <1>4, <1>7, <1>9, <1>10, <1>11, <1>12, <1>13 DEF RevOK

LEMMA RevSteps == ASSUME RevOK(revenue), RevNext PROVE RevOK(revenue')
  BY RecordByJobKeeps, RecordRevenueKeeps, RevenueIsBalanced DEF RevNext

LEMMA RevSafe == ASSUME RevOK(revenue) PROVE RevenueAddsUp
<1>1. revenue \in RevenueFields  BY DEF RevOK
<1>2. NetsOf(revenue) = NetOf  BY DEF NetsOf, NetOf
<1>3. Sum(revenue.byJob, RecJobs) \in Int /\ Sum(LateNet(revenue), RecTasks) \in Nat
      /\ Sum(NetsOf(revenue), DOMAIN revenue.history) \in Int
  BY <1>1, RevFieldsOf, SumType, SumNat
<1>4. Sum(revenue.byJob, RecJobs) <= Sum(NetOf, DOMAIN revenue.history)  BY <1>2, <1>3 DEF RevOK
<1>5. MapThenSumSet(LAMBDA j : revenue.byJob[j], RecJobs) <= MapThenSumSet(LAMBDA i : NetOf[i], DOMAIN revenue.history)
  BY <1>4, Zenon DEF Sum
<1> QED BY <1>5 DEF RevOK, Balanced, RevenueAddsUp

-----------------------------------------------------------------------------
(* The payments seen on the chain.                                         *)

PaymentEvent == [job : RecJobs, amount : RecAmounts, block : Nat, mine : BOOLEAN]
PaymentBags == UNION {[S -> Nat] : S \in SUBSET PaymentEvent}
PayLogFields ==
    [head : Nat, chain : SUBSET PaymentEvent, events : PaymentBags, asked : [RecTasks -> Nat \cup {-1}], upto : Nat,
     ops : Nat]

\* Nothing is seen that the chain does not hold, and no tracking is ahead of it; what
\* a tracking without a least amount has reached is in the list.
PayLogOK(s) ==
    /\ s \in PayLogFields /\ DOMAIN s.events \subseteq s.chain
    /\ \A e \in s.chain : e.block <= s.head
    /\ s.upto <= s.head /\ \A t \in RecTasks : s.asked[t] <= s.head
    /\ \A e \in s.chain : e.mine /\ e.block <= s.upto => e \in DOMAIN s.events

LEMMA BagAdds ==
    ASSUME NEW b \in PaymentBags, NEW S \in SUBSET PaymentEvent
    PROVE  b (+) SetToBag(S) \in PaymentBags /\ DOMAIN (b (+) SetToBag(S)) = DOMAIN b \cup S
<1>1. PICK D \in SUBSET PaymentEvent : b \in [D -> Nat]  BY DEF PaymentBags
<1> DEFINE c == SetToBag(S)
           q == b (+) c
<1>2. DOMAIN b = D /\ DOMAIN c = S /\ c \in [S -> Nat]  BY <1>1 DEF SetToBag
<1>3. q = [e \in D \cup S |-> (IF e \in D THEN b[e] ELSE 0) + (IF e \in S THEN c[e] ELSE 0)]  BY <1>2 DEF (+)
<1>4. \A e \in D \cup S : (IF e \in D THEN b[e] ELSE 0) + (IF e \in S THEN c[e] ELSE 0) \in Nat  BY <1>1, <1>2
<1> HIDE DEF c, q
<1>5. q \in [D \cup S -> Nat] /\ DOMAIN q = D \cup S  BY <1>3, <1>4
<1>6. D \cup S \in SUBSET PaymentEvent  OBVIOUS
<1>7. q \in PaymentBags  BY <1>5, <1>6 DEF PaymentBags
<1> QED BY <1>2, <1>5, <1>7 DEF c, q

LEMMA PayLogInitial == ASSUME RecInit PROVE PayLogOK(paidLog)
<1>1. paidLog = [head |-> 0, chain |-> {}, events |-> EmptyBag, asked |-> [t \in RecTasks |-> -1], upto |-> 0, ops |-> 0]
  BY DEF RecInit
<1>2. EmptyBag \in [{} -> Nat] /\ DOMAIN EmptyBag = {}  BY DEF EmptyBag, SetToBag
<1>3. EmptyBag \in PaymentBags
  <2>1. {} \in SUBSET PaymentEvent  OBVIOUS
  <2> QED BY <1>2, <2>1 DEF PaymentBags
<1> HIDE DEF EmptyBag
<1>4. paidLog \in PayLogFields  BY <1>1, <1>3 DEF PayLogFields
<1> QED BY <1>1, <1>2, <1>4 DEF PayLogOK

LEMMA PayLogFieldsOf ==
    ASSUME NEW s, s \in PayLogFields
    PROVE  /\ s.head \in Nat /\ s.chain \in SUBSET PaymentEvent /\ s.events \in PaymentBags
           /\ s.asked \in [RecTasks -> Nat \cup {-1}] /\ s.upto \in Nat /\ s.ops \in Nat
           /\ \A e \in s.chain : e.block \in Nat /\ e.mine \in BOOLEAN
  BY DEF PayLogFields, PaymentEvent

LEMMA PaymentBlockKeeps ==
    ASSUME PayLogOK(paidLog), NEW j \in RecJobs, NEW a \in RecAmounts, NEW mine_ \in BOOLEAN, PaymentBlock(j, a, mine_)
    PROVE  PayLogOK(paidLog')
<1> DEFINE e == [job |-> j, amount |-> a, block |-> paidLog.head + 1, mine |-> mine_]
           c == paidLog.chain \cup {e}
           n == paidLog.head + 1
<1>1. paidLog \in PayLogFields  BY DEF PayLogOK
<1>2. paidLog' = [paidLog EXCEPT !.head = @ + 1, !.chain = @ \cup {e}]  BY DEF PaymentBlock, PayLogStep
<1>3. paidLog' = [paidLog EXCEPT !.head = n, !.chain = c]  BY <1>1, <1>2 DEF PayLogFields
<1>4. n \in Nat /\ n > paidLog.head /\ paidLog.head \in Nat /\ paidLog.upto \in Nat  BY <1>1, PayLogFieldsOf
<1>5. e \in PaymentEvent /\ e.block = n  BY <1>4 DEF PaymentEvent
<1>6. c \in SUBSET PaymentEvent /\ \A d \in c : d = e \/ d \in paidLog.chain  BY <1>1, <1>5, PayLogFieldsOf
<1>7. paidLog.chain \subseteq c  OBVIOUS
<1> HIDE DEF e, c, n
<1>8. paidLog' \in PayLogFields  BY <1>1, <1>3, <1>4, <1>6 DEF PayLogFields
<1>9. paidLog'.head = n /\ paidLog'.chain = c /\ paidLog'.events = paidLog.events /\ paidLog'.asked = paidLog.asked
      /\ paidLog'.upto = paidLog.upto
  BY <1>1, <1>3 DEF PayLogFields
<1>10. \A d \in c : d.block <= n  BY <1>1, <1>4, <1>5, <1>6, PayLogFieldsOf DEF PayLogOK
<1>11. paidLog.upto <= n /\ \A t \in RecTasks : paidLog.asked[t] <= n  BY <1>1, <1>4, PayLogFieldsOf DEF PayLogOK
<1>12. \A d \in c : d.mine /\ d.block <= paidLog.upto => d \in DOMAIN paidLog.events  BY <1>4, <1>5, <1>6 DEF PayLogOK
<1> QED BY <1>7, <1>8, <1>9, <1>10, <1>11, <1>12 DEF PayLogOK

LEMMA TrackBeginsKeeps == ASSUME PayLogOK(paidLog), NEW t \in RecTasks, TrackBegins(t) PROVE PayLogOK(paidLog')
<1> DEFINE k == [paidLog.asked EXCEPT ![t] = paidLog.head]
           n == paidLog.ops + 1
<1>1. paidLog \in PayLogFields  BY DEF PayLogOK
<1>2. paidLog' = [paidLog EXCEPT !.asked[t] = paidLog.head, !.ops = @ + 1]  BY DEF TrackBegins, PayLogStep
<1>3. paidLog' = [paidLog EXCEPT !.asked = k, !.ops = n]  BY <1>1, <1>2 DEF PayLogFields
<1>4. n \in Nat /\ k \in [RecTasks -> Nat \cup {-1}] /\ \A u \in RecTasks : k[u] <= paidLog.head
  BY <1>1, PayLogFieldsOf DEF PayLogOK
<1> HIDE DEF k, n
<1>5. paidLog' \in PayLogFields  BY <1>1, <1>3, <1>4 DEF PayLogFields
<1>6. paidLog'.head = paidLog.head /\ paidLog'.chain = paidLog.chain /\ paidLog'.events = paidLog.events /\ paidLog'.asked = k
      /\ paidLog'.upto = paidLog.upto
  BY <1>1, <1>3 DEF PayLogFields
<1> QED BY <1>4, <1>5, <1>6 DEF PayLogOK

LEMMA TrackKeeps ==
    ASSUME PayLogOK(paidLog), NEW t \in RecTasks, NEW mine_ \in BOOLEAN, NEW least \in {0} \cup RecAmounts,
           TrackPayments(t, mine_, least)
    PROVE  PayLogOK(paidLog')
<1> DEFINE found == {e \in paidLog.chain : InRange(t, e) /\ MatchesFilter(e, mine_, least)}
           b == paidLog.events (+) SetToBag(found)
           k == [paidLog.asked EXCEPT ![t] = -1]
           u == IF least = 0 /\ paidLog.asked[t] > paidLog.upto THEN paidLog.asked[t] ELSE paidLog.upto
<1>1. paidLog \in PayLogFields  BY DEF PayLogOK
<1>2. paidLog' = [paidLog EXCEPT !.asked[t] = -1, !.events = @ (+) SetToBag(found),
                      !.upto = IF least = 0 /\ paidLog.asked[t] > @ THEN paidLog.asked[t] ELSE @]
  BY DEF TrackPayments, PayLogStep
<1>3. paidLog' = [paidLog EXCEPT !.asked = k, !.events = b, !.upto = u]  BY <1>1, <1>2 DEF PayLogFields
<1>4. found \subseteq paidLog.chain /\ found \in SUBSET PaymentEvent  BY <1>1, PayLogFieldsOf
<1>5. b \in PaymentBags /\ DOMAIN b = DOMAIN paidLog.events \cup found  BY <1>1, <1>4, PayLogFieldsOf, BagAdds
<1>6. paidLog.asked[t] >= 0 /\ paidLog.asked[t] \in Nat /\ paidLog.head \in Nat /\ paidLog.upto \in Nat
  BY <1>1, PayLogFieldsOf DEF TrackPayments
<1>7. u \in Nat /\ u <= paidLog.head /\ k \in [RecTasks -> Nat \cup {-1}] /\ \A v \in RecTasks : k[v] <= paidLog.head
  BY <1>1, <1>6, PayLogFieldsOf DEF PayLogOK
<1>8. ASSUME NEW e \in paidLog.chain, e.mine, e.block <= u PROVE e \in DOMAIN b
  <2>1. CASE e.block <= paidLog.upto  BY <1>5, <1>8, <2>1 DEF PayLogOK
  <2>2. CASE ~(e.block <= paidLog.upto)
    <3>1. least = 0 /\ e.block <= paidLog.asked[t]  BY <1>8, <2>2
    <3>2. e \in PaymentEvent  BY <1>1, PayLogFieldsOf
    <3>3. e.amount \in Nat  BY <3>2, RecAssumption DEF PaymentEvent
    <3>4. InRange(t, e) /\ MatchesFilter(e, mine_, least)  BY <1>8, <3>1, <3>3 DEF InRange, MatchesFilter
    <3> QED BY <1>5, <3>4
  <2> QED BY <2>1, <2>2
<1> HIDE DEF found, b, k, u
<1>9. paidLog' \in PayLogFields  BY <1>1, <1>3, <1>5, <1>7 DEF PayLogFields
<1>10. paidLog'.head = paidLog.head /\ paidLog'.chain = paidLog.chain /\ paidLog'.events = b /\ paidLog'.asked = k
       /\ paidLog'.upto = u
  BY <1>1, <1>3 DEF PayLogFields
<1> QED BY <1>4, <1>5, <1>7, <1>8, <1>9, <1>10 DEF PayLogOK

LEMMA MonitorPaymentKeeps == ASSUME PayLogOK(paidLog), NEW e \in paidLog.chain, MonitorPayment(e) PROVE PayLogOK(paidLog')
<1> DEFINE b == paidLog.events (+) SetToBag({e})
           n == paidLog.ops + 1
<1>1. paidLog \in PayLogFields  BY DEF PayLogOK
<1>2. paidLog' = [paidLog EXCEPT !.events = @ (+) SetToBag({e}), !.ops = @ + 1]  BY DEF MonitorPayment, PayLogStep
<1>3. paidLog' = [paidLog EXCEPT !.events = b, !.ops = n]  BY <1>1, <1>2 DEF PayLogFields
<1>4. n \in Nat /\ {e} \in SUBSET PaymentEvent /\ paidLog.events \in PaymentBags  BY <1>1, PayLogFieldsOf
<1>5. b \in PaymentBags /\ DOMAIN b = DOMAIN paidLog.events \cup {e}  BY <1>4, BagAdds
<1> HIDE DEF b, n
<1>6. paidLog' \in PayLogFields  BY <1>1, <1>3, <1>4, <1>5 DEF PayLogFields
<1>7. paidLog'.head = paidLog.head /\ paidLog'.chain = paidLog.chain /\ paidLog'.events = b /\ paidLog'.asked = paidLog.asked
      /\ paidLog'.upto = paidLog.upto
  BY <1>1, <1>3 DEF PayLogFields
<1> QED BY <1>5, <1>6, <1>7 DEF PayLogOK

LEMMA PayLogSteps == ASSUME PayLogOK(paidLog), PayLogNext PROVE PayLogOK(paidLog')
  BY PaymentBlockKeeps, TrackBeginsKeeps, TrackKeeps, MonitorPaymentKeeps DEF PayLogNext

LEMMA PayLogSafe == ASSUME PayLogOK(paidLog) PROVE ConfirmedIsComplete
  BY DEF PayLogOK, ConfirmedIsComplete, ConfirmedPayments, BagToSet

-----------------------------------------------------------------------------
(* The validator: a validation under way is counted in the total only, and *)
(* the sizes of the proofs are within the bytes.                           *)

ProofRecord == [of : Outputs \cup {NoOutput}, size : Nat]
ValTask == [pc : {"idle", "proof", "result", "verify", "released", "refused", "cleanup"}, job : RecJobs \cup {NoOutput},
            proof : ProofRecord, result : Outputs \cup {NoOutput}]
ValFields ==
    [proofs : [RecJobs -> ProofRecord], results : [RecJobs -> Outputs \cup {NoOutput}], bytes : Nat, total : Nat,
     passed : Nat, failed : Nat, ops : Nat, task : [RecTasks -> ValTask]]

Validating(s) == {t \in RecTasks : s.task[t].pc \in {"proof", "result", "verify"}}
SizesOf(s) == [j \in RecJobs |-> s.proofs[j].size]

ValTaskOK(r) ==
    /\ r.pc = "released" => r.proof.of = r.result
    /\ r.pc \in {"proof", "result", "cleanup"} => r.job \in RecJobs

ValOK(s) ==
    /\ s \in ValFields /\ \A t \in RecTasks : ValTaskOK(s.task[t])
    /\ s.total = s.passed + s.failed + Cardinality(Validating(s))
    /\ Sum(SizesOf(s), RecJobs) <= s.bytes

LEMMA ValFieldsOf ==
    ASSUME NEW s, s \in ValFields
    PROVE  /\ s.proofs \in [RecJobs -> ProofRecord] /\ s.results \in [RecJobs -> Outputs \cup {NoOutput}]
           /\ s.bytes \in Nat /\ s.total \in Nat /\ s.passed \in Nat /\ s.failed \in Nat /\ s.ops \in Nat
           /\ s.task \in [RecTasks -> ValTask]
           /\ IsFiniteSet(Validating(s)) /\ Cardinality(Validating(s)) \in Nat
           /\ (\A j \in RecJobs : SizesOf(s)[j] \in Nat) /\ Sum(SizesOf(s), RecJobs) \in Nat
           /\ IsFiniteSet(RecJobs)
<1>1. s.proofs \in [RecJobs -> ProofRecord] /\ s.results \in [RecJobs -> Outputs \cup {NoOutput}]
      /\ s.bytes \in Nat /\ s.total \in Nat /\ s.passed \in Nat /\ s.failed \in Nat /\ s.ops \in Nat
      /\ s.task \in [RecTasks -> ValTask]
  BY DEF ValFields
<1>2. IsFiniteSet(Validating(s)) /\ Cardinality(Validating(s)) \in Nat
  <2>1. Validating(s) \in SUBSET RecTasks  BY DEF Validating
  <2> QED BY <2>1, RecAssumption, FS_Subset, FS_CardinalityType
<1>3. \A j \in RecJobs : SizesOf(s)[j] \in Nat  BY <1>1 DEF SizesOf, ProofRecord
<1> QED BY <1>1, <1>2, <1>3, RecAssumption, SumNat

LEMMA ValIdleIs == NoProof \in ProofRecord /\ ValIdle \in ValTask /\ ValIdle.pc = "idle"
  BY DEF NoProof, ProofRecord, ValIdle, ValTask

LEMMA ValInitial == ASSUME RecInit PROVE ValOK(valid)
<1>1. valid = [proofs |-> [j \in RecJobs |-> NoProof], results |-> [j \in RecJobs |-> NoOutput],
               bytes |-> 0, total |-> 0, passed |-> 0, failed |-> 0, ops |-> 0, task |-> [t \in RecTasks |-> ValIdle]]
  BY DEF RecInit
<1>2. valid \in ValFields  BY <1>1, ValIdleIs DEF ValFields
<1>3. \A t \in RecTasks : valid.task[t].pc = "idle"  BY <1>1, ValIdleIs
<1>4. Validating(valid) = {} /\ \A t \in RecTasks : ValTaskOK(valid.task[t])  BY <1>3 DEF Validating, ValTaskOK
<1>5. \A j \in RecJobs : SizesOf(valid)[j] = 0  BY <1>1 DEF SizesOf, NoProof
<1>6. Sum(SizesOf(valid), RecJobs) = 0  BY <1>5, SumZero, RecAssumption
<1> QED BY <1>1, <1>2, <1>4, <1>6, FS_EmptySet DEF ValOK

\* One task moves on and the counts with it.
LEMMA ValMoves ==
    ASSUME ValOK(valid), valid' \in ValFields, NEW t \in RecTasks, ValTaskOK(valid'.task[t]),
           \A u \in RecTasks : u # t => valid'.task[u] = valid.task[u],
           valid'.total - valid'.passed - valid'.failed
             = valid.total - valid.passed - valid.failed + (IF valid'.task[t].pc \in {"proof", "result", "verify"} THEN 1 ELSE 0)
               - (IF valid.task[t].pc \in {"proof", "result", "verify"} THEN 1 ELSE 0),
           Sum(SizesOf(valid'), RecJobs) <= valid'.bytes
    PROVE  ValOK(valid')
<1>1. /\ valid \in ValFields /\ IsFiniteSet(Validating(valid)) /\ Cardinality(Validating(valid)) \in Nat
      /\ valid.total = valid.passed + valid.failed + Cardinality(Validating(valid))
  BY ValFieldsOf DEF ValOK
<1>2. t \in Validating(valid) <=> valid.task[t].pc \in {"proof", "result", "verify"}  BY DEF Validating
<1>3. Cardinality(Validating(valid')) = Cardinality(Validating(valid))
          + (IF valid'.task[t].pc \in {"proof", "result", "verify"} THEN 1 ELSE 0)
          - (IF valid.task[t].pc \in {"proof", "result", "verify"} THEN 1 ELSE 0)
  <2> DEFINE V == Validating(valid)
  <2>0. IsFiniteSet(V) /\ Cardinality(V) \in Nat /\ (t \in V <=> valid.task[t].pc \in {"proof", "result", "verify"})
    BY <1>1, <1>2
  <2>1. CASE valid'.task[t].pc \in {"proof", "result", "verify"}
    <3>1. Validating(valid') = V \cup {t}  BY <2>1 DEF Validating
    <3> HIDE DEF V
    <3>2. Cardinality(V \cup {t}) = IF t \in V THEN Cardinality(V) ELSE Cardinality(V) + 1  BY <2>0, FS_AddElement
    <3>3. Cardinality(Validating(valid')) = Cardinality(V) + 1 - (IF t \in V THEN 1 ELSE 0)  BY <2>0, <3>1, <3>2
    <3> QED BY <2>0, <2>1, <3>3 DEF V
  <2>2. CASE valid'.task[t].pc \notin {"proof", "result", "verify"}
    <3>1. Validating(valid') = V \ {t}  BY <2>2 DEF Validating
    <3> HIDE DEF V
    <3>2. Cardinality(V \ {t}) = IF t \in V THEN Cardinality(V) - 1 ELSE Cardinality(V)  BY <2>0, FS_RemoveElement
    <3>3. Cardinality(Validating(valid')) = Cardinality(V) - (IF t \in V THEN 1 ELSE 0)  BY <2>0, <3>1, <3>2
    <3> QED BY <2>0, <2>2, <3>3 DEF V
  <2> QED BY <2>1, <2>2
<1>4. /\ valid'.total \in Nat /\ valid'.passed \in Nat /\ valid'.failed \in Nat
      /\ valid.total \in Nat /\ valid.passed \in Nat /\ valid.failed \in Nat /\ Cardinality(Validating(valid')) \in Nat
  BY <1>1, ValFieldsOf
<1>5. valid'.total = valid'.passed + valid'.failed + Cardinality(Validating(valid'))  BY <1>1, <1>3, <1>4
<1>6. \A u \in RecTasks : ValTaskOK(valid'.task[u])  BY DEF ValOK
<1> QED BY <1>5, <1>6 DEF ValOK

\* The tasks and the counts stay.
LEMMA ValStays ==
    ASSUME ValOK(valid), valid' \in ValFields, valid'.task = valid.task, valid'.total = valid.total,
           valid'.passed = valid.passed, valid'.failed = valid.failed, Sum(SizesOf(valid'), RecJobs) <= valid'.bytes
    PROVE  ValOK(valid')  BY DEF ValOK, Validating

\* A proof is put in the place of another.
LEMMA ProofSwapped ==
    ASSUME ValOK(valid), valid' \in ValFields, NEW j \in RecJobs, NEW p \in ProofRecord,
           valid'.proofs = [valid.proofs EXCEPT ![j] = p]
    PROVE  Sum(SizesOf(valid'), RecJobs) = Sum(SizesOf(valid), RecJobs) - valid.proofs[j].size + p.size
<1> DEFINE f == SizesOf(valid)
           g == SizesOf(valid')
<1>1. valid \in ValFields  BY DEF ValOK
<1>2. (\A i \in RecJobs : f[i] \in Int) /\ IsFiniteSet(RecJobs) /\ valid.proofs \in [RecJobs -> ProofRecord]
  BY <1>1, ValFieldsOf
<1>3. f[j] = valid.proofs[j].size /\ g[j] = p.size /\ g[j] \in Int /\ \A i \in RecJobs : i # j => g[i] = f[i]
  BY <1>2 DEF SizesOf, ProofRecord
<1> HIDE DEF f, g
<1>4. (\A i \in RecJobs : f[i] \in Int) /\ IsFiniteSet(RecJobs) /\ g[j] \in Int /\ \A i \in RecJobs : i # j => g[i] = f[i]
  BY ONLY <1>2, <1>3
<1>5. Sum(g, RecJobs) = Sum(f, RecJobs) - f[j] + g[j]  BY ONLY j \in RecJobs, <1>4, SumUpdate
<1> QED BY <1>3, <1>5 DEF f, g

LEMMA StoreSteps ==
    ASSUME ValOK(valid),
           \/ ClearProofStore
           \/ \E j \in RecJobs, o \in Outputs : StoreResultOf(j, o) \/ \E n \in ProofSizes : StoreProofOf(j, o, n)
    PROVE  ValOK(valid')
<1>1. valid \in ValFields /\ Sum(SizesOf(valid), RecJobs) <= valid.bytes  BY DEF ValOK
<1> DEFINE m == valid.ops + 1
<1>2. m \in Nat  BY <1>1, ValFieldsOf
<1>3. CASE ClearProofStore
  <2> DEFINE f == [j \in RecJobs |-> NoProof]
  <2>1. valid' = [[valid EXCEPT !.proofs = f, !.bytes = 0] EXCEPT !.ops = @ + 1]
    BY <1>3 DEF ClearProofStore, ValOp, ValStep
  <2>2. valid' = [valid EXCEPT !.proofs = f, !.bytes = 0, !.ops = m]  BY <1>1, <2>1 DEF ValFields
  <2>3. f \in [RecJobs -> ProofRecord] /\ \A j \in RecJobs : f[j].size = 0  BY ValIdleIs DEF NoProof
  <2> HIDE DEF f, m
  <2>4. valid' \in ValFields /\ valid'.proofs = f /\ valid'.bytes = 0 /\ valid'.task = valid.task
        /\ valid'.total = valid.total /\ valid'.passed = valid.passed /\ valid'.failed = valid.failed
    BY <1>1, <1>2, <2>2, <2>3 DEF ValFields
  <2>5. \A j \in RecJobs : SizesOf(valid')[j] = 0  BY <2>3, <2>4 DEF SizesOf
  <2>6. Sum(SizesOf(valid'), RecJobs) = 0  BY <2>5, SumZero, RecAssumption
  <2> QED BY <2>4, <2>6, ValStays
<1>4. ASSUME NEW j \in RecJobs, NEW o \in Outputs, StoreResultOf(j, o) PROVE ValOK(valid')
  <2> DEFINE f == [valid.results EXCEPT ![j] = o]
  <2>1. valid' = [[valid EXCEPT !.results[j] = o] EXCEPT !.ops = @ + 1]  BY <1>4 DEF StoreResultOf, ValOp, ValStep
  <2>2. valid' = [valid EXCEPT !.results = f, !.ops = m]  BY <1>1, <2>1 DEF ValFields
  <2>3. f \in [RecJobs -> Outputs \cup {NoOutput}]  BY <1>1, ValFieldsOf
  <2> HIDE DEF f, m
  <2>4. valid' \in ValFields /\ valid'.proofs = valid.proofs /\ valid'.bytes = valid.bytes /\ valid'.task = valid.task
        /\ valid'.total = valid.total /\ valid'.passed = valid.passed /\ valid'.failed = valid.failed
    BY <1>1, <1>2, <2>2, <2>3 DEF ValFields
  <2>5. SizesOf(valid') = SizesOf(valid)  BY <2>4 DEF SizesOf
  <2> QED BY <1>1, <2>4, <2>5, ValStays
<1>5. ASSUME NEW j \in RecJobs, NEW o \in Outputs, NEW n \in ProofSizes, StoreProofOf(j, o, n) PROVE ValOK(valid')
  <2> DEFINE p == [of |-> o, size |-> n]
             f == [valid.proofs EXCEPT ![j] = p]
             b == valid.bytes + n
  <2>1. valid' = [[valid EXCEPT !.proofs[j] = p, !.bytes = @ + n] EXCEPT !.ops = @ + 1]
    BY <1>5 DEF StoreProofOf, ValOp, ValStep
  <2>2. valid' = [valid EXCEPT !.proofs = f, !.bytes = b, !.ops = m]  BY <1>1, <2>1 DEF ValFields
  <2>3. n \in Nat /\ p \in ProofRecord /\ p.size = n  BY RecAssumption DEF ProofRecord
  <2>4. f \in [RecJobs -> ProofRecord] /\ b \in Nat  BY <1>1, <2>3, ValFieldsOf
  <2> HIDE DEF p, m, b
  <2>5. valid' \in ValFields /\ valid'.proofs = f /\ valid'.bytes = b /\ valid'.task = valid.task
        /\ valid'.total = valid.total /\ valid'.passed = valid.passed /\ valid'.failed = valid.failed
    BY <1>1, <1>2, <2>2, <2>4 DEF ValFields
  <2>6. Sum(SizesOf(valid'), RecJobs) = Sum(SizesOf(valid), RecJobs) - valid.proofs[j].size + n
    BY <2>3, <2>5, ProofSwapped
  <2>7. Sum(SizesOf(valid), RecJobs) \in Nat /\ valid.bytes \in Nat /\ valid.proofs[j].size \in Nat
    BY <1>1, ValFieldsOf DEF ProofRecord
  <2>8. Sum(SizesOf(valid'), RecJobs) <= valid'.bytes  BY <1>1, <2>3, <2>5, <2>6, <2>7 DEF b
  <2> QED BY <2>5, <2>8, ValStays
<1> QED BY <1>3, <1>4, <1>5

LEMMA ValBegins ==
    ASSUME ValOK(valid), NEW t \in RecTasks, NEW j \in RecJobs, ValidateBegins(t, j) PROVE ValOK(valid')
<1> DEFINE r == [ValIdle EXCEPT !.pc = "proof", !.job = j]
           f == [valid.task EXCEPT ![t] = r]
           n == valid.total + 1
           m == valid.ops + 1
<1>1. valid \in ValFields /\ Sum(SizesOf(valid), RecJobs) <= valid.bytes  BY DEF ValOK
<1>2. valid' = [[valid EXCEPT !.total = @ + 1, !.task[t] = r] EXCEPT !.ops = @ + 1] /\ valid.task[t].pc = "idle"
  BY DEF ValidateBegins, ValAt, ValOp, ValStep
<1>3. valid' = [valid EXCEPT !.total = n, !.task = f, !.ops = m]  BY <1>1, <1>2 DEF ValFields
<1>4. r \in ValTask /\ ValTaskOK(r) /\ r.pc = "proof"  BY DEF ValTask, ValTaskOK, ValIdle, ProofRecord, NoProof
<1>5. /\ n \in Nat /\ m \in Nat /\ valid.task \in [RecTasks -> ValTask]
      /\ valid.total \in Nat /\ valid.passed \in Nat /\ valid.failed \in Nat
  BY <1>1, ValFieldsOf
<1> HIDE DEF r, n, m
<1>6. f \in [RecTasks -> ValTask] /\ f[t] = r /\ \A u \in RecTasks : u # t => f[u] = valid.task[u]  BY <1>4, <1>5
<1> HIDE DEF f
<1>7. valid' \in ValFields /\ valid'.task = f /\ valid'.total = n /\ valid'.proofs = valid.proofs
      /\ valid'.passed = valid.passed /\ valid'.failed = valid.failed /\ valid'.bytes = valid.bytes
  BY <1>1, <1>3, <1>5, <1>6 DEF ValFields
<1>8. SizesOf(valid') = SizesOf(valid)  BY <1>7 DEF SizesOf
<1>9. n - valid.passed - valid.failed = valid.total - valid.passed - valid.failed + 1 - 0  BY <1>5 DEF n
<1> QED BY <1>1, <1>2, <1>4, <1>6, <1>7, <1>8, <1>9, ValMoves

\* A validation that is under way fails, is released or goes on; or a task is over.
LEMMA ValProceeds ==
    ASSUME ValOK(valid), NEW t \in RecTasks, NEW r \in ValTask, ValTaskOK(r), NEW p \in Nat, NEW q \in Nat,
           valid' = [valid EXCEPT !.passed = p, !.failed = q, !.task = [valid.task EXCEPT ![t] = r]],
           p + q = valid.passed + valid.failed + (IF valid.task[t].pc \in {"proof", "result", "verify"} THEN 1 ELSE 0)
                     - (IF r.pc \in {"proof", "result", "verify"} THEN 1 ELSE 0)
    PROVE  ValOK(valid')
<1> DEFINE f == [valid.task EXCEPT ![t] = r]
           a == IF valid.task[t].pc \in {"proof", "result", "verify"} THEN 1 ELSE 0
           b == IF r.pc \in {"proof", "result", "verify"} THEN 1 ELSE 0
<1>1. valid \in ValFields /\ Sum(SizesOf(valid), RecJobs) <= valid.bytes  BY DEF ValOK
<1>5. /\ valid.task \in [RecTasks -> ValTask]
      /\ valid.total \in Nat /\ valid.passed \in Nat /\ valid.failed \in Nat
  BY <1>1, ValFieldsOf
<1>6. f \in [RecTasks -> ValTask] /\ f[t] = r /\ \A u \in RecTasks : u # t => f[u] = valid.task[u]  BY <1>5
<1>x. valid' = [valid EXCEPT !.passed = p, !.failed = q, !.task = f] /\ p + q = valid.passed + valid.failed + a - b
      /\ a \in Int /\ b \in Int
  OBVIOUS
<1> HIDE DEF f
<1>7. valid' \in ValFields /\ valid'.task = f /\ valid'.total = valid.total /\ valid'.proofs = valid.proofs
      /\ valid'.passed = p /\ valid'.failed = q /\ valid'.bytes = valid.bytes
  BY <1>1, <1>x, <1>5, <1>6 DEF ValFields
<1>8. SizesOf(valid') = SizesOf(valid)  BY <1>7 DEF SizesOf
<1>9. valid.total - p - q = valid.total - valid.passed - valid.failed + b - a
  <2> HIDE DEF a, b
  <2> QED BY <1>5, <1>x
<1> QED BY <1>1, <1>6, <1>7, <1>8, <1>9, ValMoves

\* ValidationFailed(t), for a validation that is under way.
LEMMA ValFails ==
    ASSUME ValOK(valid), NEW t \in RecTasks, valid.task[t].pc \in {"proof", "result", "verify"}, valid' = ValidationFailed(t)
    PROVE  ValOK(valid')
<1> DEFINE r == [ValIdle EXCEPT !.pc = "refused"]
           q == valid.failed + 1
           p == valid.passed
<1>1. valid \in ValFields  BY DEF ValOK
<1>2. valid' = [valid EXCEPT !.failed = @ + 1, !.task[t] = r]  BY DEF ValidationFailed
<1>3. r \in ValTask /\ ValTaskOK(r) /\ r.pc = "refused"  BY DEF ValTask, ValTaskOK, ValIdle, ProofRecord, NoProof
<1>4. p \in Nat /\ q \in Nat /\ p + q = valid.passed + valid.failed + 1 - 0  BY <1>1, ValFieldsOf
<1>5. valid' = [valid EXCEPT !.passed = p, !.failed = q, !.task = [valid.task EXCEPT ![t] = r]]
  BY <1>1, <1>2 DEF ValFields
<1> HIDE DEF r, q, p
<1>6. p + q = valid.passed + valid.failed + (IF valid.task[t].pc \in {"proof", "result", "verify"} THEN 1 ELSE 0)
                - (IF r.pc \in {"proof", "result", "verify"} THEN 1 ELSE 0)  BY <1>3, <1>4
<1>7. p \in Nat /\ q \in Nat  BY <1>4
<1> QED BY ONLY ValOK(valid), t \in RecTasks, <1>3, <1>5, <1>6, <1>7, ValProceeds

LEMMA RetrieveProofKeeps ==
    ASSUME ValOK(valid), NEW t \in RecTasks, RetrieveProof(t) PROVE ValOK(valid')
<1> DEFINE x == valid.proofs[valid.task[t].job]
           r == [valid.task[t] EXCEPT !.proof = x, !.pc = "result"]
           q == valid.failed
           p == valid.passed
<1>1. valid \in ValFields /\ valid.task[t].pc = "proof" /\ ValTaskOK(valid.task[t])  BY DEF ValOK, RetrieveProof, ValAt
<1>2. CASE x = NoProof
  <2>1. valid' = ValidationFailed(t)  BY <1>2 DEF RetrieveProof, ValStep
  <2> QED BY <1>1, <2>1, ValFails
<1>3. CASE x # NoProof
  <2>1. valid' = [valid EXCEPT !.task[t].proof = x, !.task[t].pc = "result"]  BY <1>3 DEF RetrieveProof, ValStep
  <2>2. valid.task \in [RecTasks -> ValTask] /\ valid.proofs \in [RecJobs -> ProofRecord] /\ valid.task[t].job \in RecJobs
        /\ valid.task[t] \in ValTask
    BY <1>1, ValFieldsOf DEF ValTaskOK
  <2>3. x \in ProofRecord  BY <2>2
  <2>4. p \in Nat /\ q \in Nat /\ p + q = valid.passed + valid.failed + 1 - 1  BY <1>1, ValFieldsOf
  <2>5. valid' = [valid EXCEPT !.passed = p, !.failed = q, !.task = [valid.task EXCEPT ![t] = r]]
    <3> HIDE DEF x
    <3> QED BY <1>1, <2>1, <2>2 DEF ValFields
  <2> HIDE DEF x
  <2>6. r \in ValTask /\ ValTaskOK(r) /\ r.pc = "result"  BY <2>2, <2>3 DEF ValTask, ValTaskOK
  <2> HIDE DEF r, q, p
  <2> QED BY <1>1, <2>4, <2>5, <2>6, ValProceeds
<1> QED BY <1>2, <1>3

LEMMA RetrieveResultKeeps ==
    ASSUME ValOK(valid), NEW t \in RecTasks, RetrieveResult(t) PROVE ValOK(valid')
<1> DEFINE x == valid.results[valid.task[t].job]
           r == [valid.task[t] EXCEPT !.result = x, !.pc = "verify"]
           q == valid.failed
           p == valid.passed
<1>1. valid \in ValFields /\ valid.task[t].pc = "result" /\ ValTaskOK(valid.task[t])
  BY DEF ValOK, RetrieveResult, ValAt
<1>2. CASE x = NoOutput
  <2>1. valid' = ValidationFailed(t)  BY <1>2 DEF RetrieveResult, ValStep
  <2> QED BY <1>1, <2>1, ValFails
<1>3. CASE x # NoOutput
  <2>1. valid' = [valid EXCEPT !.task[t].result = x, !.task[t].pc = "verify"]  BY <1>3 DEF RetrieveResult, ValStep
  <2>2. valid.task \in [RecTasks -> ValTask] /\ valid.results \in [RecJobs -> Outputs \cup {NoOutput}]
        /\ valid.task[t].job \in RecJobs /\ valid.task[t] \in ValTask
    BY <1>1, ValFieldsOf DEF ValTaskOK
  <2>3. x \in Outputs \cup {NoOutput}  BY <2>2
  <2>4. p \in Nat /\ q \in Nat /\ p + q = valid.passed + valid.failed + 1 - 1  BY <1>1, ValFieldsOf
  <2>5. valid' = [valid EXCEPT !.passed = p, !.failed = q, !.task = [valid.task EXCEPT ![t] = r]]
    <3> HIDE DEF x
    <3> QED BY <1>1, <2>1, <2>2 DEF ValFields
  <2> HIDE DEF x
  <2>6. r \in ValTask /\ ValTaskOK(r) /\ r.pc = "verify"  BY <2>2, <2>3 DEF ValTask, ValTaskOK
  <2> HIDE DEF r, q, p
  <2> QED BY <1>1, <2>4, <2>5, <2>6, ValProceeds
<1> QED BY <1>2, <1>3

LEMMA VerifyKeeps ==
    ASSUME ValOK(valid), NEW t \in RecTasks, NEW works \in BOOLEAN, VerifyAndCount(t, works) PROVE ValOK(valid')
<1> DEFINE r == [valid.task[t] EXCEPT !.pc = "released"]
           q == valid.failed
           p == valid.passed + 1
           holds == works /\ ProofHolds(valid.task[t].proof, valid.task[t].result)
<1>1. valid \in ValFields /\ valid.task[t].pc = "verify"  BY DEF ValOK, VerifyAndCount, ValAt
<1>2. CASE ~holds
  <2>1. valid' = ValidationFailed(t)  BY <1>2 DEF VerifyAndCount, ValStep
  <2> QED BY <1>1, <2>1, ValFails
<1>3. CASE holds
  <2>1. valid' = [valid EXCEPT !.passed = @ + 1, !.task[t].pc = "released"] /\ valid.task[t].proof.of = valid.task[t].result
    BY <1>3 DEF VerifyAndCount, ValStep, ProofHolds
  <2>2. valid.task \in [RecTasks -> ValTask] /\ valid.task[t] \in ValTask  BY <1>1, ValFieldsOf
  <2>4. p \in Nat /\ q \in Nat /\ p + q = valid.passed + valid.failed + 1 - 0  BY <1>1, ValFieldsOf
  <2>5. valid' = [valid EXCEPT !.passed = p, !.failed = q, !.task = [valid.task EXCEPT ![t] = r]]
    BY <1>1, <2>1, <2>2 DEF ValFields
  <2>6. r \in ValTask /\ ValTaskOK(r) /\ r.pc = "released"  BY <2>1, <2>2 DEF ValTask, ValTaskOK
  <2> HIDE DEF r, q, p
  <2> QED BY <1>1, <2>4, <2>5, <2>6, ValProceeds
<1> QED BY <1>2, <1>3

LEMMA ValOverKeeps ==
    ASSUME ValOK(valid), NEW t \in RecTasks, ValidationOver(t) PROVE ValOK(valid')
<1> DEFINE q == valid.failed
           p == valid.passed
<1>1. valid \in ValFields /\ valid.task[t].pc \in {"released", "refused"} /\ valid' = [valid EXCEPT !.task[t] = ValIdle]
  BY DEF ValOK, ValidationOver, ValAt, ValStep
<1>2. valid.task \in [RecTasks -> ValTask] /\ p \in Nat /\ q \in Nat  BY <1>1, ValFieldsOf
<1>3. ValIdle \in ValTask /\ ValTaskOK(ValIdle) /\ ValIdle.pc = "idle"  BY ValIdleIs DEF ValTaskOK
<1>4. p + q = valid.passed + valid.failed + (IF valid.task[t].pc \in {"proof", "result", "verify"} THEN 1 ELSE 0)
                - (IF ValIdle.pc \in {"proof", "result", "verify"} THEN 1 ELSE 0)  BY <1>1, <1>2, <1>3
<1>5. valid' = [valid EXCEPT !.passed = p, !.failed = q, !.task = [valid.task EXCEPT ![t] = ValIdle]]
  BY <1>1, <1>2 DEF ValFields
<1> HIDE DEF q, p
<1> QED BY <1>2, <1>3, <1>4, <1>5, ValProceeds

LEMMA RemoveProofKeeps ==
    ASSUME ValOK(valid), NEW t \in RecTasks, NEW j \in RecJobs, RemoveProofOf(t, j) PROVE ValOK(valid')
<1> DEFINE r == [ValIdle EXCEPT !.pc = "cleanup", !.job = j]
           f == [valid.task EXCEPT ![t] = r]
           g == [valid.proofs EXCEPT ![j] = NoProof]
           k == valid.proofs[j].size
           b == IF valid.bytes < k THEN 0 ELSE valid.bytes - k
           m == valid.ops + 1
<1>1. valid \in ValFields /\ Sum(SizesOf(valid), RecJobs) <= valid.bytes  BY DEF ValOK
<1>2. valid.task[t].pc = "idle"
      /\ valid' = [[valid EXCEPT !.proofs[j] = NoProof, !.task[t] = r,
                       !.bytes = IF @ < valid.proofs[j].size THEN 0 ELSE @ - valid.proofs[j].size] EXCEPT !.ops = @ + 1]
  BY DEF RemoveProofOf, ValAt, ValOp, ValStep
<1>3. valid' = [valid EXCEPT !.proofs = g, !.task = f, !.bytes = b, !.ops = m]  BY <1>1, <1>2 DEF ValFields
<1>4. r \in ValTask /\ ValTaskOK(r) /\ r.pc = "cleanup"  BY DEF ValTask, ValTaskOK, ValIdle, ProofRecord, NoProof
<1>5. /\ m \in Nat /\ valid.task \in [RecTasks -> ValTask] /\ valid.proofs \in [RecJobs -> ProofRecord]
      /\ valid.bytes \in Nat /\ valid.total \in Nat /\ valid.passed \in Nat /\ valid.failed \in Nat
      /\ Sum(SizesOf(valid), RecJobs) \in Nat
  BY <1>1, ValFieldsOf
<1>6. k \in Nat /\ NoProof \in ProofRecord /\ NoProof.size = 0  BY <1>5, ValIdleIs DEF ProofRecord, NoProof
<1>7. b \in Nat  BY <1>5, <1>6
<1>8. g \in [RecJobs -> ProofRecord]  BY <1>5, <1>6
<1> HIDE DEF r, b, m
<1>9. f \in [RecTasks -> ValTask] /\ f[t] = r /\ \A u \in RecTasks : u # t => f[u] = valid.task[u]  BY <1>4, <1>5
<1> HIDE DEF f, g
<1>10. valid' \in ValFields /\ valid'.task = f /\ valid'.total = valid.total /\ valid'.proofs = g
      /\ valid'.passed = valid.passed /\ valid'.failed = valid.failed /\ valid'.bytes = b
  BY <1>1, <1>3, <1>5, <1>7, <1>8, <1>9 DEF ValFields
<1>11. Sum(SizesOf(valid'), RecJobs) = Sum(SizesOf(valid), RecJobs) - k + NoProof.size
  BY <1>6, <1>10, ProofSwapped DEF g
<1>12. Sum(SizesOf(valid'), RecJobs) \in Nat  BY <1>10, ValFieldsOf
<1> HIDE DEF k
<1>13. Sum(SizesOf(valid'), RecJobs) <= b  BY <1>1, <1>5, <1>6, <1>11, <1>12 DEF b
<1>14. valid.total - valid.passed - valid.failed = valid.total - valid.passed - valid.failed + 0 - 0  BY <1>5
<1> QED BY <1>2, <1>4, <1>9, <1>10, <1>13, <1>14, ValMoves

LEMMA RemoveResultKeeps ==
    ASSUME ValOK(valid), NEW t \in RecTasks, RemoveResultOf(t) PROVE ValOK(valid')
<1> DEFINE f == [valid.task EXCEPT ![t] = ValIdle]
           g == [valid.results EXCEPT ![valid.task[t].job] = NoOutput]
<1>1. valid \in ValFields /\ Sum(SizesOf(valid), RecJobs) <= valid.bytes  BY DEF ValOK
<1>2. valid.task[t].pc = "cleanup" /\ valid' = [valid EXCEPT !.results[valid.task[t].job] = NoOutput, !.task[t] = ValIdle]
  BY DEF RemoveResultOf, ValAt, ValStep
<1>3. valid' = [valid EXCEPT !.results = g, !.task = f]  BY <1>1, <1>2 DEF ValFields
<1>4. ValIdle \in ValTask /\ ValTaskOK(ValIdle) /\ ValIdle.pc = "idle"  BY ValIdleIs DEF ValTaskOK
<1>5. /\ valid.task \in [RecTasks -> ValTask] /\ valid.results \in [RecJobs -> Outputs \cup {NoOutput}]
      /\ valid.total \in Nat /\ valid.passed \in Nat /\ valid.failed \in Nat
  BY <1>1, ValFieldsOf
<1>8. g \in [RecJobs -> Outputs \cup {NoOutput}]  BY <1>5
<1>9. f \in [RecTasks -> ValTask] /\ f[t] = ValIdle /\ \A u \in RecTasks : u # t => f[u] = valid.task[u]  BY <1>4, <1>5
<1> HIDE DEF f, g
<1>10. valid' \in ValFields /\ valid'.task = f /\ valid'.total = valid.total /\ valid'.proofs = valid.proofs
      /\ valid'.passed = valid.passed /\ valid'.failed = valid.failed /\ valid'.bytes = valid.bytes
  BY <1>1, <1>3, <1>5, <1>8, <1>9 DEF ValFields
<1>11. SizesOf(valid') = SizesOf(valid)  BY <1>10 DEF SizesOf
<1>14. valid.total - valid.passed - valid.failed = valid.total - valid.passed - valid.failed + 0 - 0  BY <1>5
<1> QED BY <1>1, <1>2, <1>4, <1>9, <1>10, <1>11, <1>14, ValMoves

LEMMA ValSteps == ASSUME ValOK(valid), ValNext PROVE ValOK(valid')
  BY StoreSteps, RetrieveProofKeeps, RetrieveResultKeeps, RemoveResultKeeps, ValOverKeeps, VerifyKeeps, ValBegins,
     RemoveProofKeeps, Zenon DEF ValNext

LEMMA ValSafe == ASSUME ValOK(valid) PROVE ReleasedIsProven
<1>1. ProofBytes = SizesOf(valid)  BY DEF ProofBytes, SizesOf
<1>2. MapThenSumSet(LAMBDA j : ProofBytes[j], RecJobs) = Sum(ProofBytes, RecJobs)  BY Zenon DEF Sum
<1>3. MapThenSumSet(LAMBDA j : ProofBytes[j], RecJobs) <= valid.bytes  BY <1>1, <1>2 DEF ValOK
<1>4. \A t \in RecTasks : ValAt(t, "released") => valid.task[t].proof.of = valid.task[t].result
  BY DEF ValOK, ValTaskOK, ValAt
<1>5. valid.total = valid.passed + valid.failed
                 + Cardinality({t \in RecTasks : valid.task[t].pc \in {"proof", "result", "verify"}})
  BY DEF ValOK, Validating
<1> QED BY <1>3, <1>4, <1>5 DEF ReleasedIsProven

-----------------------------------------------------------------------------
(* The four records together: a step is of one of them.                    *)

RecInv == PackOK(packed) /\ ValOK(valid) /\ PayLogOK(paidLog) /\ RevOK(revenue)

LEMMA RecInitial == RecInit => RecInv  BY PackInitial, ValInitial, PayLogInitial, RevInitial DEF RecInv

LEMMA PackLeaves == ASSUME PackNext PROVE UNCHANGED <<valid, paidLog, revenue>>
  BY DEF PackNext, StoreMetadata, DeleteMetadata, DeleteData, StoreData, PackStep
LEMMA ValLeaves == ASSUME ValNext PROVE UNCHANGED <<packed, paidLog, revenue>>
  BY DEF ValNext, ClearProofStore, StoreResultOf, StoreProofOf, RetrieveProof, RetrieveResult, RemoveResultOf, ValidationOver,
         VerifyAndCount, ValidateBegins, RemoveProofOf, ValOp, ValStep
LEMMA PayLogLeaves == ASSUME PayLogNext PROVE UNCHANGED <<packed, valid, revenue>>
  BY DEF PayLogNext, PaymentBlock, MonitorPayment, TrackBegins, TrackPayments, PayLogStep
LEMMA RevLeaves == ASSUME RevNext PROVE UNCHANGED <<packed, valid, paidLog>>
  BY DEF RevNext, RecordByJob, RecordRevenue, RevStep

LEMMA RecStep == ASSUME RecInv, [RecNext]_recVars PROVE RecInv'
<1>1. CASE PackNext  BY <1>1, PackSteps, PackLeaves DEF RecInv
<1>2. CASE ValNext  BY <1>2, ValSteps, ValLeaves DEF RecInv
<1>3. CASE PayLogNext  BY <1>3, PayLogSteps, PayLogLeaves DEF RecInv
<1>4. CASE RevNext  BY <1>4, RevSteps, RevLeaves DEF RecInv
<1>5. CASE UNCHANGED recVars  BY <1>5 DEF RecInv, recVars
<1> QED BY <1>1, <1>2, <1>3, <1>4, <1>5 DEF RecNext

-----------------------------------------------------------------------------
(* FeeDistributor: the shares of a job are never more than its fee, also   *)
(* when a percentage wraps, so that the remainder makes them equal to it.  *)

LEMMA WrapBound == ASSUME NEW n \in Nat PROVE Wrap8(n) \in Nat /\ Wrap8(n) <= n /\ (n < 256 => Wrap8(n) = n)
  BY DEF Wrap8

LEMMA TimesMonotonic == ASSUME NEW k \in Nat, NEW a \in Nat, NEW b \in Nat, a <= b PROVE k * a <= k * b
<1> DEFINE d == b - a
<1>1. d \in Nat /\ b = a + d  OBVIOUS
<1> HIDE DEF d
<1>2. k * b = k * a + k * d /\ k * d \in Nat /\ k * a \in Nat  BY <1>1
<1> DEFINE x == k * a
           y == k * d
<1>3. k * b = x + y /\ x \in Nat /\ y \in Nat  BY <1>2
<1> HIDE DEF x, y
<1> QED BY <1>3 DEF x

LEMMA TimesCancels == ASSUME NEW k \in Nat, k > 0, NEW a \in Nat, NEW b \in Nat, k * a <= k * b PROVE a <= b
<1> SUFFICES ASSUME b < a PROVE FALSE  OBVIOUS
<1>1. b + 1 <= a /\ b + 1 \in Nat  OBVIOUS
<1>2. k * (b + 1) <= k * a  BY <1>1, TimesMonotonic
<1>3. k * (b + 1) = k * b + k /\ k * b \in Nat /\ k * a \in Nat  OBVIOUS
<1> QED BY <1>2, <1>3

LEMMA QuotientBound == ASSUME NEW x \in Nat, NEW d \in Nat, d > 0 PROVE x \div d \in Nat /\ d * (x \div d) <= x  OBVIOUS

LEMMA ShareBound == ASSUME NEW t \in Nat, NEW p \in Nat PROVE Share(t, p) \in Nat /\ 100 * Share(t, p) <= t * p
<1> DEFINE x == t * p
<1>1. x \in Nat  OBVIOUS
<1> HIDE DEF x
<1>2. x \div 100 \in Nat /\ 100 * (x \div 100) <= x  BY <1>1
<1> QED BY <1>2 DEF Share, x

LEMMA SharesWithin ==
    ASSUME NEW t \in Nat, NEW a \in Nat, NEW b \in Nat, NEW c \in Nat, NEW d \in Nat, a + b + c + d <= 100
    PROVE  Share(t, a) + Share(t, b) + Share(t, c) + Share(t, d) <= t
<1> DEFINE n == a + b + c + d
           A == Share(t, a)
           B == Share(t, b)
           C == Share(t, c)
           D == Share(t, d)
           ta == t * a
           tb == t * b
           tc == t * c
           td == t * d
           tn == t * n
<1>1. A \in Nat /\ B \in Nat /\ C \in Nat /\ D \in Nat /\ 100 * A <= ta /\ 100 * B <= tb /\ 100 * C <= tc /\ 100 * D <= td
  BY ShareBound
<1>2. ta \in Nat /\ tb \in Nat /\ tc \in Nat /\ td \in Nat /\ tn \in Nat /\ tn = ta + tb + tc + td  OBVIOUS
<1>3. tn <= t * 100
  <2>1. n \in Nat /\ n <= 100  OBVIOUS
  <2> HIDE DEF n
  <2> QED BY <2>1, TimesMonotonic
<1> HIDE DEF A, B, C, D, ta, tb, tc, td, tn
<1>4. A + B + C + D <= t  BY <1>1, <1>2, <1>3
<1> QED BY <1>4 DEF A, B, C, D

LEMMA FeePercentages ==
    /\ MarketplacePct \in Nat /\ NetworkPct \in Nat /\ ReferrerPct \in Nat /\ BurnPct \in Nat
    /\ MarketplacePct + NetworkPct + ReferrerPct + BurnPct <= 100 /\ MarketplacePct + NetworkPct + BurnPct > 0
  BY FeeAssumption

\* What the redistribution adds is at most a role's part of the referrer's percentage.
LEMMA RedistributedBound ==
    ASSUME NEW p \in Nat
    PROVE  /\ Redistributed(p) \in Nat
           /\ (MarketplacePct + NetworkPct + BurnPct) * Redistributed(p)
                 <= (MarketplacePct + NetworkPct + BurnPct) * p + ReferrerPct * p
<1> DEFINE d == MarketplacePct + NetworkPct + BurnPct
           y == ReferrerPct * p
           x == Wrap8(y)
           q == x \div Wrap8(d)
           r == Wrap8(p + q)
<1>1. d \in Nat /\ d > 0 /\ d < 256 /\ y \in Nat  BY FeePercentages
<1>2. Redistributed(p) = r  BY DEF Redistributed
<1> HIDE DEF d, y
<1>3. x \in Nat /\ x <= y /\ Wrap8(d) = d  BY <1>1, WrapBound
<1>4. q \in Nat /\ d * q <= x
  <2> HIDE DEF x
  <2> QED BY <1>1, <1>3, QuotientBound
<1> HIDE DEF q, x
<1>5. p + q \in Nat  BY <1>4
<1>6. r \in Nat /\ r <= p + q  BY <1>5, WrapBound
<1> HIDE DEF r
<1>7. d * r <= d * (p + q)  BY <1>1, <1>5, <1>6, TimesMonotonic
<1>8. d * (p + q) = d * p + d * q /\ d * p \in Nat /\ d * q \in Nat /\ d * r \in Nat  BY <1>1, <1>4, <1>6
<1> DEFINE u == d * p
           v == d * q
           w == d * r
<1>9. w <= u + v /\ u \in Nat /\ v \in Nat /\ w \in Nat /\ v <= x  BY <1>4, <1>7, <1>8
<1> HIDE DEF u, v, w
<1>10. w <= u + y  BY <1>1, <1>3, <1>9
<1> QED BY <1>2, <1>6, <1>10 DEF w, u, y, d

LEMMA RedistributedWithin ==
    Redistributed(MarketplacePct) + Redistributed(NetworkPct) + Redistributed(BurnPct) <= 100
<1> DEFINE d == MarketplacePct + NetworkPct + BurnPct
           a == Redistributed(MarketplacePct)
           b == Redistributed(NetworkPct)
           c == Redistributed(BurnPct)
<1>1. a \in Nat /\ b \in Nat /\ c \in Nat /\ d \in Nat /\ d > 0 /\ d + ReferrerPct <= 100 /\ ReferrerPct \in Nat
  BY FeePercentages, RedistributedBound
<1>2. /\ d * a <= d * MarketplacePct + ReferrerPct * MarketplacePct
      /\ d * b <= d * NetworkPct + ReferrerPct * NetworkPct
      /\ d * c <= d * BurnPct + ReferrerPct * BurnPct
  BY FeePercentages, RedistributedBound
<1> HIDE DEF a, b, c
<1>3. d * MarketplacePct + d * NetworkPct + d * BurnPct = d * d
      /\ ReferrerPct * MarketplacePct + ReferrerPct * NetworkPct + ReferrerPct * BurnPct = ReferrerPct * d
  BY FeePercentages
<1>4. d * (a + b + c) = d * a + d * b + d * c
  <2> HIDE DEF d
  <2> QED BY <1>1
<1>5. /\ d * MarketplacePct \in Nat /\ d * NetworkPct \in Nat /\ d * BurnPct \in Nat
      /\ ReferrerPct * MarketplacePct \in Nat /\ ReferrerPct * NetworkPct \in Nat /\ ReferrerPct * BurnPct \in Nat
      /\ d * a \in Nat /\ d * b \in Nat /\ d * c \in Nat
  <2> HIDE DEF d
  <2> QED BY <1>1, FeePercentages
<1> DEFINE x1 == d * MarketplacePct
           x2 == d * NetworkPct
           x3 == d * BurnPct
           y1 == ReferrerPct * MarketplacePct
           y2 == ReferrerPct * NetworkPct
           y3 == ReferrerPct * BurnPct
           z1 == d * a
           z2 == d * b
           z3 == d * c
           dd == d * d
           rd == ReferrerPct * d
<1>6. x1 \in Nat /\ x2 \in Nat /\ x3 \in Nat /\ y1 \in Nat /\ y2 \in Nat /\ y3 \in Nat /\ z1 \in Nat /\ z2 \in Nat /\ z3 \in Nat
      /\ x1 + x2 + x3 = dd /\ y1 + y2 + y3 = rd /\ z1 <= x1 + y1 /\ z2 <= x2 + y2 /\ z3 <= x3 + y3
  BY <1>2, <1>3, <1>5
<1>7. dd + rd <= d * 100 /\ dd \in Nat /\ rd \in Nat
  <2> HIDE DEF d
  <2>1. d * (d + ReferrerPct) = d * d + ReferrerPct * d /\ d * d \in Nat /\ ReferrerPct * d \in Nat
        /\ d + ReferrerPct \in Nat /\ 100 \in Nat
    BY <1>1
  <2>2. d * (d + ReferrerPct) <= d * 100  BY <1>1, <2>1, TimesMonotonic
  <2> QED BY <2>1, <2>2
<1>8. d * (a + b + c) = z1 + z2 + z3  BY <1>4
<1> HIDE DEF x1, x2, x3, y1, y2, y3, z1, z2, z3, dd, rd
<1>9. z1 + z2 + z3 <= dd + rd  BY <1>6, <1>7
<1> HIDE DEF d
<1>10. d * (a + b + c) <= d * 100 /\ a + b + c \in Nat
  <2>1. d * 100 \in Nat  BY <1>1
  <2> QED BY <1>1, <1>6, <1>7, <1>8, <1>9, <2>1
<1>11. a + b + c <= 100  BY <1>1, <1>10, TimesCancels
<1> QED BY <1>11 DEF a, b, c

\* calculate_shares divides the fee to the last unit.
LEMMA SharesConserve ==
    ASSUME NEW t \in Nat, NEW referred \in BOOLEAN
    PROVE  LET s == CalculateShares(t, referred)
           IN /\ s.m \in Nat /\ s.n \in Nat /\ s.r \in Nat /\ s.b \in Nat /\ s.m + s.n + s.r + s.b = t
              /\ ~referred => s.r = 0
<1> DEFINE pctm == IF referred THEN MarketplacePct ELSE Redistributed(MarketplacePct)
           pctn == IF referred THEN NetworkPct ELSE Redistributed(NetworkPct)
           pctr == IF referred THEN ReferrerPct ELSE 0
           pctb == IF referred THEN BurnPct ELSE Redistributed(BurnPct)
           m == Share(t, pctm)
           n == Share(t, pctn)
           r == IF referred THEN Share(t, ReferrerPct) ELSE 0
           b == Share(t, pctb)
           k == IF m + n + r + b < t THEN t - (m + n + r + b) ELSE 0
<1>1. CalculateShares(t, referred) = [m |-> m + k, n |-> n, r |-> r, b |-> b]  BY DEF CalculateShares
<1>2. pctm \in Nat /\ pctn \in Nat /\ pctr \in Nat /\ pctb \in Nat /\ pctm + pctn + pctr + pctb <= 100
  <2>1. Redistributed(MarketplacePct) \in Nat /\ Redistributed(NetworkPct) \in Nat /\ Redistributed(BurnPct) \in Nat
    BY FeePercentages, RedistributedBound
  <2> QED BY <2>1, FeePercentages, RedistributedWithin
<1>3. r = Share(t, pctr)
  <2>1. CASE referred  BY <2>1
  <2>2. CASE ~referred
    <3>1. t * 0 = 0 /\ 0 \div 100 = 0  OBVIOUS
    <3> QED BY <2>2, <3>1 DEF Share
  <2> QED BY <2>1, <2>2
<1>r. ~referred => r = 0  OBVIOUS
<1> HIDE DEF pctm, pctn, pctr, pctb, r
<1>4. m \in Nat /\ n \in Nat /\ r \in Nat /\ b \in Nat /\ m + n + r + b <= t
  <2>1. m \in Nat /\ n \in Nat /\ Share(t, pctr) \in Nat /\ b \in Nat  BY <1>2, ShareBound
  <2>2. Share(t, pctm) + Share(t, pctn) + Share(t, pctr) + Share(t, pctb) <= t  BY <1>2, SharesWithin
  <2> QED BY <1>3, <2>1, <2>2
<1> HIDE DEF m, n, b
<1>5. k \in Nat /\ m + n + r + b + k = t  BY <1>4
<1> HIDE DEF k
<1>6. m + k \in Nat /\ (m + k) + n + r + b = t  BY <1>4, <1>5
<1> QED BY <1>1, <1>4, <1>6, <1>r

FeeInv ==
    /\ recipient \in [Roles -> Addresses \cup {NoAddress}] /\ owed \in [Addresses -> Nat] /\ sent \in [Addresses -> Nat]
    /\ allocated \in Nat /\ toBurn \in Nat /\ kept \in Nat
    /\ allocated = Sum(owed, Addresses) + Sum(sent, Addresses) + toBurn + kept
    /\ burned \in Nat /\ burns \in Nat /\ (burns = 0 => burned = 0) /\ (burns <= 1 => burned <= toBurn)

LEMMA FeeSafe == ASSUME FeeInv PROVE FeesConserved
<1>1. FeeTotal(owed) = Sum(owed, Addresses) /\ FeeTotal(sent) = Sum(sent, Addresses)  BY Zenon DEF FeeTotal, Sum
<1> QED BY <1>1 DEF FeeInv, FeesConserved

LEMMA FeeInitial == FeeInit => FeeInv
<1> SUFFICES ASSUME FeeInit PROVE FeeInv  OBVIOUS
<1>1. /\ recipient = [r \in Roles |-> NoAddress] /\ owed = [a \in Addresses |-> 0] /\ sent = [a \in Addresses |-> 0]
      /\ allocated = 0 /\ toBurn = 0 /\ burned = 0 /\ burns = 0 /\ kept = 0
  BY DEF FeeInit
<1>2. Sum(owed, Addresses) = 0 /\ Sum(sent, Addresses) = 0  BY <1>1, FeeAssumption, SumZero
<1> QED BY <1>1, <1>2 DEF FeeInv

\* What is credited to one address.
LEMMA CreditSum ==
    ASSUME NEW to, NEW x \in Nat
    PROVE  Sum([a \in Addresses |-> Credit(a, to, x)], Addresses) = IF to \in Addresses THEN x ELSE 0
<1> DEFINE g == [a \in Addresses |-> Credit(a, to, x)]
           f == [a \in Addresses |-> 0]
<1>1. CASE to \in Addresses
  <2>1. (\A a \in Addresses : f[a] \in Int) /\ g[to] \in Int /\ f[to] = 0 /\ g[to] = x /\ IsFiniteSet(Addresses)
        /\ (\A a \in Addresses : f[a] = 0) /\ \A a \in Addresses : a # to => g[a] = f[a]
    BY <1>1, FeeAssumption DEF Credit
  <2> HIDE DEF f, g
  <2>2. Sum(g, Addresses) = Sum(f, Addresses) - f[to] + g[to]  BY ONLY <1>1, <2>1, SumUpdate
  <2>3. Sum(f, Addresses) = 0  BY ONLY <2>1, SumZero
  <2>4. Sum(g, Addresses) = x  BY <2>1, <2>2, <2>3
  <2> QED BY <1>1, <2>4 DEF g
<1>2. CASE to \notin Addresses
  <2>1. (\A a \in Addresses : g[a] = 0) /\ IsFiniteSet(Addresses)  BY <1>2, FeeAssumption DEF Credit
  <2> HIDE DEF g
  <2>2. Sum(g, Addresses) = 0  BY ONLY <2>1, SumZero
  <2> QED BY <1>2, <2>2 DEF g
<1> QED BY <1>1, <1>2

LEMMA AllocateKeeps ==
    ASSUME FeeInv, NEW total \in Fees, NEW r \in Addresses \cup {NoAddress}, AllocateFee(total, r) PROVE FeeInv'
<1> DEFINE s == CalculateShares(total, r # NoAddress)
           rm == recipient["marketplace"]
           rn == recipient["network"]
           cm == [a \in Addresses |-> Credit(a, rm, s.m)]
           cn == [a \in Addresses |-> Credit(a, rn, s.n)]
           cr == [a \in Addresses |-> Credit(a, r, s.r)]
           o1 == [a \in Addresses |-> owed[a] + cm[a]]
           o2 == [a \in Addresses |-> o1[a] + cn[a]]
<1>1. total \in Nat /\ IsFiniteSet(Addresses) /\ NoAddress \notin Addresses /\ (r # NoAddress) \in BOOLEAN
  BY FeeAssumption
<1>2. s.m \in Nat /\ s.n \in Nat /\ s.r \in Nat /\ s.b \in Nat /\ s.m + s.n + s.r + s.b = total /\ (r = NoAddress => s.r = 0)
  BY <1>1, SharesConserve
<1>3. /\ owed' = [a \in Addresses |-> owed[a] + Credit(a, rm, s.m) + Credit(a, rn, s.n) + Credit(a, r, s.r)]
      /\ toBurn' = toBurn + s.b /\ kept' = kept + Kept("marketplace", s.m) + Kept("network", s.n)
      /\ allocated' = allocated + total /\ UNCHANGED <<recipient, sent, burned, burns>>
  BY DEF AllocateFee
<1>4. owed \in [Addresses -> Nat] /\ rm \in Addresses \cup {NoAddress} /\ rn \in Addresses \cup {NoAddress}
  BY DEF FeeInv, Roles
<1> HIDE DEF s, rm, rn
<1>5. \A a \in Addresses : owed[a] \in Nat /\ Credit(a, rm, s.m) \in Nat /\ Credit(a, rn, s.n) \in Nat /\ Credit(a, r, s.r) \in Nat
  BY <1>2, <1>4 DEF Credit
<1>6. /\ \A a \in Addresses : cm[a] \in Int /\ cn[a] \in Int /\ cr[a] \in Int /\ owed[a] \in Int
      /\ \A a \in Addresses : o1[a] = owed[a] + cm[a] /\ o1[a] \in Int
      /\ \A a \in Addresses : o2[a] = o1[a] + cn[a] /\ o2[a] \in Int
      /\ \A a \in Addresses : owed'[a] = o2[a] + cr[a]
      /\ owed' \in [Addresses -> Nat]
  BY <1>3, <1>5
<1>7. /\ Sum(cm, Addresses) = (IF rm \in Addresses THEN s.m ELSE 0)
      /\ Sum(cn, Addresses) = (IF rn \in Addresses THEN s.n ELSE 0)
      /\ Sum(cr, Addresses) = (IF r \in Addresses THEN s.r ELSE 0)
  BY <1>2, CreditSum
<1> HIDE DEF cm, cn, cr, o1, o2
<1>8. Sum(o1, Addresses) = Sum(owed, Addresses) + Sum(cm, Addresses)  BY ONLY <1>1, <1>6, SumPlus
<1>9. Sum(o2, Addresses) = Sum(o1, Addresses) + Sum(cn, Addresses)  BY ONLY <1>1, <1>6, SumPlus
<1>10. Sum(owed', Addresses) = Sum(o2, Addresses) + Sum(cr, Addresses)  BY ONLY <1>1, <1>6, SumPlus
<1>11. /\ Kept("marketplace", s.m) = (IF rm \in Addresses THEN 0 ELSE s.m)
       /\ Kept("network", s.n) = (IF rn \in Addresses THEN 0 ELSE s.n)
  BY <1>1, <1>4 DEF Kept, rm, rn
<1>12. Sum(cr, Addresses) = s.r  BY <1>1, <1>2, <1>7
<1> DEFINE km == Kept("marketplace", s.m)
           kn == Kept("network", s.n)
<1>13. Sum(cm, Addresses) + km = s.m /\ Sum(cn, Addresses) + kn = s.n /\ km \in Nat /\ kn \in Nat
       /\ Sum(cm, Addresses) \in Nat /\ Sum(cn, Addresses) \in Nat
  BY <1>2, <1>7, <1>11
<1>14. Sum(owed, Addresses) \in Int /\ Sum(sent, Addresses) \in Int
  <2>1. \A a \in Addresses : sent[a] \in Int  BY DEF FeeInv
  <2> QED BY <1>1, <1>6, <2>1, SumType
<1>15. toBurn' \in Nat /\ kept' \in Nat /\ allocated' \in Nat /\ allocated \in Nat /\ toBurn \in Nat /\ kept \in Nat
       /\ kept' = kept + km + kn
  BY <1>1, <1>2, <1>3, <1>13 DEF FeeInv
<1> HIDE DEF km, kn
<1>16. allocated' = Sum(owed', Addresses) + Sum(sent, Addresses) + toBurn' + kept'
  <2>1. allocated = Sum(owed, Addresses) + Sum(sent, Addresses) + toBurn + kept  BY DEF FeeInv
  <2> QED BY <1>2, <1>3, <1>8, <1>9, <1>10, <1>12, <1>13, <1>14, <1>15, <1>1, <2>1
<1>17. burns <= 1 => burned <= toBurn'  BY <1>2, <1>3, <1>15 DEF FeeInv
<1> QED BY <1>3, <1>6, <1>15, <1>16, <1>17 DEF FeeInv

\* What is owed is sent, address by address.
LEMMA FeesPaid ==
    ASSUME FeeInv, owed' \in [Addresses -> Nat], sent' \in [Addresses -> Nat],
           \A a \in Addresses : owed'[a] + sent'[a] = owed[a] + sent[a], UNCHANGED <<recipient, allocated, toBurn, kept, jobs>>,
           UNCHANGED <<burned, burns>> \/ \E succeeds \in BOOLEAN : Burn(succeeds)
    PROVE  FeeInv'
<1> DEFINE h == [a \in Addresses |-> owed[a] + sent[a]]
<1>1. /\ IsFiniteSet(Addresses) /\ \A a \in Addresses : owed[a] \in Int /\ sent[a] \in Int /\ owed'[a] \in Int /\ sent'[a] \in Int
  BY FeeAssumption DEF FeeInv
<1>2. (\A a \in Addresses : h[a] = owed[a] + sent[a]) /\ \A a \in Addresses : h[a] = owed'[a] + sent'[a]  OBVIOUS
<1> HIDE DEF h
<1>3. Sum(h, Addresses) = Sum(owed, Addresses) + Sum(sent, Addresses)  BY ONLY <1>1, <1>2, SumPlus
<1>4. Sum(h, Addresses) = Sum(owed', Addresses) + Sum(sent', Addresses)  BY ONLY <1>1, <1>2, SumPlus
<1>5. burned' \in Nat /\ burns' \in Nat /\ (burns' = 0 => burned' = 0) /\ (burns' <= 1 => burned' <= toBurn)
  BY DEF FeeInv, Burn
<1> QED BY <1>3, <1>4, <1>5 DEF FeeInv

LEMMA FeeStep == ASSUME FeeInv, [FeeNext]_feeVars PROVE FeeInv'
<1>0. owed \in [Addresses -> Nat] /\ sent \in [Addresses -> Nat] /\ recipient \in [Roles -> Addresses \cup {NoAddress}]
  BY DEF FeeInv
<1>1. ASSUME NEW role \in Roles, NEW a \in Addresses, RegisterRecipient(role, a) PROVE FeeInv'
  <2>1. recipient' = [recipient EXCEPT ![role] = a] /\ UNCHANGED <<owed, sent, allocated, toBurn, burned, burns, kept, jobs>>
    BY <1>1 DEF RegisterRecipient
  <2>2. recipient' \in [Roles -> Addresses \cup {NoAddress}]  BY <1>0, <2>1
  <2> QED BY <2>1, <2>2 DEF FeeInv
<1>2. ASSUME NEW total \in Fees, NEW r \in Addresses \cup {NoAddress}, AllocateFee(total, r) PROVE FeeInv'
  BY <1>2, AllocateKeeps
<1>3. CASE DistributePendingFees
  <2>1. /\ sent' = [a \in Addresses |-> IF a \in Due THEN sent[a] + owed[a] ELSE sent[a]]
        /\ owed' = [a \in Addresses |-> IF a \in Due THEN 0 ELSE owed[a]]
        /\ UNCHANGED <<recipient, allocated, toBurn, kept, jobs>> /\ \E succeeds \in BOOLEAN : Burn(succeeds)
    BY <1>3 DEF DistributePendingFees
  <2>2. owed' \in [Addresses -> Nat] /\ sent' \in [Addresses -> Nat]  BY <1>0, <2>1
  <2>3. \A a \in Addresses : owed'[a] + sent'[a] = owed[a] + sent[a]  BY <1>0, <2>1
  <2> QED BY <2>1, <2>2, <2>3, FeesPaid
<1>4. ASSUME NEW a \in Addresses, ClaimFees(a) PROVE FeeInv'
  <2>1. /\ sent' = [sent EXCEPT ![a] = @ + owed[a]] /\ owed' = [owed EXCEPT ![a] = 0]
        /\ UNCHANGED <<recipient, allocated, toBurn, burned, burns, kept, jobs>>
    BY <1>4 DEF ClaimFees
  <2>2. owed' \in [Addresses -> Nat] /\ sent' \in [Addresses -> Nat]  BY <1>0, <2>1
  <2>3. \A b \in Addresses : owed'[b] + sent'[b] = owed[b] + sent[b]  BY <1>0, <2>1
  <2> QED BY <2>1, <2>2, <2>3, FeesPaid
<1>5. CASE UNCHANGED feeVars  BY <1>5 DEF FeeInv, feeVars
<1> QED BY <1>1, <1>2, <1>3, <1>4, <1>5 DEF FeeNext

-----------------------------------------------------------------------------
(* WithdrawalManager: a request that is or was executed is neither pending *)
(* nor cancelled, and a cancelled one is out of the list.                  *)

WStatus == {"out", "Pending", "Processing", "Failed"}
WTask == [pc : {"out", "request", "call", "batch", "paid"}, id : 0 .. MaxRequestId, batch : SUBSET RequestIds, ops : Nat]
WRecord == [id : RequestIds, status : {"Completed", "Failed", "Cancelled"}]
CancelledIds == {i \in RequestIds : InHistory(i, "Cancelled")}

WTypes ==
    /\ made \in 0 .. MaxRequestId /\ waiting \in [RequestIds -> WStatus] /\ history \in Seq(WRecord)
    /\ paid \in [RequestIds -> {0, 1}] /\ wtask \in [WTasks -> WTask]

WTaskOK(r) == r.pc \in {"call", "paid"} => r.id \in 1 .. made /\ waiting[r.id] # "Pending" /\ r.id \notin CancelledIds

WInv ==
    /\ WTypes
    /\ \A t \in WTasks : WTaskOK(wtask[t])
    /\ \A i \in RequestIds : i > made => waiting[i] = "out" /\ paid[i] = 0
    /\ CancelledIds \subseteq 1 .. made
    /\ \A i \in RequestIds : paid[i] # 0 => waiting[i] # "Pending" /\ i \notin CancelledIds
    /\ \A i \in CancelledIds : waiting[i] = "out"

LEMMA WSafe == ASSUME WInv PROVE CancelledNeverPaid
<1> SUFFICES ASSUME NEW i \in 1 .. made, InHistory(i, "Cancelled") PROVE paid[i] = 0  BY DEF CancelledNeverPaid
<1>1. i \in RequestIds  BY WAssumption DEF WInv, WTypes, RequestIds
<1> QED BY <1>1 DEF WInv, CancelledIds

LEMMA WInitial == WInit => WInv
<1> SUFFICES ASSUME WInit PROVE WInv  OBVIOUS
<1> DEFINE r == [pc |-> "out", id |-> 0, batch |-> {}, ops |-> 0]
<1>1. /\ made = 0 /\ waiting = [i \in RequestIds |-> "out"] /\ history = <<>> /\ paid = [i \in RequestIds |-> 0]
      /\ wtask = [t \in WTasks |-> r]
  BY DEF WInit
<1>2. r \in WTask /\ r.pc = "out" /\ 0 \in 0 .. MaxRequestId /\ Len(<<>>) = 0 /\ <<>> \in Seq(WRecord)
  BY WAssumption DEF WTask
<1> HIDE DEF r
<1>3. CancelledIds = {}  BY <1>1, <1>2 DEF CancelledIds, InHistory
<1>4. WTypes  BY <1>1, <1>2 DEF WTypes, WStatus
<1>5. \A t \in WTasks : WTaskOK(wtask[t])  BY <1>1, <1>2 DEF WTaskOK
<1> QED BY <1>1, <1>3, <1>4, <1>5 DEF WInv

\* What recording a request does to the set of the cancelled ones.
LEMMA RecordAdds ==
    ASSUME history \in Seq(WRecord), NEW i \in RequestIds, NEW st \in {"Completed", "Failed", "Cancelled"}, Record(i, st)
    PROVE  /\ history' \in Seq(WRecord)
           /\ CancelledIds' = IF st = "Cancelled" THEN CancelledIds \cup {i} ELSE CancelledIds
<1> DEFINE e == [id |-> i, status |-> st]
           n == Len(history)
<1>1. e \in WRecord /\ history' = Append(history, e) /\ n \in Nat /\ (\A j : e = [id |-> j, status |-> "Cancelled"] <=> j = i /\ st = "Cancelled")
  BY DEF WRecord, Record
<1> HIDE DEF e
<1>2. history' \in Seq(WRecord) /\ Len(history') = n + 1 /\ history'[n + 1] = e /\ \A k \in 1 .. n : history'[k] = history[k]
  BY <1>1
<1>3. ASSUME NEW j \in RequestIds
      PROVE  InHistory(j, "Cancelled")' <=> InHistory(j, "Cancelled") \/ (j = i /\ st = "Cancelled")
  <2> DEFINE c == [id |-> j, status |-> "Cancelled"]
  <2>1. (e = c) <=> (j = i /\ st = "Cancelled")  BY <1>1
  <2>2. /\ InHistory(j, "Cancelled") <=> \E k \in 1 .. n : history[k] = c
        /\ InHistory(j, "Cancelled")' <=> \E k \in 1 .. Len(history') : history'[k] = c
    BY DEF InHistory
  <2> HIDE DEF c, n
  <2>3. (\E k \in 1 .. n + 1 : history'[k] = c) <=> (\E k \in 1 .. n : history[k] = c) \/ e = c
    <3>1. \A k \in 1 .. n + 1 : k \in 1 .. n \/ k = n + 1  BY <1>1 DEF n
    <3>2. n + 1 \in 1 .. n + 1 /\ 1 .. n \subseteq 1 .. n + 1  BY <1>1 DEF n
    <3> QED BY <1>2, <3>1, <3>2
  <2> QED BY <1>2, <2>1, <2>2, <2>3
<1> QED BY <1>2, <1>3 DEF CancelledIds

\* A step of a task that leaves the list, the history and the contract alone.
LEMMA WMoves ==
    ASSUME WInv, NEW t \in WTasks, NEW r \in WTask, wtask' = [wtask EXCEPT ![t] = r], WTaskOK(r),
           UNCHANGED <<made, waiting, history, paid>>
    PROVE  WInv'
<1>1. wtask' \in [WTasks -> WTask] /\ wtask'[t] = r /\ \A u \in WTasks : u # t => wtask'[u] = wtask[u]
  BY DEF WInv, WTypes
<1>2. CancelledIds' = CancelledIds  BY DEF CancelledIds, InHistory
<1>3. WTypes'  BY <1>1 DEF WInv, WTypes
<1>4. \A u \in WTasks : WTaskOK(wtask[u])' = WTaskOK(wtask'[u])  BY <1>2 DEF WTaskOK
<1>5. \A u \in WTasks : WTaskOK(wtask[u])'  BY <1>1, <1>4 DEF WInv
<1> QED BY <1>2, <1>3, <1>5 DEF WInv

LEMMA WTaskOf ==
    ASSUME WTypes, NEW t \in WTasks
    PROVE  /\ wtask[t] \in WTask /\ wtask[t].id \in 0 .. MaxRequestId /\ wtask[t].batch \in SUBSET RequestIds /\ wtask[t].ops \in Nat
           /\ wtask[t].pc \in {"out", "request", "call", "batch", "paid"} /\ made \in Nat /\ made <= MaxRequestId /\ MaxRequestId \in Nat
<1>1. wtask[t] \in WTask /\ made \in Nat /\ made <= MaxRequestId /\ MaxRequestId \in Nat  BY WAssumption DEF WTypes
<1> QED BY <1>1 DEF WTask

LEMMA WPlainSteps ==
    ASSUME WInv, NEW t \in WTasks, RequestWithdrawal(t) \/ RequestRefused(t) \/ ProcessBatch(t) PROVE WInv'
<1>1. /\ WTypes /\ wtask[t].ops \in Nat /\ wtask[t].ops + 1 \in Nat /\ 0 \in 0 .. MaxRequestId /\ {} \in SUBSET RequestIds
  BY WTaskOf DEF WInv
<1>2. UNCHANGED <<made, waiting, history, paid>>  BY DEF RequestWithdrawal, RequestRefused, ProcessBatch
<1>3. \E pc \in {"request", "out", "batch"}, b \in SUBSET RequestIds, n \in Nat :
         wtask' = [wtask EXCEPT ![t] = [pc |-> pc, id |-> 0, batch |-> b, ops |-> n]]
  <2>1. CASE RequestWithdrawal(t)  BY <1>1, <2>1 DEF RequestWithdrawal, Begin
  <2>2. CASE RequestRefused(t)  BY <1>1, <2>2 DEF RequestRefused, Returns, Continue
  <2>3. CASE ProcessBatch(t)
    <3> DEFINE pending == {i \in RequestIds : waiting[i] = "Pending"}
               b == {i \in pending : Cardinality({j \in pending : j <= i}) <= WBatch}
    <3>1. Begin(t, "batch", 0, b)  BY <2>3 DEF ProcessBatch
    <3>2. b \in SUBSET RequestIds  OBVIOUS
    <3> HIDE DEF b
    <3> QED BY <1>1, <3>1, <3>2 DEF Begin
  <2> QED BY <2>1, <2>2, <2>3
<1>4. PICK pc \in {"request", "out", "batch"}, b \in SUBSET RequestIds, n \in Nat :
         wtask' = [wtask EXCEPT ![t] = [pc |-> pc, id |-> 0, batch |-> b, ops |-> n]]  BY <1>3
<1> DEFINE r == [pc |-> pc, id |-> 0, batch |-> b, ops |-> n]
<1>5. r \in WTask /\ r.pc = pc /\ wtask' = [wtask EXCEPT ![t] = r]  BY <1>1, <1>4 DEF WTask
<1> HIDE DEF r
<1>6. WTaskOK(r)  BY <1>4, <1>5 DEF WTaskOK
<1> QED BY <1>2, <1>5, <1>6, WMoves

LEMMA GrantedKeeps == ASSUME WInv, NEW t \in WTasks, RequestGranted(t) PROVE WInv'
<1> DEFINE n == made + 1
           r == [pc |-> "out", id |-> 0, batch |-> {}, ops |-> wtask[t].ops]
<1>1. /\ WTypes /\ wtask[t].ops \in Nat /\ made \in Nat /\ MaxRequestId \in Nat /\ made < MaxRequestId /\ made' = n
      /\ waiting' = [waiting EXCEPT ![n] = "Pending"] /\ wtask' = [wtask EXCEPT ![t] = r] /\ UNCHANGED <<history, paid>>
  BY WTaskOf DEF WInv, RequestGranted, Returns, Continue
<1>2. n \in RequestIds /\ n \in 0 .. MaxRequestId /\ n > made /\ 0 \in 0 .. MaxRequestId  BY <1>1 DEF RequestIds
<1>3. r \in WTask /\ r.pc = "out"  BY <1>1, <1>2 DEF WTask
<1>4. \A i \in 1 .. made : i # n /\ i \in 1 .. n /\ i \in RequestIds  BY <1>1 DEF RequestIds
<1> HIDE DEF r
<1>5. wtask' \in [WTasks -> WTask] /\ wtask'[t] = r /\ \A u \in WTasks : u # t => wtask'[u] = wtask[u]
  BY <1>1, <1>3 DEF WTypes
<1>6. CancelledIds' = CancelledIds  BY <1>1 DEF CancelledIds, InHistory
<1>7. waiting' \in [RequestIds -> WStatus] /\ waiting'[n] = "Pending" /\ \A i \in RequestIds : i # n => waiting'[i] = waiting[i]
  BY <1>1, <1>2 DEF WTypes, WStatus
<1>8. WTypes'  BY <1>1, <1>2, <1>5, <1>7 DEF WTypes
<1>9. \A u \in WTasks : WTaskOK(wtask[u])'
  <2> SUFFICES ASSUME NEW u \in WTasks, wtask'[u].pc \in {"call", "paid"}
               PROVE  wtask'[u].id \in 1 .. made' /\ waiting'[wtask'[u].id] # "Pending" /\ wtask'[u].id \notin CancelledIds'
    BY DEF WTaskOK
  <2>1. wtask'[u] = wtask[u] /\ WTaskOK(wtask[u])  BY <1>3, <1>5 DEF WInv
  <2>2. wtask[u].id \in 1 .. made /\ waiting[wtask[u].id] # "Pending" /\ wtask[u].id \notin CancelledIds
    BY <2>1 DEF WTaskOK
  <2> QED BY <1>1, <1>4, <1>6, <1>7, <2>1, <2>2
<1>10. \A i \in RequestIds : i > made' => waiting'[i] = "out" /\ paid'[i] = 0
  <2>1. \A i \in RequestIds : i > n => i > made /\ i # n  BY <1>1 DEF RequestIds
  <2> QED BY <1>1, <1>7, <2>1 DEF WInv
<1>11. CancelledIds' \subseteq 1 .. made' /\ n \notin CancelledIds /\ paid[n] = 0  BY <1>1, <1>2, <1>4, <1>6 DEF WInv
<1>12. \A i \in RequestIds : paid'[i] # 0 => waiting'[i] # "Pending" /\ i \notin CancelledIds'
  BY <1>1, <1>6, <1>7, <1>11 DEF WInv
<1>13. \A i \in CancelledIds' : waiting'[i] = "out"  BY <1>6, <1>7, <1>11 DEF WInv, CancelledIds
<1> QED BY <1>8, <1>9, <1>10, <1>11, <1>12, <1>13 DEF WInv

\* A request of the list is marked and the contract called.
LEMMA CallKeeps ==
    ASSUME WInv, NEW t \in WTasks, NEW i \in Listed, NEW b \in SUBSET RequestIds, NEW n \in Nat,
           waiting' = SetWithdrawalStatus(i, "Processing"),
           wtask' = [wtask EXCEPT ![t] = [pc |-> "call", id |-> i, batch |-> b, ops |-> n]], UNCHANGED <<made, history, paid>>
    PROVE  WInv'
<1> DEFINE r == [pc |-> "call", id |-> i, batch |-> b, ops |-> n]
<1>1. /\ WTypes /\ made \in Nat /\ MaxRequestId \in Nat /\ i \in RequestIds /\ waiting[i] # "out"
  BY WTaskOf DEF WInv, Listed
<1>2. i \in 0 .. MaxRequestId /\ i \in 1 .. made /\ i \notin CancelledIds
  <2>1. ~(i > made)  BY <1>1 DEF WInv
  <2> QED BY <1>1, <2>1 DEF WInv, RequestIds
<1>3. r \in WTask /\ r.pc = "call" /\ r.id = i  BY <1>2 DEF WTask
<1>4. wtask' = [wtask EXCEPT ![t] = r]  OBVIOUS
<1> HIDE DEF r
<1>5. wtask' \in [WTasks -> WTask] /\ wtask'[t] = r /\ \A u \in WTasks : u # t => wtask'[u] = wtask[u]
  BY <1>1, <1>3, <1>4 DEF WTypes
<1>6. CancelledIds' = CancelledIds  BY DEF CancelledIds, InHistory
<1>7. waiting' \in [RequestIds -> WStatus] /\ waiting'[i] = "Processing" /\ \A j \in RequestIds : j # i => waiting'[j] = waiting[j]
  BY <1>1 DEF WTypes, WStatus, SetWithdrawalStatus
<1>8. WTypes'  BY <1>1, <1>5, <1>7 DEF WTypes
<1>9. \A u \in WTasks : WTaskOK(wtask[u])'
  <2> SUFFICES ASSUME NEW u \in WTasks, wtask'[u].pc \in {"call", "paid"}
               PROVE  wtask'[u].id \in 1 .. made /\ waiting'[wtask'[u].id] # "Pending" /\ wtask'[u].id \notin CancelledIds'
    BY DEF WTaskOK
  <2>1. CASE u = t  BY <1>2, <1>3, <1>5, <1>6, <1>7, <2>1
  <2>2. CASE u # t
    <3>1. wtask'[u] = wtask[u] /\ WTaskOK(wtask[u])  BY <1>5, <2>2 DEF WInv
    <3>2. wtask[u].id \in 1 .. made /\ waiting[wtask[u].id] # "Pending" /\ wtask[u].id \notin CancelledIds /\ wtask[u].id \in RequestIds
      BY <1>1, <3>1 DEF WTaskOK, WTypes, RequestIds
    <3> QED BY <1>6, <1>7, <3>1, <3>2
  <2> QED BY <2>1, <2>2
<1>10. \A j \in RequestIds : j > made => waiting'[j] = "out" /\ paid[j] = 0  BY <1>1, <1>2, <1>7 DEF WInv
<1>12. \A j \in RequestIds : paid[j] # 0 => waiting'[j] # "Pending" /\ j \notin CancelledIds'  BY <1>6, <1>7 DEF WInv
<1>13. \A j \in CancelledIds' : waiting'[j] = "out"  BY <1>2, <1>6, <1>7 DEF WInv, CancelledIds
<1> QED BY <1>6, <1>8, <1>9, <1>10, <1>12, <1>13 DEF WInv

LEMMA ExecuteKeeps == ASSUME WInv, NEW t \in WTasks, NEW i \in 1 .. made, ExecuteWithdrawal(t, i) PROVE WInv'
<1> DEFINE n == wtask[t].ops + 1
<1>1. /\ i \in Listed /\ waiting' = SetWithdrawalStatus(i, "Processing") /\ UNCHANGED <<made, history, paid>> /\ n \in Nat
      /\ wtask' = [wtask EXCEPT ![t] = [pc |-> "call", id |-> i, batch |-> {}, ops |-> n]]
  BY WTaskOf DEF WInv, ExecuteWithdrawal, Begin
<1> HIDE DEF n
<1> QED BY <1>1, CallKeeps

LEMMA BatchKeeps == ASSUME WInv, NEW t \in WTasks, WithdrawalBatchNext(t) PROVE WInv'
<1> DEFINE left == wtask[t].batch
           i == Min(left)
           b == left \ {i}
           n == wtask[t].ops
<1>1. n \in Nat /\ left \in SUBSET RequestIds /\ {} \in SUBSET RequestIds /\ 0 \in 0 .. MaxRequestId
  BY WTaskOf DEF WInv
<1>2. b \in SUBSET RequestIds  BY <1>1
<1>3. /\ UNCHANGED <<made, history, paid>>
      /\ \/ UNCHANGED waiting /\ wtask' = [wtask EXCEPT ![t] = [pc |-> "out", id |-> 0, batch |-> {}, ops |-> n]]
         \/ UNCHANGED waiting /\ wtask' = [wtask EXCEPT ![t] = [pc |-> "batch", id |-> 0, batch |-> b, ops |-> n]]
         \/ /\ i \in Listed /\ waiting' = SetWithdrawalStatus(i, "Processing")
            /\ wtask' = [wtask EXCEPT ![t] = [pc |-> "call", id |-> i, batch |-> b, ops |-> n]]
  BY Zenon DEF WithdrawalBatchNext, Returns, Continue
<1> HIDE DEF n, b, i
<1>4. ASSUME NEW pc \in {"out", "batch"}, NEW c \in SUBSET RequestIds, UNCHANGED waiting,
             wtask' = [wtask EXCEPT ![t] = [pc |-> pc, id |-> 0, batch |-> c, ops |-> n]]
      PROVE  WInv'
  <2> DEFINE r == [pc |-> pc, id |-> 0, batch |-> c, ops |-> n]
  <2>1. r \in WTask /\ r.pc = pc /\ wtask' = [wtask EXCEPT ![t] = r]  BY <1>1, <1>4 DEF WTask
  <2> HIDE DEF r
  <2>2. WTaskOK(r)  BY <1>4, <2>1 DEF WTaskOK
  <2> QED BY <1>3, <1>4, <2>1, <2>2, WMoves
<1>5. CASE i \in Listed /\ waiting' = SetWithdrawalStatus(i, "Processing")
            /\ wtask' = [wtask EXCEPT ![t] = [pc |-> "call", id |-> i, batch |-> b, ops |-> n]]
  BY <1>1, <1>2, <1>3, <1>5, CallKeeps
<1>6. CASE UNCHANGED waiting /\ wtask' = [wtask EXCEPT ![t] = [pc |-> "out", id |-> 0, batch |-> {}, ops |-> n]]
  BY <1>1, <1>4, <1>6
<1>7. CASE UNCHANGED waiting /\ wtask' = [wtask EXCEPT ![t] = [pc |-> "batch", id |-> 0, batch |-> b, ops |-> n]]
  BY <1>2, <1>4, <1>7
<1> QED BY <1>3, <1>5, <1>6, <1>7

LEMMA PaysKeeps == ASSUME WInv, NEW t \in WTasks, ContractPays(t) PROVE WInv'
<1> DEFINE i == wtask[t].id
           b == wtask[t].batch
           n == wtask[t].ops
           r == [pc |-> "paid", id |-> i, batch |-> b, ops |-> n]
<1>1. /\ WTypes /\ n \in Nat /\ b \in SUBSET RequestIds /\ i \in 0 .. MaxRequestId /\ made \in Nat /\ made <= MaxRequestId /\ MaxRequestId \in Nat
  BY WTaskOf DEF WInv
<1>2. i \in 1 .. made /\ waiting[i] # "Pending" /\ i \notin CancelledIds  BY DEF WInv, WTaskOK, ContractPays
<1>3. paid' = [paid EXCEPT ![i] = 1] /\ wtask' = [wtask EXCEPT ![t] = r] /\ UNCHANGED <<made, waiting, history>>
  BY DEF ContractPays, Continue
<1>4. i \in RequestIds /\ ~(i > made)  BY <1>1, <1>2 DEF RequestIds
<1> HIDE DEF i, b, n
<1>5. r \in WTask /\ r.id = i  BY <1>1 DEF WTask
<1> HIDE DEF r
<1>6. wtask' \in [WTasks -> WTask] /\ wtask'[t] = r /\ \A u \in WTasks : u # t => wtask'[u] = wtask[u]
  BY <1>1, <1>3, <1>5 DEF WTypes
<1>7. CancelledIds' = CancelledIds  BY <1>3 DEF CancelledIds, InHistory
<1>8. paid' \in [RequestIds -> {0, 1}] /\ \A j \in RequestIds : j # i => paid'[j] = paid[j]
  BY <1>1, <1>3, <1>4 DEF WTypes
<1>9. WTypes'  BY <1>1, <1>3, <1>6, <1>8 DEF WTypes
<1>10. \A u \in WTasks : WTaskOK(wtask[u])'
  <2>1. \A u \in WTasks : WTaskOK(wtask[u])' = WTaskOK(wtask'[u])  BY <1>3, <1>7 DEF WTaskOK
  <2>2. WTaskOK(r)  BY <1>2, <1>5 DEF WTaskOK
  <2> QED BY <1>6, <2>1, <2>2 DEF WInv
<1>11. \A j \in RequestIds : j > made => paid'[j] = 0  BY <1>4, <1>8 DEF WInv
<1>12. \A j \in RequestIds : paid'[j] # 0 => waiting[j] # "Pending" /\ j \notin CancelledIds  BY <1>2, <1>8 DEF WInv
<1> QED BY <1>3, <1>7, <1>9, <1>10, <1>11, <1>12 DEF WInv

\* An execution is over: the request is marked Failed or leaves the list, and is recorded.
LEMMA ExecutedKeeps ==
    ASSUME WInv, NEW t \in WTasks, ExecuteCompleted(t) \/ ExecuteFailed(t) PROVE WInv'
<1> DEFINE i == wtask[t].id
           b == wtask[t].batch
           n == wtask[t].ops
           r == [pc |-> "batch", id |-> 0, batch |-> b, ops |-> n]
<1>1. /\ WTypes /\ n \in Nat /\ b \in SUBSET RequestIds /\ made \in Nat /\ made <= MaxRequestId /\ MaxRequestId \in Nat
      /\ 0 \in 0 .. MaxRequestId
  BY WTaskOf DEF WInv
<1>2. i \in 1 .. made /\ waiting[i] # "Pending" /\ i \notin CancelledIds
  BY DEF WInv, WTaskOK, ExecuteCompleted, ExecuteFailed
<1>3. i \in RequestIds /\ ~(i > made)  BY <1>1, <1>2 DEF RequestIds
<1>4. /\ wtask' = [wtask EXCEPT ![t] = r] /\ UNCHANGED <<made, paid>>
      /\ \/ waiting' = [waiting EXCEPT ![i] = "out"] /\ Record(i, "Completed")
         \/ waiting' = [waiting EXCEPT ![i] = IF i \in Listed THEN "Failed" ELSE "out"] /\ Record(i, "Failed")
  BY DEF ExecuteCompleted, ExecuteFailed, Back, Continue, WithoutRequest, SetWithdrawalStatus
<1> HIDE DEF i, b, n
<1>5. r \in WTask /\ r.pc = "batch"  BY <1>1 DEF WTask
<1> HIDE DEF r
<1>6. wtask' \in [WTasks -> WTask] /\ wtask'[t] = r /\ \A u \in WTasks : u # t => wtask'[u] = wtask[u]
  BY <1>1, <1>4, <1>5 DEF WTypes
<1>7. history' \in Seq(WRecord) /\ CancelledIds' = CancelledIds  BY <1>1, <1>3, <1>4, RecordAdds DEF WTypes
<1>8. waiting' \in [RequestIds -> WStatus] /\ waiting'[i] # "Pending" /\ \A j \in RequestIds : j # i => waiting'[j] = waiting[j]
  BY <1>1, <1>3, <1>4 DEF WTypes, WStatus
<1>9. WTypes'  BY <1>1, <1>4, <1>6, <1>7, <1>8 DEF WTypes
<1>10. \A u \in WTasks : WTaskOK(wtask[u])'
  <2> SUFFICES ASSUME NEW u \in WTasks, wtask'[u].pc \in {"call", "paid"}
               PROVE  wtask'[u].id \in 1 .. made' /\ waiting'[wtask'[u].id] # "Pending" /\ wtask'[u].id \notin CancelledIds'
    BY DEF WTaskOK
  <2>1. wtask'[u] = wtask[u] /\ WTaskOK(wtask[u])  BY <1>5, <1>6 DEF WInv
  <2>2. wtask[u].id \in 1 .. made /\ waiting[wtask[u].id] # "Pending" /\ wtask[u].id \notin CancelledIds /\ wtask[u].id \in RequestIds
    BY <1>1, <2>1 DEF WTaskOK, RequestIds
  <2> QED BY <1>4, <1>7, <1>8, <2>1, <2>2
<1>11. \A j \in RequestIds : j > made => waiting'[j] = "out" /\ paid[j] = 0  BY <1>3, <1>8 DEF WInv
<1>12. \A j \in RequestIds : paid[j] # 0 => waiting'[j] # "Pending" /\ j \notin CancelledIds  BY <1>8 DEF WInv
<1>13. \A j \in CancelledIds : waiting'[j] = "out"  BY <1>2, <1>8 DEF WInv, CancelledIds
<1> QED BY <1>4, <1>7, <1>9, <1>10, <1>11, <1>12, <1>13 DEF WInv

LEMMA CancelKeeps == ASSUME WInv, NEW t \in WTasks, NEW i \in 1 .. made, CancelWithdrawal(t, i) PROVE WInv'
<1> DEFINE n == wtask[t].ops + 1
           r == [pc |-> "out", id |-> 0, batch |-> {}, ops |-> n]
<1>1. /\ WTypes /\ n \in Nat /\ made \in Nat /\ made <= MaxRequestId /\ MaxRequestId \in Nat /\ 0 \in 0 .. MaxRequestId
  BY WTaskOf DEF WInv
<1>2. /\ waiting[i] = "Pending" /\ wtask' = [wtask EXCEPT ![t] = r] /\ waiting' = [waiting EXCEPT ![i] = "out"]
      /\ Record(i, "Cancelled") /\ UNCHANGED <<made, paid>>
  BY DEF CancelWithdrawal, Begin, WithoutRequest
<1>3. i \in RequestIds  BY <1>1 DEF RequestIds
<1>4. r \in WTask /\ r.pc = "out"  BY <1>1 DEF WTask
<1> HIDE DEF n, r
<1>6. wtask' \in [WTasks -> WTask] /\ wtask'[t] = r /\ \A u \in WTasks : u # t => wtask'[u] = wtask[u]
  BY <1>1, <1>2, <1>4 DEF WTypes
<1>7. history' \in Seq(WRecord) /\ CancelledIds' = CancelledIds \cup {i}  BY <1>1, <1>2, <1>3, RecordAdds DEF WTypes
<1>8. waiting' \in [RequestIds -> WStatus] /\ waiting'[i] = "out" /\ \A j \in RequestIds : j # i => waiting'[j] = waiting[j]
  BY <1>1, <1>2, <1>3 DEF WTypes, WStatus
<1>9. WTypes'  BY <1>1, <1>2, <1>6, <1>7, <1>8 DEF WTypes
<1>10. \A u \in WTasks : WTaskOK(wtask[u])'
  <2> SUFFICES ASSUME NEW u \in WTasks, wtask'[u].pc \in {"call", "paid"}
               PROVE  wtask'[u].id \in 1 .. made' /\ waiting'[wtask'[u].id] # "Pending" /\ wtask'[u].id \notin CancelledIds'
    BY DEF WTaskOK
  <2>1. wtask'[u] = wtask[u] /\ WTaskOK(wtask[u])  BY <1>4, <1>6 DEF WInv
  <2>2. wtask[u].id \in 1 .. made /\ waiting[wtask[u].id] # "Pending" /\ wtask[u].id \notin CancelledIds /\ wtask[u].id \in RequestIds
    BY <1>1, <2>1 DEF WTaskOK, RequestIds
  <2>3. wtask[u].id # i  BY <1>2, <2>2
  <2> QED BY <1>2, <1>7, <1>8, <2>1, <2>2, <2>3
<1>11. \A j \in RequestIds : j > made => waiting'[j] = "out" /\ paid[j] = 0  BY <1>8 DEF WInv
<1>12. \A j \in RequestIds : paid[j] # 0 => waiting'[j] # "Pending" /\ j \notin CancelledIds \cup {i}
  BY <1>2, <1>8 DEF WInv
<1>13. \A j \in CancelledIds \cup {i} : waiting'[j] = "out"  BY <1>8 DEF WInv, CancelledIds
<1> QED BY <1>2, <1>7, <1>9, <1>10, <1>11, <1>12, <1>13 DEF WInv

LEMMA WStays == ASSUME WInv, UNCHANGED <<made, waiting, history, paid, wtask>> PROVE WInv'
  BY DEF WInv, WTypes, WTaskOK, CancelledIds, InHistory

LEMMA WStep == ASSUME WInv, [WNext]_wVars PROVE WInv'
<1>1. CASE CooldownEnds  BY <1>1, WStays DEF CooldownEnds
<1>2. CASE UNCHANGED wVars  BY <1>2, WStays DEF wVars
<1>3. CASE \E t \in WTasks :
             \/ RequestWithdrawal(t) \/ RequestGranted(t) \/ RequestRefused(t)
             \/ ProcessBatch(t) \/ WithdrawalBatchNext(t)
             \/ ContractPays(t) \/ ExecuteCompleted(t) \/ ExecuteFailed(t)
             \/ \E i \in 1 .. made : ExecuteWithdrawal(t, i) \/ CancelWithdrawal(t, i)
  BY <1>3, WPlainSteps, GrantedKeeps, BatchKeeps, PaysKeeps, ExecutedKeeps, ExecuteKeeps, CancelKeeps
<1> QED BY <1>1, <1>2, <1>3 DEF WNext

-----------------------------------------------------------------------------
(* Claims: the distributor.  Each kept split is sound, and the accounts of  *)
(* the treasury and of the hosts differ from the volume by what rounding    *)
(* took, at most a unit a payment.                                          *)

SplitType == [total : Nat, host : Nat, treasury : Nat, refund : Nat]

SplitOK(r) ==
    /\ r.split.host + r.split.treasury \in {r.split.total - 1, r.split.total}
    /\ r.deposit >= r.split.total => r.split.total + r.split.refund = r.deposit
    /\ VerifyPaymentSplit(r.split) \/ r.split.host + r.split.treasury < r.split.total

DistributorFields == [treasury : Nat, earnings : [ClHosts -> Nat], paidOut : Nat, taken : Nat,
                      records : Seq([split : SplitType, deposit : Nat]), stats : [payments : Nat, volume : Nat, fees : Nat]]

DistributorOK(d) ==
    /\ d \in DistributorFields
    /\ \A i \in DOMAIN d.records : SplitOK(d.records[i])
    /\ d.treasury + d.taken = d.stats.fees
    /\ Sum(d.earnings, ClHosts) + d.paidOut + d.stats.fees <= d.stats.volume
    /\ d.stats.volume <= Sum(d.earnings, ClHosts) + d.paidOut + d.stats.fees + d.stats.payments

LEMMA DistributorFieldsOf ==
    ASSUME NEW d \in DistributorFields
    PROVE  /\ d.treasury \in Nat /\ d.earnings \in [ClHosts -> Nat] /\ d.paidOut \in Nat /\ d.taken \in Nat
           /\ d.records \in Seq([split : SplitType, deposit : Nat])
           /\ d.stats \in [payments : Nat, volume : Nat, fees : Nat]
           /\ d.stats.payments \in Nat /\ d.stats.volume \in Nat /\ d.stats.fees \in Nat
           /\ Sum(d.earnings, ClHosts) \in Int
<1>1. /\ d.treasury \in Nat /\ d.earnings \in [ClHosts -> Nat] /\ d.paidOut \in Nat /\ d.taken \in Nat
      /\ d.records \in Seq([split : SplitType, deposit : Nat])
      /\ d.stats \in [payments : Nat, volume : Nat, fees : Nat]
  BY DEF DistributorFields
<1>2. d.stats.payments \in Nat /\ d.stats.volume \in Nat /\ d.stats.fees \in Nat  BY <1>1
<1> DEFINE es == d.earnings
<1>3. IsFiniteSet(ClHosts) /\ \A h \in ClHosts : es[h] \in Int  BY <1>1, ClAssumption
<1> HIDE DEF es
<1>4. Sum(es, ClHosts) \in Int  BY ONLY <1>3, SumType
<1> QED BY <1>1, <1>2, <1>4 DEF es

LEMMA DistributorSafe == ASSUME DistributorOK(distributor) PROVE SplitsConserve
<1>1. MapThenSumSet(LAMBDA h : distributor.earnings[h], ClHosts) = Sum(distributor.earnings, ClHosts)  BY Zenon DEF Sum
<1> DEFINE held == Sum(distributor.earnings, ClHosts)
<1>2. /\ held \in Int /\ distributor.paidOut \in Nat /\ distributor.stats.fees \in Nat /\ distributor.stats.volume \in Nat
      /\ distributor.stats.payments \in Nat
  BY DistributorFieldsOf DEF DistributorOK
<1>3. held + distributor.paidOut + distributor.stats.fees \in Int
      /\ held + distributor.paidOut + distributor.stats.fees <= distributor.stats.volume
      /\ distributor.stats.volume - distributor.stats.payments <= held + distributor.paidOut + distributor.stats.fees
  BY <1>2 DEF DistributorOK
<1> HIDE DEF held
<1>4. held + distributor.paidOut + distributor.stats.fees \in distributor.stats.volume - distributor.stats.payments .. distributor.stats.volume
  BY <1>2, <1>3
<1>5. MapThenSumSet(LAMBDA h : distributor.earnings[h], ClHosts) + distributor.paidOut + distributor.stats.fees
         \in distributor.stats.volume - distributor.stats.payments .. distributor.stats.volume
  BY Zenon, <1>1, <1>4 DEF held
<1>6. distributor.treasury + distributor.taken = distributor.stats.fees  BY DEF DistributorOK
<1>7. \A i \in DOMAIN distributor.records : SplitOK(distributor.records[i])  BY DEF DistributorOK
<1> QED BY Zenon, <1>5, <1>6, <1>7 DEF SplitsConserve, SplitOK

LEMMA DistributorInitial == ASSUME DistributorInit PROVE DistributorOK(distributor)
<1> DEFINE es == [h \in ClHosts |-> 0]
           st == [payments |-> 0, volume |-> 0, fees |-> 0]
<1>1. distributor = [treasury |-> 0, earnings |-> es, paidOut |-> 0, taken |-> 0, records |-> <<>>, stats |-> st]
  BY DEF DistributorInit
<1>2. es \in [ClHosts -> Nat] /\ st \in [payments : Nat, volume : Nat, fees : Nat] /\ <<>> \in Seq([split : SplitType, deposit : Nat])
      /\ IsFiniteSet(ClHosts) /\ (\A h \in ClHosts : es[h] = 0) /\ st.payments = 0 /\ st.volume = 0 /\ st.fees = 0
  BY ClAssumption
<1> HIDE DEF es, st
<1>3. Sum(es, ClHosts) = 0  BY ONLY <1>2, SumZero
<1>4. distributor \in DistributorFields  BY <1>1, <1>2 DEF DistributorFields
<1>5. distributor.earnings = es /\ distributor.stats = st /\ distributor.treasury = 0 /\ distributor.taken = 0 /\ distributor.paidOut = 0
      /\ distributor.records = <<>>
  BY <1>1
<1> QED BY <1>2, <1>3, <1>4, <1>5 DEF DistributorOK

\* calculate_payment_split loses less than one unit, and nothing when it passes verify_payment_split.
LEMMA SplitIsSound ==
    ASSUME NEW deposit \in Nat, NEW total \in Nat
    PROVE  LET s == CalculatePaymentSplit(deposit, total)
           IN /\ s \in SplitType /\ SplitOK([split |-> s, deposit |-> deposit]) /\ s.total = total
              /\ s.host + s.treasury <= s.total /\ s.total <= s.host + s.treasury + 1
<1> DEFINE x == total * HostPct
           y == total * (100 - HostPct)
           host == x \div 100
           fee == y \div 100
           back == IF deposit > total THEN deposit - total ELSE 0
           s == CalculatePaymentSplit(deposit, total)
           r == [split |-> s, deposit |-> deposit]
<1>1. HostPct \in Nat /\ 100 - HostPct \in Nat  BY ClAssumption
<1>2. x \in Nat /\ y \in Nat  BY <1>1
<1>3. x + y = total * 100  BY <1>1
<1>4. /\ s.total = total /\ s.host = host /\ s.treasury = fee /\ s.refund = back /\ s = [total |-> total, host |-> host, treasury |-> fee, refund |-> back]
      /\ s.host = (s.total * HostPct) \div 100 /\ s.treasury = (s.total * (100 - HostPct)) \div 100
  BY DEF CalculatePaymentSplit
<1> HIDE DEF x, y, s
<1>5. host \in Nat /\ fee \in Nat /\ host + fee \in {total - 1, total}  BY <1>2, <1>3
<1>6. back \in Nat /\ (deposit >= total => total + back = deposit)  OBVIOUS
<1> HIDE DEF host, fee, back
<1>7. s \in SplitType  BY <1>4, <1>5, <1>6 DEF SplitType
<1>8. r.split = s /\ r.deposit = deposit  OBVIOUS
<1> HIDE DEF r
<1>9. VerifyPaymentSplit(s) \/ s.host + s.treasury < s.total  BY <1>4, <1>5 DEF VerifyPaymentSplit
<1>10. SplitOK(r)  BY <1>4, <1>5, <1>6, <1>8, <1>9 DEF SplitOK
<1> QED BY <1>4, <1>5, <1>7, <1>10 DEF s, r

LEMMA ProcessPaymentKeeps ==
    ASSUME DistributorOK(distributor), NEW h \in ClHosts, NEW deposit \in ClAmounts, NEW total \in ClAmounts,
           ProcessPayment(h, deposit, total)
    PROVE  DistributorOK(distributor')
<1> DEFINE s == CalculatePaymentSplit(deposit, total)
           r == [split |-> s, deposit |-> deposit]
           share == s.host
           fee == s.treasury
           os == distributor.stats
           es == distributor.earnings
           recs == Append(distributor.records, r)
           fs == [es EXCEPT ![h] = es[h] + share]
           op == os.payments
           ov == os.volume
           of == os.fees
           np == op + 1
           nv == ov + total
           nf == of + fee
           st == [payments |-> np, volume |-> nv, fees |-> nf]
           ot == distributor.treasury
           tr == ot + fee
           out == distributor.paidOut
           gone == distributor.taken
<1>0. distributor \in DistributorFields /\ deposit \in Nat /\ total \in Nat /\ IsFiniteSet(ClHosts)
  BY ClAssumption DEF DistributorOK
<1>1. s \in SplitType /\ SplitOK(r) /\ s.total = total /\ share + fee <= total /\ total <= share + fee + 1
  BY <1>0, SplitIsSound
<1>2. distributor' = [distributor EXCEPT !.records = recs, !.treasury = tr, !.earnings = fs, !.stats = st]
  BY <1>0, <1>1 DEF ProcessPayment, RecordPayment, AccumulateHostEarnings, AccumulateTreasuryFee, DistributorFields
<1> HIDE DEF s
<1>3. share \in Nat /\ fee \in Nat /\ r \in [split : SplitType, deposit : Nat]  BY <1>0, <1>1 DEF SplitType
<1> HIDE DEF r, share, fee
<1>4. /\ ot \in Nat /\ es \in [ClHosts -> Nat] /\ out \in Nat /\ gone \in Nat
      /\ distributor.records \in Seq([split : SplitType, deposit : Nat]) /\ Sum(es, ClHosts) \in Int
      /\ op \in Nat /\ ov \in Nat /\ of \in Nat
  BY <1>0, DistributorFieldsOf
<1>5. /\ recs \in Seq([split : SplitType, deposit : Nat]) /\ (\A i \in DOMAIN recs : SplitOK(recs[i]))
  <2>1. DOMAIN recs = 1 .. Len(distributor.records) + 1 /\ recs \in Seq([split : SplitType, deposit : Nat])
        /\ DOMAIN distributor.records = 1 .. Len(distributor.records) /\ Len(distributor.records) \in Nat
    BY <1>3, <1>4
  <2>2. \A i \in DOMAIN recs : recs[i] = IF i <= Len(distributor.records) THEN distributor.records[i] ELSE r
    BY <1>3, <1>4, <2>1
  <2>3. \A i \in DOMAIN distributor.records : SplitOK(distributor.records[i])  BY DEF DistributorOK
  <2> QED BY <1>1, <2>1, <2>2, <2>3
<1>10. ot + gone = of /\ Sum(es, ClHosts) + out + of <= ov /\ ov <= Sum(es, ClHosts) + out + of + op
  BY DEF DistributorOK
<1> HIDE DEF es, op, ov, of, ot, out, gone
<1>6. /\ fs \in [ClHosts -> Nat] /\ fs[h] = es[h] + share /\ es[h] \in Nat /\ (\A y \in ClHosts : es[y] \in Int) /\ fs[h] \in Int
      /\ \A y \in ClHosts : y # h => fs[y] = es[y]
  BY <1>3, <1>4
<1> HIDE DEF fs
<1>7. tr \in Nat /\ np \in Nat /\ nv \in Nat /\ nf \in Nat  BY <1>0, <1>3, <1>4
<1>8. Sum(fs, ClHosts) = Sum(es, ClHosts) - es[h] + fs[h]  BY ONLY h \in ClHosts, <1>0, <1>6, SumUpdate
<1>11. Sum(fs, ClHosts) = Sum(es, ClHosts) + share  BY <1>3, <1>4, <1>6, <1>8
<1>12. tr + gone = nf  BY ONLY <1>3, <1>4, <1>10
<1>13. Sum(fs, ClHosts) + out + nf <= nv /\ nv <= Sum(fs, ClHosts) + out + nf + np
  <2> DEFINE old == Sum(es, ClHosts)
             new == Sum(fs, ClHosts)
  <2>1. /\ old \in Int /\ new = old + share /\ old + out + of <= ov /\ ov <= old + out + of + op
        /\ share \in Nat /\ fee \in Nat /\ share + fee <= total /\ total <= share + fee + 1 /\ total \in Nat
        /\ out \in Nat /\ op \in Nat /\ ov \in Nat /\ of \in Nat
    BY <1>0, <1>1, <1>3, <1>4, <1>10, <1>11
  <2> HIDE DEF old, new
  <2>2. new + out + nf <= nv /\ nv <= new + out + nf + np  BY ONLY <2>1
  <2> QED BY <2>2 DEF new
<1> HIDE DEF recs, tr, np, nv, nf
<1>14. st \in [payments : Nat, volume : Nat, fees : Nat] /\ st.payments = np /\ st.volume = nv /\ st.fees = nf  BY <1>7
<1> HIDE DEF st
<1>15. distributor' \in DistributorFields /\ distributor'.records = recs /\ distributor'.treasury = tr /\ distributor'.earnings = fs
      /\ distributor'.stats = st /\ distributor'.paidOut = out /\ distributor'.taken = gone
  BY <1>0, <1>2, <1>5, <1>6, <1>7, <1>14 DEF DistributorFields, out, gone
<1> QED BY <1>5, <1>12, <1>13, <1>14, <1>15 DEF DistributorOK

LEMMA DistributorSteps == ASSUME DistributorOK(distributor), DistributorNext PROVE DistributorOK(distributor')
<1>0. distributor \in DistributorFields /\ IsFiniteSet(ClHosts)  BY ClAssumption DEF DistributorOK
<1>1. /\ distributor.treasury \in Nat /\ distributor.earnings \in [ClHosts -> Nat] /\ distributor.paidOut \in Nat /\ distributor.taken \in Nat
      /\ Sum(distributor.earnings, ClHosts) \in Int
      /\ distributor.stats.payments \in Nat /\ distributor.stats.volume \in Nat /\ distributor.stats.fees \in Nat
  BY <1>0, DistributorFieldsOf
<1>2. CASE WithdrawTreasuryFees
  <2> DEFINE k == distributor.taken + distributor.treasury
  <2>1. distributor' = [distributor EXCEPT !.treasury = 0, !.taken = k] /\ k \in Nat /\ 0 + k = distributor.treasury + distributor.taken
    BY <1>1, <1>2 DEF WithdrawTreasuryFees
  <2> HIDE DEF k
  <2>2. distributor' \in DistributorFields /\ distributor'.records = distributor.records /\ distributor'.treasury = 0
        /\ distributor'.earnings = distributor.earnings /\ distributor'.stats = distributor.stats
        /\ distributor'.paidOut = distributor.paidOut /\ distributor'.taken = k
    BY <1>0, <2>1 DEF DistributorFields
  <2> QED BY <2>1, <2>2 DEF DistributorOK
<1>3. ASSUME NEW h \in ClHosts, WithdrawHostEarnings(h) PROVE DistributorOK(distributor')
  <2> DEFINE es == distributor.earnings
             fs == [es EXCEPT ![h] = 0]
             k == distributor.paidOut + es[h]
  <2>1. distributor' = [distributor EXCEPT !.earnings = fs, !.paidOut = k]
    BY <1>0, <1>3 DEF WithdrawHostEarnings, DistributorFields
  <2>2. /\ fs \in [ClHosts -> Nat] /\ fs[h] = 0 /\ es[h] \in Nat /\ (\A y \in ClHosts : es[y] \in Int) /\ fs[h] \in Int
        /\ (\A y \in ClHosts : y # h => fs[y] = es[y]) /\ k \in Nat /\ k = distributor.paidOut + es[h]
    BY <1>1
  <2> HIDE DEF fs, k
  <2>3. Sum(fs, ClHosts) = Sum(es, ClHosts) - es[h] + fs[h]
    <3> HIDE DEF es
    <3> QED BY ONLY h \in ClHosts, <1>0, <2>2, SumUpdate
  <2>4. distributor' \in DistributorFields /\ distributor'.records = distributor.records /\ distributor'.treasury = distributor.treasury
        /\ distributor'.earnings = fs /\ distributor'.stats = distributor.stats
        /\ distributor'.paidOut = k /\ distributor'.taken = distributor.taken
    BY <1>0, <2>1, <2>2 DEF DistributorFields
  <2>5. Sum(fs, ClHosts) + k = Sum(es, ClHosts) + distributor.paidOut  BY <1>1, <2>2, <2>3
  <2> DEFINE p == Sum(fs, ClHosts)
             q == Sum(es, ClHosts)
  <2>6. p \in Int /\ q \in Int  BY <1>1, <2>2, <2>3
  <2>7. /\ q + distributor.paidOut + distributor.stats.fees <= distributor.stats.volume
        /\ distributor.stats.volume <= q + distributor.paidOut + distributor.stats.fees + distributor.stats.payments
    BY DEF DistributorOK
  <2> HIDE DEF p, q
  <2>8. /\ p + k + distributor.stats.fees <= distributor.stats.volume
        /\ distributor.stats.volume <= p + k + distributor.stats.fees + distributor.stats.payments
    BY <1>1, <2>2, <2>5, <2>6, <2>7 DEF p, q
  <2> QED BY <2>4, <2>8 DEF DistributorOK, p
<1>4. ASSUME NEW h \in ClHosts, NEW deposit \in ClAmounts, NEW total \in ClAmounts, ProcessPayment(h, deposit, total)
      PROVE  DistributorOK(distributor')  BY <1>4, ProcessPaymentKeeps
<1> QED BY Zenon, <1>2, <1>3, <1>4 DEF DistributorNext

-----------------------------------------------------------------------------
(* Claims: the payment claimer.  What the statistics count is what the      *)
(* contract paid, less the payments whose task is about to count them.      *)

PayerTask == [pc : {"idle", "amount", "claim", "pay", "stats", "clear"}, jobs : Seq(ClJobs), amount : Nat, clear : BOOLEAN]

PayerFields == [escrow : [ClJobs -> Nat], open : SUBSET ClJobs, balance : Nat, withdrawn : Nat, jobs : Seq(ClJobs),
                amount : Nat, stats : [paid : Nat, earned : Nat, largest : Nat], task : [ClTasks -> PayerTask],
                gas : Nat, ops : Nat]

DueOf(u) == IF u.pc = "stats" THEN u.amount ELSE 0

DueOfTasks(p) == [t \in ClTasks |-> DueOf(p.task[t])]

\* A task that asks for or counts a payment still has the job at the head of its list.
PayerTaskOK(u) == u.pc \in {"pay", "stats"} => u.jobs # <<>>

PayerOK(p) ==
    /\ p \in PayerFields
    /\ \A t \in ClTasks : PayerTaskOK(p.task[t])
    /\ p.stats.earned + Sum(DueOfTasks(p), ClTasks) = p.balance + p.withdrawn

LEMMA PayerFieldsOf ==
    ASSUME NEW p \in PayerFields
    PROVE  /\ p.escrow \in [ClJobs -> Nat] /\ p.open \in SUBSET ClJobs /\ p.balance \in Nat /\ p.withdrawn \in Nat
           /\ p.jobs \in Seq(ClJobs) /\ p.amount \in Nat /\ p.task \in [ClTasks -> PayerTask] /\ p.gas \in Nat /\ p.ops \in Nat
           /\ p.stats \in [paid : Nat, earned : Nat, largest : Nat]
           /\ p.stats.paid \in Nat /\ p.stats.earned \in Nat /\ p.stats.largest \in Nat
<1>1. /\ p.escrow \in [ClJobs -> Nat] /\ p.open \in SUBSET ClJobs /\ p.balance \in Nat /\ p.withdrawn \in Nat
      /\ p.jobs \in Seq(ClJobs) /\ p.amount \in Nat /\ p.task \in [ClTasks -> PayerTask] /\ p.gas \in Nat /\ p.ops \in Nat
      /\ p.stats \in [paid : Nat, earned : Nat, largest : Nat]
  BY DEF PayerFields
<1> QED BY <1>1

LEMMA PayerTaskOf ==
    ASSUME NEW u \in PayerTask
    PROVE  /\ u.pc \in {"idle", "amount", "claim", "pay", "stats", "clear"} /\ u.jobs \in Seq(ClJobs) /\ u.amount \in Nat /\ u.clear \in BOOLEAN
           /\ DueOf(u) \in Nat
  BY DEF PayerTask, DueOf

LEMMA PayerSafe == ASSUME PayerOK(payer) PROVE EarnedIsPaid
<1>1. MapThenSumSet(LAMBDA t : AboutToCount[t], ClTasks) = Sum(AboutToCount, ClTasks)  BY Zenon DEF Sum
<1>2. AboutToCount = DueOfTasks(payer)  BY Zenon DEF AboutToCount, DueOfTasks, DueOf
<1>3. payer.stats.earned + Sum(AboutToCount, ClTasks) = payer.balance + payer.withdrawn  BY <1>2 DEF PayerOK
<1> QED BY Zenon, <1>1, <1>3 DEF EarnedIsPaid

LEMMA PayerInitial == ASSUME NEW amounts \in SUBSET Nat, PayerInit(amounts) PROVE PayerOK(payer)
<1> DEFINE ts == [t \in ClTasks |-> PayerIdle]
           st == [paid |-> 0, earned |-> 0, largest |-> 0]
           d == DueOfTasks(payer)
<1>1. PICK e \in [ClJobs -> amounts] :
         payer = [escrow |-> e, open |-> ClJobs, balance |-> 0, withdrawn |-> 0, jobs |-> <<>>, amount |-> 0, stats |-> st,
                  task |-> ts, gas |-> 0, ops |-> 0]  BY DEF PayerInit
<1>2. PayerIdle \in PayerTask /\ PayerIdle.pc = "idle" /\ <<>> \in Seq(ClJobs) /\ ClJobs \in SUBSET ClJobs
      /\ st \in [paid : Nat, earned : Nat, largest : Nat] /\ st.earned = 0
  BY DEF PayerIdle, PayerTask
<1>3. ts \in [ClTasks -> PayerTask] /\ e \in [ClJobs -> Nat]  BY <1>2
<1>4. \A t \in ClTasks : ts[t] = PayerIdle  OBVIOUS
<1> HIDE DEF ts, st
<1>5. payer \in PayerFields /\ payer.task = ts /\ payer.stats = st /\ payer.balance = 0 /\ payer.withdrawn = 0
  BY <1>1, <1>2, <1>3 DEF PayerFields
<1>6. IsFiniteSet(ClTasks) /\ \A t \in ClTasks : d[t] = 0  BY <1>2, <1>4, <1>5, ClAssumption DEF DueOfTasks, DueOf
<1> HIDE DEF d
<1>7. Sum(d, ClTasks) = 0  BY ONLY <1>6, SumZero
<1>8. \A t \in ClTasks : PayerTaskOK(payer.task[t])  BY <1>2, <1>4, <1>5 DEF PayerTaskOK
<1> QED BY <1>2, <1>5, <1>7, <1>8 DEF PayerOK, d

\* A step of one task: what it adds to the count and to what is about to be counted was paid.
LEMMA PayerMoves ==
    ASSUME PayerOK(payer), NEW t \in ClTasks, NEW u \in PayerTask, PayerTaskOK(u), payer' \in PayerFields,
           payer'.task = [payer.task EXCEPT ![t] = u],
           payer'.stats.earned + DueOf(u) + payer.balance + payer.withdrawn
              = payer.stats.earned + DueOf(payer.task[t]) + payer'.balance + payer'.withdrawn
    PROVE  PayerOK(payer')
<1> DEFINE f == DueOfTasks(payer)
           g == DueOfTasks(payer')
           a == payer.stats.earned
           b == payer'.stats.earned
           c == payer.balance
           d == payer'.balance
           w == payer.withdrawn
           v == payer'.withdrawn
<1>1. payer.task \in [ClTasks -> PayerTask] /\ a \in Nat /\ b \in Nat /\ c \in Nat /\ d \in Nat /\ w \in Nat /\ v \in Nat
      /\ payer'.task \in [ClTasks -> PayerTask] /\ payer \in PayerFields
  BY PayerFieldsOf DEF PayerOK
<1>2. payer'.task[t] = u /\ \A y \in ClTasks : y # t => payer'.task[y] = payer.task[y]  BY <1>1
<1>3. \A y \in ClTasks : payer.task[y] \in PayerTask  BY <1>1
<1>4. \A y \in ClTasks : f[y] = DueOf(payer.task[y]) /\ f[y] \in Int  BY <1>3, PayerTaskOf DEF DueOfTasks
<1>5. g[t] = DueOf(u) /\ g[t] \in Int /\ \A y \in ClTasks : y # t => g[y] = f[y]
  BY <1>2, <1>4, PayerTaskOf DEF DueOfTasks
<1>6. f[t] = DueOf(payer.task[t]) /\ IsFiniteSet(ClTasks)  BY <1>4, ClAssumption
<1>7. \A y \in ClTasks : PayerTaskOK(payer'.task[y])  BY <1>2 DEF PayerOK
<1>8. a + Sum(f, ClTasks) = c + w  BY DEF PayerOK
<1>9. b + g[t] + c + w = a + f[t] + d + v  BY <1>5, <1>6
<1> HIDE DEF f, g, a, b, c, d, w, v
<1>10. Sum(g, ClTasks) = Sum(f, ClTasks) - f[t] + g[t]  BY ONLY t \in ClTasks, <1>4, <1>5, <1>6, SumUpdate
<1>11. Sum(f, ClTasks) \in Int  BY ONLY <1>4, <1>6, SumType
<1>12. f[t] \in Int /\ g[t] \in Int  BY <1>4, <1>5
<1> DEFINE x == Sum(f, ClTasks)
           y == Sum(g, ClTasks)
           p == f[t]
           q == g[t]
<1>13. y = x - p + q /\ x \in Int /\ p \in Int /\ q \in Int /\ a + x = c + w /\ b + q + c + w = a + p + d + v
  BY <1>8, <1>9, <1>10, <1>11, <1>12
<1>14. a \in Nat /\ b \in Nat /\ c \in Nat /\ d \in Nat /\ w \in Nat /\ v \in Nat  BY <1>1
<1> HIDE DEF x, y, p, q
<1>15. b + y = d + v  BY ONLY <1>13, <1>14
<1> QED BY <1>1, <1>7, <1>15 DEF PayerOK, b, d, v, g, y

\* A step of a task that pays and counts nothing.
LEMMA PayerGoes ==
    ASSUME PayerOK(payer), NEW t \in ClTasks, NEW u \in PayerTask, PayerTaskOK(u), payer.task[t].pc # "stats", u.pc # "stats",
           NEW js \in Seq(ClJobs), NEW a \in Nat, NEW n \in Nat,
           payer' = [payer EXCEPT !.jobs = js, !.amount = a, !.ops = n, !.task = [payer.task EXCEPT ![t] = u]]
    PROVE  PayerOK(payer')
<1>1. payer \in PayerFields /\ payer.task \in [ClTasks -> PayerTask] /\ payer.stats.earned \in Nat /\ payer.balance \in Nat /\ payer.withdrawn \in Nat
  BY PayerFieldsOf DEF PayerOK
<1> DEFINE ts == [payer.task EXCEPT ![t] = u]
<1>2. ts \in [ClTasks -> PayerTask]  BY <1>1
<1> HIDE DEF ts
<1>3. payer' \in PayerFields /\ payer'.task = ts /\ payer'.stats = payer.stats /\ payer'.balance = payer.balance
      /\ payer'.withdrawn = payer.withdrawn
  BY <1>1, <1>2 DEF PayerFields, ts
<1>4. DueOf(u) = 0 /\ DueOf(payer.task[t]) = 0  BY DEF DueOf
<1>5. payer'.stats.earned + DueOf(u) + payer.balance + payer.withdrawn
            = payer.stats.earned + DueOf(payer.task[t]) + payer'.balance + payer'.withdrawn  BY <1>1, <1>3, <1>4
<1> QED BY <1>3, <1>5, PayerMoves DEF ts

LEMMA PayerShare == ASSUME NEW p \in PayerFields, NEW j \in ClJobs PROVE CalculateSplits(p.escrow[j]).host \in Nat
<1>1. p.escrow[j] \in Nat  BY PayerFieldsOf
<1> DEFINE x == p.escrow[j]
           y == x * 8500
<1>2. y \in Nat  BY <1>1
<1> HIDE DEF y
<1>3. y \div 10000 \in Nat  BY <1>2
<1> QED BY <1>3 DEF CalculateSplits, y

LEMMA PayerQuietSteps ==
    ASSUME PayerOK(payer), NEW t \in ClTasks,
           (\E j \in ClJobs : ClaimPayments(t, j) \/ AddToAccumulator(t, j)) \/ AddAmount(t) \/ ClaimAccumulated(t)
              \/ ClearJobs(t) \/ ClearAmount(t)
    PROVE  PayerOK(payer')
<1>0. payer \in PayerFields  BY DEF PayerOK
<1>1. payer.jobs \in Seq(ClJobs) /\ payer.amount \in Nat /\ payer.ops \in Nat /\ payer.task[t] \in PayerTask /\ payer.ops + 1 \in Nat
      /\ payer.task \in [ClTasks -> PayerTask]
  BY <1>0, PayerFieldsOf
<1>2. payer.task[t].jobs \in Seq(ClJobs) /\ payer.task[t].amount \in Nat /\ payer.task[t].clear \in BOOLEAN /\ <<>> \in Seq(ClJobs)
  BY <1>1, PayerTaskOf
<1>4. ASSUME NEW j \in ClJobs, ClaimPayments(t, j) PROVE PayerOK(payer')
  <2> DEFINE ks == <<j>>
             n == payer.ops + 1
             u == [PayerIdle EXCEPT !.pc = "claim", !.jobs = ks]
  <2>1. payer.task[t].pc = "idle" /\ payer' = [payer EXCEPT !.ops = n, !.task[t] = u]  BY <1>4 DEF ClaimPayments
  <2>2. ks \in Seq(ClJobs) /\ n \in Nat  BY <1>1, <1>2, PayerShare, <1>0
  <2> HIDE DEF ks, n, u
  <2>3. u \in PayerTask /\ u.pc = "claim"  BY <1>1, <1>2, <2>2 DEF PayerIdle, PayerTask, u
  <2>4. payer' = [payer EXCEPT !.jobs = payer.jobs, !.amount = payer.amount, !.ops = n, !.task = [payer.task EXCEPT ![t] = u]]
    BY <1>0, <2>1 DEF PayerFields
  <2>5. PayerTaskOK(u) /\ u.pc # "stats" /\ payer.task[t].pc # "stats"  BY <2>1, <2>3 DEF PayerTaskOK
  <2> QED BY <1>1, <1>2, <2>2, <2>3, <2>4, <2>5, PayerGoes
<1>5. ASSUME NEW j \in ClJobs, AddToAccumulator(t, j) PROVE PayerOK(payer')
  <2> DEFINE js == Append(payer.jobs, j)
             n == payer.ops + 1
             x == CalculateSplits(payer.escrow[j]).host
             u == [PayerIdle EXCEPT !.pc = "amount", !.amount = x]
  <2>1. payer.task[t].pc = "idle" /\ payer' = [payer EXCEPT !.ops = n, !.jobs = js, !.task[t] = u]
    BY <1>5 DEF AddToAccumulator
  <2>2. js \in Seq(ClJobs) /\ n \in Nat /\ x \in Nat  BY <1>1, <1>2, PayerShare, <1>0
  <2> HIDE DEF js, n, x, u
  <2>3. u \in PayerTask /\ u.pc = "amount"  BY <1>1, <1>2, <2>2 DEF PayerIdle, PayerTask, u
  <2>4. payer' = [payer EXCEPT !.jobs = js, !.amount = payer.amount, !.ops = n, !.task = [payer.task EXCEPT ![t] = u]]
    BY <1>0, <2>1 DEF PayerFields
  <2>5. PayerTaskOK(u) /\ u.pc # "stats" /\ payer.task[t].pc # "stats"  BY <2>1, <2>3 DEF PayerTaskOK
  <2> QED BY <1>1, <1>2, <2>2, <2>3, <2>4, <2>5, PayerGoes
<1>6. CASE AddAmount(t)
  <2> DEFINE a == payer.amount + payer.task[t].amount
             u == PayerIdle
  <2>1. payer.task[t].pc = "amount" /\ payer' = [payer EXCEPT !.amount = a, !.task[t] = u]  BY <1>6 DEF AddAmount
  <2>2. a \in Nat  BY <1>1, <1>2, PayerShare, <1>0
  <2> HIDE DEF a, u
  <2>3. u \in PayerTask /\ u.pc = "idle"  BY <1>1, <1>2, <2>2 DEF PayerIdle, PayerTask, u
  <2>4. payer' = [payer EXCEPT !.jobs = payer.jobs, !.amount = a, !.ops = payer.ops, !.task = [payer.task EXCEPT ![t] = u]]
    BY <1>0, <2>1 DEF PayerFields
  <2>5. PayerTaskOK(u) /\ u.pc # "stats" /\ payer.task[t].pc # "stats"  BY <2>1, <2>3 DEF PayerTaskOK
  <2> QED BY <1>1, <1>2, <2>2, <2>3, <2>4, <2>5, PayerGoes
<1>7. CASE ClaimAccumulated(t)
  <2> DEFINE ks == payer.jobs
             u == [PayerIdle EXCEPT !.pc = "claim", !.jobs = ks, !.clear = TRUE]
  <2>1. payer.task[t].pc = "idle" /\ payer' = [payer EXCEPT !.task[t] = u]  BY <1>7 DEF ClaimAccumulated
  <2>2. ks \in Seq(ClJobs)  BY <1>1, <1>2, PayerShare, <1>0
  <2> HIDE DEF ks, u
  <2>3. u \in PayerTask /\ u.pc = "claim"  BY <1>1, <1>2, <2>2 DEF PayerIdle, PayerTask, u
  <2>4. payer' = [payer EXCEPT !.jobs = payer.jobs, !.amount = payer.amount, !.ops = payer.ops, !.task = [payer.task EXCEPT ![t] = u]]
    BY <1>0, <2>1 DEF PayerFields
  <2>5. PayerTaskOK(u) /\ u.pc # "stats" /\ payer.task[t].pc # "stats"  BY <2>1, <2>3 DEF PayerTaskOK
  <2> QED BY <1>1, <1>2, <2>2, <2>3, <2>4, <2>5, PayerGoes
<1>8. CASE ClearJobs(t)
  <2> DEFINE v == payer.task[t]
             u == [v EXCEPT !.pc = "clear"]
  <2>1. v \in PayerTask /\ v.pc = "claim"
        /\ \/ payer' = [payer EXCEPT !.jobs = <<>>, !.task[t] = u]
           \/ payer' = [payer EXCEPT !.task[t] = PayerIdle]
    BY Zenon, <1>1, <1>8 DEF ClearJobs
  <2>2. u \in PayerTask /\ u.pc = "clear"  BY <2>1 DEF PayerTask
  <2>3. PayerIdle \in PayerTask /\ PayerIdle.pc = "idle"  BY <1>2 DEF PayerIdle, PayerTask
  <2> HIDE DEF u
  <2>4. PayerTaskOK(u) /\ u.pc # "stats" /\ payer.task[t].pc # "stats" /\ PayerTaskOK(PayerIdle) /\ PayerIdle.pc # "stats"
    BY <2>1, <2>2, <2>3 DEF PayerTaskOK
  <2>5. CASE payer' = [payer EXCEPT !.jobs = <<>>, !.task[t] = u]
    <3>1. payer' = [payer EXCEPT !.jobs = <<>>, !.amount = payer.amount, !.ops = payer.ops, !.task = [payer.task EXCEPT ![t] = u]]
      BY <1>0, <2>5 DEF PayerFields
    <3> QED BY <1>1, <1>2, <2>2, <2>4, <3>1, PayerGoes
  <2>6. CASE payer' = [payer EXCEPT !.task[t] = PayerIdle]
    <3>1. payer' = [payer EXCEPT !.jobs = payer.jobs, !.amount = payer.amount, !.ops = payer.ops, !.task = [payer.task EXCEPT ![t] = PayerIdle]]
      BY <1>0, <2>6 DEF PayerFields
    <3> QED BY <1>1, <2>3, <2>4, <3>1, PayerGoes
  <2> QED BY <2>1, <2>5, <2>6
<1>9. CASE ClearAmount(t)
  <2> DEFINE u == PayerIdle
  <2>1. payer.task[t].pc = "clear" /\ payer' = [payer EXCEPT !.amount = 0, !.task[t] = u]  BY <1>9 DEF ClearAmount
  <2>2. 0 \in Nat  BY <1>1, <1>2, PayerShare, <1>0
  <2> HIDE DEF u
  <2>3. u \in PayerTask /\ u.pc = "idle"  BY <1>1, <1>2, <2>2 DEF PayerIdle, PayerTask, u
  <2>4. payer' = [payer EXCEPT !.jobs = payer.jobs, !.amount = 0, !.ops = payer.ops, !.task = [payer.task EXCEPT ![t] = u]]
    BY <1>0, <2>1 DEF PayerFields
  <2>5. PayerTaskOK(u) /\ u.pc # "stats" /\ payer.task[t].pc # "stats"  BY <2>1, <2>3 DEF PayerTaskOK
  <2> QED BY <1>1, <1>2, <2>2, <2>3, <2>4, <2>5, PayerGoes
<1> QED BY Zenon, <1>4, <1>5, <1>6, <1>7, <1>8, <1>9

LEMMA CheckPaymentKeeps == ASSUME PayerOK(payer), NEW t \in ClTasks, CheckPayment(t) PROVE PayerOK(payer')
<1> DEFINE u == payer.task[t]
           ks == Tail(u.jobs)
           v == [u EXCEPT !.pc = "pay"]
           w == [u EXCEPT !.jobs = ks]
<1>0. payer \in PayerFields  BY DEF PayerOK
<1>1. payer.jobs \in Seq(ClJobs) /\ payer.amount \in Nat /\ payer.ops \in Nat /\ u \in PayerTask  BY <1>0, PayerFieldsOf
<1>2. u.pc = "claim" /\ u.jobs # <<>> /\ \E x \in {v, w} : payer' = [payer EXCEPT !.task[t] = x]
  BY Zenon DEF CheckPayment
<1>3. u.jobs \in Seq(ClJobs)  BY <1>1, PayerTaskOf
<1>4. ks \in Seq(ClJobs)  BY <1>2, <1>3
<1> HIDE DEF ks
<1>5. \A x \in {v, w} : x \in PayerTask /\ x.pc # "stats" /\ PayerTaskOK(x)
  BY <1>1, <1>2, <1>4 DEF PayerTask, PayerTaskOK
<1> HIDE DEF v, w
<1>6. PICK x \in {v, w} : payer' = [payer EXCEPT !.task[t] = x]  BY <1>2
<1>7. payer' = [payer EXCEPT !.jobs = payer.jobs, !.amount = payer.amount, !.ops = payer.ops, !.task = [payer.task EXCEPT ![t] = x]]
  BY <1>0, <1>6 DEF PayerFields
<1> QED BY <1>1, <1>2, <1>5, <1>7, PayerGoes

LEMMA ClaimPaymentKeeps == ASSUME PayerOK(payer), NEW t \in ClTasks, ClaimPayment(t) PROVE PayerOK(payer')
<1> DEFINE u == payer.task[t]
           j == Head(u.jobs)
           ks == Tail(u.jobs)
           share == CalculateSplits(payer.escrow[j]).host
           bal == payer.balance + share
           op == payer.open \ {j}
           v == [u EXCEPT !.pc = "stats", !.amount = share]
           w == [u EXCEPT !.pc = "claim", !.jobs = ks]
<1>0. payer \in PayerFields  BY DEF PayerOK
<1>1. payer.jobs \in Seq(ClJobs) /\ payer.amount \in Nat /\ payer.ops \in Nat /\ u \in PayerTask /\ payer.balance \in Nat
      /\ payer.task \in [ClTasks -> PayerTask] /\ payer.open \in SUBSET ClJobs /\ payer.stats.earned \in Nat /\ payer.withdrawn \in Nat
  BY <1>0, PayerFieldsOf
<1>a. PayerTaskOK(u)  BY DEF PayerOK
<1>b. u.pc = "pay"
      /\ \/ payer' = [payer EXCEPT !.task[t] = w]
         \/ payer' = [payer EXCEPT !.open = op, !.balance = bal, !.task[t] = v]
  BY Zenon DEF ClaimPayment
<1>2. u.pc = "pay" /\ u.jobs # <<>>
      /\ \/ payer' = [payer EXCEPT !.task[t] = w]
         \/ payer' = [payer EXCEPT !.open = op, !.balance = bal, !.task[t] = v]
  BY <1>a, <1>b DEF PayerTaskOK
<1>3. u.jobs \in Seq(ClJobs) /\ u.amount \in Nat /\ u.clear \in BOOLEAN  BY <1>1, PayerTaskOf
<1>4. j \in ClJobs /\ ks \in Seq(ClJobs)  BY <1>2, <1>3
<1>5. share \in Nat  BY <1>0, <1>4, PayerShare
<1> HIDE DEF share, j, ks
<1>6. bal \in Nat /\ op \in SUBSET ClJobs  BY <1>1, <1>5
<1>7. v \in PayerTask /\ v.pc = "stats" /\ v.jobs = u.jobs /\ v.amount = share  BY <1>1, <1>5 DEF PayerTask
<1>8. w \in PayerTask /\ w.pc = "claim"  BY <1>1, <1>2, <1>4 DEF PayerTask
<1> HIDE DEF v, w
<1>9. CASE payer' = [payer EXCEPT !.task[t] = w]
  <2>1. payer' = [payer EXCEPT !.jobs = payer.jobs, !.amount = payer.amount, !.ops = payer.ops, !.task = [payer.task EXCEPT ![t] = w]]
    BY <1>0, <1>9 DEF PayerFields
  <2>2. PayerTaskOK(w) /\ w.pc # "stats" /\ payer.task[t].pc # "stats"  BY <1>2, <1>8 DEF PayerTaskOK
  <2> QED BY <1>1, <1>8, <2>1, <2>2, PayerGoes
<1>10. CASE payer' = [payer EXCEPT !.open = op, !.balance = bal, !.task[t] = v]
  <2> DEFINE ts == [payer.task EXCEPT ![t] = v]
  <2>1. ts \in [ClTasks -> PayerTask]  BY <1>1, <1>7
  <2> HIDE DEF ts, op, bal
  <2>2. payer' = [payer EXCEPT !.open = op, !.balance = bal, !.task = ts]  BY <1>0, <1>10 DEF PayerFields, ts
  <2>3. payer' \in PayerFields /\ payer'.task = ts /\ payer'.stats = payer.stats /\ payer'.balance = bal
        /\ payer'.withdrawn = payer.withdrawn
    BY <1>0, <1>6, <2>1, <2>2 DEF PayerFields
  <2>4. DueOf(v) = share /\ DueOf(payer.task[t]) = 0 /\ PayerTaskOK(v)  BY <1>2, <1>7 DEF DueOf, PayerTaskOK
  <2>5. payer'.stats.earned + DueOf(v) + payer.balance + payer.withdrawn
            = payer.stats.earned + DueOf(payer.task[t]) + payer'.balance + payer'.withdrawn
    <3> DEFINE a == payer.stats.earned
               b == payer.balance
               c == payer.withdrawn
    <3>1. a \in Nat /\ b \in Nat /\ c \in Nat /\ share \in Nat  BY <1>1, <1>5
    <3> HIDE DEF a, b, c
    <3>2. a + share + b + c = a + 0 + (b + share) + c  BY ONLY <3>1
    <3> QED BY <2>3, <2>4, <3>2 DEF a, b, c, bal
  <2>6. payer'.task = [payer.task EXCEPT ![t] = v]  BY <2>3 DEF ts
  <2> QED BY <1>7, <2>3, <2>4, <2>5, <2>6, PayerMoves
<1> QED BY <1>2, <1>9, <1>10

LEMMA StatisticsKeeps == ASSUME PayerOK(payer), NEW t \in ClTasks, UpdatePaymentStatistics(t) PROVE PayerOK(payer')
<1> DEFINE u == payer.task[t]
           ks == Tail(u.jobs)
           os == payer.stats
           x == u.amount
           big == IF x > os.largest THEN x ELSE os.largest
           n == os.paid + 1
           a == os.earned
           sum == a + x
           st == [paid |-> n, earned |-> sum, largest |-> big]
           v == [u EXCEPT !.pc = "claim", !.jobs = ks, !.amount = 0]
           ts == [payer.task EXCEPT ![t] = v]
<1>0. payer \in PayerFields  BY DEF PayerOK
<1>1. u \in PayerTask /\ payer.task \in [ClTasks -> PayerTask] /\ os.earned \in Nat /\ os.paid \in Nat /\ os.largest \in Nat
      /\ payer.balance \in Nat /\ payer.withdrawn \in Nat
  BY <1>0, PayerFieldsOf
<1>2. u.pc = "stats" /\ payer' = [payer EXCEPT !.task = ts, !.stats = st]
  BY <1>0 DEF UpdatePaymentStatistics, PayerFields
<1>3. u.jobs \in Seq(ClJobs) /\ x \in Nat /\ u.jobs # <<>>
  <2>1. PayerTaskOK(u)  BY DEF PayerOK
  <2> QED BY <1>1, <1>2, <2>1, PayerTaskOf DEF PayerTaskOK
<1>4. ks \in Seq(ClJobs)  BY <1>3
<1> HIDE DEF ks
<1>5. v \in PayerTask /\ v.pc = "claim"  BY <1>1, <1>4 DEF PayerTask
<1> HIDE DEF v
<1>6. ts \in [ClTasks -> PayerTask]  BY <1>1, <1>5
<1>7. DueOf(v) = 0 /\ DueOf(payer.task[t]) = x /\ PayerTaskOK(v)  BY <1>2, <1>5 DEF DueOf, PayerTaskOK
<1>8. a \in Nat /\ sum \in Nat /\ n \in Nat /\ big \in Nat  BY <1>1, <1>3
<1> HIDE DEF n, big, sum
<1>9. st \in [paid : Nat, earned : Nat, largest : Nat] /\ st.earned = sum  BY <1>8
<1> HIDE DEF st, ts
<1>10. payer' \in PayerFields /\ payer'.task = ts /\ payer'.stats = st /\ payer'.balance = payer.balance
        /\ payer'.withdrawn = payer.withdrawn
  BY <1>0, <1>2, <1>6, <1>9 DEF PayerFields
<1>11. payer'.stats.earned + DueOf(v) + payer.balance + payer.withdrawn
            = payer.stats.earned + DueOf(payer.task[t]) + payer'.balance + payer'.withdrawn
  <2> DEFINE b == payer.balance
             c == payer.withdrawn
  <2>1. a \in Nat /\ b \in Nat /\ c \in Nat /\ x \in Nat  BY <1>1, <1>3
  <2> HIDE DEF a, b, c, x
  <2>2. (a + x) + 0 + b + c = a + x + b + c  BY ONLY <2>1
  <2> QED BY <1>7, <1>9, <1>10, <2>2 DEF a, b, c, sum
<1>12. payer'.task = [payer.task EXCEPT ![t] = v]  BY <1>10 DEF ts
<1> QED BY <1>5, <1>7, <1>10, <1>11, <1>12, PayerMoves

LEMMA PayerSteps == ASSUME PayerOK(payer), PayerNext PROVE PayerOK(payer')
<1>0. payer \in PayerFields /\ payer.balance \in Nat /\ payer.withdrawn \in Nat /\ payer.ops \in Nat /\ payer.stats.earned \in Nat
  BY PayerFieldsOf DEF PayerOK
<1>1. CASE WithdrawEarnings
  <2> DEFINE k == payer.withdrawn + payer.balance
  <2>1. payer' = [payer EXCEPT !.withdrawn = k, !.balance = 0] /\ k \in Nat /\ 0 + k = payer.balance + payer.withdrawn
    BY <1>0, <1>1 DEF WithdrawEarnings
  <2> HIDE DEF k
  <2>2. payer' \in PayerFields /\ payer'.task = payer.task /\ payer'.stats = payer.stats /\ payer'.balance = 0 /\ payer'.withdrawn = k
    BY <1>0, <2>1 DEF PayerFields
  <2> QED BY <2>1, <2>2 DEF PayerOK, DueOfTasks
<1>2. ASSUME NEW g \in ClGas, GasChanges(g) PROVE PayerOK(payer')
  <2> DEFINE n == payer.ops + 1
  <2>1. payer' = [payer EXCEPT !.gas = g, !.ops = n] /\ n \in Nat /\ g \in Nat
    BY <1>0, <1>2, ClAssumption DEF GasChanges
  <2> HIDE DEF n
  <2>2. payer' \in PayerFields /\ payer'.task = payer.task /\ payer'.stats = payer.stats /\ payer'.balance = payer.balance
        /\ payer'.withdrawn = payer.withdrawn
    BY <1>0, <2>1 DEF PayerFields
  <2> QED BY <2>1, <2>2 DEF PayerOK, DueOfTasks
<1> QED BY Zenon, <1>1, <1>2, PayerQuietSteps, CheckPaymentKeeps, ClaimPaymentKeeps, StatisticsKeeps DEF PayerNext

-----------------------------------------------------------------------------
(* Claims: the job claimer.  A job is claimed on the checks of the attempt  *)
(* that claims it, and nothing changes once the retries have ended.         *)

ClaimAnswers == {"ok", "NodeNotRegistered", "JobAlreadyClaimed", "UnsupportedModel", "InvalidJob", "BelowMinimumThreshold",
                 "Other", "ContractError"}

Assignment == [known : BOOLEAN, host : ClHosts \cup {"none"}, at : Nat, status : AssignmentStatus, priority : BOOLEAN]

ClaimerFields == [job : JobRequest, gas : ClGas, registered : BOOLEAN, rival : BOOLEAN, mine : BOOLEAN, attempts : Nat,
                  stage : {"idle", "job", "gas", "claim"}, seen : ClGas, outcome : ClaimAnswers \cup {"none"}, hosts : SUBSET ClHosts, ops : Nat, assigned : [ClJobs -> Assignment]]

\* What the attempt under way has found out: the job is valid, and profitable at the price it read.
ClaimerOK(c) ==
    /\ c \in ClaimerFields
    /\ c.attempts <= ClaimAttempts /\ (c.outcome = "none" => c.attempts < ClaimAttempts)
    /\ c.stage # "idle" => c.outcome = "none"
    /\ c.stage \in {"gas", "claim"} \/ c.mine => ValidateJob(c.job) = "ok"
    /\ c.stage = "claim" \/ c.mine => IsProfitable(c.job, c.seen)
    /\ c.mine => c.outcome = "ok" /\ ~c.rival

LEMMA ClaimerFieldsOf ==
    ASSUME NEW c \in ClaimerFields
    PROVE  /\ c.job \in JobRequest /\ c.gas \in ClGas /\ c.attempts \in Nat /\ c.outcome \in ClaimAnswers \cup {"none"}
           /\ c.seen \in ClGas /\ c.hosts \in SUBSET ClHosts /\ c.ops \in Nat /\ c.assigned \in [ClJobs -> Assignment]
  BY DEF ClaimerFields

LEMMA ClaimerSafe == ASSUME ClaimerOK(claimer) PROVE ClaimIsWorthwhile  BY DEF ClaimerOK, ClaimIsWorthwhile, IsClaimable

LEMMA ClaimerInitial == ASSUME NEW offers \in SUBSET JobRequest, ClaimerInit(offers) PROVE ClaimerOK(claimer)
<1> DEFINE as == [j \in ClJobs |-> NoAssignment]
<1>1. PICK offer \in offers, gas \in ClGas :
         claimer = [job |-> offer, gas |-> gas, registered |-> TRUE, rival |-> FALSE, mine |-> FALSE,
                    stage |-> "idle", seen |-> gas, attempts |-> 0, outcome |-> "none", hosts |-> {}, ops |-> 0, assigned |-> as]
  BY Zenon DEF ClaimerInit
<1>2. NoAssignment \in Assignment  BY DEF NoAssignment, Assignment, AssignmentStatus
<1>3. as \in [ClJobs -> Assignment]  BY <1>2
<1> HIDE DEF as
<1>4. claimer \in ClaimerFields /\ claimer.attempts = 0 /\ claimer.mine = FALSE /\ claimer.stage = "idle"
  BY <1>1, <1>3 DEF ClaimerFields
<1> QED BY <1>4, ClAssumption DEF ClaimerOK

LEMMA ValidateJobIs ==
    ASSUME NEW job PROVE ValidateJob(job) \in {"ok", "UnsupportedModel", "InvalidJob", "BelowMinimumThreshold"}
  BY DEF ValidateJob

LEMMA AttemptFailsKeeps ==
    ASSUME ClaimerOK(claimer), claimer.outcome = "none", NEW result \in ClaimAnswers, result # "ok", AttemptFails(result)
    PROVE  ClaimerOK(claimer')
<1>1. claimer \in ClaimerFields /\ claimer.attempts \in Nat /\ ClaimAttempts \in Nat /\ claimer.attempts < ClaimAttempts
      /\ ~claimer.mine
  <2>1. claimer \in ClaimerFields /\ claimer.attempts < ClaimAttempts /\ ~claimer.mine  BY DEF ClaimerOK
  <2> QED BY <2>1, ClaimerFieldsOf, ClAssumption
<1> DEFINE n == claimer.attempts + 1
           ends == RetryEnds(result, n)
           out == IF ends THEN result ELSE "none"
<1>2. claimer' = [claimer EXCEPT !.stage = "idle", !.attempts = n, !.outcome = out]  BY <1>1 DEF AttemptFails
<1>3. n \in Nat /\ n <= ClaimAttempts /\ (~ends => n < ClaimAttempts)  BY <1>1 DEF RetryEnds
<1>4. out \in ClaimAnswers \cup {"none"} /\ (out = "none" => ~ends)  BY DEF ClaimAnswers
<1> HIDE DEF n, out, ends
<1>5. claimer' \in ClaimerFields /\ claimer'.attempts = n /\ claimer'.mine = claimer.mine /\ claimer'.outcome = out
      /\ claimer'.stage = "idle"
  BY <1>1, <1>2, <1>3, <1>4 DEF ClaimerFields
<1> QED BY <1>1, <1>3, <1>4, <1>5 DEF ClaimerOK

LEMMA ClaimAttemptKeeps ==
    ASSUME ClaimerOK(claimer), CheckRegistered \/ CheckOffer \/ CheckProfitable \/ ClaimAtMarketplace
    PROVE  ClaimerOK(claimer')
<1>0. claimer \in ClaimerFields /\ claimer.outcome = "none" /\ ~claimer.mine
  BY DEF ClaimerOK, CheckRegistered, CheckOffer, CheckProfitable, ClaimAtMarketplace
<1>1. ASSUME NEW st \in {"job", "gas"}, claimer' = [claimer EXCEPT !.stage = st], st = "gas" => ValidateJob(claimer.job) = "ok"
      PROVE  ClaimerOK(claimer')
  <2>1. claimer' \in ClaimerFields /\ claimer'.attempts = claimer.attempts /\ claimer'.mine = claimer.mine
        /\ claimer'.outcome = claimer.outcome /\ claimer'.stage = st /\ claimer'.job = claimer.job
    BY <1>0, <1>1 DEF ClaimerFields
  <2> QED BY <1>0, <1>1, <2>1 DEF ClaimerOK
<1>2. CASE CheckRegistered
  <2>1. CASE AttemptFails("NodeNotRegistered")  BY <1>0, <2>1, AttemptFailsKeeps DEF ClaimAnswers
  <2> QED BY <1>1, <1>2, <2>1 DEF CheckRegistered
<1>3. CASE CheckOffer
  <2>1. CASE AttemptFails("JobAlreadyClaimed")  BY <1>0, <2>1, AttemptFailsKeeps DEF ClaimAnswers
  <2>2. CASE ValidateJob(claimer.job) # "ok" /\ AttemptFails(ValidateJob(claimer.job))
    <3> DEFINE x == ValidateJob(claimer.job)
    <3>1. x \in ClaimAnswers /\ x # "ok" /\ AttemptFails(x)  BY <2>2, ValidateJobIs DEF ClaimAnswers
    <3> HIDE DEF x
    <3> QED BY <1>0, <3>1, AttemptFailsKeeps
  <2>3. CASE ValidateJob(claimer.job) = "ok" /\ claimer' = [claimer EXCEPT !.stage = "gas"]  BY <1>1, <2>3
  <2> QED BY <1>3, <2>1, <2>2, <2>3 DEF CheckOffer
<1>4. CASE CheckProfitable
  <2>1. CASE AttemptFails("Other")  BY <1>0, <2>1, AttemptFailsKeeps DEF ClaimAnswers
  <2>2. CASE IsProfitable(claimer.job, claimer.gas) /\ claimer' = [claimer EXCEPT !.stage = "claim", !.seen = claimer.gas]
    <3>1. claimer.gas \in ClGas  BY <1>0, ClaimerFieldsOf
    <3>2. claimer' \in ClaimerFields /\ claimer'.attempts = claimer.attempts /\ claimer'.mine = claimer.mine
          /\ claimer'.outcome = claimer.outcome /\ claimer'.job = claimer.job /\ claimer'.seen = claimer.gas
      BY <1>0, <2>2, <3>1 DEF ClaimerFields
    <3>3. ValidateJob(claimer.job) = "ok"  BY <1>4 DEF ClaimerOK, CheckProfitable
    <3> QED BY <1>0, <2>2, <3>2, <3>3 DEF ClaimerOK
  <2> QED BY <1>4, <2>1, <2>2 DEF CheckProfitable
<1>5. CASE ClaimAtMarketplace
  <2>1. CASE AttemptFails("ContractError")  BY <1>0, <2>1, AttemptFailsKeeps DEF ClaimAnswers
  <2>2. CASE ~claimer.rival /\ claimer' = [claimer EXCEPT !.stage = "idle", !.mine = TRUE, !.outcome = "ok"]
    <3>1. claimer' \in ClaimerFields /\ claimer'.attempts = claimer.attempts /\ claimer'.stage = "idle"
          /\ claimer'.outcome = "ok" /\ claimer'.job = claimer.job /\ claimer'.seen = claimer.seen /\ claimer'.rival = claimer.rival
      BY <1>0, <2>2 DEF ClaimerFields, ClaimAnswers
    <3>2. ValidateJob(claimer.job) = "ok" /\ IsProfitable(claimer.job, claimer.seen)
      BY <1>5 DEF ClaimerOK, ClaimAtMarketplace
    <3> QED BY <2>2, <3>1, <3>2 DEF ClaimerOK
  <2> QED BY <1>5, <2>1, <2>2 DEF ClaimAtMarketplace
<1> QED BY <1>2, <1>3, <1>4, <1>5

LEMMA MarketChangesKeeps == ASSUME ClaimerOK(claimer), MarketChanges PROVE ClaimerOK(claimer')
<1>0. claimer \in ClaimerFields /\ claimer.outcome = "none" /\ ~claimer.mine  BY DEF ClaimerOK, MarketChanges
<1> DEFINE Same == claimer' \in ClaimerFields /\ claimer'.attempts = claimer.attempts /\ claimer'.mine = claimer.mine
                   /\ claimer'.outcome = claimer.outcome /\ claimer'.stage = claimer.stage /\ claimer'.job = claimer.job
                   /\ claimer'.seen = claimer.seen
<1>1. Same
  <2>1. CASE claimer' = [claimer EXCEPT !.rival = TRUE]  BY <1>0, <2>1 DEF ClaimerFields
  <2>2. CASE claimer' = [claimer EXCEPT !.registered = FALSE]  BY <1>0, <2>2 DEF ClaimerFields
  <2>3. ASSUME NEW g \in ClGas, claimer' = [claimer EXCEPT !.gas = g] PROVE Same  BY <1>0, <2>3 DEF ClaimerFields
  <2> QED BY Zenon, <2>1, <2>2, <2>3 DEF MarketChanges
<1> QED BY <1>0, <1>1 DEF ClaimerOK

\* What concerns the assignments leaves the claim alone.
LEMMA AssignMoves ==
    ASSUME ClaimerOK(claimer), NEW as \in [ClJobs -> Assignment], NEW hs \in SUBSET ClHosts, NEW n \in Nat,
           claimer' = [claimer EXCEPT !.assigned = as, !.hosts = hs, !.ops = n]
    PROVE  ClaimerOK(claimer')
<1>1. claimer \in ClaimerFields  BY DEF ClaimerOK
<1>2. claimer' \in ClaimerFields /\ claimer'.attempts = claimer.attempts /\ claimer'.mine = claimer.mine /\ claimer'.outcome = claimer.outcome
      /\ claimer'.job = claimer.job /\ claimer'.rival = claimer.rival /\ claimer'.stage = claimer.stage /\ claimer'.seen = claimer.seen
  BY <1>1 DEF ClaimerFields
<1> QED BY <1>2 DEF ClaimerOK

LEMMA AssignmentKeeps ==
    ASSUME ClaimerOK(claimer), NEW j \in ClJobs, NEW r \in Assignment, AssignStep(j, r) PROVE ClaimerOK(claimer')
<1> DEFINE as == [claimer.assigned EXCEPT ![j] = r]
           n == claimer.ops + 1
<1>1. claimer \in ClaimerFields /\ claimer.hosts \in SUBSET ClHosts /\ claimer.ops \in Nat /\ claimer.assigned \in [ClJobs -> Assignment]
  BY ClaimerFieldsOf DEF ClaimerOK
<1>2. as \in [ClJobs -> Assignment] /\ n \in Nat  BY <1>1
<1>3. claimer' = [claimer EXCEPT !.assigned = as, !.hosts = claimer.hosts, !.ops = n]
  BY <1>1 DEF AssignStep, ClaimerFields
<1> HIDE DEF as, n
<1> QED BY <1>1, <1>2, <1>3, AssignMoves

LEMMA AssignSteps == ASSUME ClaimerOK(claimer), AssignNext PROVE ClaimerOK(claimer')
<1>1. claimer \in ClaimerFields /\ claimer.hosts \in SUBSET ClHosts /\ claimer.ops \in Nat /\ claimer.assigned \in [ClJobs -> Assignment]
  BY ClaimerFieldsOf DEF ClaimerOK
<1>2. ASSUME NEW h \in ClHosts, RegistryChanges(h) PROVE ClaimerOK(claimer')
  <2> DEFINE hs == SymDiff(claimer.hosts, {h})
             n == claimer.ops + 1
  <2>1. hs \in SUBSET ClHosts /\ n \in Nat  BY <1>1 DEF SymDiff
  <2>2. claimer' = [claimer EXCEPT !.hosts = hs, !.ops = n]  BY <1>2 DEF RegistryChanges
  <2> HIDE DEF hs, n
  <2>3. claimer' = [claimer EXCEPT !.assigned = claimer.assigned, !.hosts = hs, !.ops = n]
    BY <1>1, <2>2 DEF ClaimerFields
  <2> QED BY <1>1, <2>1, <2>3, AssignMoves
<1>3. ASSUME NEW j \in ClJobs, NEW h \in ClHosts, AssignJobToHost(j, h) PROVE ClaimerOK(claimer')
  <2> DEFINE at == 10 + claimer.ops
             r == [known |-> TRUE, host |-> h, at |-> at, status |-> "Confirmed", priority |-> FALSE]
  <2>1. AssignStep(j, r) /\ at \in Nat  BY <1>1, <1>3 DEF AssignJobToHost
  <2> HIDE DEF at
  <2>2. r \in Assignment  BY <2>1 DEF Assignment, AssignmentStatus
  <2> HIDE DEF r
  <2> QED BY <2>1, <2>2, AssignmentKeeps
<1>4. ASSUME NEW j \in ClJobs, NEW h \in ClHosts, ReassignJob(j, h) PROVE ClaimerOK(claimer')
  <2> DEFINE at == 10 + claimer.ops
             o == claimer.assigned[j]
             r == [o EXCEPT !.host = h, !.status = "Reassigned", !.at = at]
  <2>1. AssignStep(j, r) /\ at \in Nat /\ o \in Assignment  BY <1>1, <1>4 DEF ReassignJob
  <2> HIDE DEF at, o
  <2>2. r \in Assignment  BY <2>1 DEF Assignment, AssignmentStatus
  <2> HIDE DEF r
  <2> QED BY <2>1, <2>2, AssignmentKeeps
<1>5. ASSUME NEW j \in ClJobs, NEW x \in AssignmentStatus, UpdateAssignmentStatus(j, x) PROVE ClaimerOK(claimer')
  <2> DEFINE o == claimer.assigned[j]
             r == [o EXCEPT !.status = x]
  <2>1. AssignStep(j, r) /\ o \in Assignment  BY <1>1, <1>5 DEF UpdateAssignmentStatus
  <2> HIDE DEF o
  <2>2. r \in Assignment  BY <2>1 DEF Assignment
  <2> HIDE DEF r
  <2> QED BY <2>1, <2>2, AssignmentKeeps
<1>6. ASSUME NEW j \in ClJobs, NEW p \in {1, 2}, AddPriorityJob(j, p) PROVE ClaimerOK(claimer')
  <2> DEFINE r == [known |-> TRUE, host |-> "none", at |-> p, status |-> "Pending", priority |-> TRUE]
  <2>1. AssignStep(j, r)  BY <1>6 DEF AddPriorityJob
  <2>2. r \in Assignment  BY DEF Assignment, AssignmentStatus
  <2> HIDE DEF r
  <2> QED BY <2>1, <2>2, AssignmentKeeps
<1>7. ASSUME NEW h \in ClHosts, ProcessPriorityAssignments(h, 1) PROVE ClaimerOK(claimer')
  <2>1. PICK order \in SetToSeqs(PendingJobs) :
           LET taken == {order[i] : i \in 1 .. IF 1 < Len(order) THEN 1 ELSE Len(order)}
           IN claimer' = [claimer EXCEPT
                  !.assigned = [j \in ClJobs |-> IF j \in taken
                                  THEN [claimer.assigned[j] EXCEPT !.host = h, !.status = "Confirmed"]
                                  ELSE claimer.assigned[j]]]  BY Zenon, <1>7 DEF ProcessPriorityAssignments
  <2> DEFINE taken == {order[i] : i \in 1 .. IF 1 < Len(order) THEN 1 ELSE Len(order)}
  <2>2. claimer' = [claimer EXCEPT
                  !.assigned = [j \in ClJobs |-> IF j \in taken
                                  THEN [claimer.assigned[j] EXCEPT !.host = h, !.status = "Confirmed"]
                                  ELSE claimer.assigned[j]]]  BY Zenon, <2>1
  <2> HIDE DEF taken
  <2> DEFINE as == [j \in ClJobs |-> IF j \in taken THEN [claimer.assigned[j] EXCEPT !.host = h, !.status = "Confirmed"]
                                     ELSE claimer.assigned[j]]
  <2>3. ASSUME NEW j \in ClJobs PROVE as[j] \in Assignment
    <3> DEFINE o == claimer.assigned[j]
    <3>1. o \in Assignment  BY <1>1
    <3> HIDE DEF o
    <3>2. [o EXCEPT !.host = h, !.status = "Confirmed"] \in Assignment  BY <3>1 DEF Assignment, AssignmentStatus
    <3> QED BY <3>1, <3>2 DEF o
  <2>4. as \in [ClJobs -> Assignment]  BY <2>3
  <2>5. claimer' = [claimer EXCEPT !.assigned = as]  BY <2>2
  <2> HIDE DEF as
  <2>6. claimer' = [claimer EXCEPT !.assigned = as, !.hosts = claimer.hosts, !.ops = claimer.ops]
    BY <1>1, <2>5 DEF ClaimerFields
  <2> QED BY <1>1, <2>4, <2>6, AssignMoves
<1>8. "Pending" \in AssignmentStatus /\ "Completed" \in AssignmentStatus  BY DEF AssignmentStatus
<1> QED BY Zenon, <1>2, <1>3, <1>4, <1>5, <1>6, <1>7, <1>8 DEF AssignNext

ClInv == ClaimerOK(claimer) /\ PayerOK(payer) /\ DistributorOK(distributor)

LEMMA ClInitial == ClInit => ClInv
<1> SUFFICES ASSUME ClInit PROVE ClInv  OBVIOUS
<1>1. JobRequest # {}
  <2>1. PICK a \in ClAmounts : TRUE  BY ClAssumption
  <2>2. [payment |-> a, tokens |-> 0, supported |-> TRUE] \in JobRequest  BY DEF JobRequest
  <2> QED BY <2>2
<1>2. (CHOOSE r \in JobRequest : TRUE) \in JobRequest  BY <1>1
<1> DEFINE offers == IF clPart = "claim" THEN JobRequest ELSE {CHOOSE r \in JobRequest : TRUE}
           amounts == IF clPart = "pay" THEN ClAmounts ELSE {0}
<1>3. offers \in SUBSET JobRequest  BY <1>2
<1>4. amounts \in SUBSET Nat  BY ClAssumption
<1>5. ClaimerInit(offers) /\ PayerInit(amounts) /\ DistributorInit  BY Zenon DEF ClInit
<1> HIDE DEF offers, amounts
<1> QED BY <1>3, <1>4, <1>5, ClaimerInitial, PayerInitial, DistributorInitial DEF ClInv

LEMMA ClStep == ASSUME ClInv, [ClNext]_clVars PROVE ClInv'
<1>1. CASE ClaimerNext /\ UNCHANGED <<payer, distributor>>
  BY <1>1, ClaimAttemptKeeps, MarketChangesKeeps DEF ClInv, ClaimerNext
<1>2. CASE AssignNext /\ UNCHANGED <<payer, distributor>>  BY <1>2, AssignSteps DEF ClInv
<1>3. CASE PayerNext /\ UNCHANGED <<claimer, distributor>>  BY <1>3, PayerSteps DEF ClInv
<1>4. CASE DistributorNext /\ UNCHANGED <<claimer, payer>>  BY <1>4, DistributorSteps DEF ClInv
<1>5. CASE UNCHANGED clVars  BY <1>5 DEF ClInv, clVars
<1> QED BY Zenon, <1>1, <1>2, <1>3, <1>4, <1>5 DEF ClNext

LEMMA ClSafe == ASSUME ClInv PROVE SplitsConserve /\ EarnedIsPaid /\ ClaimIsWorthwhile /\ ClTypeOK
<1>1. SplitsConserve /\ EarnedIsPaid /\ ClaimIsWorthwhile  BY DistributorSafe, PayerSafe, ClaimerSafe DEF ClInv
<1>2. claimer.job \in JobRequest /\ claimer.attempts \in Nat /\ claimer.assigned \in [ClJobs -> Assignment]
  BY ClaimerFieldsOf DEF ClInv, ClaimerOK
<1>3. \A j \in ClJobs : claimer.assigned[j].status \in AssignmentStatus  BY <1>2 DEF Assignment
<1>4. payer.balance \in Nat /\ payer.amount \in Nat /\ distributor.treasury \in Nat
  BY PayerFieldsOf, DistributorFieldsOf DEF ClInv, PayerOK, DistributorOK
<1> QED BY <1>1, <1>2, <1>3, <1>4 DEF ClTypeOK
=============================================================================
