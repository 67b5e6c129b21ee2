------------------------- MODULE ServicePartsProofs -------------------------
(***************************************************************************)
(* Proofs about components that serve requests, each by itself: the        *)
(* histogram of Monitoring, whose readers and writers take the same locks  *)
(* in different orders; the model storage of Storage, whose puts may fail  *)
(* at every step of concurrent stores; the meters of NodeServer;           *)
(* WebSocketSession; the batches of Performance; the pools and rates of    *)
(* ConnectionLimits; and the invariants of caches and quotas that          *)
(* NodeServicesProofs puts together.                                       *)
(*                                                                         *)
(* A limit that is checked before the step it is for, outside the lock of  *)
(* that step, is exceeded by one request per other task at most: each      *)
(* proof counts the tasks that have passed the check with what is there. A *)
(* limit that is enforced after the step is proved from what the           *)
(* enforcement keeps of a sequence.                                        *)
(***************************************************************************)
EXTENDS WebSocketSession, ConnectionLimits, NodeServer, Storage, Performance, ModelCache, Monitoring, FiniteSums

-----------------------------------------------------------------------------
(* The histogram.                                                          *)

HistPcs == {"idle", "sum", "count", "push", "stat1", "stat2"}

HistTypeOK ==
    hist \in [made : Nat, buckets : Nat, sum : Nat, count : Nat, kept : Nat,
              writer : [HistLocks -> MonTasks \cup {"none"}], readers : [HistLocks -> SUBSET MonTasks],
              pc : [MonTasks -> HistPcs], read : [MonTasks -> Seq(Nat)],
              answers : SUBSET [kept : Nat, count : Nat, sum : Nat]]

\* Who holds which lock: observe keeps what it took, get_statistics the observations,
\* and nobody leaves these locked for writing.
HistLocked ==
    /\ \A t \in MonTasks :
          /\ hist.pc[t] \in {"sum", "count", "push"} <=> hist.writer["buckets"] = t
          /\ hist.pc[t] \in {"count", "push"} <=> hist.writer["sum"] = t
          /\ hist.pc[t] = "push" <=> hist.writer["count"] = t
          /\ hist.pc[t] \in {"stat1", "stat2"} => t \in hist.readers["observations"]
    /\ hist.writer["observations"] = "none"

AtCap(n) == IF n <= HistoryCap THEN n ELSE HistoryCap

\* The sum is ahead of the count by the observation between the two locks, and the
\* observations are behind the count by the one that holds its lock.
HistCounted ==
    /\ hist.sum = hist.count + (IF hist.writer["sum"] # "none" /\ hist.writer["count"] = "none" THEN 1 ELSE 0)
    /\ hist.writer["count"] = "none" => hist.kept = AtCap(hist.count)
    /\ hist.writer["count"] # "none" => hist.count > 0 /\ hist.kept = AtCap(hist.count - 1)

\* What a reader has read is still so; of the count, unless an observation waits with
\* the locks of the sum and the count for the reader to end.
HistRead ==
    \A t \in MonTasks :
        /\ hist.pc[t] = "stat1" => Len(hist.read[t]) = 1 /\ hist.read[t][1] = hist.kept
        /\ hist.pc[t] = "stat2" => hist.read[t][1] = hist.kept /\ (hist.writer["sum"] = "none" => hist.read[t][2] = hist.count)

HistInv == HistTypeOK /\ HistLocked /\ HistCounted /\ HistRead /\ StatsNotTorn

\* The number of observations kept of n.
LEMMA CapIsMin == ASSUME NEW n \in Nat PROVE Min({n, HistoryCap}) = AtCap(n)
<1>1. HistoryCap \in Nat  BY MonAssumption
<1>2. \E x \in {n, HistoryCap} : \A y \in {n, HistoryCap} : x <= y
  <2>1. CASE n <= HistoryCap  BY <1>1, <2>1
  <2>2. CASE ~(n <= HistoryCap)  BY <1>1, <2>2
  <2>. QED  BY <2>1, <2>2
<1>. DEFINE m == Min({n, HistoryCap})
<1>3. m \in {n, HistoryCap} /\ \A y \in {n, HistoryCap} : m <= y  BY <1>2 DEF Min
<1>. HIDE DEF m
<1>4. m = AtCap(n)  BY <1>1, <1>3 DEF AtCap
<1>. QED  BY <1>4 DEF m

LEMMA HistInitial == HistInit => HistInv
<1>. SUFFICES ASSUME HistInit PROVE HistInv  OBVIOUS
<1>. USE DEF HistInit
<1>1. HistTypeOK  BY DEF HistTypeOK, HistPcs
<1>2. HistLocked  BY MonAssumption DEF HistLocked, HistLocks
<1>3. HistCounted  BY MonAssumption DEF HistCounted, HistLocks, AtCap
<1>4. HistRead  BY DEF HistRead
<1>5. StatsNotTorn  BY DEF StatsNotTorn
<1>. QED  BY <1>1, <1>2, <1>3, <1>4, <1>5 DEF HistInv

\* observe, the first three locks.
LEMMA ObserveKeeps == ASSUME HistInv, NEW t \in MonTasks, Observe(t) PROVE HistInv'
<1>. USE DEF HistInv
<1>0. t # "none" /\ "buckets" \in HistLocks /\ "sum" \in HistLocks /\ "count" \in HistLocks /\ "observations" \in HistLocks
  BY MonAssumption DEF HistLocks
<1>1. CASE /\ hist.pc[t] = "idle" /\ hist.made < MaxObservations /\ CanWrite("buckets")
           /\ hist' = [hist EXCEPT !.pc[t] = "sum", !.made = @ + 1, !.writer["buckets"] = t, !.buckets = @ + 1]
  <2>1. HistTypeOK'
    <3>1. hist'.pc \in [MonTasks -> HistPcs]  BY <1>1 DEF HistTypeOK, HistPcs
    <3>2. hist'.writer \in [HistLocks -> MonTasks \cup {"none"}]  BY <1>1 DEF HistTypeOK
    <3>3. hist'.made \in Nat /\ hist'.buckets \in Nat /\ hist'.sum \in Nat /\ hist'.count \in Nat
      BY <1>1 DEF HistTypeOK
    <3>. QED  BY <1>1, <3>1, <3>2, <3>3 DEF HistTypeOK
  <2>2. HistLocked'
    <3>1. hist'.pc = [hist.pc EXCEPT ![t] = "sum"] /\ hist'.writer = [hist.writer EXCEPT !["buckets"] = t]
          /\ hist'.readers = hist.readers
      BY <1>1 DEF HistTypeOK
    <3>2. \A u \in MonTasks : hist.writer["buckets"] # u  BY <1>1, MonAssumption DEF CanWrite
    <3>3. hist'.writer["buckets"] = t /\ hist'.writer["sum"] = hist.writer["sum"]
          /\ hist'.writer["count"] = hist.writer["count"] /\ hist'.writer["observations"] = hist.writer["observations"]
      BY <1>0, <3>1 DEF HistTypeOK
    <3>. QED  BY <1>1, <3>1, <3>2, <3>3 DEF HistTypeOK, HistLocked
  <2>3. HistCounted'  BY <1>0, <1>1 DEF HistTypeOK, HistCounted
  <2>4. HistRead'  BY <1>0, <1>1 DEF HistTypeOK, HistRead
  <2>5. StatsNotTorn'  BY <1>1 DEF HistTypeOK, StatsNotTorn
  <2>. QED  BY <2>1, <2>2, <2>3, <2>4, <2>5
<1>2. CASE /\ hist.pc[t] = "sum" /\ CanWrite("sum")
           /\ hist' = [hist EXCEPT !.pc[t] = "count", !.writer["sum"] = t, !.sum = @ + 1]
  <2>0. hist.writer["count"] = "none"  BY <1>0, <1>2 DEF HistTypeOK, HistLocked
  <2>1. HistTypeOK'
    <3>1. hist'.pc \in [MonTasks -> HistPcs]  BY <1>2 DEF HistTypeOK, HistPcs
    <3>2. hist'.writer \in [HistLocks -> MonTasks \cup {"none"}]  BY <1>2 DEF HistTypeOK
    <3>3. hist'.made \in Nat /\ hist'.buckets \in Nat /\ hist'.sum \in Nat /\ hist'.count \in Nat
      BY <1>2 DEF HistTypeOK
    <3>. QED  BY <1>2, <3>1, <3>2, <3>3 DEF HistTypeOK
  <2>2. HistLocked'  BY <1>0, <1>2 DEF HistTypeOK, HistLocked, HistPcs, CanWrite
  <2>3. HistCounted'  BY <1>0, <1>2, <2>0 DEF HistTypeOK, HistCounted, CanWrite
  <2>4. HistRead'  BY <1>0, <1>2 DEF HistTypeOK, HistRead
  <2>5. StatsNotTorn'  BY <1>2 DEF HistTypeOK, StatsNotTorn
  <2>. QED  BY <2>1, <2>2, <2>3, <2>4, <2>5
<1>3. CASE /\ hist.pc[t] = "count" /\ CanWrite("count")
           /\ hist' = [hist EXCEPT !.pc[t] = "push", !.writer["count"] = t, !.count = @ + 1]
  <2>0. hist.writer["sum"] = t  BY <1>3 DEF HistLocked
  <2>1. HistTypeOK'
    <3>1. hist'.pc \in [MonTasks -> HistPcs]  BY <1>3 DEF HistTypeOK, HistPcs
    <3>2. hist'.writer \in [HistLocks -> MonTasks \cup {"none"}]  BY <1>3 DEF HistTypeOK
    <3>3. hist'.made \in Nat /\ hist'.buckets \in Nat /\ hist'.sum \in Nat /\ hist'.count \in Nat
      BY <1>3 DEF HistTypeOK
    <3>. QED  BY <1>3, <3>1, <3>2, <3>3 DEF HistTypeOK
  <2>2. HistLocked'  BY <1>0, <1>3 DEF HistTypeOK, HistLocked, HistPcs, CanWrite
  <2>3. HistCounted'  BY <1>0, <1>3, <2>0, MonAssumption DEF HistTypeOK, HistCounted, CanWrite, AtCap
  <2>4. HistRead'  BY <1>0, <1>3, <2>0 DEF HistTypeOK, HistRead
  <2>5. StatsNotTorn'  BY <1>3 DEF HistTypeOK, StatsNotTorn
  <2>. QED  BY <2>1, <2>2, <2>3, <2>4, <2>5
<1>. QED  BY <1>1, <1>2, <1>3 DEF Observe

\* observe, the end.
LEMMA ObserveEndKeeps == ASSUME HistInv, NEW t \in MonTasks, ObserveEnd(t) PROVE HistInv'
<1>. USE DEF HistInv
<1>0. t # "none" /\ "buckets" \in HistLocks /\ "sum" \in HistLocks /\ "count" \in HistLocks /\ "observations" \in HistLocks
  BY MonAssumption DEF HistLocks
<1>1. hist.pc[t] = "push" /\ hist.writer["buckets"] = t /\ hist.writer["sum"] = t /\ hist.writer["count"] = t
  BY DEF ObserveEnd, HistLocked
<1>2. hist.kept \in Nat /\ hist.kept + 1 \in Nat /\ Min({hist.kept + 1, HistoryCap}) = AtCap(hist.kept + 1)
  <2>1. hist.kept \in Nat /\ hist.kept + 1 \in Nat  BY DEF HistTypeOK
  <2>. QED  BY ONLY <2>1, CapIsMin
<1>3. /\ hist' = [hist EXCEPT !.pc[t] = "idle", !.kept = AtCap(hist.kept + 1),
                    !.writer = [l \in HistLocks |-> IF hist.writer[l] = t THEN "none" ELSE hist.writer[l]]]
      /\ hist.readers["observations"] = {}
  BY <1>2 DEF ObserveEnd, HistTypeOK, CanWrite
<1>4. AtCap(hist.kept + 1) \in Nat  BY <1>2, MonAssumption DEF AtCap
<1>5. HistTypeOK'  BY <1>3, <1>4 DEF HistTypeOK, HistPcs
<1>6. HistLocked'
  <2>1. hist'.pc = [hist.pc EXCEPT ![t] = "idle"] /\ hist'.readers = hist.readers
        /\ hist'.writer["buckets"] = "none" /\ hist'.writer["sum"] = "none" /\ hist'.writer["count"] = "none"
        /\ hist'.writer["observations"] = "none"
    BY <1>0, <1>1, <1>3 DEF HistTypeOK, HistLocked
  <2>2. \A u \in MonTasks : u # "none" /\ (u # t => hist.pc[u] \notin {"sum", "count", "push"})
    BY <1>1, MonAssumption DEF HistLocked
  <2>. QED  BY <2>1, <2>2 DEF HistTypeOK, HistLocked
<1>7. HistCounted'  BY <1>0, <1>1, <1>3, MonAssumption DEF HistTypeOK, HistCounted, AtCap
<1>8. HistRead'  BY <1>0, <1>1, <1>3 DEF HistTypeOK, HistRead, HistLocked
<1>9. StatsNotTorn'  BY <1>3 DEF HistTypeOK, StatsNotTorn
<1>. QED  BY <1>5, <1>6, <1>7, <1>8, <1>9

\* get_statistics, the first two locks.
LEMMA StatsReadKeeps ==
    ASSUME HistInv, NEW t \in MonTasks, StatsObservations(t) \/ StatsCount(t) PROVE HistInv'
<1>. USE DEF HistInv
<1>0. t # "none" /\ "buckets" \in HistLocks /\ "sum" \in HistLocks /\ "count" \in HistLocks /\ "observations" \in HistLocks
  BY MonAssumption DEF HistLocks
<1>1. CASE StatsObservations(t)
  <2>. USE <1>1 DEF StatsObservations
  <2>1. HistTypeOK'
    <3>1. hist'.pc \in [MonTasks -> HistPcs]  BY DEF HistTypeOK, HistPcs
    <3>2. hist'.readers \in [HistLocks -> SUBSET MonTasks]  BY DEF HistTypeOK
    <3>3. hist'.read \in [MonTasks -> Seq(Nat)]  BY DEF HistTypeOK
    <3>. QED  BY <3>1, <3>2, <3>3 DEF HistTypeOK
  <2>2. HistLocked'  BY <1>0 DEF HistTypeOK, HistLocked, HistPcs
  <2>3. HistCounted'  BY <1>0 DEF HistTypeOK, HistCounted
  <2>4. HistRead'  BY <1>0 DEF HistTypeOK, HistRead
  <2>5. StatsNotTorn'  BY DEF HistTypeOK, StatsNotTorn
  <2>. QED  BY <2>1, <2>2, <2>3, <2>4, <2>5
<1>2. CASE StatsCount(t)
  <2>. USE <1>2 DEF StatsCount
  <2>0. hist'.read[t][1] = hist.kept /\ hist'.read[t][2] = hist.count
    <3>1. hist.read[t] \in Seq(Nat) /\ Len(hist.read[t]) = 1 /\ hist.read[t][1] = hist.kept  BY DEF HistTypeOK, HistRead
    <3>2. hist'.read[t] = Append(hist.read[t], hist.count) /\ hist.count \in Nat  BY DEF HistTypeOK
    <3>. QED  BY ONLY <3>1, <3>2
  <2>1. HistTypeOK'
    <3>1. hist'.pc \in [MonTasks -> HistPcs]  BY DEF HistTypeOK, HistPcs
    <3>3. hist'.read \in [MonTasks -> Seq(Nat)]  BY DEF HistTypeOK
    <3>. QED  BY <3>1, <3>3 DEF HistTypeOK
  <2>2. HistLocked'  BY <1>0 DEF HistTypeOK, HistLocked, HistPcs, CanRead
  <2>3. HistCounted'  BY <1>0 DEF HistTypeOK, HistCounted
  <2>4. HistRead'  BY <1>0, <2>0 DEF HistTypeOK, HistRead
  <2>5. StatsNotTorn'  BY DEF HistTypeOK, StatsNotTorn
  <2>. QED  BY <2>1, <2>2, <2>3, <2>4, <2>5
<1>. QED  BY <1>1, <1>2

\* get_statistics, the answer.
LEMMA StatsSumKeeps == ASSUME HistInv, NEW t \in MonTasks, StatsSum(t) PROVE HistInv'
<1>. USE DEF HistInv, StatsSum
<1>0. t # "none" /\ "buckets" \in HistLocks /\ "sum" \in HistLocks /\ "count" \in HistLocks /\ "observations" \in HistLocks
  BY MonAssumption DEF HistLocks
<1>1. hist.read[t][1] = hist.kept /\ hist.read[t][2] = hist.count /\ hist.writer["count"] = "none" /\ hist.writer["sum"] = "none"
  <2>1. hist.writer["count"] = "none"  BY <1>0 DEF HistTypeOK, HistLocked, CanRead
  <2>. QED  BY <2>1 DEF HistRead, CanRead
<1>2. hist.sum = hist.count /\ hist.kept = AtCap(hist.count)  BY <1>1 DEF HistTypeOK, HistCounted
<1>3. hist'.answers = hist.answers \cup {[kept |-> hist.kept, count |-> hist.count, sum |-> hist.count]}
  BY <1>1, <1>2 DEF HistTypeOK
<1>4. HistTypeOK'
  <2>1. hist'.answers \in SUBSET [kept : Nat, count : Nat, sum : Nat]  BY <1>3 DEF HistTypeOK
  <2>2. hist'.pc \in [MonTasks -> HistPcs]  BY DEF HistTypeOK, HistPcs
  <2>3. hist'.readers \in [HistLocks -> SUBSET MonTasks]  BY DEF HistTypeOK
  <2>4. hist'.read \in [MonTasks -> Seq(Nat)]  BY DEF HistTypeOK
  <2>. QED  BY <2>1, <2>2, <2>3, <2>4 DEF HistTypeOK
<1>5. HistLocked'  BY <1>0 DEF HistTypeOK, HistLocked, HistPcs, HistLocks
<1>6. HistCounted'  BY <1>0 DEF HistTypeOK, HistCounted
<1>7. HistRead'  BY <1>0 DEF HistTypeOK, HistRead
<1>8. StatsNotTorn'
  <2>1. Min({hist.count, HistoryCap}) = hist.kept  BY <1>2, CapIsMin DEF HistTypeOK
  <2>. QED  BY <1>3, <2>1 DEF StatsNotTorn
<1>. QED  BY <1>4, <1>5, <1>6, <1>7, <1>8

\* get_statistics never answers with torn statistics: for any number of observing and
\* reading tasks and any cap, the sum and the count are those of the observations it
\* read, although the writers and readers hold three locks of their own and take
\* them in different orders (Histogram in monitoring/metrics.rs).
THEOREM StatisticsNotTorn == MonSpec => []StatsNotTorn
<1>1. MonInit => HistInv  BY HistInitial DEF MonInit
<1>2. HistInv /\ [MonNext]_monVars => HistInv'
  <2>. SUFFICES ASSUME HistInv, [MonNext]_monVars PROVE HistInv'  OBVIOUS
  <2>1. CASE HistNext  BY <2>1, ObserveKeeps, ObserveEndKeeps, StatsReadKeeps, StatsSumKeeps DEF HistNext
  <2>2. CASE UNCHANGED hist  BY <2>2 DEF HistInv, HistTypeOK, HistLocked, HistCounted, HistRead, StatsNotTorn
  <2>. QED  BY <2>1, <2>2 DEF MonNext, monVars
<1>3. HistInv => StatsNotTorn  BY DEF HistInv
<1>. QED  BY <1>1, <1>2, <1>3, PTL DEF MonSpec

-----------------------------------------------------------------------------
(* The model storage.                                                      *)

StoPcs == {"idle", "data", "index", "meta", "version", "list", "unflag", "flag", "latest"}
StoTask == [pc : StoPcs, v : StoKeys \cup {"none"}, others : SUBSET StoKeys]
Files == [parts : Nat, total : Nat, index : BOOLEAN, meta : BOOLEAN, version : {"none", "latest", "old"}]

ModelStoreTypes ==
    [files : [StoKeys -> Files], latest : StoKeys \cup {"none"}, deleted : BOOLEAN, task : [StoTasks -> StoTask], ops : Nat]

\* A store begins a version nobody has begun, so that two stores never write the same
\* version, and the version of every store has a size.
OwnVersion ==
    \A t \in StoTasks : mstore.task[t].pc # "idle" =>
        /\ mstore.task[t].v \in StoKeys /\ mstore.files[mstore.task[t].v].total > 0
        /\ \A u \in StoTasks : mstore.task[u].pc # "idle" /\ mstore.task[u].v = mstore.task[t].v => u = t

\* The files a store has put by the time it is at pc.
PutSoFar(f, pc) ==
    CASE pc = "data" -> ~f.index /\ f.parts < f.total
      [] pc = "index" -> ~f.index /\ f.parts = f.total /\ f.total > 1
      [] pc = "meta" -> f.parts = f.total /\ (f.index <=> f.total > 1)
      [] OTHER -> f.meta /\ f.parts = f.total /\ (f.index <=> f.total > 1)

\* Until something is deleted, every store has put what comes before its step, and a
\* version no store has begun has no file; latest.cbor names one that no store writes.
StoresAreOrdered ==
    ~mstore.deleted =>
        /\ \A t \in StoTasks : mstore.task[t].pc # "idle" =>
              PutSoFar(mstore.files[mstore.task[t].v], mstore.task[t].pc)
        /\ \A v \in StoKeys : mstore.files[v].total = 0 => ~mstore.files[v].index /\ mstore.files[v].parts = 0
        /\ mstore.latest # "none" =>
              /\ mstore.files[mstore.latest].total > 0
              /\ \A t \in StoTasks : mstore.task[t].pc # "idle" => mstore.task[t].v # mstore.latest

ModelStoreInv ==
    /\ mstore \in ModelStoreTypes
    /\ OwnVersion
    /\ StoresAreOrdered
    /\ LatestCanBeLoaded

\* The fields of the state.
LEMMA ModelStoreFields ==
    /\ mstore \in ModelStoreTypes =>
          /\ mstore.files \in [StoKeys -> Files] /\ mstore.latest \in StoKeys \cup {"none"}
          /\ mstore.deleted \in BOOLEAN /\ mstore.task \in [StoTasks -> StoTask] /\ mstore.ops \in Nat
  BY DEF ModelStoreTypes

\* What a step of task t on its version v does: v's files become f, the task t becomes q,
\* and latest.cbor names v or what it named.
StoStoreStep(t, v, f, q) ==
    /\ mstore'.files = [mstore.files EXCEPT ![v] = f]
    /\ mstore'.task = [mstore.task EXCEPT ![t] = q]
    /\ mstore'.deleted = mstore.deleted

\* A step of a store, on its own version, keeps the invariant when what it put is what
\* comes before its next step.
LEMMA StoreStepKeeps ==
    ASSUME ModelStoreInv, mstore' \in ModelStoreTypes,
           NEW t \in StoTasks, NEW v \in StoKeys, NEW f \in Files, NEW q \in StoTask,
           StoStoreStep(t, v, f, q), mstore'.latest = mstore.latest,
           (mstore.task[t].pc # "idle" /\ mstore.task[t].v = v) \/ mstore.files[v].total = 0,
           f.total > 0,
           q.pc # "idle" => q.v = v,
           ~mstore.deleted => (q.pc # "idle" => PutSoFar(f, q.pc))
    PROVE  ModelStoreInv'
<1>. USE DEF ModelStoreInv
<1>1. mstore.files \in [StoKeys -> Files] /\ mstore.task \in [StoTasks -> StoTask]  BY ModelStoreFields
<1>2. \A k \in StoKeys : mstore'.files[k] = IF k = v THEN f ELSE mstore.files[k]  BY <1>1 DEF StoStoreStep
<1>3. \A u \in StoTasks : mstore'.task[u] = IF u = t THEN q ELSE mstore.task[u]  BY <1>1 DEF StoStoreStep
<1>4. \A u \in StoTasks : u # t /\ mstore.task[u].pc # "idle" =>
          mstore.task[u].v \in StoKeys /\ mstore.task[u].v # v  BY DEF OwnVersion
<1>5. ~mstore.deleted /\ mstore.latest # "none" => mstore.latest # v
  BY DEF StoresAreOrdered, LatestCanBeLoaded, LoadsCompletely
<1>6. OwnVersion'  BY <1>1, <1>2, <1>3, <1>4 DEF OwnVersion
<1>7. StoresAreOrdered'
  <2>1. mstore'.deleted = mstore.deleted  BY DEF StoStoreStep
  <2>. SUFFICES ASSUME ~mstore.deleted
       PROVE  /\ \A u \in StoTasks : mstore'.task[u].pc # "idle" =>
                    PutSoFar(mstore'.files[mstore'.task[u].v], mstore'.task[u].pc)
              /\ \A k \in StoKeys : mstore'.files[k].total = 0 => ~mstore'.files[k].index /\ mstore'.files[k].parts = 0
              /\ mstore'.latest # "none" =>
                    /\ mstore'.files[mstore'.latest].total > 0
                    /\ \A u \in StoTasks : mstore'.task[u].pc # "idle" => mstore'.task[u].v # mstore'.latest
    BY <2>1 DEF StoresAreOrdered
  <2>2. ASSUME NEW u \in StoTasks, mstore'.task[u].pc # "idle"
        PROVE  PutSoFar(mstore'.files[mstore'.task[u].v], mstore'.task[u].pc)
    <3>1. CASE u = t  BY <1>2, <1>3, <2>2, <3>1
    <3>2. CASE u # t
      <4>1. mstore'.task[u] = mstore.task[u] /\ mstore'.files[mstore.task[u].v] = mstore.files[mstore.task[u].v]
        BY <1>2, <1>3, <1>4, <2>2, <3>2
      <4>. QED  BY <4>1, <2>2 DEF StoresAreOrdered
    <3>. QED  BY <3>1, <3>2
  <2>3. \A k \in StoKeys : mstore'.files[k].total = 0 => ~mstore'.files[k].index /\ mstore'.files[k].parts = 0
    BY <1>2 DEF StoresAreOrdered
  <2>4. mstore'.latest # "none" =>
           /\ mstore'.files[mstore'.latest].total > 0
           /\ \A u \in StoTasks : mstore'.task[u].pc # "idle" => mstore'.task[u].v # mstore'.latest
    <3>1. mstore.latest \in StoKeys \cup {"none"}  BY ModelStoreFields
    <3>. QED  BY <1>2, <1>3, <1>5, <3>1 DEF StoresAreOrdered
  <2>. QED  BY <2>2, <2>3, <2>4
<1>8. LatestCanBeLoaded'
  <2>1. mstore'.deleted = mstore.deleted  BY DEF StoStoreStep
  <2>2. mstore.latest \in StoKeys \cup {"none"}  BY ModelStoreFields
  <2>. QED  BY <1>2, <1>5, <2>1, <2>2 DEF LatestCanBeLoaded, LoadsCompletely
<1>. QED  BY <1>6, <1>7, <1>8

\* The steps that put a part, chunks.cbor, metadata.cbor and version.cbor of the version.
LEMMA PutsKeep ==
    ASSUME ModelStoreInv, NEW t \in StoTasks, NEW ok \in BOOLEAN,
           \/ StorePart(t, ok) \/ StoreIndex(t, ok) \/ StoreMeta(t, ok) \/ StoreVersion(t, ok) \/ Flag(t, ok)
    PROVE  ModelStoreInv'
<1>. DEFINE v == mstore.task[t].v
            g == mstore.files[v]
<1>1. /\ mstore \in ModelStoreTypes
      /\ mstore.files \in [StoKeys -> Files] /\ mstore.task \in [StoTasks -> StoTask]
  BY ModelStoreFields DEF ModelStoreInv
<1>2. mstore.task[t].pc # "idle" /\ v \in StoKeys /\ g \in Files /\ g.total > 0
  BY <1>1 DEF ModelStoreInv, OwnVersion, StorePart, StoreIndex, StoreMeta, StoreVersion, Flag, MsAt
<1>3. ~mstore.deleted => PutSoFar(g, mstore.task[t].pc)  BY <1>2 DEF ModelStoreInv, StoresAreOrdered
<1>4. CASE MsFailed(t)
  <2>1. StoIdle \in StoTask  BY DEF StoIdle, StoTask, StoPcs
  <2>2. mstore' = [mstore EXCEPT !.task[t] = StoIdle]  BY <1>4 DEF MsFailed, MsStep
  <2>3. mstore' \in ModelStoreTypes  BY <1>1, <2>1, <2>2 DEF ModelStoreTypes
  <2>4. StoStoreStep(t, v, g, StoIdle) /\ mstore'.latest = mstore.latest
    BY <1>1, <1>2, <2>2 DEF StoStoreStep, ModelStoreTypes
  <2>5. StoIdle.pc = "idle"  BY DEF StoIdle
  <2>. HIDE DEF v, g
  <2>. QED  BY <1>2, <2>1, <2>3, <2>4, <2>5, StoreStepKeeps DEF v
<1>5. ASSUME NEW f \in Files, NEW pc \in StoPcs, f.total = g.total, pc # "idle",
             mstore' = [mstore EXCEPT !.files[v] = f, !.task[t].pc = pc],
             ~mstore.deleted => PutSoFar(f, pc)
      PROVE  ModelStoreInv'
  <2>. DEFINE q == [mstore.task[t] EXCEPT !.pc = pc]
  <2>1. q \in StoTask /\ q.v = v /\ q.pc = pc  BY <1>1 DEF StoTask
  <2>2. mstore'.task = [mstore.task EXCEPT ![t] = q] /\ mstore'.files = [mstore.files EXCEPT ![v] = f]
        /\ mstore'.latest = mstore.latest /\ mstore'.deleted = mstore.deleted /\ mstore'.ops = mstore.ops
    BY <1>1, <1>5 DEF ModelStoreTypes
  <2>. HIDE DEF q
  <2>3. mstore'.task \in [StoTasks -> StoTask] /\ mstore'.files \in [StoKeys -> Files]  BY <1>1, <2>1, <2>2
  <2>4. mstore' \in ModelStoreTypes  BY <1>1, <1>5, <2>2, <2>3 DEF ModelStoreTypes
  <2>5. StoStoreStep(t, v, f, q)  BY <2>2 DEF StoStoreStep
  <2>. HIDE DEF v, g
  <2>. QED  BY <1>2, <1>5, <2>1, <2>2, <2>4, <2>5, StoreStepKeeps DEF v
<1>6. CASE StorePart(t, ok) /\ ok
  <2>. DEFINE n == g.parts + 1
              f == [g EXCEPT !.parts = n]
              pc == IF n < g.total THEN "data" ELSE IF n = 1 THEN "meta" ELSE "index"
  <2>1. mstore' = [mstore EXCEPT !.files[v].parts = n, !.task[t].pc = pc]  BY <1>6 DEF StorePart, MsStep, MsFile
  <2>2. mstore' = [mstore EXCEPT !.files[v] = f, !.task[t].pc = pc]  BY <1>1, <1>2, <2>1 DEF ModelStoreTypes
  <2>3. mstore.task[t].pc = "data"  BY <1>6 DEF StorePart, MsAt
  <2>4. f \in Files /\ f.total = g.total /\ f.index = g.index /\ f.parts = g.parts + 1  BY <1>2 DEF Files
  <2>5. pc \in StoPcs /\ pc # "idle"  BY DEF StoPcs
  <2>6. ~mstore.deleted => PutSoFar(f, pc)
    <3>. SUFFICES ASSUME ~mstore.deleted PROVE PutSoFar(f, pc)  OBVIOUS
    <3>1. ~g.index /\ g.parts < g.total  BY <1>3, <2>3 DEF PutSoFar
    <3>2. g.parts \in Nat /\ g.total \in Nat  BY <1>2 DEF Files
    <3>3. CASE n < g.total  BY <2>4, <3>1, <3>3 DEF PutSoFar
    <3>4. CASE ~(n < g.total) /\ n = 1  BY <2>4, <3>1, <3>2, <3>4 DEF PutSoFar
    <3>5. CASE ~(n < g.total) /\ n # 1  BY SMTT(40), <2>4, <3>1, <3>2, <3>5 DEF PutSoFar
    <3>. QED  BY <3>3, <3>4, <3>5
  <2>. HIDE DEF v, g, f, pc
  <2>. QED  BY <1>5, <2>2, <2>4, <2>5, <2>6
<1>7. CASE StoreIndex(t, ok) /\ ok
  <2>. DEFINE f == [g EXCEPT !.index = TRUE]
  <2>1. mstore' = [mstore EXCEPT !.files[v] = f, !.task[t].pc = "meta"]
    BY <1>1, <1>2, <1>7 DEF StoreIndex, MsStep, ModelStoreTypes
  <2>2. mstore.task[t].pc = "index"  BY <1>7 DEF StoreIndex, MsAt
  <2>3. f \in Files /\ f.total = g.total /\ f.index /\ f.parts = g.parts  BY <1>2 DEF Files
  <2>4. ~mstore.deleted => PutSoFar(f, "meta")  BY <1>3, <2>2, <2>3 DEF PutSoFar
  <2>5. "meta" \in StoPcs  BY DEF StoPcs
  <2>. HIDE DEF v, g, f
  <2>. QED  BY <1>5, <2>1, <2>3, <2>4, <2>5
<1>8. CASE StoreMeta(t, ok) /\ ok
  <2>. DEFINE f == [g EXCEPT !.meta = TRUE]
  <2>1. mstore' = [mstore EXCEPT !.files[v] = f, !.task[t].pc = "version"]
    BY <1>1, <1>2, <1>8 DEF StoreMeta, MsStep, ModelStoreTypes
  <2>2. mstore.task[t].pc = "meta"  BY <1>8 DEF StoreMeta, MsAt
  <2>3. f \in Files /\ f.total = g.total /\ f.meta /\ f.index = g.index /\ f.parts = g.parts  BY <1>2 DEF Files
  <2>4. ~mstore.deleted => PutSoFar(f, "version")  BY <1>3, <2>2, <2>3 DEF PutSoFar
  <2>5. "version" \in StoPcs  BY DEF StoPcs
  <2>. HIDE DEF v, g, f
  <2>. QED  BY <1>5, <2>1, <2>3, <2>4, <2>5
<1>9. CASE (StoreVersion(t, ok) \/ Flag(t, ok)) /\ ok
  <2>. DEFINE f == [g EXCEPT !.version = "latest"]
  <2>1. PICK pc \in {"list", "latest"} : mstore' = [mstore EXCEPT !.files[v] = f, !.task[t].pc = pc]
    BY <1>1, <1>2, <1>9 DEF StoreVersion, Flag, MsStep, ModelStoreTypes
  <2>2. mstore.task[t].pc \in {"version", "flag"}  BY <1>9 DEF StoreVersion, Flag, MsAt
  <2>3. f \in Files /\ f.total = g.total /\ f.meta = g.meta /\ f.index = g.index /\ f.parts = g.parts  BY <1>2 DEF Files
  <2>4. ~mstore.deleted => PutSoFar(f, pc)  BY <1>3, <2>2, <2>3 DEF PutSoFar
  <2>5. pc \in StoPcs /\ pc # "idle"  BY DEF StoPcs
  <2>. HIDE DEF v, g, f
  <2>. QED  BY <1>5, <2>1, <2>3, <2>4, <2>5
<1>. QED  BY <1>4, <1>6, <1>7, <1>8, <1>9 DEF StorePart, StoreIndex, StoreMeta, StoreVersion, Flag

\* store_model begins a version.
LEMMA StoreModelKeeps ==
    ASSUME ModelStoreInv, NEW t \in StoTasks, NEW v \in StoKeys, NEW n \in {1, StoChunks}, StoreModel(t, v, n)
    PROVE  ModelStoreInv'
<1>. DEFINE f == [mstore.files[v] EXCEPT !.total = n]
            q == [pc |-> "data", v |-> v, others |-> {}]
<1>1. /\ mstore \in ModelStoreTypes
      /\ mstore.files \in [StoKeys -> Files] /\ mstore.task \in [StoTasks -> StoTask]
  BY ModelStoreFields DEF ModelStoreInv
<1>2. mstore.files[v].total = 0  BY DEF StoreModel
<1>3. n \in Nat /\ n > 0  BY StoAssumption
<1>4. f \in Files /\ f.total = n /\ f.index = mstore.files[v].index /\ f.parts = mstore.files[v].parts
  BY <1>1, <1>3 DEF Files
<1>5. q \in StoTask /\ q.v = v /\ q.pc = "data"  BY DEF StoTask, StoPcs
<1>6. mstore' = [mstore EXCEPT !.task[t] = q, !.files[v].total = n, !.ops = @ + 1]  BY DEF StoreModel, MsStep
<1>7. /\ mstore'.files = [mstore.files EXCEPT ![v] = f] /\ mstore'.task = [mstore.task EXCEPT ![t] = q]
      /\ mstore'.latest = mstore.latest /\ mstore'.deleted = mstore.deleted /\ mstore'.ops = mstore.ops + 1
  BY <1>1, <1>6 DEF ModelStoreTypes
<1>8. ~mstore.deleted => PutSoFar(f, q.pc)  BY <1>2, <1>3, <1>4, <1>5 DEF PutSoFar, ModelStoreInv, StoresAreOrdered
<1>. HIDE DEF f, q
<1>9. mstore' \in ModelStoreTypes
  <2>1. mstore'.files \in [StoKeys -> Files] /\ mstore'.task \in [StoTasks -> StoTask]  BY <1>1, <1>4, <1>5, <1>7
  <2>2. mstore'.ops \in Nat /\ mstore'.latest \in StoKeys \cup {"none"} /\ mstore'.deleted \in BOOLEAN
    BY <1>1, <1>7 DEF ModelStoreTypes
  <2>. QED  BY <1>1, <1>6, <2>1, <2>2 DEF ModelStoreTypes
<1>10. StoStoreStep(t, v, f, q)  BY <1>7 DEF StoStoreStep
<1>. QED  BY <1>2, <1>3, <1>4, <1>5, <1>7, <1>8, <1>9, <1>10, StoreStepKeeps

\* What a store has put is seen in four fields of the version.
LEMMA PutSoFarSame ==
    ASSUME NEW f, NEW g, NEW pc, PutSoFar(f, pc),
           g.parts = f.parts, g.total = f.total, g.index = f.index, g.meta = f.meta
    PROVE  PutSoFar(g, pc)  BY DEF PutSoFar

\* update_latest_version: the list of versions, and the versions that are no longer the
\* latest; the files that make a version loadable stay as they are.
LEMMA UnflagKeeps ==
    ASSUME ModelStoreInv, NEW t \in StoTasks, NEW ok \in BOOLEAN, ListVersions(t) \/ Unflag(t, ok)
    PROVE  ModelStoreInv'
<1>1. /\ mstore \in ModelStoreTypes
      /\ mstore.files \in [StoKeys -> Files] /\ mstore.task \in [StoTasks -> StoTask]
      /\ mstore.latest \in StoKeys \cup {"none"}
  BY ModelStoreFields DEF ModelStoreInv
<1>2. mstore.task[t].pc \in {"list", "unflag"}  BY DEF ListVersions, Unflag, MsAt
<1>3. ASSUME NEW q \in StoTask, NEW files \in [StoKeys -> Files],
             mstore' = [mstore EXCEPT !.files = files, !.task[t] = q],
             q.pc \in {"idle", "unflag", "flag"}, q.pc # "idle" => q.v = mstore.task[t].v,
             \A k \in StoKeys : /\ files[k].parts = mstore.files[k].parts /\ files[k].total = mstore.files[k].total
                                /\ files[k].index = mstore.files[k].index /\ files[k].meta = mstore.files[k].meta
      PROVE  ModelStoreInv'
  <2>1. /\ mstore'.files = files /\ mstore'.task = [mstore.task EXCEPT ![t] = q]
        /\ mstore'.latest = mstore.latest /\ mstore'.deleted = mstore.deleted /\ mstore'.ops = mstore.ops
    BY <1>1, <1>3 DEF ModelStoreTypes
  <2>2. mstore' \in ModelStoreTypes
    <3>1. mstore'.task \in [StoTasks -> StoTask]  BY <1>1, <2>1
    <3>. QED  BY <1>1, <1>3, <2>1, <3>1 DEF ModelStoreTypes
  <2>3. \A u \in StoTasks : mstore'.task[u] = IF u = t THEN q ELSE mstore.task[u]  BY <1>1, <2>1
  <2>4. \A u \in StoTasks : mstore'.task[u].pc # "idle" =>
            /\ mstore.task[u].pc # "idle" /\ mstore'.task[u].v = mstore.task[u].v /\ mstore.task[u].v \in StoKeys
            /\ u # t => mstore'.task[u].pc = mstore.task[u].pc
    BY <1>2, <1>3, <2>3 DEF ModelStoreInv, OwnVersion
  <2>5. OwnVersion'  BY <1>3, <2>1, <2>4 DEF ModelStoreInv, OwnVersion
  <2>6. StoresAreOrdered'
    <3>. SUFFICES ASSUME ~mstore.deleted
         PROVE  /\ \A u \in StoTasks : mstore'.task[u].pc # "idle" =>
                      PutSoFar(files[mstore'.task[u].v], mstore'.task[u].pc)
                /\ \A k \in StoKeys : files[k].total = 0 => ~files[k].index /\ files[k].parts = 0
                /\ mstore.latest # "none" =>
                      /\ files[mstore.latest].total > 0
                      /\ \A u \in StoTasks : mstore'.task[u].pc # "idle" => mstore'.task[u].v # mstore.latest
      BY <2>1 DEF StoresAreOrdered
    <3>1. ASSUME NEW u \in StoTasks, mstore'.task[u].pc # "idle"
          PROVE  PutSoFar(files[mstore'.task[u].v], mstore'.task[u].pc)
      <4>1. PutSoFar(mstore.files[mstore.task[u].v], mstore.task[u].pc)
        BY <2>4, <3>1 DEF ModelStoreInv, StoresAreOrdered
      <4>. DEFINE v == mstore.task[u].v
      <4>a. mstore'.task[u].v = v /\ v \in StoKeys  BY <2>4, <3>1
      <4>b. /\ files[v].parts = mstore.files[v].parts /\ files[v].total = mstore.files[v].total
            /\ files[v].index = mstore.files[v].index /\ files[v].meta = mstore.files[v].meta
        BY <1>3, <4>a
      <4>c. PutSoFar(files[v], mstore.task[u].pc)  BY ONLY <4>1, <4>b, PutSoFarSame
      <4>2. CASE u = t
        <5>1. mstore'.task[u].pc \in {"unflag", "flag"} /\ mstore.task[u].pc \in {"list", "unflag"}
          BY <1>2, <1>3, <2>3, <3>1, <4>2
        <5>2. PutSoFar(files[v], mstore'.task[u].pc)  BY ONLY <4>c, <5>1 DEF PutSoFar
        <5>. QED  BY <4>a, <5>2
      <4>3. CASE u # t
        <5>1. mstore'.task[u].pc = mstore.task[u].pc  BY <2>4, <3>1, <4>3
        <5>. QED  BY <4>a, <4>c, <5>1
      <4>. QED  BY <4>2, <4>3
    <3>2. \A k \in StoKeys : files[k].total = 0 => ~files[k].index /\ files[k].parts = 0
      BY <1>3 DEF ModelStoreInv, StoresAreOrdered
    <3>3. mstore.latest # "none" =>
             /\ files[mstore.latest].total > 0
             /\ \A u \in StoTasks : mstore'.task[u].pc # "idle" => mstore'.task[u].v # mstore.latest
      BY <1>1, <1>3, <2>4 DEF ModelStoreInv, StoresAreOrdered
    <3>. QED  BY <3>1, <3>2, <3>3
  <2>7. LatestCanBeLoaded'  BY <1>1, <1>3, <2>1 DEF ModelStoreInv, LatestCanBeLoaded, LoadsCompletely
  <2>. QED  BY <2>2, <2>5, <2>6, <2>7 DEF ModelStoreInv
<1>4. StoIdle \in StoTask /\ StoIdle.pc = "idle"  BY DEF StoIdle, StoTask, StoPcs
<1>5. CASE mstore' = [mstore EXCEPT !.task[t] = StoIdle]
  <2>1. mstore' = [mstore EXCEPT !.files = mstore.files, !.task[t] = StoIdle]  BY <1>1, <1>5 DEF ModelStoreTypes
  <2>. QED  BY <1>1, <1>3, <1>4, <2>1
<1>6. CASE ListVersions(t)
  <2>1. PICK S \in SUBSET StoKeys :
           \/ mstore' = [mstore EXCEPT !.task[t] = StoIdle]
           \/ mstore' = [mstore EXCEPT !.task[t].pc = "unflag", !.task[t].others = S]
    BY <1>6 DEF ListVersions, MsStep
  <2>. DEFINE q == [mstore.task[t] EXCEPT !.pc = "unflag", !.others = S]
  <2>2. q \in StoTask /\ q.pc = "unflag" /\ q.v = mstore.task[t].v  BY <1>1 DEF StoTask, StoPcs
  <2>3. CASE mstore' = [mstore EXCEPT !.task[t].pc = "unflag", !.task[t].others = S]
    <3>1. mstore' = [mstore EXCEPT !.files = mstore.files, !.task[t] = q]  BY <1>1, <2>3 DEF ModelStoreTypes, StoTask
    <3>. HIDE DEF q
    <3>. QED  BY <1>1, <1>3, <2>2, <3>1
  <2>. QED  BY <1>5, <2>1, <2>3
<1>7. CASE Unflag(t, ok)
  <2>1. CASE mstore' = [mstore EXCEPT !.task[t].pc = "flag"]
    <3>. DEFINE q == [mstore.task[t] EXCEPT !.pc = "flag"]
    <3>1. q \in StoTask /\ q.pc = "flag" /\ q.v = mstore.task[t].v  BY <1>1 DEF StoTask, StoPcs
    <3>2. mstore' = [mstore EXCEPT !.files = mstore.files, !.task[t] = q]  BY <1>1, <2>1 DEF ModelStoreTypes, StoTask
    <3>. HIDE DEF q
    <3>. QED  BY <1>1, <1>3, <3>1, <3>2
  <2>2. ASSUME NEW k \in mstore.task[t].others, mstore.task[t].pc = "unflag",
               mstore' = [mstore EXCEPT !.files[k].version = "old", !.task[t].others = @ \ {k}]
        PROVE  ModelStoreInv'
    <3>. DEFINE q == [mstore.task[t] EXCEPT !.others = mstore.task[t].others \ {k}]
                files == [mstore.files EXCEPT ![k] = [mstore.files[k] EXCEPT !.version = "old"]]
    <3>1. k \in StoKeys  BY <1>1 DEF StoTask
    <3>2. q \in StoTask /\ q.pc = "unflag" /\ q.v = mstore.task[t].v  BY <1>1, <2>2 DEF StoTask, StoPcs
    <3>3. files \in [StoKeys -> Files]  BY <1>1, <3>1 DEF Files
    <3>4. \A l \in StoKeys : /\ files[l].parts = mstore.files[l].parts /\ files[l].total = mstore.files[l].total
                             /\ files[l].index = mstore.files[l].index /\ files[l].meta = mstore.files[l].meta
      BY <1>1, <3>1 DEF Files
    <3>5. mstore' = [mstore EXCEPT !.files = files, !.task[t] = q]  BY <1>1, <2>2, <3>1 DEF ModelStoreTypes, StoTask
    <3>. HIDE DEF q, files
    <3>. QED  BY <1>3, <3>2, <3>3, <3>4, <3>5
  <2>. QED  BY <1>5, <1>7, <2>1, <2>2 DEF Unflag, MsStep, MsFailed, MsAt
<1>. QED  BY <1>6, <1>7

\* latest.cbor, written by a store that has put everything.
LEMMA StoreLatestKeeps ==
    ASSUME ModelStoreInv, NEW t \in StoTasks, NEW ok \in BOOLEAN, StoreLatest(t, ok)
    PROVE  ModelStoreInv'
<1>. DEFINE v == mstore.task[t].v
            g == mstore.files[v]
<1>1. /\ mstore \in ModelStoreTypes
      /\ mstore.files \in [StoKeys -> Files] /\ mstore.task \in [StoTasks -> StoTask]
  BY ModelStoreFields DEF ModelStoreInv
<1>2. mstore.task[t].pc = "latest" /\ v \in StoKeys /\ g \in Files /\ g.total > 0
  BY <1>1 DEF ModelStoreInv, OwnVersion, StoreLatest, MsAt
<1>3. ~mstore.deleted => g.meta /\ g.parts = g.total /\ (g.index <=> g.total > 1)
  <2>1. ~mstore.deleted => PutSoFar(g, "latest")  BY <1>2 DEF ModelStoreInv, StoresAreOrdered
  <2>. QED  BY <2>1 DEF PutSoFar
<1>4. StoIdle \in StoTask /\ StoIdle.pc = "idle"  BY DEF StoIdle, StoTask, StoPcs
<1>5. PICK last \in {v, mstore.latest} : mstore' = [mstore EXCEPT !.latest = last, !.task[t] = StoIdle]
  <2>1. CASE ok  BY <2>1 DEF StoreLatest, MsStep
  <2>2. CASE ~ok
    <3>1. mstore' = [mstore EXCEPT !.task[t] = StoIdle]  BY <2>2 DEF StoreLatest, MsStep, MsFailed
    <3>2. mstore' = [mstore EXCEPT !.latest = mstore.latest, !.task[t] = StoIdle]  BY <1>1, <3>1 DEF ModelStoreTypes
    <3>. QED  BY <3>2
  <2>. QED  BY <2>1, <2>2
<1>6. /\ mstore'.files = mstore.files /\ mstore'.task = [mstore.task EXCEPT ![t] = StoIdle]
      /\ mstore'.latest = last /\ mstore'.deleted = mstore.deleted /\ mstore'.ops = mstore.ops
  BY <1>1, <1>5 DEF ModelStoreTypes
<1>7. last \in StoKeys \cup {"none"}  BY <1>2, ModelStoreFields DEF ModelStoreInv
<1>8. mstore' \in ModelStoreTypes
  <2>1. mstore'.task \in [StoTasks -> StoTask]  BY <1>1, <1>4, <1>6
  <2>. QED  BY <1>1, <1>5, <1>6, <1>7, <2>1 DEF ModelStoreTypes
<1>9. \A u \in StoTasks : mstore'.task[u].pc # "idle" => u # t /\ mstore'.task[u] = mstore.task[u]  BY <1>1, <1>4, <1>6
<1>10. OwnVersion'  BY <1>6, <1>9 DEF ModelStoreInv, OwnVersion
<1>11. StoresAreOrdered'
  <2>1. \A u \in StoTasks : mstore'.task[u].pc # "idle" => mstore.task[u].v # v
    BY <1>2, <1>9 DEF ModelStoreInv, OwnVersion
  <2>. QED  BY <1>2, <1>6, <1>9, <2>1 DEF ModelStoreInv, StoresAreOrdered
<1>12. LatestCanBeLoaded'  BY <1>3, <1>5, <1>6 DEF ModelStoreInv, LatestCanBeLoaded, LoadsCompletely
<1>. QED  BY <1>8, <1>10, <1>11, <1>12 DEF ModelStoreInv

\* delete_model.
LEMMA DeleteStoredKeeps == ASSUME ModelStoreInv, DeleteStored PROVE ModelStoreInv'
<1>1. /\ mstore \in ModelStoreTypes /\ mstore.files \in [StoKeys -> Files]
      /\ mstore.task \in [StoTasks -> StoTask]
  BY ModelStoreFields DEF ModelStoreInv
<1>. DEFINE files == [k \in StoKeys |-> IF mstore.files[k].version = "none" THEN mstore.files[k]
                                        ELSE WithoutFiles(mstore.files[k])]
<1>2. \A k \in StoKeys : WithoutFiles(mstore.files[k]) \in Files /\ WithoutFiles(mstore.files[k]).total = mstore.files[k].total
  BY <1>1 DEF WithoutFiles, Files
<1>3. files \in [StoKeys -> Files] /\ \A k \in StoKeys : files[k].total = mstore.files[k].total  BY <1>1, <1>2
<1>4. mstore' = [mstore EXCEPT !.deleted = TRUE, !.ops = @ + 1, !.files = files]
  BY <1>1 DEF DeleteStored, MsStep, ModelStoreTypes
<1>. HIDE DEF files
<1>5. /\ mstore'.files = files /\ mstore'.task = mstore.task /\ mstore'.deleted
      /\ mstore'.latest = mstore.latest /\ mstore'.ops = mstore.ops + 1
  BY <1>1, <1>4 DEF ModelStoreTypes
<1>6. mstore' \in ModelStoreTypes
  <2>1. mstore'.ops \in Nat /\ mstore'.files \in [StoKeys -> Files]  BY <1>1, <1>3, <1>5 DEF ModelStoreTypes
  <2>. QED  BY <1>1, <1>4, <2>1 DEF ModelStoreTypes
<1>7. OwnVersion'  BY <1>3, <1>5 DEF ModelStoreInv, OwnVersion
<1>. QED  BY <1>5, <1>6, <1>7 DEF ModelStoreInv, StoresAreOrdered, LatestCanBeLoaded

\* Whatever put of whatever store fails, and however any number of stores of versions of
\* a model interleave, the version latest.cbor names can be loaded, until delete_model
\* (store_model and update_latest_version in storage/model_storage.rs).
THEOREM LatestIsLoadable == StoSpec => []LatestCanBeLoaded
<1>1. StoInit => ModelStoreInv
  <2>. SUFFICES ASSUME StoInit PROVE ModelStoreInv  OBVIOUS
  <2>0. mstore = [files |-> [k \in StoKeys |-> NoVersion], latest |-> "none", deleted |-> FALSE,
                  task |-> [t \in StoTasks |-> StoIdle], ops |-> 0]  BY DEF StoInit
  <2>1. NoVersion \in Files /\ ~NoVersion.index /\ NoVersion.parts = 0  BY DEF NoVersion, Files
  <2>2. StoIdle \in StoTask /\ StoIdle.pc = "idle"  BY DEF StoIdle, StoTask, StoPcs
  <2>3. mstore \in ModelStoreTypes  BY <2>0, <2>1, <2>2 DEF ModelStoreTypes
  <2>4. OwnVersion  BY <2>0, <2>2 DEF OwnVersion
  <2>5. StoresAreOrdered  BY <2>0, <2>1, <2>2 DEF StoresAreOrdered
  <2>6. LatestCanBeLoaded  BY <2>0 DEF LatestCanBeLoaded
  <2>. QED  BY <2>3, <2>4, <2>5, <2>6 DEF ModelStoreInv
<1>2. ModelStoreInv /\ [StoNext]_stoVars => ModelStoreInv'
  <2>. SUFFICES ASSUME ModelStoreInv, [StoNext]_stoVars PROVE ModelStoreInv'  OBVIOUS
  <2>1. CASE UNCHANGED mstore
    BY <2>1 DEF ModelStoreInv, OwnVersion, StoresAreOrdered, LatestCanBeLoaded, LoadsCompletely
  <2>2. CASE \E t \in StoTasks :
                \/ ListVersions(t)
                \/ \E v \in StoKeys, n \in {1, StoChunks} : StoreModel(t, v, n)
                \/ \E ok \in BOOLEAN :
                      \/ StorePart(t, ok) \/ StoreIndex(t, ok) \/ StoreMeta(t, ok) \/ StoreVersion(t, ok)
                      \/ Unflag(t, ok) \/ Flag(t, ok) \/ StoreLatest(t, ok)
    BY <2>2, PutsKeep, StoreModelKeeps, UnflagKeeps, StoreLatestKeeps
  <2>3. CASE DeleteStored  BY <2>3, DeleteStoredKeeps
  <2>4. CASE \/ InjectError \/ S5Fails
             \/ \E k \in StoKeys : S5Delete(k)
             \/ \E t \in StoTasks : S5Insert(t) \/ \E k \in StoKeys, size \in StoSizes : S5Put(t, k, size)
    <3>1. UNCHANGED mstore  BY <2>4 DEF InjectError, S5Fails, S5Delete, S5Insert, S5Put, S5Op, S5Step
    <3>. QED  BY <2>1, <3>1
  <2>5. CASE ResultCacheNext
    <3>1. UNCHANGED mstore  BY <2>5 DEF ResultCacheNext, RcClear, RcDelete, RcValid, RcFetch, RcPut, RcGet, RcStep
    <3>. QED  BY <2>1, <3>1
  <2>6. CASE \/ PcTick \/ PcClear
             \/ \E t \in StoTasks :
                   \/ PcMemory(t) \/ PcPut(t) \/ PcRemote(t) \/ PcFromS5(t) \/ PcMiss(t)
                   \/ \E ok \in BOOLEAN : PcUpload(t, ok)
                   \/ \E k \in StoKeys : PcSimilar(t, k) \/ PcBegin(t, "get", k, 0)
                   \/ \E k \in StoKeys, size \in StoSizes : PcBegin(t, "put", k, size)
    <3>1. UNCHANGED mstore
      BY ZenonT(40), <2>6 DEF PcTick, PcClear, PcMemory, PcPut, PcRemote, PcFromS5, PcMiss, PcUpload, PcSimilar, PcBegin, PcStep
    <3>. QED  BY <2>1, <3>1
  <2>7. CASE \/ \E k \in StoKeys : RetrieveByJob(k) \/ RemoveByJob(k) \/ \E n \in StoSizes : StoreByJob(k, n)
             \/ ClearByJob
    <3>1. UNCHANGED mstore  BY <2>7 DEF RetrieveByJob, RemoveByJob, StoreByJob, ClearByJob, JobStep
    <3>. QED  BY <2>1, <3>1
  <2>8. CASE \/ \E t \in StoTasks :
                   \/ BridgeStores(t) \/ PutFails(t) \/ PutAnswered(t) \/ PutCopies(t)
                   \/ \E k \in StoKeys : PutFile(t, k)
             \/ \E k \in StoKeys : DeleteFile(k)
    <3>1. UNCHANGED mstore
      BY <2>8 DEF BridgeStores, PutFails, PutAnswered, PutCopies, PutFile, DeleteFile, BrOp, BrStep
    <3>. QED  BY <2>1, <3>1
  <2>9. CASE UNCHANGED stoVars  BY <2>1, <2>9 DEF stoVars
  <2>. QED  BY <2>2, <2>3, <2>4, <2>5, <2>6, <2>7, <2>8, <2>9 DEF StoNext
<1>3. ModelStoreInv => LatestCanBeLoaded  BY DEF ModelStoreInv
<1>. QED  BY <1>1, <1>2, <1>3, PTL DEF StoSpec

-----------------------------------------------------------------------------
(* The meters of the node server.                                          *)

RequestPcs == {"idle", "search", "prompt", "infer", "track", "images", "accept", "seek", "hash", "start",
               "stream", "count"}

ServerRequests ==
    [pc : RequestPcs, job : AnyJob, web : BOOLEAN, tokens : Nat, queries : Nat, made : Nat,
     cm : BOOLEAN]

ServerMeters ==
    [served : [AnyJob -> Nat], billed : [ReqJobs -> Nat], tracked : [ReqJobs -> Nat],
     vision : [AnyJob -> Nat], prompts : SUBSET ReqJobs, failures : Nat, asked : Nat, images : Nat,
     rag : SUBSET {"default-rag-session"}, exited : BOOLEAN]

\* A request holds tokens only between serving and counting
\* them, one of a stream.
RequestOK(r) ==
    /\ r \in ServerRequests
    /\ r.pc \notin {"track", "count"} => r.tokens = 0
    /\ r.pc = "count" => r.tokens = 1

\* What a request has served of job j and not counted.
DueOf(r, j) == IF r.job = j THEN r.tokens ELSE 0

MeterInv ==
    /\ serverReqs \in [ReqTasks -> ServerRequests]
    /\ \A t \in ReqTasks : RequestOK(serverReqs[t])
    /\ meters \in ServerMeters
    /\ ServedIsMetered

\* What a job was served and counted, in one number.
Balance(m, j) == m.served[j] + m.vision[j] - m.billed[j] - m.tracked[j]

\* The property with the sum of FiniteSums.
MeteredSums ==
    \A j \in ReqJobs :
        meters.billed[j] + meters.tracked[j] + Sum(Uncounted(j), ReqTasks) = meters.served[j] + meters.vision[j]

LEMMA MeteredAsSum == ServedIsMetered <=> MeteredSums  BY Zenon DEF ServedIsMetered, MeteredSums, Sum

LEMMA MeteredAsSumNext == ServedIsMetered' <=> MeteredSums'  BY MeteredAsSum, PTL

LEMMA NoReqOK == RequestOK(NoReq) /\ NoReq.tokens = 0 /\ NoReq.job = "none" /\ NoReq.pc = "idle"
  BY DEF RequestOK, NoReq, ServerRequests, AnyJob, RequestPcs

LEMMA MeterInitial == ServerInit => MeterInv
<1> SUFFICES ASSUME ServerInit PROVE MeterInv  OBVIOUS
<1> USE DEF ServerInit
<1>1. \A t \in ReqTasks : RequestOK(serverReqs[t]) /\ serverReqs[t].tokens = 0  BY NoReqOK
<1>2. serverReqs \in [ReqTasks -> ServerRequests]  BY NoReqOK DEF RequestOK
<1>3. meters \in ServerMeters  BY DEF ServerMeters, AnyJob
<1>4. ServedIsMetered
  <2> SUFFICES ASSUME NEW j \in ReqJobs
               PROVE  meters.billed[j] + meters.tracked[j] + Sum(Uncounted(j), ReqTasks) = meters.served[j] + meters.vision[j]
    BY MeteredAsSum DEF MeteredSums
  <2>1. \A t \in ReqTasks : Uncounted(j)[t] = 0  BY <1>1 DEF Uncounted
  <2>2. Sum(Uncounted(j), ReqTasks) = 0  BY <2>1, SumZero, ServerAssumption
  <2>3. meters.billed[j] = 0 /\ meters.tracked[j] = 0 /\ meters.served[j] = 0 /\ meters.vision[j] = 0  BY DEF AnyJob
  <2> QED BY ONLY <2>2, <2>3
<1> QED BY <1>1, <1>2, <1>3, <1>4 DEF MeterInv

\* A step of one request keeps the invariant when what it owes changes as the meters do.
LEMMA RequestMoves ==
    ASSUME MeterInv, NEW t \in ReqTasks, NEW r, RequestOK(r),
           serverReqs' = [serverReqs EXCEPT ![t] = r], meters' \in ServerMeters,
           \A j \in ReqJobs : DueOf(r, j) - DueOf(serverReqs[t], j) = Balance(meters', j) - Balance(meters, j)
    PROVE  MeterInv'
<1>1. r \in ServerRequests /\ serverReqs' \in [ReqTasks -> ServerRequests]  BY DEF MeterInv, RequestOK
<1>2. \A u \in ReqTasks : RequestOK(serverReqs'[u])  BY DEF MeterInv
<1>3. ServedIsMetered'
  <2> SUFFICES ASSUME NEW j \in ReqJobs
               PROVE  meters'.billed[j] + meters'.tracked[j] + Sum(Uncounted(j)', ReqTasks) = meters'.served[j] + meters'.vision[j]
    BY MeteredAsSumNext DEF MeteredSums
  <2> DEFINE f == Uncounted(j)
             g == Uncounted(j)'
  <2>1. \A u \in ReqTasks : f[u] = DueOf(serverReqs[u], j) /\ g[u] = DueOf(serverReqs'[u], j)  BY DEF Uncounted, DueOf
  <2>2. \A u \in ReqTasks : f[u] \in Int /\ g[u] \in Int
    <3>1. \A q \in ServerRequests : DueOf(q, j) \in Int  BY DEF DueOf, ServerRequests, AnyJob
    <3> QED BY <1>1, <2>1, <3>1 DEF MeterInv
  <2>3. \A u \in ReqTasks : u # t => g[u] = f[u]  BY <2>1 DEF MeterInv
  <2>4. f[t] = DueOf(serverReqs[t], j) /\ g[t] = DueOf(r, j)  BY <2>1 DEF MeterInv
  <2> HIDE DEF f, g
  <2>5. Sum(g, ReqTasks) = Sum(f, ReqTasks) - f[t] + g[t] /\ Sum(f, ReqTasks) \in Int
    BY <2>2, <2>3, SumUpdate, SumType, ServerAssumption
  <2>6. g[t] - f[t] = Balance(meters', j) - Balance(meters, j)  BY <2>4
  <2>7. meters.billed[j] + meters.tracked[j] + Sum(f, ReqTasks) = meters.served[j] + meters.vision[j]
    BY MeteredAsSum DEF MeterInv, MeteredSums, f
  <2>8. /\ meters.billed[j] \in Int /\ meters.tracked[j] \in Int /\ meters.served[j] \in Int /\ meters.vision[j] \in Int
        /\ meters'.billed[j] \in Int /\ meters'.tracked[j] \in Int /\ meters'.served[j] \in Int /\ meters'.vision[j] \in Int
    BY DEF MeterInv, ServerMeters, AnyJob
  <2>9. f[t] \in Int /\ g[t] \in Int  BY <2>2
  <2> DEFINE was == Sum(f, ReqTasks)   new == Sum(g, ReqTasks)
             x == f[t]                 y == g[t]
             b == meters.billed[j]     b1 == meters'.billed[j]
             c == meters.tracked[j]    c1 == meters'.tracked[j]
             s == meters.served[j]     s1 == meters'.served[j]
             v == meters.vision[j]     v1 == meters'.vision[j]
  <2>10. new = was - x + y /\ b + c + was = s + v /\ y - x = (s1 + v1 - b1 - c1) - (s + v - b - c)
    BY <2>5, <2>6, <2>7 DEF Balance
  <2>11. /\ was \in Int /\ x \in Int /\ y \in Int /\ b \in Int /\ c \in Int /\ s \in Int /\ v \in Int
         /\ b1 \in Int /\ c1 \in Int /\ s1 \in Int /\ v1 \in Int
    BY <2>5, <2>8, <2>9
  <2> HIDE DEF was, new, x, y, b, c, s, v, b1, c1, s1, v1
  <2>12. b1 + c1 + new = s1 + v1  BY ONLY <2>10, <2>11
  <2> QED BY <2>12 DEF g, new, b1, c1, s1, v1
<1> QED BY <1>1, <1>2, <1>3 DEF MeterInv

\* What counting n tokens of job j takes off its balance.
MeterCounted(m, m1, j, n) ==
    /\ m1 \in ServerMeters
    /\ \A k \in ReqJobs : Balance(m1, k) = Balance(m, k) - (IF k = j THEN n ELSE 0)

LEMMA BalanceInt == ASSUME NEW m \in ServerMeters, NEW k \in ReqJobs PROVE Balance(m, k) \in Int
  BY DEF Balance, ServerMeters, AnyJob

LEMMA BilledCounts ==
    ASSUME NEW m \in ServerMeters, NEW j \in ReqJobs, NEW n \in Nat
    PROVE  MeterCounted(m, [m EXCEPT !.billed[j] = @ + n], j, n)
<1> DEFINE m1 == [m EXCEPT !.billed[j] = @ + n]
<1>1. /\ m1 \in ServerMeters /\ m1.served = m.served /\ m1.vision = m.vision /\ m1.tracked = m.tracked
      /\ m1.billed = [m.billed EXCEPT ![j] = m.billed[j] + n]
  BY DEF ServerMeters, AnyJob
<1> HIDE DEF m1
<1>2. \A k \in ReqJobs : /\ m.served[k] \in Nat /\ m.vision[k] \in Nat /\ m.billed[k] \in Nat /\ m.tracked[k] \in Nat
                         /\ m1.billed[k] = m.billed[k] + (IF k = j THEN n ELSE 0)
  BY <1>1 DEF ServerMeters, AnyJob
<1>3. \A k \in ReqJobs : Balance(m1, k) = Balance(m, k) - (IF k = j THEN n ELSE 0)  BY <1>1, <1>2 DEF Balance
<1> QED BY <1>1, <1>3 DEF MeterCounted, m1

LEMMA TrackedCounts ==
    ASSUME NEW m \in ServerMeters, NEW j \in ReqJobs, NEW n \in Nat
    PROVE  MeterCounted(m, [m EXCEPT !.tracked[j] = @ + n], j, n)
<1> DEFINE m1 == [m EXCEPT !.tracked[j] = @ + n]
<1>1. /\ m1 \in ServerMeters /\ m1.served = m.served /\ m1.vision = m.vision /\ m1.billed = m.billed
      /\ m1.tracked = [m.tracked EXCEPT ![j] = m.tracked[j] + n]
  BY DEF ServerMeters, AnyJob
<1> HIDE DEF m1
<1>2. \A k \in ReqJobs : /\ m.served[k] \in Nat /\ m.vision[k] \in Nat /\ m.billed[k] \in Nat /\ m.tracked[k] \in Nat
                         /\ m1.tracked[k] = m.tracked[k] + (IF k = j THEN n ELSE 0)
  BY <1>1 DEF ServerMeters, AnyJob
<1>3. \A k \in ReqJobs : Balance(m1, k) = Balance(m, k) - (IF k = j THEN n ELSE 0)  BY <1>1, <1>2 DEF Balance
<1> QED BY <1>1, <1>3 DEF MeterCounted, m1

\* What names no job is counted by nobody.
LEMMA MeteredCounts ==
    ASSUME meters \in ServerMeters, NEW j \in AnyJob, NEW n \in Nat
    PROVE  MeterCounted(meters, Metered(j, n), j, n)
<1>1. CASE j = "none"
  <2>1. \A k \in ReqJobs : k # j /\ Balance(meters, k) \in Int  BY <1>1, ServerAssumption, BalanceInt
  <2> QED BY <1>1, <2>1 DEF Metered, MeterCounted
<1>2. CASE j \in ReqJobs
  <2>1. j # "none"  BY <1>2, ServerAssumption
  <2> QED BY <1>2, <2>1, BilledCounts, TrackedCounts DEF Metered
<1> QED BY <1>1, <1>2 DEF AnyJob

\* Serving n tokens adds as much to the balance.
LEMMA ServedAdds ==
    ASSUME NEW m \in ServerMeters, NEW j \in AnyJob, NEW n \in Nat
    PROVE  /\ [m EXCEPT !.served[j] = @ + n] \in ServerMeters
           /\ \A k \in ReqJobs : Balance([m EXCEPT !.served[j] = @ + n], k) = Balance(m, k) + (IF k = j THEN n ELSE 0)
<1> DEFINE m1 == [m EXCEPT !.served[j] = @ + n]
<1>1. /\ m1 \in ServerMeters /\ m1.tracked = m.tracked /\ m1.vision = m.vision /\ m1.billed = m.billed
      /\ m1.served = [m.served EXCEPT ![j] = m.served[j] + n]
  BY DEF ServerMeters, AnyJob
<1> HIDE DEF m1
<1>2. \A k \in ReqJobs : /\ m.served[k] \in Nat /\ m.vision[k] \in Nat /\ m.billed[k] \in Nat /\ m.tracked[k] \in Nat
                         /\ m1.served[k] = m.served[k] + (IF k = j THEN n ELSE 0)
  BY <1>1 DEF ServerMeters, AnyJob
<1>3. \A k \in ReqJobs : Balance(m1, k) = Balance(m, k) + (IF k = j THEN n ELSE 0)  BY <1>1, <1>2 DEF Balance
<1> QED BY <1>1, <1>3 DEF m1

\* The images described are counted at once.
LEMMA VisionKeeps ==
    ASSUME meters \in ServerMeters, NEW j \in AnyJob
    PROVE  VisionMetered(j) \in ServerMeters /\ \A k \in ReqJobs : Balance(VisionMetered(j), k) = Balance(meters, k)
<1> DEFINE m == Metered(j, 1)
           m1 == VisionMetered(j)
<1>1. MeterCounted(meters, m, j, 1)  BY MeteredCounts
<1> HIDE DEF m
<1>2. /\ m1 \in ServerMeters /\ m1.tracked = m.tracked /\ m1.served = m.served /\ m1.billed = m.billed
      /\ m1.vision = [m.vision EXCEPT ![j] = m.vision[j] + 1]
  BY <1>1 DEF ServerMeters, AnyJob, MeterCounted, VisionMetered, m
<1> HIDE DEF m1
<1>3. \A k \in ReqJobs : /\ m.served[k] \in Nat /\ m.vision[k] \in Nat /\ m.billed[k] \in Nat /\ m.tracked[k] \in Nat
                         /\ m1.vision[k] = m.vision[k] + (IF k = j THEN 1 ELSE 0)
  BY <1>1, <1>2 DEF ServerMeters, AnyJob, MeterCounted
<1>4. \A k \in ReqJobs : Balance(m1, k) = Balance(m, k) + (IF k = j THEN 1 ELSE 0)
  <2>1. \A k \in ReqJobs : m1.served[k] = m.served[k] /\ m1.tracked[k] = m.tracked[k] /\ m1.billed[k] = m.billed[k]
    BY <1>2
  <2> QED BY ONLY <1>3, <2>1 DEF Balance
<1>5. \A k \in ReqJobs : Balance(m1, k) = Balance(meters, k)  BY <1>1, <1>4, BalanceInt DEF MeterCounted
<1> QED BY <1>2, <1>5 DEF m1

LEMMA SearchedNat == ASSUME NEW b \in BOOLEAN, NEW w \in 1 .. SearchCap + 1 PROVE Searched(b, w) \in Nat
<1> SUFFICES Min({w, SearchCap}) \in Nat  BY DEF Searched
<1>1. {w, SearchCap} \subseteq Nat  BY ServerAssumption
<1>2. \E x \in {w, SearchCap} : \A y \in {w, SearchCap} : x <= y  BY <1>1, ServerAssumption
<1> QED BY <1>1, <1>2, ServerAssumption DEF Min

\* The parts of the meters the property does not read.
LEMMA OtherMeters ==
    ASSUME NEW m \in ServerMeters
    PROVE  /\ \A n \in Nat : LET m1 == [m EXCEPT !.failures = n] IN m1 \in ServerMeters /\ \A k \in ReqJobs : Balance(m1, k) = Balance(m, k)
           /\ \A n \in Nat : LET m1 == [m EXCEPT !.asked = n] IN m1 \in ServerMeters /\ \A k \in ReqJobs : Balance(m1, k) = Balance(m, k)
           /\ \A n \in Nat : LET m1 == [m EXCEPT !.images = n] IN m1 \in ServerMeters /\ \A k \in ReqJobs : Balance(m1, k) = Balance(m, k)
           /\ \A p \in SUBSET ReqJobs : LET m1 == [m EXCEPT !.prompts = p] IN m1 \in ServerMeters /\ \A k \in ReqJobs : Balance(m1, k) = Balance(m, k)
           /\ \A q \in SUBSET {"default-rag-session"} : LET m1 == [m EXCEPT !.rag = q] IN m1 \in ServerMeters /\ \A k \in ReqJobs : Balance(m1, k) = Balance(m, k)
           /\ LET m1 == [m EXCEPT !.exited = TRUE] IN m1 \in ServerMeters /\ \A k \in ReqJobs : Balance(m1, k) = Balance(m, k)
  BY DEF Balance, ServerMeters, AnyJob

\* A step that leaves the requests alone, and the balances.
LEMMA MetersMove ==
    ASSUME MeterInv, serverReqs' = serverReqs, meters' \in ServerMeters,
           \A j \in ReqJobs : Balance(meters', j) = Balance(meters, j)
    PROVE  MeterInv'
<1>1. ServedIsMetered'
  <2> SUFFICES ASSUME NEW j \in ReqJobs
               PROVE  meters'.billed[j] + meters'.tracked[j] + Sum(Uncounted(j)', ReqTasks) = meters'.served[j] + meters'.vision[j]
    BY MeteredAsSumNext DEF MeteredSums
  <2>1. Uncounted(j)' = Uncounted(j)  BY DEF Uncounted
  <2> DEFINE f == Uncounted(j)
             was == Sum(f, ReqTasks)
             b == meters.billed[j]     b1 == meters'.billed[j]
             c == meters.tracked[j]    c1 == meters'.tracked[j]
             s == meters.served[j]     s1 == meters'.served[j]
             v == meters.vision[j]     v1 == meters'.vision[j]
  <2>2. b + c + was = s + v /\ s1 + v1 - b1 - c1 = s + v - b - c  BY MeteredAsSum DEF MeteredSums, MeterInv, Balance
  <2>3. /\ b \in Int /\ c \in Int /\ s \in Int /\ v \in Int
        /\ b1 \in Int /\ c1 \in Int /\ s1 \in Int /\ v1 \in Int
    BY DEF MeterInv, ServerMeters, AnyJob
  <2>4. was \in Int
    <3>1. \A t \in ReqTasks : f[t] \in Int  BY DEF Uncounted, MeterInv, ServerRequests, AnyJob
    <3> HIDE DEF f
    <3> QED BY <3>1, SumType, ServerAssumption
  <2> HIDE DEF f, was, b, c, s, v, b1, c1, s1, v1
  <2>5. b1 + c1 + was = s1 + v1  BY ONLY <2>2, <2>3, <2>4
  <2> QED BY <2>1, <2>5 DEF f, was, b1, c1, s1, v1
<1> QED BY <1>1 DEF MeterInv

LEMMA BootKeeps == ASSUME MeterInv, BootStep PROVE MeterInv'
<1>1. serverReqs' = serverReqs /\ (meters' = meters \/ meters' = [meters EXCEPT !.exited = TRUE])
  BY Zenon DEF BootStep, ValidateModel, BootLoadModel, StartNode, SetEngine, SetPart, CtrlC
<1>2. meters \in ServerMeters  BY DEF MeterInv
<1>3. meters' \in ServerMeters /\ \A j \in ReqJobs : Balance(meters', j) = Balance(meters, j)
  BY <1>1, <1>2, OtherMeters
<1> QED BY <1>1, <1>3, MetersMove

\* The steps of a request that neither serve nor count a token, and its end without one.
LEMMA QuietStep ==
    ASSUME MeterInv, NEW t \in ReqTasks, NEW r, RequestOK(r), serverReqs[t].tokens = 0, r.tokens = 0,
           serverReqs' = [serverReqs EXCEPT ![t] = r], meters' \in ServerMeters,
           \A j \in ReqJobs : Balance(meters', j) = Balance(meters, j)
    PROVE  MeterInv'
<1>1. \A j \in ReqJobs : DueOf(r, j) = 0 /\ DueOf(serverReqs[t], j) = 0  BY DEF DueOf
<1>2. \A j \in ReqJobs : Balance(meters, j) \in Int  BY BalanceInt DEF MeterInv
<1>3. \A j \in ReqJobs : DueOf(r, j) - DueOf(serverReqs[t], j) = Balance(meters', j) - Balance(meters, j)  BY <1>1, <1>2
<1> QED BY <1>3, RequestMoves

LEMMA RequestHere ==
    ASSUME MeterInv, NEW t \in ReqTasks
    PROVE  /\ RequestOK(serverReqs[t]) /\ meters \in ServerMeters /\ serverReqs[t] \in ServerRequests
           /\ serverReqs[t].pc \notin {"track", "count"} => serverReqs[t].tokens = 0
           /\ serverReqs[t].job \in AnyJob
  BY DEF MeterInv, RequestOK, ServerRequests, AnyJob

LEMMA SearchWebKeeps == ASSUME MeterInv, NEW t \in ReqTasks, SearchWeb(t) \/ SearchStream(t) PROVE MeterInv'
<1> DEFINE r0 == serverReqs[t]
<1>1. PICK p \in {"prompt", "hash"}, b \in BOOLEAN, w \in 1 .. SearchCap + 1 :
         /\ serverReqs' = [serverReqs EXCEPT ![t].pc = p, ![t].queries = Searched(b, w)]
         /\ meters' = meters /\ r0.pc \in {"search", "seek"}
  <2>1. CASE SearchWeb(t)
    <3> DEFINE b == "search" \in up /\ r0.web
    <3>1. b \in BOOLEAN  BY RequestHere DEF ServerRequests, AnyJob
    <3>2. PICK w \in 1 .. SearchCap + 1 :
            serverReqs' = [serverReqs EXCEPT ![t].pc = "prompt", ![t].queries = Searched(b, w)]
      BY <2>1, Zenon DEF SearchWeb
    <3>3. meters' = meters /\ r0.pc = "search"  BY <2>1 DEF SearchWeb
    <3> HIDE DEF b
    <3> QED BY <3>1, <3>2, <3>3
  <2>2. CASE SearchStream(t)
    <3>2. PICK w \in 1 .. SearchCap + 1, found \in BOOLEAN :
            serverReqs' = [serverReqs EXCEPT ![t].pc = "hash", ![t].queries = Searched("search" \in up /\ (r0.web \/ found), w)]
      BY <2>2, Zenon DEF SearchStream
    <3> DEFINE b == "search" \in up /\ (r0.web \/ found)
    <3>1. b \in BOOLEAN  OBVIOUS
    <3>3. meters' = meters /\ r0.pc = "seek"  BY <2>2 DEF SearchStream
    <3>4. serverReqs' = [serverReqs EXCEPT ![t].pc = "hash", ![t].queries = Searched(b, w)]  BY <3>2
    <3> HIDE DEF b
    <3> QED BY <3>1, <3>4, <3>3
  <2> QED BY <2>1, <2>2
<1> DEFINE r == [r0 EXCEPT !.pc = p, !.queries = Searched(b, w)]
<1>2. RequestOK(r0) /\ meters \in ServerMeters /\ r0.tokens = 0 /\ Searched(b, w) \in Nat
  BY <1>1, RequestHere, SearchedNat
<1>3. RequestOK(r) /\ r.tokens = 0
  <2> HIDE DEF r0
  <2> QED BY <1>1, <1>2 DEF RequestOK, ServerRequests, AnyJob, RequestPcs
<1>4. serverReqs' = [serverReqs EXCEPT ![t] = r]  BY <1>1
<1> HIDE DEF r
<1> QED BY <1>1, <1>2, <1>3, <1>4, QuietStep

LEMMA RecordPromptKeeps == ASSUME MeterInv, NEW t \in ReqTasks, RecordPrompt(t) \/ RecordStreamPrompt(t) PROVE MeterInv'
<1> DEFINE r0 == serverReqs[t]
           ps == IF "checkpoint" \in up THEN meters.prompts \cup ({r0.job} \cap ReqJobs) ELSE meters.prompts
           b == "checkpoint" \in up
<1>1. RequestOK(r0) /\ meters \in ServerMeters /\ r0.tokens = 0 /\ r0.job \in AnyJob /\ r0.pc \in {"prompt", "hash"}
  BY RequestHere DEF RecordPrompt, RecordStreamPrompt
<1>2. meters' = [meters EXCEPT !.prompts = ps]  BY <1>1 DEF RecordPrompt, RecordStreamPrompt, ServerMeters, AnyJob
<1>3. ps \in SUBSET ReqJobs /\ b \in BOOLEAN  BY <1>1 DEF ServerMeters, AnyJob
<1> HIDE DEF ps
<1>4. meters' \in ServerMeters /\ \A j \in ReqJobs : Balance(meters', j) = Balance(meters, j)
  BY <1>1, <1>2, <1>3, OtherMeters
<1>5. \/ serverReqs' = [serverReqs EXCEPT ![t] = [r0 EXCEPT !.pc = "infer"]]
      \/ serverReqs' = [serverReqs EXCEPT ![t] = [r0 EXCEPT !.pc = "start", !.cm = b]]
  BY DEF RecordPrompt, RecordStreamPrompt
<1> DEFINE r1 == [r0 EXCEPT !.pc = "infer"]
           r2 == [r0 EXCEPT !.pc = "start", !.cm = b]
<1>6. RequestOK(r1) /\ r1.tokens = 0 /\ RequestOK(r2) /\ r2.tokens = 0
  <2> HIDE DEF r0, b
  <2> QED BY <1>1, <1>3 DEF RequestOK, ServerRequests, AnyJob, RequestPcs
<1>7. serverReqs' = [serverReqs EXCEPT ![t] = r1] \/ serverReqs' = [serverReqs EXCEPT ![t] = r2]  BY <1>5
<1> HIDE DEF r1, r2
<1> QED BY <1>1, <1>4, <1>6, <1>7, QuietStep

LEMMA RunInferenceKeeps == ASSUME MeterInv, NEW t \in ReqTasks, RunInference(t) PROVE MeterInv'
<1> DEFINE r0 == serverReqs[t]
<1>1. RequestOK(r0) /\ meters \in ServerMeters /\ r0.tokens = 0 /\ r0.job \in AnyJob /\ r0.pc = "infer"
  BY RequestHere DEF RunInference
<1>2. CASE serverReqs' = [serverReqs EXCEPT ![t] = NoReq] /\ meters' = meters  BY <1>1, <1>2, NoReqOK, QuietStep
<1>3. ASSUME NEW n \in 1 .. MaxServed, meters' = [meters EXCEPT !.served[r0.job] = @ + n],
             serverReqs' = [serverReqs EXCEPT ![t].pc = "track", ![t].tokens = n]
      PROVE  MeterInv'
  <2> DEFINE r == [r0 EXCEPT !.pc = "track", !.tokens = n]
  <2>1. n \in Nat  BY ServerAssumption
  <2>2. RequestOK(r) /\ r.tokens = n /\ r.job = r0.job  BY <1>1, <2>1 DEF RequestOK, ServerRequests, AnyJob, RequestPcs
  <2>3. serverReqs' = [serverReqs EXCEPT ![t] = r]  BY <1>3
  <2> HIDE DEF r
  <2>4. meters' \in ServerMeters /\ \A k \in ReqJobs : Balance(meters', k) = Balance(meters, k) + (IF k = r0.job THEN n ELSE 0)
    BY <1>1, <1>3, <2>1, ServedAdds
  <2>5. \A k \in ReqJobs : DueOf(r, k) - DueOf(r0, k) = Balance(meters', k) - Balance(meters, k)
    BY <1>1, <2>1, <2>2, <2>4, BalanceInt DEF DueOf
  <2> QED BY <2>2, <2>3, <2>4, <2>5, RequestMoves
<1> QED BY <1>2, <1>3 DEF RunInference

LEMMA TrackTokensKeeps == ASSUME MeterInv, NEW t \in ReqTasks, TrackTokens(t) PROVE MeterInv'
<1> DEFINE r0 == serverReqs[t]
           j == r0.job
           n == r0.tokens
           m == Metered(j, n)
<1>1. RequestOK(r0) /\ meters \in ServerMeters /\ j \in AnyJob /\ n \in Nat
  BY RequestHere DEF TrackTokens, ServerRequests, AnyJob
<1>2. MeterCounted(meters, m, j, n)  BY <1>1, MeteredCounts
<1>3. meters' = [m EXCEPT !.failures = 0] /\ serverReqs' = [serverReqs EXCEPT ![t] = NoReq]  BY DEF TrackTokens
<1> HIDE DEF m
<1>4. meters' \in ServerMeters /\ \A k \in ReqJobs : Balance(meters', k) = Balance(m, k)
  <2>1. m \in ServerMeters /\ 0 \in Nat  BY <1>2 DEF MeterCounted
  <2>2. \A q \in Nat : LET m1 == [m EXCEPT !.failures = q] IN m1 \in ServerMeters /\ \A k \in ReqJobs : Balance(m1, k) = Balance(m, k)
    BY <2>1, OtherMeters
  <2> QED BY ONLY <1>3, <2>1, <2>2
<1>5. \A k \in ReqJobs : DueOf(NoReq, k) - DueOf(r0, k) = Balance(meters', k) - Balance(meters, k)
  BY <1>1, <1>2, <1>4, NoReqOK, BalanceInt DEF DueOf, MeterCounted
<1> QED BY <1>3, <1>4, <1>5, NoReqOK, RequestMoves

LEMMA DescribeImagesKeeps == ASSUME MeterInv, NEW t \in ReqTasks, DescribeImages(t) PROVE MeterInv'
<1> DEFINE r0 == serverReqs[t]
           r == [r0 EXCEPT !.pc = "accept"]
<1>1. RequestOK(r0) /\ meters \in ServerMeters /\ r0.tokens = 0 /\ r0.job \in AnyJob /\ r0.pc = "images"
  BY RequestHere DEF DescribeImages
<1>2. meters' \in ServerMeters /\ \A k \in ReqJobs : Balance(meters', k) = Balance(meters, k)
  BY <1>1, VisionKeeps DEF DescribeImages
<1>3. RequestOK(r) /\ r.tokens = 0
  <2> HIDE DEF r0
  <2> QED BY <1>1 DEF RequestOK, ServerRequests, AnyJob, RequestPcs
<1>4. serverReqs' = [serverReqs EXCEPT ![t] = r]  BY DEF DescribeImages
<1> HIDE DEF r
<1> QED BY <1>1, <1>2, <1>3, <1>4, QuietStep

LEMMA StreamStartKeeps == ASSUME MeterInv, NEW t \in ReqTasks, AcceptStream(t) \/ StartStream(t) PROVE MeterInv'
<1> DEFINE r0 == serverReqs[t]
           r1 == [r0 EXCEPT !.pc = "seek"]
           r2 == [r0 EXCEPT !.pc = "stream"]
<1>1. RequestOK(r0) /\ meters \in ServerMeters /\ r0.tokens = 0 /\ r0.job \in AnyJob /\ r0.pc \in {"accept", "start"}
  BY RequestHere DEF AcceptStream, StartStream
<1>2. RequestOK(r1) /\ r1.tokens = 0 /\ RequestOK(r2) /\ r2.tokens = 0
  <2> HIDE DEF r0
  <2> QED BY <1>1 DEF RequestOK, ServerRequests, AnyJob, RequestPcs
<1>3. \E r \in {r1, r2, NoReq} : serverReqs' = [serverReqs EXCEPT ![t] = r]  BY DEF AcceptStream, StartStream
<1>4. meters' = meters \/ meters' = [meters EXCEPT !.failures = 0]  BY DEF AcceptStream, StartStream
<1> HIDE DEF r1, r2
<1>5. meters' \in ServerMeters /\ \A k \in ReqJobs : Balance(meters', k) = Balance(meters, k)
  <2>1. 0 \in Nat  OBVIOUS
  <2>2. \A q \in Nat : LET m1 == [meters EXCEPT !.failures = q]
                       IN m1 \in ServerMeters /\ \A k \in ReqJobs : Balance(m1, k) = Balance(meters, k)
    BY <1>1, OtherMeters
  <2> QED BY ONLY <1>1, <1>4, <2>1, <2>2
<1>6. PICK r \in {r1, r2, NoReq} : serverReqs' = [serverReqs EXCEPT ![t] = r]  BY <1>3
<1>7. RequestOK(r) /\ r.tokens = 0  BY <1>2, NoReqOK
<1> QED BY <1>1, <1>5, <1>6, <1>7, QuietStep

LEMMA StreamTokenKeeps == ASSUME MeterInv, NEW t \in ReqTasks, StreamToken(t) PROVE MeterInv'
<1> DEFINE r0 == serverReqs[t]
<1>1. RequestOK(r0) /\ meters \in ServerMeters /\ r0.tokens = 0 /\ r0.job \in AnyJob /\ r0.pc = "stream"
  BY RequestHere DEF StreamToken
<1>2. CASE serverReqs' = [serverReqs EXCEPT ![t] = NoReq] /\ meters' = meters  BY <1>1, <1>2, NoReqOK, QuietStep
<1>3. CASE /\ meters' = [meters EXCEPT !.served[r0.job] = @ + 1]
           /\ serverReqs' = [serverReqs EXCEPT ![t].pc = "count", ![t].tokens = 1, ![t].made = @ + 1]
  <2> DEFINE r == [r0 EXCEPT !.pc = "count", !.tokens = 1, !.made = r0.made + 1]
  <2>1. r0.made \in Nat /\ r0.made + 1 \in Nat  BY <1>1 DEF RequestOK, ServerRequests, AnyJob
  <2>2. RequestOK(r) /\ r.tokens = 1 /\ r.job = r0.job  BY <1>1, <2>1 DEF RequestOK, ServerRequests, AnyJob, RequestPcs
  <2>3. serverReqs' = [serverReqs EXCEPT ![t] = r]  BY <1>3 DEF MeterInv, ServerRequests, AnyJob
  <2> HIDE DEF r
  <2>4. meters' \in ServerMeters /\ \A k \in ReqJobs : Balance(meters', k) = Balance(meters, k) + (IF k = r0.job THEN 1 ELSE 0)
    <3>1. 1 \in Nat  OBVIOUS
    <3>2. \A q \in Nat : /\ [meters EXCEPT !.served[r0.job] = @ + q] \in ServerMeters
                         /\ \A k \in ReqJobs : Balance([meters EXCEPT !.served[r0.job] = @ + q], k)
                                                = Balance(meters, k) + (IF k = r0.job THEN q ELSE 0)
      BY <1>1, ServedAdds
    <3> QED BY ONLY <1>3, <3>1, <3>2
  <2>5. \A k \in ReqJobs : DueOf(r, k) - DueOf(r0, k) = Balance(meters', k) - Balance(meters, k)
    BY <1>1, <2>2, <2>4, BalanceInt DEF DueOf
  <2> QED BY <2>2, <2>3, <2>4, <2>5, RequestMoves
<1> QED BY <1>2, <1>3 DEF StreamToken

LEMMA CountTokenKeeps == ASSUME MeterInv, NEW t \in ReqTasks, CountToken(t) PROVE MeterInv'
<1> DEFINE r0 == serverReqs[t]
           j == r0.job
           r == [r0 EXCEPT !.pc = "stream", !.tokens = 0]
<1>1. RequestOK(r0) /\ meters \in ServerMeters /\ j \in AnyJob /\ r0.tokens = 1 /\ r0.pc = "count"
  BY RequestHere DEF CountToken, RequestOK
<1>2. MeterCounted(meters, meters', j, 1)
  <2>1. 1 \in Nat  OBVIOUS
  <2>2. CASE j = "none"
    <3>1. meters' = meters /\ \A k \in ReqJobs : k # j /\ Balance(meters, k) \in Int
      BY <1>1, <2>2, ServerAssumption, BalanceInt DEF CountToken
    <3> QED BY <1>1, <3>1 DEF MeterCounted
  <2>3. CASE j # "none"
    <3>1. j \in ReqJobs  BY <1>1, <2>3 DEF AnyJob
    <3>2. meters' = [meters EXCEPT !.billed[j] = @ + 1] \/ meters' = [meters EXCEPT !.tracked[j] = @ + 1]
      BY <2>3 DEF CountToken
    <3> QED BY <1>1, <2>1, <3>1, <3>2, BilledCounts, TrackedCounts
  <2> QED BY <2>2, <2>3
<1>3. RequestOK(r) /\ r.tokens = 0 /\ r.job = j  BY <1>1 DEF RequestOK, ServerRequests, AnyJob, RequestPcs
<1>4. serverReqs' = [serverReqs EXCEPT ![t] = r]  BY DEF CountToken
<1> HIDE DEF r
<1>5. \A k \in ReqJobs : DueOf(r, k) - DueOf(r0, k) = Balance(meters', k) - Balance(meters, k)
  BY <1>1, <1>2, <1>3, BalanceInt DEF DueOf, MeterCounted
<1>6. meters' \in ServerMeters  BY <1>2 DEF MeterCounted
<1> QED BY <1>3, <1>4, <1>5, <1>6, RequestMoves

LEMMA AcceptKeeps ==
    ASSUME MeterInv, NEW t \in ReqTasks, NEW j \in AnyJob, NEW b \in BOOLEAN,
           \/ AcceptRequest(t, j, b)
           \/ \E inner, outer \in {"absent", "yes"} : EncryptedRequest(t, j, b, inner, outer)
    PROVE  MeterInv'
<1>1. meters \in ServerMeters /\ RequestOK(serverReqs[t]) /\ meters.asked \in Nat
  BY RequestHere DEF ServerMeters, AnyJob
<1>2. meters' = [meters EXCEPT !.asked = meters.asked + 1] /\ serverReqs[t].pc = "idle"
  BY <1>1 DEF AcceptRequest, EncryptedRequest, ServerMeters, AnyJob
<1>3. meters' \in ServerMeters /\ \A k \in ReqJobs : Balance(meters', k) = Balance(meters, k)
  <2>1. meters.asked + 1 \in Nat  BY <1>1
  <2>2. \A q \in Nat : LET m1 == [meters EXCEPT !.asked = q]
                       IN m1 \in ServerMeters /\ \A k \in ReqJobs : Balance(m1, k) = Balance(meters, k)
    BY <1>1, OtherMeters
  <2> QED BY ONLY <1>2, <2>1, <2>2
<1>4. serverReqs[t].tokens = 0  BY <1>2, RequestHere
<1> DEFINE FreshReq(p, w) == [NoReq EXCEPT !.pc = p, !.job = j, !.web = w]
<1>5. \A p \in {"search", "images", "accept"}, w \in BOOLEAN : RequestOK(FreshReq(p, w)) /\ FreshReq(p, w).tokens = 0
  BY DEF NoReq, RequestOK, ServerRequests, AnyJob, RequestPcs
<1>6. ASSUME NEW p \in {"search", "images", "accept"}, NEW w \in BOOLEAN,
             serverReqs' = [serverReqs EXCEPT ![t] = FreshReq(p, w)]
      PROVE  MeterInv'
  <2> DEFINE r == FreshReq(p, w)
  <2>1. RequestOK(r) /\ r.tokens = 0 /\ serverReqs' = [serverReqs EXCEPT ![t] = r]  BY <1>5, <1>6
  <2> HIDE DEF r
  <2> QED BY <1>3, <1>4, <2>1, QuietStep
<1>7. CASE AcceptRequest(t, j, b)
  <2>1. serverReqs' = serverReqs \/ serverReqs' = [serverReqs EXCEPT ![t] = FreshReq("search", b)]
    BY <1>7 DEF AcceptRequest
  <2> HIDE DEF FreshReq
  <2> QED BY <1>3, <1>6, <2>1, MetersMove
<1>8. CASE \E inner, outer \in {"absent", "yes"} : EncryptedRequest(t, j, b, inner, outer)
  <2>1. PICK inner \in {"absent", "yes"}, outer \in {"absent", "yes"} : EncryptedRequest(t, j, b, inner, outer)  BY <1>8
  <2> DEFINE w == RequestOption(inner, outer, "no") = "yes"
             p == IF b THEN "images" ELSE "accept"
  <2>2. w \in BOOLEAN /\ p \in {"images", "accept"}  OBVIOUS
  <2>3. serverReqs' = [serverReqs EXCEPT ![t] = FreshReq(p, w)]  BY <2>1 DEF EncryptedRequest
  <2> HIDE DEF w, p, FreshReq
  <2> QED BY <1>6, <2>2, <2>3
<1> QED BY <1>7, <1>8

LEMMA RouteKeeps ==
    ASSUME MeterInv,
           \/ \E failing \in {{}, {"INVALID_NONCE_SIZE"}} : RouteImage(failing)
           \/ UploadVectors("default-rag-session")
    PROVE  MeterInv'
<1>1. meters \in ServerMeters /\ meters.images \in Nat /\ meters.rag \in SUBSET {"default-rag-session"}
  BY DEF MeterInv, ServerMeters
<1> DEFINE n == meters.images + 1
           q == meters.rag \cup {"default-rag-session"}
<1>2. /\ serverReqs' = serverReqs
      /\ meters' = [meters EXCEPT !.images = n] \/ meters' = [meters EXCEPT !.rag = q]
  BY <1>1 DEF RouteImage, UploadVectors, ServerMeters
<1>3. n \in Nat /\ q \in SUBSET {"default-rag-session"}  BY <1>1
<1> HIDE DEF n, q
<1>4. meters' \in ServerMeters /\ \A k \in ReqJobs : Balance(meters', k) = Balance(meters, k)
  <2>1. CASE meters' = [meters EXCEPT !.images = n]  BY <1>1, <1>3, <2>1, OtherMeters
  <2>2. CASE meters' = [meters EXCEPT !.rag = q]  BY <1>1, <1>3, <2>2, OtherMeters
  <2> QED BY <1>2, <2>1, <2>2
<1> QED BY <1>2, <1>4, MetersMove

\* Every token served and every image described for a job is counted once, by the
\* checkpoint manager or by the token tracker, for any number of requests under way at once and
\* wherever they fall in the start-up of the node (handle_inference_request and
\* handle_streaming_request of api/server.rs, main.rs).
THEOREM TokensAreMetered == ServerSpec => []ServedIsMetered
<1>1. ServerInit => MeterInv  BY MeterInitial
<1>2. MeterInv /\ [ServerNext]_serverVars => MeterInv'
  <2> SUFFICES ASSUME MeterInv, [ServerNext]_serverVars PROVE MeterInv'  OBVIOUS
  <2>1. CASE BootStep  BY <2>1, BootKeeps
  <2>2. ASSUME NEW t \in ReqTasks, RequestStep(t) PROVE MeterInv'
    BY <2>2, SearchWebKeeps, RecordPromptKeeps, RunInferenceKeeps, TrackTokensKeeps, DescribeImagesKeeps,
       StreamStartKeeps, StreamTokenKeeps, CountTokenKeeps DEF RequestStep
  <2>3. ASSUME NEW t \in ReqTasks, NEW j \in AnyJob, NEW b \in BOOLEAN,
               \/ AcceptRequest(t, j, b)
               \/ \E inner, outer \in {"absent", "yes"} : EncryptedRequest(t, j, b, inner, outer)
        PROVE  MeterInv'  BY <2>3, AcceptKeeps
  <2>4. CASE \/ \E failing \in {{}, {"INVALID_NONCE_SIZE"}} : RouteImage(failing)
             \/ UploadVectors("default-rag-session")
    BY <2>4, RouteKeeps
  <2>5. CASE UNCHANGED serverVars
    <3>1. meters' \in ServerMeters /\ serverReqs' = serverReqs /\ meters' = meters  BY <2>5 DEF serverVars, MeterInv
    <3> QED BY <3>1, MetersMove
  <2> QED BY <2>1, <2>2, <2>3, <2>4, <2>5 DEF ServerNext
<1>3. MeterInv => ServedIsMetered  BY DEF MeterInv
<1> QED BY <1>1, <1>2, <1>3, PTL DEF ServerSpec

-----------------------------------------------------------------------------
(* WebSocketSession: its types.                                            *)

ConnStates == {"new", "open", "starting", "streaming", "closing", "gone"}
EngineStates == {"waiting", "queued", "running"} \cup Ended
ProducerStates == {"recv", "send", "final", "done"}

ConnRecord == [pc : ConnStates, sid : Sessions \cup {NoSession}, req : Nat]

ReqRecord ==
    [conn : Conns, flag : FlagId \cup {NoFlag}, enc : BOOLEAN, sent : Nat,
     eng : EngineStates, made : Nat, inq : Nat, prod : ProducerStates, fin : BOOLEAN,
     ends : Nat, asked : BOOLEAN, over : Nat, hit : BOOLEAN]

\* Connections, the store, the flags and the prompts have their types; every raised
\* flag belongs to a session that was stored.
WsTypeOK ==
    /\ conn \in [Conns -> ConnRecord]
    /\ stored \in [Sessions -> 0 .. MaxGen]
    /\ raised \subseteq FlagId
    /\ keys \subseteq Sessions
    /\ reqs \in Seq(ReqRecord)

-----------------------------------------------------------------------------
(* The inductive invariant *)

\* A connection answers one prompt at a time: while it is busy the prompt is its own
\* and the last one it accepted, and the engine has not seen it before it is accepted.
OneAtATime ==
    /\ \A c \in Conns :
          /\ conn[c].pc = "new" => conn[c].req = 0
          /\ conn[c].pc \in {"starting", "streaming"} =>
                conn[c].req \in Requests /\ reqs[conn[c].req].conn = c
          /\ conn[c].pc = "starting" => reqs[conn[c].req].eng = "waiting"
          /\ conn[c].req <= Len(reqs)
    /\ \A r \in Requests : r <= conn[reqs[r].conn].req

\* Every prompt before the last one of its connection has been answered, also when the
\* connection is gone.
EarlierAnswered ==
    \A r \in Requests : r < conn[reqs[r].conn].req => reqs[r].ends = 1

\* A flag that is up while an inference polls it was raised during that inference.
RaisedDuringInference ==
    \A r \in Requests : reqs[r].eng \notin Ended /\ reqs[r].flag \in raised => reqs[r].hit

WsInv ==
    /\ WsTypeOK /\ OneAtATime /\ EarlierAnswered /\ OneStreamEnd
    /\ RaisedDuringInference /\ LateCancelIsHarmless

-----------------------------------------------------------------------------
(* Prompts and flags *)

\* The flag of a session that is not stored is no flag of a stored one.
LEMMA FlagTypes ==
    ASSUME WsTypeOK, NEW s
    PROVE  StoredFlag(s) \in FlagId \cup {NoFlag} /\ NoFlag \notin FlagId
  BY WsAssumption DEF WsTypeOK, StoredFlag, FlagId, NoFlag

\* One prompt is replaced.
LEMMA ReqUpdated ==
    ASSUME WsTypeOK, NEW r \in Requests, NEW q \in ReqRecord,
           reqs' = [reqs EXCEPT ![r] = q]
    PROVE  /\ reqs' \in Seq(ReqRecord) /\ Len(reqs') = Len(reqs) /\ Requests' = Requests
           /\ reqs'[r] = q /\ \A i \in Requests \ {r} : reqs'[i] = reqs[i]
  BY DEF WsTypeOK, Requests

LEMMA ReqTypes ==
    ASSUME WsTypeOK, NEW r \in Requests
    PROVE  reqs[r] \in ReqRecord  BY DEF WsTypeOK, Requests

\* A new prompt.
LEMMA ReqAppended ==
    ASSUME WsTypeOK, NEW q \in ReqRecord, reqs' = Append(reqs, q)
    PROVE  /\ reqs' \in Seq(ReqRecord) /\ Len(reqs') = Len(reqs) + 1
           /\ Requests' = Requests \cup {Len(reqs) + 1} /\ Len(reqs) \in Nat
           /\ reqs'[Len(reqs) + 1] = q /\ \A i \in Requests : reqs'[i] = reqs[i]
  BY DEF WsTypeOK, Requests

\* A flag is raised for all inferences that are under way and use it.
LEMMA HitEffect ==
    ASSUME WsTypeOK, NEW f, NEW h, h = Hit(f)
    PROVE  /\ h \in Seq(ReqRecord) /\ Len(h) = Len(reqs)
           /\ \A r \in Requests :
                 /\ h[r].conn = reqs[r].conn /\ h[r].flag = reqs[r].flag
                 /\ h[r].eng = reqs[r].eng /\ h[r].ends = reqs[r].ends
                 /\ h[r].hit = (reqs[r].hit \/ (f # NoFlag /\ reqs[r].flag = f
                                                 /\ reqs[r].eng \notin Ended))
<1> DEFINE v(r) == reqs[r].hit \/ (f # NoFlag /\ reqs[r].flag = f /\ reqs[r].eng \notin Ended)
           n(r) == [reqs[r] EXCEPT !.hit = v(r)]
<1>1. h = [r \in Requests |-> n(r)]
  <2>1. \A r \in Requests : n(r) = [reqs[r] EXCEPT
          !.hit = @ \/ (f # NoFlag /\ reqs[r].flag = f /\ reqs[r].eng \notin Ended)]  BY ReqTypes DEF ReqRecord
  <2> QED BY <2>1 DEF Hit
<1>2. \A r \in Requests : v(r) \in BOOLEAN  BY ReqTypes DEF ReqRecord
<1> HIDE DEF v
<1>3. \A r \in Requests :
         /\ n(r) \in ReqRecord /\ n(r).hit = v(r)
         /\ n(r).conn = reqs[r].conn /\ n(r).flag = reqs[r].flag
         /\ n(r).eng = reqs[r].eng /\ n(r).ends = reqs[r].ends
  BY <1>2, ReqTypes DEF ReqRecord
<1> HIDE DEF n
<1>4. Len(reqs) \in Nat  BY DEF WsTypeOK
<1>5. h \in Seq(ReqRecord) /\ Len(h) = Len(reqs)  BY <1>1, <1>3, <1>4 DEF Requests
<1> USE DEF v
<1> QED BY <1>1, <1>3, <1>5

-----------------------------------------------------------------------------
(* The actions, by what they change *)

\* The engine or the producer of a prompt takes a step: of what the invariant speaks of
\* only the engine's state moves, and it becomes "cancelled" only under a raised flag.
LEMMA TaskStepKeeps ==
    ASSUME WsInv, NEW r \in Requests, NEW q \in ReqRecord,
           reqs' = [reqs EXCEPT ![r] = q], UNCHANGED <<conn, stored, raised, keys>>,
           q.conn = reqs[r].conn, q.flag = reqs[r].flag, q.ends = reqs[r].ends,
           q.hit = reqs[r].hit, reqs[r].eng = "waiting" => q.eng = "waiting",
           q.eng \notin Ended => reqs[r].eng \notin Ended,
           q.eng = "cancelled" =>
               reqs[r].eng = "cancelled" \/ (reqs[r].eng \notin Ended /\ q.flag \in raised)
    PROVE  WsInv'
<1>0. WsTypeOK  BY DEF WsInv
<1>1. /\ reqs' \in Seq(ReqRecord) /\ Len(reqs') = Len(reqs) /\ Requests' = Requests
      /\ reqs'[r] = q /\ \A i \in Requests \ {r} : reqs'[i] = reqs[i]
  BY <1>0, ReqUpdated
<1>2. WsTypeOK'  BY <1>0, <1>1 DEF WsTypeOK, FlagId
<1>3. OneAtATime'  BY <1>1 DEF WsInv, OneAtATime
<1>4. EarlierAnswered' /\ OneStreamEnd'  BY <1>1 DEF WsInv, EarlierAnswered, OneStreamEnd
<1>5. RaisedDuringInference'  BY <1>1 DEF WsInv, RaisedDuringInference
<1>6. LateCancelIsHarmless'  BY <1>1 DEF WsInv, RaisedDuringInference, LateCancelIsHarmless
<1> QED BY <1>2, <1>3, <1>4, <1>5, <1>6 DEF WsInv

LEMMA EngineKeeps ==
    ASSUME WsInv, NEW r \in Requests, EngineStep(r)
    PROVE  WsInv'
<1>0. WsTypeOK  BY DEF WsInv
<1>1. reqs[r] \in ReqRecord  BY <1>0, ReqTypes
<1>2. CASE EngineLock(r)
  <2> DEFINE q == [reqs[r] EXCEPT !.eng = "running"]
  <2>1. /\ q \in ReqRecord /\ q.conn = reqs[r].conn /\ q.flag = reqs[r].flag
        /\ q.ends = reqs[r].ends /\ q.hit = reqs[r].hit /\ q.eng = "running"
    BY <1>1 DEF ReqRecord, EngineStates
  <2>2. reqs' = [reqs EXCEPT ![r] = q]  BY <1>2 DEF EngineLock
  <2> HIDE DEF q
  <2> QED BY <1>2, <2>1, <2>2, TaskStepKeeps DEF EngineLock, Ended
<1>3. CASE EngineFails(r)
  <2> DEFINE q == [reqs[r] EXCEPT !.eng = "failed"]
  <2>1. /\ q \in ReqRecord /\ q.conn = reqs[r].conn /\ q.flag = reqs[r].flag
        /\ q.ends = reqs[r].ends /\ q.hit = reqs[r].hit /\ q.eng = "failed"
    BY <1>1 DEF ReqRecord, EngineStates, Ended
  <2>2. reqs' = [reqs EXCEPT ![r] = q]  BY <1>3 DEF EngineFails
  <2> HIDE DEF q
  <2> QED BY <1>3, <2>1, <2>2, TaskStepKeeps DEF EngineFails, Ended
<1>4. CASE EngineEnds(r)
  <2>1. PICK reason \in {"cancelled", "stop", "length"} :
           /\ reason = "cancelled" <=> (reqs[r].made < MaxTokens /\ Polled(r))
           /\ reqs' = [reqs EXCEPT ![r].eng = reason]
    BY <1>4 DEF EngineEnds
  <2> DEFINE q == [reqs[r] EXCEPT !.eng = reason]
  <2>2. /\ q \in ReqRecord /\ q.conn = reqs[r].conn /\ q.flag = reqs[r].flag
        /\ q.ends = reqs[r].ends /\ q.hit = reqs[r].hit /\ q.eng = reason
    BY <1>1 DEF ReqRecord, EngineStates, Ended
  <2>3. reqs' = [reqs EXCEPT ![r] = q]  BY <2>1
  <2> HIDE DEF q
  <2>4. reason = "cancelled" => q.flag \in raised  BY <2>1, <2>2 DEF Polled
  <2> QED BY <1>4, <2>2, <2>3, <2>4, TaskStepKeeps DEF EngineEnds, Ended
<1>5. ASSUME NEW kept \in BOOLEAN, EngineToken(r, kept) PROVE WsInv'
  <2> DEFINE m == reqs[r].made + 1
             i == IF kept THEN reqs[r].inq + 1 ELSE reqs[r].inq
             o == IF reqs[r].asked /\ reqs[r].over < 2 THEN reqs[r].over + 1 ELSE reqs[r].over
             q == [reqs[r] EXCEPT !.made = m, !.inq = i, !.over = o]
  <2>1. m \in Nat /\ i \in Nat /\ o \in Nat  BY <1>1 DEF ReqRecord
  <2>2. reqs' = [reqs EXCEPT ![r] = q]  BY <1>0, <1>1, <1>5 DEF EngineToken, ReqRecord, WsTypeOK, Requests
  <2> HIDE DEF m, i, o
  <2>3. /\ q \in ReqRecord /\ q.conn = reqs[r].conn /\ q.flag = reqs[r].flag
        /\ q.ends = reqs[r].ends /\ q.hit = reqs[r].hit /\ q.eng = reqs[r].eng
    BY <1>1, <2>1 DEF ReqRecord
  <2> HIDE DEF q
  <2> QED BY <1>5, <2>2, <2>3, TaskStepKeeps DEF EngineToken
<1> QED BY <1>2, <1>3, <1>4, <1>5 DEF EngineStep

LEMMA ProducerKeeps ==
    ASSUME WsInv, NEW r \in Requests, ProducerStep(r)
    PROVE  WsInv'
<1>0. WsTypeOK  BY DEF WsInv
<1>1. reqs[r] \in ReqRecord  BY <1>0, ReqTypes
<1>2. UNCHANGED <<conn, stored, raised, keys>>
  BY DEF ProducerStep, ProducerEnds, ProducerSend, ProducerAbandoned, ProducerFinal, ProducerRecv
<1>3. ASSUME NEW p \in ProducerStates, NEW n \in Nat, NEW i \in Nat, NEW b \in BOOLEAN,
             reqs' = [reqs EXCEPT ![r] = [reqs[r] EXCEPT !.prod = p, !.sent = n,
                                            !.inq = i, !.fin = b]]
      PROVE  WsInv'
  <2> DEFINE q == [reqs[r] EXCEPT !.prod = p, !.sent = n, !.inq = i, !.fin = b]
  <2>1. /\ q \in ReqRecord /\ q.conn = reqs[r].conn /\ q.flag = reqs[r].flag
        /\ q.ends = reqs[r].ends /\ q.hit = reqs[r].hit /\ q.eng = reqs[r].eng
    BY <1>1 DEF ReqRecord
  <2>2. reqs' = [reqs EXCEPT ![r] = q]  BY <1>3
  <2> HIDE DEF q
  <2> QED BY <1>2, <2>1, <2>2, TaskStepKeeps
<1>4. /\ reqs[r].prod \in ProducerStates /\ reqs[r].sent \in Nat /\ reqs[r].sent + 1 \in Nat
      /\ reqs[r].inq \in Nat /\ (reqs[r].inq > 0 => reqs[r].inq - 1 \in Nat)
      /\ reqs[r].fin \in BOOLEAN /\ Rx(r) \in BOOLEAN /\ 0 \in Nat
      /\ {"recv", "send", "final", "done"} = ProducerStates
  BY <1>1 DEF ReqRecord, Rx, ProducerStates
<1>5. CASE ProducerEnds(r)
  <2>1. reqs' = [reqs EXCEPT ![r] = [reqs[r] EXCEPT !.prod = "final", !.sent = reqs[r].sent,
                                       !.inq = reqs[r].inq, !.fin = reqs[r].fin]]
    BY <1>1, <1>5 DEF ProducerEnds, ReqRecord, WsTypeOK, Requests
  <2> QED BY <1>3, <1>4, <2>1
<1>6. CASE ProducerSend(r)
  <2>1. reqs' = [reqs EXCEPT ![r] = [reqs[r] EXCEPT !.prod = "recv", !.sent = reqs[r].sent + 1,
                                       !.inq = reqs[r].inq, !.fin = reqs[r].fin]]
    BY <1>1, <1>6 DEF ProducerSend, EncryptedChunk, StreamChunk, ReqRecord
  <2> QED BY <1>3, <1>4, <2>1
<1>7. CASE ProducerAbandoned(r)
  <2>1. reqs' = [reqs EXCEPT ![r] = [reqs[r] EXCEPT !.prod = "final", !.sent = reqs[r].sent,
                                       !.inq = 0, !.fin = reqs[r].fin]]
    BY <1>0, <1>1, <1>7 DEF ProducerAbandoned, ReqRecord, WsTypeOK, Requests
  <2> QED BY <1>3, <1>4, <2>1
<1>8. CASE ProducerFinal(r)
  <2>1. reqs' = [reqs EXCEPT ![r] = [reqs[r] EXCEPT !.prod = "done", !.sent = reqs[r].sent,
                                       !.inq = reqs[r].inq, !.fin = Rx(r)]]
    BY <1>0, <1>1, <1>8 DEF ProducerFinal, ReqRecord, WsTypeOK, Requests
  <2> QED BY <1>3, <1>4, <2>1
<1>9. ASSUME NEW counted \in BOOLEAN, ProducerRecv(r, counted) PROVE WsInv'
  <2> DEFINE p == IF counted THEN "send" ELSE "recv"
  <2>1. reqs' = [reqs EXCEPT ![r] = [reqs[r] EXCEPT !.prod = p, !.sent = reqs[r].sent,
                                       !.inq = reqs[r].inq - 1, !.fin = reqs[r].fin]]
    <3>1. reqs' = [reqs EXCEPT ![r] = [reqs[r] EXCEPT !.inq = reqs[r].inq - 1, !.prod = p]]
      BY <1>0, <1>1, <1>9 DEF ProducerRecv, ReqRecord, WsTypeOK, Requests
    <3> HIDE DEF p
    <3> QED BY <1>1, <3>1 DEF ReqRecord
  <2>2. p \in ProducerStates /\ reqs[r].inq > 0  BY <1>9 DEF ProducerRecv, ProducerStates
  <2> HIDE DEF p
  <2> QED BY <1>3, <1>4, <2>1, <2>2
<1> QED BY <1>5, <1>6, <1>7, <1>8, <1>9 DEF ProducerStep

\* A connection that answers no prompt, or gives the one it answers up, moves on: its
\* earlier prompts have been answered.
LEMMA ConnStepKeeps ==
    ASSUME WsInv, NEW c \in Conns, NEW q \in ConnRecord,
           conn' = [conn EXCEPT ![c] = q], UNCHANGED <<raised, reqs>>,
           stored' \in [Sessions -> 0 .. MaxGen], keys' \subseteq Sessions,
           q.req = conn[c].req, q.pc \notin {"new", "starting", "streaming"},
           q.pc = "open" => conn[c].pc \in {"new", "open"}
    PROVE  WsInv'
<1>0. WsTypeOK  BY DEF WsInv
<1>1. /\ conn' \in [Conns -> ConnRecord] /\ conn'[c] = q
      /\ \A d \in Conns \ {c} : conn'[d] = conn[d]
      /\ Requests' = Requests /\ Requests \subseteq Nat \ {0}
  BY <1>0 DEF WsTypeOK, Requests
<1>2. WsTypeOK'  BY <1>0, <1>1 DEF WsTypeOK, FlagId
<1>3. \A r \in Requests : reqs[r].conn \in Conns /\ conn'[reqs[r].conn].req = conn[reqs[r].conn].req
  BY <1>0, <1>1, ReqTypes DEF ReqRecord
<1>4. OneAtATime'  BY <1>1, <1>3 DEF WsInv, OneAtATime
<1>5. EarlierAnswered'  BY <1>1, <1>3 DEF WsInv, EarlierAnswered
<1>6. OneStreamEnd'
  <2> SUFFICES ASSUME NEW r \in Requests
               PROVE  LET d == reqs[r].conn IN
                        /\ reqs[r].ends <= 1
                        /\ (conn'[d].pc = "open" \/ (conn'[d].pc # "gone" /\ conn'[d].req > r))
                             => reqs[r].ends = 1
                        /\ (conn'[d].pc \in {"starting", "streaming"} /\ conn'[d].req = r)
                             => reqs[r].ends = 0  BY <1>1 DEF OneStreamEnd
  <2>1. r \in Nat \ {0} /\ r <= conn[reqs[r].conn].req  BY <1>1 DEF WsInv, OneAtATime
  <2>2. conn[c].req \in Nat  BY <1>0 DEF WsTypeOK, ConnRecord
  <2>3. CASE reqs[r].conn # c  BY <1>1, <1>3, <2>3 DEF WsInv, OneStreamEnd
  <2>4. CASE reqs[r].conn = c
    <3>1. conn[c].pc # "new"  BY <2>1, <2>2, <2>4 DEF WsInv, OneAtATime
    <3>2. q.req > r => reqs[r].ends = 1  BY <2>1, <2>2, <2>4 DEF WsInv, EarlierAnswered
    <3> QED BY <1>1, <2>4, <3>1, <3>2 DEF WsInv, OneStreamEnd
  <2> QED BY <2>3, <2>4
<1>7. RaisedDuringInference' /\ LateCancelIsHarmless'  BY <1>1 DEF WsInv, RaisedDuringInference, LateCancelIsHarmless
<1> QED BY <1>2, <1>4, <1>5, <1>6, <1>7 DEF WsInv

\* Connecting, session set-up, hanging up and the end of a connection.
LEMMA QuietKeeps ==
    ASSUME WsInv, NEW c \in Conns,
           \/ Connect(c) \/ Hangup(c) \/ Disconnected(c)
           \/ \E s \in Sessions : \/ SessionInit(c, s) \/ EncryptedSessionInit(c, s)
                                  \/ EncryptedInitRefused(c, s)
    PROVE  WsInv'
<1>0. /\ conn \in [Conns -> ConnRecord] /\ conn[c] \in ConnRecord
      /\ stored \in [Sessions -> 0 .. MaxGen] /\ keys \subseteq Sessions
  BY DEF WsInv, WsTypeOK
<1>1. ASSUME NEW pc \in {"open", "closing", "gone"}, NEW q, q = [conn[c] EXCEPT !.pc = pc]
      PROVE  q \in ConnRecord /\ q.req = conn[c].req /\ q.pc = pc  BY <1>0, <1>1 DEF ConnRecord, ConnStates
<1>2. ASSUME NEW s \in Sessions, NEW q, q = [conn[c] EXCEPT !.sid = s]
      PROVE  q \in ConnRecord /\ q.req = conn[c].req /\ q.pc = conn[c].pc  BY <1>0, <1>2 DEF ConnRecord
<1>3. ASSUME NEW pc \in {"open", "closing", "gone"}, conn' = [conn EXCEPT ![c].pc = pc],
             UNCHANGED <<stored, raised, keys, reqs>>, pc = "open" => conn[c].pc = "new"
      PROVE  WsInv'
  <2> DEFINE q == [conn[c] EXCEPT !.pc = pc]
  <2>1. q \in ConnRecord /\ q.req = conn[c].req /\ q.pc = pc  BY <1>1
  <2>2. conn' = [conn EXCEPT ![c] = q]  BY <1>3
  <2> HIDE DEF q
  <2> QED BY <1>0, <1>3, <2>1, <2>2, ConnStepKeeps
<1>4. ASSUME NEW s \in Sessions, conn[c].pc = "open", conn' = [conn EXCEPT ![c].sid = s],
             UNCHANGED <<raised, reqs>>, stored' \in [Sessions -> 0 .. MaxGen],
             keys' \subseteq Sessions
      PROVE  WsInv'
  <2> DEFINE q == [conn[c] EXCEPT !.sid = s]
  <2>1. q \in ConnRecord /\ q.req = conn[c].req /\ q.pc = "open"  BY <1>2, <1>4
  <2>2. conn' = [conn EXCEPT ![c] = q]  BY <1>4
  <2> HIDE DEF q
  <2> QED BY <1>4, <2>1, <2>2, ConnStepKeeps
<1>5. CASE Connect(c)  BY <1>3, <1>5 DEF Connect
<1>6. CASE Hangup(c)  BY <1>3, <1>6 DEF Hangup
<1>7. CASE Disconnected(c)  BY <1>3, <1>7 DEF Disconnected
<1>8. ASSUME NEW s \in Sessions, SessionInit(c, s) PROVE WsInv'
  <2>1. stored' \in [Sessions -> 0 .. MaxGen]  BY <1>0, <1>8, WsAssumption DEF SessionInit
  <2> QED BY <1>0, <1>4, <1>8, <2>1 DEF SessionInit
<1>9. ASSUME NEW s \in Sessions, EncryptedSessionInit(c, s) PROVE WsInv'
  <2>1. stored' \in [Sessions -> 0 .. MaxGen]  BY <1>0, <1>9, WsAssumption DEF EncryptedSessionInit
  <2> QED BY <1>0, <1>4, <1>9, <2>1 DEF EncryptedSessionInit
<1>10. ASSUME NEW s \in Sessions, EncryptedInitRefused(c, s) PROVE WsInv'  BY <1>0, <1>4, <1>10 DEF EncryptedInitRefused
<1> QED BY <1>5, <1>6, <1>7, <1>8, <1>9, <1>10

\* A stream_cancel between prompts raises the flag of whoever uses it now.
LEMMA StreamCancelKeeps ==
    ASSUME WsInv, NEW c \in Conns, NEW s \in Sessions, StreamCancel(c, s)
    PROVE  WsInv'
<1> SUFFICES ASSUME NEW f, f = StoredFlag(s) PROVE WsInv'  OBVIOUS
<1>0. WsTypeOK /\ f \in FlagId \cup {NoFlag}  BY FlagTypes DEF WsInv
<1>1. reqs' = Hit(f) /\ UNCHANGED <<conn, stored, keys>>
      /\ raised' = IF f = NoFlag THEN raised ELSE raised \cup {f}
  BY DEF StreamCancel, Raise
<1>2. /\ reqs' \in Seq(ReqRecord) /\ Len(reqs') = Len(reqs)
      /\ \A r \in Requests :
            /\ reqs'[r].conn = reqs[r].conn /\ reqs'[r].flag = reqs[r].flag
            /\ reqs'[r].eng = reqs[r].eng /\ reqs'[r].ends = reqs[r].ends
            /\ reqs'[r].hit = (reqs[r].hit \/ (f # NoFlag /\ reqs[r].flag = f
                                                /\ reqs[r].eng \notin Ended))
  BY <1>0, <1>1, HitEffect
<1>3. Requests' = Requests  BY <1>2 DEF Requests
<1>4. WsTypeOK'  BY <1>0, <1>1, <1>2 DEF WsTypeOK, FlagId
<1>5. OneAtATime' /\ EarlierAnswered' /\ OneStreamEnd'
  BY <1>1, <1>2, <1>3 DEF WsInv, OneAtATime, EarlierAnswered, OneStreamEnd
<1>6. RaisedDuringInference' /\ LateCancelIsHarmless'
  BY ZenonT(40), <1>1, <1>2, <1>3 DEF WsInv, RaisedDuringInference, LateCancelIsHarmless
<1> QED BY <1>4, <1>5, <1>6 DEF WsInv

\* A prompt is accepted on an open connection, with a flag that is down.
LEMMA StartKeeps ==
    ASSUME WsInv, NEW c \in Conns, NEW f \in FlagId \cup {NoFlag}, NEW enc \in BOOLEAN,
           conn[c].pc = "open", StartRequest(c, f, enc), UNCHANGED <<stored, keys>>
    PROVE  WsInv'
<1>0. WsTypeOK  BY DEF WsInv
<1> DEFINE q == NewRequest(c, f, enc)
           n == Len(reqs) + 1
           k == [conn[c] EXCEPT !.pc = "starting", !.req = n]
<1>1. /\ q \in ReqRecord /\ q.conn = c /\ q.flag = f /\ q.eng = "waiting" /\ q.ends = 0
      /\ q.hit = FALSE
  BY DEF NewRequest, ReqRecord, EngineStates, ProducerStates
<1>2. reqs' = Append(reqs, q) /\ raised' = raised \ {f}  BY DEF StartRequest
<1> HIDE DEF q
<1>3. /\ reqs' \in Seq(ReqRecord) /\ Len(reqs') = n
      /\ Requests' = Requests \cup {n} /\ Len(reqs) \in Nat
      /\ reqs'[n] = q /\ \A i \in Requests : reqs'[i] = reqs[i]
  BY <1>0, <1>1, <1>2, ReqAppended
<1>4. n \in Nat \ {0} /\ n \notin Requests /\ \A r \in Requests : r \in Nat /\ r < n  BY <1>3 DEF Requests
<1>5. conn' = [conn EXCEPT ![c] = k] /\ conn[c] \in ConnRecord /\ conn \in [Conns -> ConnRecord]
  BY <1>0 DEF StartRequest, WsTypeOK
<1> HIDE DEF n
<1>6. k \in ConnRecord /\ k.pc = "starting" /\ k.req = n  BY <1>4, <1>5 DEF ConnRecord, ConnStates
<1> HIDE DEF k
<1>7. /\ conn' \in [Conns -> ConnRecord] /\ conn'[c] = k
      /\ \A d \in Conns \ {c} : conn'[d] = conn[d]
  BY <1>5, <1>6
<1>8. WsTypeOK'  BY <1>0, <1>2, <1>3, <1>7 DEF WsTypeOK, FlagId
<1>9. \A r \in Requests : reqs[r] \in ReqRecord /\ reqs[r].conn \in Conns /\ reqs[r].ends \in Nat
  BY <1>0, ReqTypes DEF ReqRecord
<1>10. \A d \in Conns : conn[d].req \in Nat /\ conn[d].req <= Len(reqs)
  BY <1>0 DEF WsInv, OneAtATime, WsTypeOK, ConnRecord
<1>11. OneAtATime'
  <2>1. ASSUME NEW d \in Conns
        PROVE  /\ conn'[d].pc = "new" => conn'[d].req = 0
               /\ conn'[d].pc \in {"starting", "streaming"} =>
                     conn'[d].req \in Requests' /\ reqs'[conn'[d].req].conn = d
               /\ conn'[d].pc = "starting" => reqs'[conn'[d].req].eng = "waiting"
               /\ conn'[d].req <= Len(reqs')
    <3>1. CASE d = c  BY <1>1, <1>3, <1>4, <1>6, <1>7, <3>1
    <3>2. CASE d # c
      <4>1. /\ conn'[d] = conn[d] /\ conn[d].req <= Len(reqs')  BY <1>3, <1>7, <1>10, <3>2 DEF n
      <4> QED BY <1>3, <4>1, <3>2 DEF WsInv, OneAtATime
    <3> QED BY <3>1, <3>2
  <2>2. ASSUME NEW r \in Requests' PROVE r <= conn'[reqs'[r].conn].req
    <3>1. CASE r = n  BY <1>1, <1>3, <1>4, <1>6, <1>7, <3>1
    <3>2. CASE r \in Requests  BY <1>3, <1>4, <1>6, <1>7, <1>9, <3>2 DEF WsInv, OneAtATime
    <3> QED BY <1>3, <3>1, <3>2
  <2> QED BY <2>1, <2>2 DEF OneAtATime
<1>12. \A r \in Requests : reqs[r].conn = c => reqs[r].ends = 1  BY <1>9 DEF WsInv, OneStreamEnd
<1>13. EarlierAnswered' /\ OneStreamEnd'
  <2>1. ASSUME NEW r \in Requests'
        PROVE  LET d == reqs'[r].conn IN
                 /\ r < conn'[d].req => reqs'[r].ends = 1
                 /\ reqs'[r].ends <= 1
                 /\ (conn'[d].pc = "open" \/ (conn'[d].pc # "gone" /\ conn'[d].req > r))
                      => reqs'[r].ends = 1
                 /\ (conn'[d].pc \in {"starting", "streaming"} /\ conn'[d].req = r)
                      => reqs'[r].ends = 0
    <3>1. CASE r = n  BY <1>1, <1>3, <1>4, <1>6, <1>7, <3>1
    <3>2. CASE r \in Requests /\ reqs[r].conn = c  BY <1>3, <1>4, <1>6, <1>7, <1>12, <3>2
    <3>3. CASE r \in Requests /\ reqs[r].conn # c  BY <1>3, <1>7, <1>9, <3>3 DEF WsInv, EarlierAnswered, OneStreamEnd
    <3> QED BY <1>3, <3>1, <3>2, <3>3
  <2> QED BY <2>1 DEF EarlierAnswered, OneStreamEnd
<1>14. RaisedDuringInference' /\ LateCancelIsHarmless'
  BY <1>1, <1>2, <1>3 DEF WsInv, RaisedDuringInference, LateCancelIsHarmless
<1> QED BY <1>8, <1>11, <1>13, <1>14 DEF WsInv

LEMMA PromptKeeps ==
    ASSUME WsInv, NEW c \in Conns,
           Prompt(c) \/ \E s \in Sessions : EncryptedPrompt(c, s)
    PROVE  WsInv'
<1>1. \A s : StoredFlag(s) \in FlagId \cup {NoFlag}  BY FlagTypes DEF WsInv
<1>2. CASE Prompt(c)  BY <1>1, <1>2, StartKeeps DEF Prompt
<1>3. ASSUME NEW s \in Sessions, EncryptedPrompt(c, s) PROVE WsInv'
  BY <1>1, <1>3, StartKeeps DEF EncryptedPrompt, EncryptedStart
<1> QED BY <1>2, <1>3

\* The handler gets its stream from the engine.
LEMMA StreamAcceptedKeeps ==
    ASSUME WsInv, NEW c \in Conns, StreamAccepted(c)
    PROVE  WsInv'
<1> SUFFICES ASSUME NEW r, r = conn[c].req PROVE WsInv'  OBVIOUS
<1>0. /\ WsTypeOK /\ conn[c].pc = "starting" /\ r \in Requests /\ reqs[r].conn = c
      /\ reqs[r].eng = "waiting"
  BY DEF WsInv, StreamAccepted, OneAtATime
<1>1. reqs[r] \in ReqRecord /\ conn[c] \in ConnRecord /\ conn \in [Conns -> ConnRecord]  BY <1>0, ReqTypes DEF WsTypeOK
<1> DEFINE q == [reqs[r] EXCEPT !.eng = "queued"]
           k == [conn[c] EXCEPT !.pc = "streaming"]
<1>2. /\ q \in ReqRecord /\ q.conn = c /\ q.flag = reqs[r].flag
      /\ q.ends = reqs[r].ends /\ q.hit = reqs[r].hit /\ q.eng = "queued"
  BY <1>0, <1>1 DEF ReqRecord, EngineStates
<1>3. k \in ConnRecord /\ k.pc = "streaming" /\ k.req = r  BY <1>1 DEF ConnRecord, ConnStates
<1>4. /\ reqs' = [reqs EXCEPT ![r] = q] /\ conn' = [conn EXCEPT ![c] = k]
      /\ UNCHANGED <<stored, raised, keys>>
  BY DEF StreamAccepted
<1> HIDE DEF q, k
<1>5. /\ reqs' \in Seq(ReqRecord) /\ Len(reqs') = Len(reqs) /\ Requests' = Requests
      /\ reqs'[r] = q /\ \A i \in Requests \ {r} : reqs'[i] = reqs[i]
  BY <1>0, <1>2, <1>4, ReqUpdated
<1>6. /\ conn' \in [Conns -> ConnRecord] /\ conn'[c] = k
      /\ \A d \in Conns \ {c} : conn'[d] = conn[d]
  BY <1>1, <1>3, <1>4
<1>7. WsTypeOK'  BY <1>0, <1>4, <1>5, <1>6 DEF WsTypeOK, FlagId
<1>8. \A i \in Requests : /\ reqs[i].conn \in Conns /\ reqs'[i].conn = reqs[i].conn
                          /\ reqs'[i].ends = reqs[i].ends
  BY ZenonT(40), <1>0, <1>2, <1>5, ReqTypes DEF ReqRecord
<1>9. \A d \in Conns : conn'[d].req = conn[d].req  BY <1>3, <1>6
<1>10. OneAtATime'  BY <1>0, <1>3, <1>5, <1>6, <1>8, <1>9 DEF WsInv, OneAtATime
<1>11. EarlierAnswered'  BY <1>5, <1>8, <1>9 DEF WsInv, EarlierAnswered
<1>12. OneStreamEnd'  BY <1>0, <1>3, <1>5, <1>6, <1>8, <1>9 DEF WsInv, OneStreamEnd
<1>13. RaisedDuringInference' /\ LateCancelIsHarmless'
  BY <1>0, <1>2, <1>4, <1>5 DEF WsInv, RaisedDuringInference, LateCancelIsHarmless, Ended
<1> QED BY <1>7, <1>10, <1>11, <1>12, <1>13 DEF WsInv

\* A connection that answers a prompt sends its stream_end and is open again, whatever
\* happens to the engine and the flags.
LEMMA AnswerKeeps ==
    ASSUME WsInv, NEW c \in Conns, NEW r, r = conn[c].req,
           conn[c].pc \in {"starting", "streaming"}, conn' = [conn EXCEPT ![c].pc = "open"],
           UNCHANGED <<stored, keys>>, raised' \subseteq FlagId,
           reqs' \in Seq(ReqRecord), Len(reqs') = Len(reqs),
           reqs'[r].conn = c, reqs'[r].ends = reqs[r].ends + 1,
           \A i \in Requests \ {r} : /\ reqs'[i].conn = reqs[i].conn
                                     /\ reqs'[i].ends = reqs[i].ends
                                     /\ reqs'[i].eng = reqs[i].eng,
           RaisedDuringInference', LateCancelIsHarmless'
    PROVE  WsInv'
<1>0. WsTypeOK /\ r \in Requests /\ reqs[r].conn = c /\ reqs[r].ends = 0  BY DEF WsInv, OneAtATime, OneStreamEnd
<1>1. /\ conn' \in [Conns -> ConnRecord] /\ conn'[c].pc = "open"
      /\ \A d \in Conns : conn'[d].req = conn[d].req
      /\ \A d \in Conns \ {c} : conn'[d] = conn[d]
      /\ Requests' = Requests
  BY <1>0 DEF WsTypeOK, ConnRecord, ConnStates, Requests
<1>2. WsTypeOK'  BY <1>0, <1>1 DEF WsTypeOK, FlagId
<1>3. /\ \A i \in Requests : reqs[i].conn \in Conns /\ reqs'[i].conn = reqs[i].conn
      /\ \A i \in Requests : i \in Nat /\ conn[reqs[i].conn].req \in Nat
  <2>1. \A i \in Requests : reqs[i].conn \in Conns  BY <1>0, ReqTypes DEF ReqRecord
  <2>2. \A i \in Requests : reqs'[i].conn = reqs[i].conn  BY <1>0
  <2>3. \A d \in Conns : conn[d].req \in Nat  BY <1>0 DEF WsTypeOK, ConnRecord
  <2>4. \A i \in Requests : i \in Nat  BY DEF Requests
  <2> QED BY <2>1, <2>2, <2>3, <2>4
<1>4. \A d \in Conns \ {c} : conn[d].pc \in {"starting", "streaming"} => conn[d].req # r  BY <1>0 DEF WsInv, OneAtATime
<1>5. OneAtATime'  BY <1>1, <1>3, <1>4 DEF WsInv, OneAtATime
<1>6. \A i \in Requests : reqs[i].conn = c => reqs'[i].ends = 1
  <2> SUFFICES ASSUME NEW i \in Requests, reqs[i].conn = c PROVE reqs'[i].ends = 1  OBVIOUS
  <2>1. i <= r  BY DEF WsInv, OneAtATime
  <2>2. CASE i = r  BY <1>0, <2>2
  <2>3. CASE i # r  BY <1>3, <2>1, <2>3 DEF WsInv, EarlierAnswered
  <2> QED BY <2>2, <2>3
<1>7. EarlierAnswered'  BY <1>0, <1>1, <1>3, <1>6 DEF WsInv, EarlierAnswered
<1>8. OneStreamEnd'
  <2>1. ASSUME NEW i \in Requests
        PROVE  LET d == reqs'[i].conn IN
                 /\ reqs'[i].ends <= 1
                 /\ (conn'[d].pc = "open" \/ (conn'[d].pc # "gone" /\ conn'[d].req > i))
                      => reqs'[i].ends = 1
                 /\ (conn'[d].pc \in {"starting", "streaming"} /\ conn'[d].req = i)
                      => reqs'[i].ends = 0
    <3>1. CASE reqs[i].conn = c  BY <1>1, <1>3, <1>6, <3>1
    <3>2. CASE reqs[i].conn # c  BY <1>0, <1>1, <1>3, <3>2 DEF WsInv, OneStreamEnd
    <3> QED BY <3>1, <3>2
  <2> QED BY <1>1, <2>1 DEF OneStreamEnd
<1> QED BY <1>2, <1>5, <1>7, <1>8 DEF WsInv

LEMMA RefusedKeeps ==
    ASSUME WsInv, NEW c \in Conns, StreamRefused(c) \/ EncryptedStreamRefused(c)
    PROVE  WsInv'
<1> SUFFICES ASSUME NEW r, r = conn[c].req PROVE WsInv'  OBVIOUS
<1>0. /\ WsTypeOK /\ conn[c].pc = "starting" /\ r \in Requests /\ reqs[r].conn = c
  BY DEF WsInv, StreamRefused, EncryptedStreamRefused, OneAtATime
<1>1. reqs[r] \in ReqRecord /\ reqs[r].ends + 1 \in Nat  BY <1>0, ReqTypes DEF ReqRecord
<1> DEFINE n == reqs[r].ends + 1
           q == [reqs[r] EXCEPT !.eng = "failed", !.prod = "done", !.ends = n]
<1>2. /\ reqs' = [reqs EXCEPT ![r] = q] /\ conn' = [conn EXCEPT ![c].pc = "open"]
      /\ UNCHANGED <<stored, raised, keys>>
  <2>1. /\ reqs' = Refused(r) /\ conn' = [conn EXCEPT ![c].pc = "open"]
        /\ UNCHANGED <<stored, raised, keys>>
    BY DEF StreamRefused, EncryptedStreamRefused
  <2>2. Refused(r) = [reqs EXCEPT ![r] = q]  BY <1>0, <1>1 DEF Refused, WsTypeOK, Requests, ReqRecord
  <2> QED BY <2>1, <2>2
<1>3. n \in Nat  BY <1>1
<1> HIDE DEF n
<1>4. q \in ReqRecord /\ q.conn = reqs[r].conn /\ q.eng = "failed" /\ q.ends = n
  BY <1>1, <1>3 DEF ReqRecord, EngineStates, Ended, ProducerStates
<1> HIDE DEF q
<1>5. /\ reqs' \in Seq(ReqRecord) /\ Len(reqs') = Len(reqs) /\ Requests' = Requests
      /\ reqs'[r] = q /\ \A i \in Requests \ {r} : reqs'[i] = reqs[i]
  BY <1>0, <1>2, <1>4, ReqUpdated
<1>6. RaisedDuringInference' /\ LateCancelIsHarmless'
  BY <1>2, <1>4, <1>5 DEF WsInv, RaisedDuringInference, LateCancelIsHarmless, Ended
<1>7. raised' \subseteq FlagId  BY <1>0, <1>2 DEF WsTypeOK
<1>8. reqs'[r].conn = c /\ reqs'[r].ends = reqs[r].ends + 1  BY <1>0, <1>4, <1>5 DEF n
<1> QED BY <1>0, <1>2, <1>5, <1>6, <1>7, <1>8, AnswerKeeps

LEMMA EndKeeps ==
    ASSUME WsInv, NEW c \in Conns, StreamEnd(c) \/ EncryptedStreamEnd(c)
    PROVE  WsInv'
<1> SUFFICES ASSUME NEW r, r = conn[c].req PROVE WsInv'  OBVIOUS
<1>0. /\ WsTypeOK /\ conn[c].pc = "streaming" /\ r \in Requests /\ reqs[r].conn = c
  BY DEF WsInv, StreamEnd, EncryptedStreamEnd, OneAtATime
<1>1. reqs[r] \in ReqRecord /\ reqs[r].ends + 1 \in Nat  BY <1>0, ReqTypes DEF ReqRecord
<1> DEFINE n == reqs[r].ends + 1
           q == [reqs[r] EXCEPT !.ends = n]
<1>2. /\ reqs' = [reqs EXCEPT ![r] = q] /\ conn' = [conn EXCEPT ![c].pc = "open"]
      /\ UNCHANGED <<stored, raised, keys>>
  BY DEF StreamEnd, EncryptedStreamEnd, EndOf, AfterFinish
<1>3. n \in Nat  BY <1>1
<1> HIDE DEF n
<1>4. /\ q \in ReqRecord /\ q.conn = reqs[r].conn /\ q.eng = reqs[r].eng /\ q.ends = n
      /\ q.flag = reqs[r].flag /\ q.hit = reqs[r].hit
  BY <1>1, <1>3 DEF ReqRecord
<1> HIDE DEF q
<1>5. /\ reqs' \in Seq(ReqRecord) /\ Len(reqs') = Len(reqs) /\ Requests' = Requests
      /\ reqs'[r] = q /\ \A i \in Requests \ {r} : reqs'[i] = reqs[i]
  BY <1>0, <1>2, <1>4, ReqUpdated
<1>6. RaisedDuringInference' /\ LateCancelIsHarmless'
  BY <1>2, <1>4, <1>5 DEF WsInv, RaisedDuringInference, LateCancelIsHarmless
<1>7. raised' \subseteq FlagId  BY <1>0, <1>2 DEF WsTypeOK
<1>8. reqs'[r].conn = c /\ reqs'[r].ends = reqs[r].ends + 1  BY <1>0, <1>4, <1>5 DEF n
<1> QED BY ZenonT(40), <1>0, <1>2, <1>5, <1>6, <1>7, <1>8, AnswerKeeps

\* A stream_cancel in mid-stream raises the flag of the prompt and of every other
\* inference that has the same flag.
LEMMA CancelKeeps ==
    ASSUME WsInv, NEW c \in Conns, CancelStream(c) \/ CancelEncryptedStream(c)
    PROVE  WsInv'
<1> SUFFICES ASSUME NEW r, r = conn[c].req, NEW f, f = reqs[r].flag, NEW h, h = Hit(f)
             PROVE  WsInv'  OBVIOUS
<1>0. /\ WsTypeOK /\ conn[c].pc = "streaming" /\ r \in Requests /\ reqs[r].conn = c
  BY DEF WsInv, CancelStream, CancelEncryptedStream, OneAtATime
<1>1. reqs[r] \in ReqRecord /\ f \in FlagId \cup {NoFlag}  BY <1>0, ReqTypes DEF ReqRecord
<1> DEFINE hit(i) == reqs[i].hit \/ (f # NoFlag /\ reqs[i].flag = f /\ reqs[i].eng \notin Ended)
<1>13. h \in Seq(ReqRecord) /\ Len(h) = Len(reqs)  BY <1>0, HitEffect
<1>2. \A i \in Requests :
         /\ h[i].conn = reqs[i].conn /\ h[i].flag = reqs[i].flag
         /\ h[i].eng = reqs[i].eng /\ h[i].ends = reqs[i].ends /\ h[i].hit = hit(i)
  BY <1>0, HitEffect
<1> HIDE DEF hit
<1>3. /\ reqs' = [h EXCEPT ![r].ends = @ + 1, ![r].asked = f # NoFlag]
      /\ raised' = (IF f = NoFlag THEN raised ELSE raised \cup {f})
      /\ conn' = [conn EXCEPT ![c].pc = "open"] /\ UNCHANGED <<stored, keys>>
  BY DEF CancelStream, CancelEncryptedStream, CancelOf, Raise
<1>4. h[r] \in ReqRecord /\ h[r].ends + 1 \in Nat /\ (f # NoFlag) \in BOOLEAN
  <2>1. h[r] \in ReqRecord  BY <1>0, <1>13 DEF Requests
  <2>2. h[r].ends \in Nat  BY <2>1 DEF ReqRecord
  <2> QED BY <2>1, <2>2
<1> DEFINE n == h[r].ends + 1
           a == f # NoFlag
           q == [h[r] EXCEPT !.ends = n, !.asked = a]
<1>5. reqs' = [h EXCEPT ![r] = q]  BY <1>0, <1>13, <1>3, <1>4 DEF Requests, ReqRecord
<1>6. n \in Nat /\ a \in BOOLEAN  BY <1>4
<1> HIDE DEF n, a
<1>7. /\ q \in ReqRecord /\ q.conn = h[r].conn /\ q.eng = h[r].eng /\ q.ends = n
      /\ q.flag = h[r].flag /\ q.hit = h[r].hit
  BY ZenonT(40), <1>4, <1>6 DEF ReqRecord
<1> HIDE DEF q
<1>8. /\ reqs' \in Seq(ReqRecord) /\ Len(reqs') = Len(reqs) /\ Requests' = Requests
      /\ reqs'[r] = q /\ \A i \in Requests \ {r} : reqs'[i] = h[i]
  <2>1. r \in 1 .. Len(h) /\ q \in ReqRecord  BY <1>0, <1>13, <1>7 DEF Requests
  <2>2. /\ reqs' \in Seq(ReqRecord) /\ Len(reqs') = Len(h)
        /\ reqs'[r] = q /\ \A i \in 1 .. Len(h) : i # r => reqs'[i] = h[i]
    BY ONLY <1>13, <1>5, <2>1
  <2> QED BY <1>13, <2>2 DEF Requests
<1>9. \A i \in Requests :
         /\ reqs'[i].flag = reqs[i].flag /\ reqs'[i].eng = reqs[i].eng
         /\ reqs'[i].hit = hit(i)
  <2>1. reqs'[r].flag = h[r].flag /\ reqs'[r].eng = h[r].eng /\ reqs'[r].hit = h[r].hit  BY <1>7, <1>8
  <2> QED BY ONLY <1>0, <1>2, <1>8, <2>1
<1>10. RaisedDuringInference' /\ LateCancelIsHarmless'
  <2>1. /\ \A i \in Requests : reqs[i].eng \notin Ended /\ reqs[i].flag \in raised => reqs[i].hit
        /\ \A i \in Requests : reqs[i].eng = "cancelled" => reqs[i].hit
    BY DEF WsInv, RaisedDuringInference, LateCancelIsHarmless
  <2>2. \A i \in Requests : reqs[i].flag \in raised' =>
           reqs[i].flag \in raised \/ (f # NoFlag /\ reqs[i].flag = f)  BY ONLY <1>3
  <2>3. \A i \in Requests :
           /\ reqs[i].eng \notin Ended /\ reqs[i].flag \in raised' => hit(i)
           /\ reqs[i].eng = "cancelled" => hit(i)
    BY ONLY <2>1, <2>2 DEF hit
  <2>4. \A i \in Requests' :
           /\ reqs'[i].eng \notin Ended /\ reqs'[i].flag \in raised' => reqs'[i].hit
           /\ reqs'[i].eng = "cancelled" => reqs'[i].hit
    BY ONLY <1>8, <1>9, <2>3 DEF hit
  <2> QED BY ONLY <2>4 DEF RaisedDuringInference, LateCancelIsHarmless, Ended
<1>11. raised' \subseteq FlagId  BY <1>0, <1>1, <1>3 DEF WsTypeOK
<1>12. /\ reqs'[r].conn = c /\ reqs'[r].ends = reqs[r].ends + 1
       /\ \A i \in Requests \ {r} : /\ reqs'[i].conn = reqs[i].conn
                                    /\ reqs'[i].ends = reqs[i].ends
                                    /\ reqs'[i].eng = reqs[i].eng
  <2>1. reqs'[r].conn = h[r].conn /\ reqs'[r].ends = h[r].ends + 1  BY <1>7, <1>8 DEF n
  <2> QED BY ONLY <1>0, <1>2, <1>8, <2>1
<1> QED BY ONLY ZenonT(40), WsInv, c \in Conns, r = conn[c].req, <1>0, <1>3, <1>8, <1>10, <1>11, <1>12, AnswerKeeps

-----------------------------------------------------------------------------
(* The theorems *)

LEMMA WsInvInit == WsInit => WsInv
<1> SUFFICES ASSUME WsInit PROVE WsInv  OBVIOUS
<1>1. reqs = <<>> /\ Requests = {} /\ Len(reqs) = 0  BY DEF WsInit, Requests
<1>2. WsTypeOK  BY <1>1, WsAssumption DEF WsInit, WsTypeOK, ConnRecord, ConnStates
<1>3. OneAtATime  BY <1>1 DEF WsInit, OneAtATime
<1> QED BY <1>1, <1>2, <1>3 DEF WsInv, EarlierAnswered, OneStreamEnd, RaisedDuringInference, LateCancelIsHarmless

LEMMA WsInvNext == WsInv /\ [WsNext]_wsVars => WsInv'
<1> SUFFICES ASSUME WsInv, [WsNext]_wsVars PROVE WsInv'  OBVIOUS
<1>1. ASSUME NEW c \in Conns, ClientStep(c) PROVE WsInv'
  BY <1>1, QuietKeeps, StreamCancelKeeps, PromptKeeps, CancelKeeps DEF ClientStep
<1>2. ASSUME NEW c \in Conns, HandlerStep(c) PROVE WsInv'
  BY <1>2, QuietKeeps, RefusedKeeps, StreamAcceptedKeeps, EndKeeps DEF HandlerStep
<1>3. ASSUME NEW r \in Requests, EngineStep(r) \/ ProducerStep(r) PROVE WsInv'  BY <1>3, EngineKeeps, ProducerKeeps
<1>4. CASE UNCHANGED wsVars  BY <1>4 DEF wsVars, WsInv, WsTypeOK, OneAtATime, EarlierAnswered, OneStreamEnd,
             RaisedDuringInference, LateCancelIsHarmless, Requests, FlagId
<1> QED BY <1>1, <1>2, <1>3, <1>4 DEF WsNext

\* The inductive invariant holds for any number of connections, sessions and prompts.
THEOREM WebSocketInvariant == WsSpec => []WsInv  BY WsInvInit, WsInvNext, PTL DEF WsSpec

\* Whatever the order of refusals, completions, cancellations and disconnects, a prompt
\* gets at most one stream_end, and exactly one if its connection goes on (server.rs
\* handle_websocket).
THEOREM StreamsEndOnce == WsSpec => []OneStreamEnd
<1>1. WsInv => OneStreamEnd  BY DEF WsInv
<1> QED BY <1>1, WebSocketInvariant, PTL

\* An inference is cancelled only by a stream_cancel sent while it was under way: the
\* reset of the flag when a prompt starts (server.rs 2504, 3105) takes back an older one,
\* even when several connections share the session and its flag.
THEOREM CancelsAreInTime == WsSpec => []LateCancelIsHarmless
<1>1. WsInv => LateCancelIsHarmless  BY DEF WsInv
<1> QED BY <1>1, WebSocketInvariant, PTL

-----------------------------------------------------------------------------
(* Batches.  Requests of a queue are told apart by their ids, and each id  *)
(* is in one place.                                                        *)

BatchReq == [id : Nat, model : BatchModels]
DistinctIds(q) == \A i, j \in 1 .. Len(q) : q[i].id = q[j].id => i = j

LEMMA IdsJoined ==
    ASSUME NEW p \in Seq(BatchReq), NEW q \in Seq(BatchReq)
    PROVE  /\ p \o q \in Seq(BatchReq) /\ Ids(p \o q) = Ids(p) \cup Ids(q)
           /\ DistinctIds(p) /\ DistinctIds(q) /\ Ids(p) \cap Ids(q) = {} => DistinctIds(p \o q)
<1> DEFINE r == p \o q
<1>1. r \in Seq(BatchReq) /\ Len(r) = Len(p) + Len(q) /\ Len(p) \in Nat /\ Len(q) \in Nat  OBVIOUS
<1>2. \A i \in 1 .. Len(p) : r[i] = p[i]  OBVIOUS
<1>3. \A i \in 1 .. Len(q) : r[Len(p) + i] = q[i]  OBVIOUS
<1> HIDE DEF r
<1>4. \A i \in 1 .. Len(r) : i \in 1 .. Len(p) \/ (i - Len(p) \in 1 .. Len(q) /\ i = Len(p) + (i - Len(p)))  BY <1>1
<1>5. \A i \in 1 .. Len(p) : i \in 1 .. Len(r)  BY <1>1
<1>6. \A i \in 1 .. Len(q) : Len(p) + i \in 1 .. Len(r)  BY <1>1
<1>9. ASSUME NEW j \in 1 .. Len(r), j - Len(p) \in 1 .. Len(q) PROVE r[j] = q[j - Len(p)]
  <2> DEFINE k == j - Len(p)
  <2>1. k \in 1 .. Len(q) /\ Len(p) + k = j  BY <1>1, <1>9
  <2> HIDE DEF k
  <2>2. r[j] = q[k]  BY <1>3, <2>1
  <2> QED BY <2>2 DEF k
<1>7. Ids(r) = Ids(p) \cup Ids(q)
  <2>1. ASSUME NEW x \in Ids(r) PROVE x \in Ids(p) \cup Ids(q)
    <3>1. PICK i \in 1 .. Len(r) : r[i].id = x  BY DEF Ids
    <3>2. CASE i \in 1 .. Len(p)  BY <1>2, <3>1, <3>2 DEF Ids
    <3>3. CASE i - Len(p) \in 1 .. Len(q) /\ i = Len(p) + (i - Len(p))  BY <1>3, <3>1, <3>3 DEF Ids
    <3> QED BY <1>4, <3>2, <3>3
  <2>2. ASSUME NEW x \in Ids(p) PROVE x \in Ids(r)  BY <1>2, <1>5 DEF Ids
  <2>3. ASSUME NEW x \in Ids(q) PROVE x \in Ids(r)  BY <1>3, <1>6 DEF Ids
  <2> QED BY <2>1, <2>2, <2>3
<1>8. ASSUME DistinctIds(p), DistinctIds(q), Ids(p) \cap Ids(q) = {} PROVE DistinctIds(r)
  <2> SUFFICES ASSUME NEW i \in 1 .. Len(r), NEW j \in 1 .. Len(r), r[i].id = r[j].id PROVE i = j  BY DEF DistinctIds
  <2>1. CASE i \in 1 .. Len(p) /\ j \in 1 .. Len(p)  BY <1>2, <1>8, <2>1 DEF DistinctIds
  <2>2. CASE i - Len(p) \in 1 .. Len(q) /\ j - Len(p) \in 1 .. Len(q)
    <3>1. r[i] = q[i - Len(p)] /\ r[j] = q[j - Len(p)]  BY <1>9, <2>2
    <3>2. i - Len(p) = j - Len(p)  BY <1>8, <2>2, <3>1 DEF DistinctIds
    <3> QED BY <1>1, <3>2
  <2>3. CASE i \in 1 .. Len(p) /\ j - Len(p) \in 1 .. Len(q)
    <3>1. r[i].id \in Ids(p) /\ r[j].id \in Ids(q)  BY <1>2, <1>9, <2>3 DEF Ids
    <3> QED BY <1>8, <3>1
  <2>4. CASE i - Len(p) \in 1 .. Len(q) /\ j \in 1 .. Len(p)
    <3>1. r[i].id \in Ids(q) /\ r[j].id \in Ids(p)  BY <1>2, <1>9, <2>4 DEF Ids
    <3> QED BY <1>8, <3>1
  <2> QED BY <1>4, <2>1, <2>2, <2>3, <2>4
<1> QED BY <1>1, <1>7, <1>8 DEF r

LEMMA IdsOfNone == <<>> \in Seq(BatchReq) /\ Ids(<<>>) = {} /\ DistinctIds(<<>>)  BY DEF Ids, DistinctIds

LEMMA IdsOfOne == ASSUME NEW r \in BatchReq PROVE <<r>> \in Seq(BatchReq) /\ Ids(<<r>>) = {r.id} /\ DistinctIds(<<r>>)
<1> DEFINE q == <<r>>
<1>1. q \in Seq(BatchReq) /\ Len(q) = 1 /\ q[1] = r  OBVIOUS
<1> HIDE DEF q
<1>2. 1 .. Len(q) = {1}  BY <1>1
<1>3. Ids(q) = {r.id} /\ DistinctIds(q)  BY <1>1, <1>2 DEF Ids, DistinctIds
<1> QED BY <1>1, <1>3 DEF q

\* What is kept of a queue is in it, and each entry once.
LEMMA OnlyKeeps ==
    ASSUME NEW s \in Seq(BatchReq), DistinctIds(s), NEW keep
    PROVE  /\ Only(s, keep) \in Seq(BatchReq) /\ DistinctIds(Only(s, keep))
           /\ Ids(Only(s, keep)) = {s[i].id : i \in {j \in 1 .. Len(s) : s[j] \in keep}}
<1> DEFINE n == Len(s)
           q == [i \in 1 .. n |-> IF s[i] \in keep THEN <<s[i]>> ELSE <<>>]
           Of(k) == {s[i].id : i \in {j \in 1 .. k : s[j] \in keep}}
<1>0. n \in Nat /\ \A i \in 1 .. n : s[i] \in BatchReq  OBVIOUS
<1>1. q \in Seq(Seq(BatchReq)) /\ Len(q) = n /\ \A i \in 1 .. n : q[i] = IF s[i] \in keep THEN <<s[i]>> ELSE <<>>
  <2>1. \A i \in 1 .. n : (IF s[i] \in keep THEN <<s[i]>> ELSE <<>>) \in Seq(BatchReq)  BY <1>0, IdsOfNone, IdsOfOne
  <2>2. q \in [1 .. n -> Seq(BatchReq)] /\ \A i \in 1 .. n : q[i] = IF s[i] \in keep THEN <<s[i]>> ELSE <<>>  BY <2>1
  <2> HIDE DEF q, n
  <2>3. q \in Seq(Seq(BatchReq)) /\ Len(q) = n  BY <1>0, <2>2
  <2> QED BY <2>2, <2>3
<1>2. Only(s, keep) = FlattenSeq(q)  BY DEF Only
<1> HIDE DEF q, n
<1>3. PICK f \in [0 .. n -> Seq(BatchReq)] : f[0] = <<>> /\ (\A i \in 1 .. n : f[i] = f[i - 1] \o q[i]) /\ FlattenSeq(q) = f[n]
  BY <1>1, FlattenJoins DEF Joins
<1> DEFINE Good(k) == DistinctIds(f[k]) /\ Ids(f[k]) = Of(k)
           Bad == {k \in 0 .. n : ~Good(k)}
<1>4. Good(0)
  <2>1. Of(0) = {}  OBVIOUS
  <2> QED BY <1>3, <2>1, IdsOfNone
<1>5. ASSUME NEW k \in 1 .. n, Good(k - 1) PROVE Good(k)
  <2>0. k \in Nat /\ k - 1 \in 0 .. n /\ k \in 0 .. n /\ k \in 1 .. k /\ \A i \in 1 .. k : i = k \/ i \in 1 .. (k - 1)
    BY <1>0
  <2>1. f[k - 1] \in Seq(BatchReq) /\ s[k] \in BatchReq  BY <1>0, <1>3, <2>0
  <2>2. \A i \in 1 .. (k - 1) : i \in 1 .. k /\ i # k /\ i \in 1 .. n  BY <1>0, <2>0
  <2>3. f[k] = f[k - 1] \o q[k]  BY <1>3
  <2>4. CASE s[k] \in keep
    <3>1. q[k] = <<s[k]>> /\ q[k] \in Seq(BatchReq) /\ Ids(q[k]) = {s[k].id} /\ DistinctIds(q[k])
      BY <1>1, <2>1, <2>4, IdsOfOne
    <3>2. s[k].id \notin Of(k - 1)
      <4> SUFFICES ASSUME NEW i \in 1 .. (k - 1), s[i].id = s[k].id PROVE FALSE  OBVIOUS
      <4> QED BY <2>2 DEF DistinctIds, n
    <3>3. Of(k) = Of(k - 1) \cup {s[k].id}  BY <2>0, <2>2, <2>4
    <3>4. DistinctIds(f[k - 1]) /\ Ids(f[k - 1]) = Of(k - 1)  BY <1>5
    <3> HIDE DEF Of
    <3>5. Ids(f[k]) = Ids(f[k - 1]) \cup {s[k].id} /\ DistinctIds(f[k])
      <4> DEFINE a == f[k - 1]
                 b == q[k]
      <4>1. a \in Seq(BatchReq) /\ b \in Seq(BatchReq) /\ DistinctIds(a) /\ DistinctIds(b) /\ Ids(a) \cap Ids(b) = {} /\ Ids(b) = {s[k].id} /\ f[k] = a \o b
        BY <2>1, <2>3, <3>1, <3>2, <3>4
      <4> HIDE DEF a, b
      <4>2. Ids(f[k]) = Ids(a) \cup {s[k].id} /\ DistinctIds(f[k])  BY <4>1, IdsJoined
      <4> QED BY <4>2 DEF a
    <3> QED BY <3>3, <3>4, <3>5
  <2>5. CASE s[k] \notin keep
    <3>1. q[k] = <<>>  BY <1>1, <2>5
    <3>2. f[k] = f[k - 1]  BY <2>1, <2>3, <3>1
    <3>3. Of(k) = Of(k - 1)  BY <2>0, <2>2, <2>5
    <3> QED BY <1>5, <3>2, <3>3
  <2> QED BY <2>4, <2>5
<1> HIDE DEF Good
<1>6. Good(n)
  <2>0. n \in 0 .. n  BY <1>0
  <2> SUFFICES ASSUME Bad # {} PROVE FALSE  BY <2>0
  <2>1. PICK m \in Bad : \A y \in Bad : m <= y
    <3>1. Bad \in SUBSET Nat  BY <1>0
    <3> HIDE DEF Bad
    <3> QED BY <3>1, NatLeast
  <2>2. m \in 0 .. n /\ ~Good(m) /\ m # 0  BY <1>4, <2>1
  <2>3. m - 1 \in 0 .. n /\ ~(m <= m - 1) /\ m \in 1 .. n  BY <1>0, <2>2
  <2>4. Good(m - 1)  BY <2>1, <2>3
  <2> QED BY <1>5, <2>2, <2>3, <2>4
<1>7. f[n] \in Seq(BatchReq)  BY <1>0, <1>3
<1>8. DistinctIds(f[n]) /\ Ids(f[n]) = Of(n)  BY <1>6 DEF Good
<1> QED BY <1>2, <1>3, <1>7, <1>8 DEF n

\* The first requests of a sequence.
LEMMA FirstKeeps ==
    ASSUME NEW s \in Seq(BatchReq), DistinctIds(s), NEW n \in Nat
    PROVE  FirstOf(s, n) \in Seq(BatchReq) /\ DistinctIds(FirstOf(s, n)) /\ Ids(FirstOf(s, n)) \subseteq Ids(s) /\ Len(FirstOf(s, n)) <= n
<1> DEFINE k == IF n < Len(s) THEN n ELSE Len(s)
           f == FirstOf(s, n)
<1>1. k \in Nat /\ k <= Len(s) /\ k <= n /\ Len(s) \in Nat  OBVIOUS
<1>2. f = SubSeq(s, 1, k)  BY DEF FirstOf
<1> HIDE DEF k, f
<1>3. f \in Seq(BatchReq) /\ Len(f) = k /\ \A i \in 1 .. k : f[i] = s[i]  BY <1>1, <1>2
<1>4. \A i \in 1 .. k : i \in 1 .. Len(s)  BY <1>1
<1>5. DistinctIds(f) /\ Ids(f) \subseteq Ids(s)  BY <1>3, <1>4 DEF DistinctIds, Ids
<1> QED BY <1>1, <1>3, <1>5 DEF f

\* The first request of a sequence and the others.
LEMMA TailKeeps ==
    ASSUME NEW s \in Seq(BatchReq), DistinctIds(s), s # <<>>
    PROVE  /\ Tail(s) \in Seq(BatchReq) /\ DistinctIds(Tail(s)) /\ Ids(s) = Ids(Tail(s)) \cup {Head(s).id}
           /\ Head(s).id \notin Ids(Tail(s))
<1> DEFINE t == Tail(s)
<1>1. t \in Seq(BatchReq) /\ Len(t) = Len(s) - 1 /\ Len(s) \in Nat \ {0} /\ Head(s) = s[1]  OBVIOUS
<1>2. \A i \in 1 .. Len(t) : t[i] = s[i + 1]  OBVIOUS
<1> HIDE DEF t
<1>3. (\A i \in 1 .. Len(t) : i + 1 \in 1 .. Len(s) /\ i + 1 # 1) /\ 1 \in 1 .. Len(s)  BY <1>1
<1>4. \A j \in 1 .. Len(s) : j = 1 \/ (j - 1 \in 1 .. Len(t) /\ t[j - 1] = s[j])
  <2> SUFFICES ASSUME NEW j \in 1 .. Len(s), j # 1 PROVE j - 1 \in 1 .. Len(t) /\ t[j - 1] = s[j]  OBVIOUS
  <2>1. j - 1 \in 1 .. Len(t) /\ (j - 1) + 1 = j  BY <1>1
  <2> QED BY <1>2, <2>1
<1>5. DistinctIds(t)
  <2> SUFFICES ASSUME NEW i \in 1 .. Len(t), NEW j \in 1 .. Len(t), t[i].id = t[j].id PROVE i = j  BY DEF DistinctIds
  <2>1. i + 1 = j + 1  BY <1>2, <1>3 DEF DistinctIds
  <2> QED BY <1>1, <2>1
<1>6. Head(s).id \notin Ids(t)
  <2> SUFFICES ASSUME NEW i \in 1 .. Len(t), t[i].id = s[1].id PROVE FALSE  BY <1>1 DEF Ids
  <2> QED BY <1>2, <1>3 DEF DistinctIds
<1>7. Ids(s) = Ids(t) \cup {s[1].id}  BY <1>2, <1>3, <1>4 DEF Ids
<1> QED BY <1>1, <1>5, <1>6, <1>7 DEF t

\* The queues: no request twice, in one queue or in two.
QueuesOK(qs) ==
    /\ qs \in [1 .. 3 -> Seq(BatchReq)] /\ \A i \in 1 .. 3 : DistinctIds(qs[i])
    /\ \A i, j \in 1 .. 3 : i # j => Ids(qs[i]) \cap Ids(qs[j]) = {}
QueuedIds(qs) == UNION {Ids(qs[i]) : i \in 1 .. 3}

LEMMA FlatKeeps ==
    ASSUME NEW qs, QueuesOK(qs)
    PROVE  Flat(qs) \in Seq(BatchReq) /\ DistinctIds(Flat(qs)) /\ Ids(Flat(qs)) = QueuedIds(qs)
<1>0. 1 \in 1 .. 3 /\ 2 \in 1 .. 3 /\ 3 \in 1 .. 3 /\ \A i \in 1 .. 3 : i \in {1, 2, 3}  OBVIOUS
<1> DEFINE a == qs[1]
           b == qs[2]
           c == qs[3]
<1>1. /\ a \in Seq(BatchReq) /\ b \in Seq(BatchReq) /\ c \in Seq(BatchReq) /\ DistinctIds(a) /\ DistinctIds(b) /\ DistinctIds(c)
      /\ Ids(a) \cap Ids(b) = {} /\ Ids(a) \cap Ids(c) = {} /\ Ids(b) \cap Ids(c) = {}
  BY <1>0 DEF QueuesOK
<1>2. QueuedIds(qs) = (Ids(a) \cup Ids(b)) \cup Ids(c)  BY <1>0 DEF QueuedIds
<1>3. Flat(qs) = (a \o b) \o c  BY DEF Flat
<1> HIDE DEF a, b, c
<1>4. a \o b \in Seq(BatchReq) /\ DistinctIds(a \o b) /\ Ids(a \o b) = Ids(a) \cup Ids(b)  BY <1>1, IdsJoined
<1> DEFINE d == a \o b
<1> HIDE DEF d
<1>5. d \in Seq(BatchReq) /\ DistinctIds(d) /\ Ids(d) = Ids(a) \cup Ids(b) /\ Ids(d) \cap Ids(c) = {} /\ Flat(qs) = d \o c
  BY <1>1, <1>3, <1>4 DEF d
<1>6. d \o c \in Seq(BatchReq) /\ DistinctIds(d \o c) /\ Ids(d \o c) = Ids(d) \cup Ids(c)  BY <1>1, <1>5, IdsJoined
<1> QED BY <1>2, <1>5, <1>6

BatchConfigs == [strategy : {"Static", "Dynamic", "Adaptive", "Continuous"}, size : Nat \ {0}]

\* What is collected is of the queues, no request twice and not more than a batch holds.
LEMMA CollectKeeps ==
    ASSUME NEW qs, QueuesOK(qs), NEW config \in BatchConfigs
    PROVE  LET s == Collect(qs, config)
           IN s \in Seq(BatchReq) /\ DistinctIds(s) /\ Ids(s) \subseteq QueuedIds(qs) /\ Len(s) <= config.size
<1> DEFINE size == config.size
           all == Flat(qs)
           Fits(c) == c \in Seq(BatchReq) /\ DistinctIds(c) /\ Ids(c) \subseteq QueuedIds(qs) /\ Len(c) <= size
<1>0. size \in Nat /\ size > 0  BY DEF BatchConfigs
<1>1. all \in Seq(BatchReq) /\ DistinctIds(all) /\ Ids(all) = QueuedIds(qs)  BY FlatKeeps
<1> HIDE DEF size
<1>2. Fits(CollectStatic(qs, size))
  <2> DEFINE keep == {r \in ToSet(all) : r.model = Head(all).model}
             o == Only(all, keep)
  <2>1. o \in Seq(BatchReq) /\ DistinctIds(o) /\ Ids(o) = {all[i].id : i \in {j \in 1 .. Len(all) : all[j] \in keep}}
    <3> HIDE DEF all, keep
    <3> QED BY <1>1, OnlyKeeps
  <2>2. Ids(o) \subseteq Ids(all)
    <3> HIDE DEF all, keep, o
    <3> QED BY <2>1 DEF Ids
  <2>3. CollectStatic(qs, size) = IF all = <<>> THEN <<>> ELSE FirstOf(o, size)  BY DEF CollectStatic
  <2> HIDE DEF all, keep, o
  <2>4. Fits(FirstOf(o, size))  BY <1>0, <1>1, <2>1, <2>2, FirstKeeps
  <2>5. Fits(<<>>)
    <3>1. Len(<<>>) = 0  OBVIOUS
    <3> QED BY <1>0, <3>1, IdsOfNone
  <2> QED BY <2>3, <2>4, <2>5
<1> HIDE DEF all
<1>3. Fits(CollectDynamic(qs, size))  BY <1>0, <1>1, FirstKeeps DEF CollectDynamic, all
<1>4. Fits(CollectAdaptive(qs, size))
  <2> DEFINE k == AdaptiveSize(Len(all), size)
  <2>1. Len(all) \in Nat  BY <1>1
  <2>2. k \in Nat /\ k <= size  BY <1>0, <2>1 DEF AdaptiveSize
  <2>3. CollectAdaptive(qs, size) = FirstOf(all, k)  BY DEF CollectAdaptive, all
  <2> HIDE DEF k
  <2>4. FirstOf(all, k) \in Seq(BatchReq) /\ DistinctIds(FirstOf(all, k)) /\ Ids(FirstOf(all, k)) \subseteq Ids(all) /\ Len(FirstOf(all, k)) <= k
    BY <1>1, <2>2, FirstKeeps
  <2>5. Len(FirstOf(all, k)) \in Nat  BY <2>4
  <2> QED BY <1>0, <1>1, <2>2, <2>3, <2>4, <2>5
<1>5. Collect(qs, config) \in {CollectStatic(qs, size), CollectDynamic(qs, size), CollectAdaptive(qs, size)}
  BY DEF Collect, size
<1>6. Fits(Collect(qs, config))  BY <1>2, <1>3, <1>4, <1>5
<1> QED BY <1>6 DEF size

\* What is taken out of the queues is not in them any more, and the rest is.
LEMMA WithoutKeeps ==
    ASSUME NEW qs, QueuesOK(qs), NEW ids
    PROVE  QueuesOK(Without(qs, ids)) /\ QueuedIds(Without(qs, ids)) = QueuedIds(qs) \ ids
<1> DEFINE w == Without(qs, ids)
<1>1. ASSUME NEW i \in 1 .. 3 PROVE w[i] \in Seq(BatchReq) /\ DistinctIds(w[i]) /\ Ids(w[i]) = Ids(qs[i]) \ ids
  <2> DEFINE s == qs[i]
             keep == {r \in ToSet(s) : r.id \notin ids}
  <2>1. s \in Seq(BatchReq) /\ DistinctIds(s)  BY DEF QueuesOK
  <2>2. w[i] = Only(s, keep)  BY DEF Without
  <2>3. \A j \in 1 .. Len(s) : s[j] \in keep <=> s[j].id \notin ids  BY <2>1 DEF ToSet
  <2> HIDE DEF s, keep, w
  <2>4. w[i] \in Seq(BatchReq) /\ DistinctIds(w[i]) /\ Ids(w[i]) = {s[k].id : k \in {j \in 1 .. Len(s) : s[j] \in keep}}
    BY <2>1, <2>2, OnlyKeeps
  <2>5. Ids(w[i]) = Ids(s) \ ids  BY <2>3, <2>4 DEF Ids
  <2> QED BY <2>4, <2>5 DEF s
<1>2. w \in [1 .. 3 -> Seq(BatchReq)]
  <2>1. DOMAIN w = 1 .. 3 /\ w = [i \in 1 .. 3 |-> w[i]]  BY DEF Without
  <2> HIDE DEF w
  <2> QED BY <1>1, <2>1
<1> HIDE DEF w
<1>3. QueuesOK(w)
  <2>1. \A i, j \in 1 .. 3 : i # j => Ids(qs[i]) \cap Ids(qs[j]) = {}  BY DEF QueuesOK
  <2>2. \A i, j \in 1 .. 3 : i # j => Ids(w[i]) \cap Ids(w[j]) = {}  BY <1>1, <2>1
  <2> QED BY <1>1, <1>2, <2>2 DEF QueuesOK
<1>4. QueuedIds(w) = QueuedIds(qs) \ ids  BY <1>1 DEF QueuedIds
<1> QED BY <1>3, <1>4 DEF w

\* Every request submitted is in one of four places.
Places(queued, taken, done, gone, n) ==
    /\ queued \cup taken \cup done \cup gone = 1 .. n
    /\ queued \cap (taken \cup done \cup gone) = {} /\ taken \cap (done \cup gone) = {} /\ done \cap gone = {}

BatchRecord == [requests : Nat, status : {"Pending", "Failed"}, limit : Nat]
BatchesOK(bs) == bs \in Seq(BatchRecord) /\ \A i \in 1 .. Len(bs) : bs[i].requests <= bs[i].limit

BatchingFields ==
    [config : BatchConfigs, own : BatchConfigs, queues : [1 .. 3 -> Seq(BatchReq)], sent : Nat, batches : Seq(BatchRecord),
     dropped : Nat, gone : SUBSET Nat, task : {"off", "running", "ended"}, heard : BOOLEAN, out : Seq(BatchReq), done : SUBSET Nat,
     lost : Seq(BatchReq)]

\* What the task has in hand, or lost, is one batch of its own configuration, and nothing before it runs.
HandOK(b) ==
    /\ Len(b.out) <= b.own.size /\ Len(b.lost) <= b.own.size /\ Ids(b.lost) \subseteq b.gone
    /\ b.task # "running" => b.out = <<>>
    /\ b.task = "off" => b.lost = <<>>

BatchingOK(b) ==
    /\ b \in BatchingFields /\ QueuesOK(b.queues) /\ DistinctIds(b.out) /\ BatchesOK(b.batches)
    /\ Places(QueuedIds(b.queues), Ids(b.out), b.done, b.gone, b.sent) /\ HandOK(b)

LEMMA BatchingFieldsOf ==
    ASSUME NEW b \in BatchingFields
    PROVE  /\ b.queues \in [1 .. 3 -> Seq(BatchReq)] /\ b.sent \in Nat /\ b.batches \in Seq(BatchRecord) /\ b.dropped \in Nat
           /\ b.gone \in SUBSET Nat /\ b.out \in Seq(BatchReq) /\ b.done \in SUBSET Nat /\ b.config \in BatchConfigs /\ b.own \in BatchConfigs
  BY DEF BatchingFields

LEMMA AppendJoins == ASSUME NEW S, NEW q \in Seq(S), NEW x \in S PROVE Append(q, x) = q \o <<x>> /\ Append(q, x) \in Seq(S)
  OBVIOUS

\* One more batch, within the limit.
LEMMA BatchAppended ==
    ASSUME NEW bs, BatchesOK(bs), NEW s \in Seq(BatchReq), NEW config \in BatchConfigs, Len(s) <= config.size
    PROVE  BatchesOK(Append(bs, BatchOf(s, config)))
<1> DEFINE x == BatchOf(s, config)
           a == Append(bs, x)
<1>1. x \in BatchRecord /\ x.requests <= x.limit  BY DEF BatchRecord, BatchOf, BatchConfigs
<1> HIDE DEF x
<1>2. bs \in Seq(BatchRecord) /\ \A i \in 1 .. Len(bs) : bs[i].requests <= bs[i].limit  BY DEF BatchesOK
<1>3. /\ a \in Seq(BatchRecord) /\ Len(a) = Len(bs) + 1 /\ Len(bs) \in Nat /\ a[Len(bs) + 1] = x
      /\ \A i \in 1 .. Len(bs) : a[i] = bs[i]
  BY <1>1, <1>2
<1> HIDE DEF a
<1>4. ASSUME NEW i \in 1 .. Len(a) PROVE a[i].requests <= a[i].limit
  <2>1. i = Len(bs) + 1 \/ i \in 1 .. Len(bs)  BY <1>3
  <2> QED BY <1>1, <1>2, <1>3, <2>1
<1>5. BatchesOK(a)  BY <1>3, <1>4 DEF BatchesOK
<1> QED BY <1>5 DEF a, x

\* A step that leaves the task alone and takes nothing back.
LEMMA HandStays ==
    ASSUME NEW b, NEW c, HandOK(b), c.own = b.own, c.out = b.out, c.lost = b.lost, c.task = b.task, b.gone \subseteq c.gone
    PROVE  HandOK(c)  BY DEF HandOK

\* One more request at the end of a queue.
LEMMA QueueAppended ==
    ASSUME NEW qs, QueuesOK(qs), NEW q \in 1 .. 3, NEW r \in BatchReq, r.id \notin QueuedIds(qs)
    PROVE  LET n == [qs EXCEPT ![q] = Append(qs[q], r)] IN QueuesOK(n) /\ QueuedIds(n) = QueuedIds(qs) \cup {r.id}
<1> DEFINE a == Append(qs[q], r)
           n == [qs EXCEPT ![q] = a]
<1>1. qs \in [1 .. 3 -> Seq(BatchReq)] /\ qs[q] \in Seq(BatchReq) /\ (\A i \in 1 .. 3 : DistinctIds(qs[i]))
  BY DEF QueuesOK
<1>2. \A i, j \in 1 .. 3 : i # j => Ids(qs[i]) \cap Ids(qs[j]) = {}  BY DEF QueuesOK
<1>3. \A i \in 1 .. 3 : r.id \notin Ids(qs[i])  BY DEF QueuedIds
<1>4. a \in Seq(BatchReq) /\ Ids(a) = Ids(qs[q]) \cup {r.id} /\ DistinctIds(a)
  <2> DEFINE s == qs[q]
             o == <<r>>
  <2>1. a = s \o o  BY <1>1, AppendJoins
  <2>2. s \in Seq(BatchReq) /\ DistinctIds(s) /\ r.id \notin Ids(s) /\ o \in Seq(BatchReq) /\ Ids(o) = {r.id} /\ DistinctIds(o)
    BY <1>1, <1>3, IdsOfOne
  <2> HIDE DEF s, o, a
  <2>3. Ids(s) \cap Ids(o) = {}  BY <2>2
  <2>4. s \o o \in Seq(BatchReq) /\ Ids(s \o o) = Ids(s) \cup Ids(o) /\ DistinctIds(s \o o)  BY <2>2, <2>3, IdsJoined
  <2> QED BY <2>1, <2>2, <2>4 DEF s
<1> HIDE DEF a
<1>5. n \in [1 .. 3 -> Seq(BatchReq)] /\ n[q] = a /\ \A i \in 1 .. 3 : i # q => n[i] = qs[i]  BY <1>1, <1>4
<1> HIDE DEF n
<1>6. \A i \in 1 .. 3 : Ids(n[i]) = IF i = q THEN Ids(qs[q]) \cup {r.id} ELSE Ids(qs[i])  BY <1>4, <1>5
<1>7. \A i, j \in 1 .. 3 : i # j => Ids(n[i]) \cap Ids(n[j]) = {}  BY <1>2, <1>3, <1>6
<1>8. QueuesOK(n)  BY <1>1, <1>4, <1>5, <1>7 DEF QueuesOK
<1>9. QueuedIds(n) = QueuedIds(qs) \cup {r.id}  BY <1>6 DEF QueuedIds
<1> QED BY <1>8, <1>9 DEF n, a

LEMMA SubmitKeeps == ASSUME BatchingOK(batching), NEW m \in BatchModels, NEW p, SubmitRequest(m, p) PROVE BatchingOK(batching')
<1> DEFINE n == batching.sent
           q == QueueIndex(p)
           r == [id |-> n + 1, model |-> m]
           qs == batching.queues
           queued == QueuedIds(qs)
           taken == Ids(batching.out)
<1>1. /\ batching \in BatchingFields /\ QueuesOK(qs) /\ DistinctIds(batching.out) /\ BatchesOK(batching.batches)
      /\ Places(queued, taken, batching.done, batching.gone, n) /\ HandOK(batching)
  BY DEF BatchingOK
<1>2. n \in Nat /\ n + 1 \in Nat /\ batching.dropped + 1 \in Nat /\ batching.gone \in SUBSET Nat /\ q \in 1 .. 3 /\ r \in BatchReq /\ r.id = n + 1
  <2>1. q \in {1, 2, 3}  BY DEF QueueIndex
  <2> HIDE DEF q
  <2> QED BY <1>1, <2>1, BatchingFieldsOf DEF BatchReq
<1>3. 1 .. (n + 1) = (1 .. n) \cup {n + 1} /\ n + 1 \notin 1 .. n  BY <1>2
<1>4. n + 1 \notin queued /\ n + 1 \notin taken /\ n + 1 \notin batching.done /\ n + 1 \notin batching.gone
  <2> HIDE DEF queued, taken
  <2> QED BY <1>1, <1>3 DEF Places
<1>5. CASE Len(qs[q]) >= QueueSize
  <2> DEFINE g == batching.gone \cup {n + 1}
             k == n + 1
             d == batching.dropped + 1
             b == [batching EXCEPT !.sent = k, !.dropped = d, !.gone = g]
  <2>1. batching' = b  BY <1>5 DEF SubmitRequest
  <2>2. k \in Nat /\ d \in Nat /\ g \in SUBSET Nat  BY <1>2
  <2>3. Places(queued, taken, batching.done, g, k)
    <3> HIDE DEF queued, taken
    <3> QED BY <1>1, <1>3, <1>4 DEF Places
  <2> HIDE DEF k, d, g
  <2>4. b \in BatchingFields /\ b.queues = qs /\ b.out = batching.out /\ b.batches = batching.batches /\ b.done = batching.done /\ b.gone = g /\ b.sent = k /\ b.own = batching.own /\ b.lost = batching.lost /\ b.task = batching.task
    BY ONLY <1>1, <2>2 DEF BatchingFields
  <2> HIDE DEF b
  <2>5. HandOK(b)  BY <1>1, <2>4, HandStays DEF g
  <2> QED BY <1>1, <2>1, <2>3, <2>4, <2>5 DEF BatchingOK
<1>6. CASE ~(Len(qs[q]) >= QueueSize)
  <2> DEFINE k == n + 1
             ns == [qs EXCEPT ![q] = Append(qs[q], r)]
             b == [batching EXCEPT !.sent = k, !.queues = ns]
  <2>1. batching' = b  BY <1>6 DEF SubmitRequest
  <2>2. QueuesOK(ns) /\ QueuedIds(ns) = queued \cup {n + 1}
    <3> HIDE DEF q, r, qs
    <3> QED BY <1>1, <1>2, <1>4, QueueAppended
  <2>3. k \in Nat /\ ns \in [1 .. 3 -> Seq(BatchReq)]  BY <1>2, <2>2 DEF QueuesOK
  <2>4. Places(QueuedIds(ns), taken, batching.done, batching.gone, k)
    <3> HIDE DEF queued, taken, ns
    <3> QED BY <1>1, <1>3, <1>4, <2>2 DEF Places
  <2> HIDE DEF k, ns
  <2>5. b \in BatchingFields /\ b.queues = ns /\ b.out = batching.out /\ b.batches = batching.batches /\ b.done = batching.done /\ b.gone = batching.gone /\ b.sent = k /\ b.own = batching.own /\ b.lost = batching.lost /\ b.task = batching.task
    BY ONLY <1>1, <2>3 DEF BatchingFields
  <2> HIDE DEF b
  <2>6. HandOK(b)  BY <1>1, <2>5, HandStays
  <2> QED BY <1>1, <2>1, <2>2, <2>4, <2>5, <2>6 DEF BatchingOK
<1> QED BY <1>5, <1>6

\* A batch is taken, by a caller or by the stream.
LEMMA BatchTaken ==
    ASSUME BatchingOK(batching), NEW config \in {batching.config, batching.own},
           \/ TryCreateBatch /\ config = batching.config
           \/ StreamTakes /\ config = batching.own
    PROVE  BatchingOK(batching')
<1> DEFINE qs == batching.queues
           s == Collect(qs, config)
           w == Without(qs, Ids(s))
           bs == Append(batching.batches, BatchOf(s, config))
           queued == QueuedIds(qs)
           taken == Ids(batching.out)
           ids == Ids(s)
<1>1. /\ batching \in BatchingFields /\ QueuesOK(qs) /\ DistinctIds(batching.out) /\ BatchesOK(batching.batches)
      /\ Places(queued, taken, batching.done, batching.gone, batching.sent) /\ batching.done \in SUBSET Nat
      /\ config \in BatchConfigs /\ HandOK(batching)
  BY BatchingFieldsOf DEF BatchingOK
<1>2. s \in Seq(BatchReq) /\ DistinctIds(s) /\ ids \subseteq queued /\ Len(s) <= config.size  BY <1>1, CollectKeeps
<1>3. QueuesOK(w) /\ QueuedIds(w) = queued \ ids  BY <1>1, WithoutKeeps
<1>4. BatchesOK(bs)  BY <1>1, <1>2, BatchAppended
<1>5. w \in [1 .. 3 -> Seq(BatchReq)] /\ bs \in Seq(BatchRecord)  BY <1>3, <1>4 DEF QueuesOK, BatchesOK
<1>6. ids \in SUBSET Nat
  <2>1. \A i \in 1 .. Len(s) : s[i] \in BatchReq  BY <1>2
  <2>2. \A r \in BatchReq : r.id \in Nat  BY DEF BatchReq
  <2> QED BY <2>1, <2>2 DEF Ids
<1>7. CASE TryCreateBatch /\ config = batching.config
  <2> DEFINE d == batching.done \cup ids
             b == [batching EXCEPT !.queues = w, !.batches = bs, !.done = d]
  <2>1. batching' = b  BY <1>7 DEF TryCreateBatch, Taken
  <2>2. d \in SUBSET Nat  BY <1>1, <1>6
  <2>3. Places(QueuedIds(w), taken, d, batching.gone, batching.sent)
    <3> HIDE DEF queued, taken, ids, w
    <3> QED BY <1>1, <1>2, <1>3 DEF Places
  <2> HIDE DEF w, bs, d
  <2>4. b \in BatchingFields /\ b.queues = w /\ b.out = batching.out /\ b.batches = bs /\ b.done = d /\ b.gone = batching.gone /\ b.sent = batching.sent /\ b.own = batching.own /\ b.lost = batching.lost /\ b.task = batching.task
    BY ONLY <1>1, <1>5, <2>2 DEF BatchingFields
  <2> HIDE DEF b
  <2>5. HandOK(b)  BY <1>1, <2>4, HandStays
  <2> QED BY <1>1, <1>3, <1>4, <2>1, <2>3, <2>4, <2>5 DEF BatchingOK
<1>8. CASE StreamTakes /\ config = batching.own
  <2> DEFINE b == [batching EXCEPT !.queues = w, !.batches = bs, !.out = s]
  <2>1. batching' = b /\ batching.out = <<>> /\ batching.task = "running"  BY <1>8 DEF StreamTakes, Taken
  <2>2. taken = {}  BY <2>1, IdsOfNone
  <2>3. Places(QueuedIds(w), ids, batching.done, batching.gone, batching.sent)
    <3> HIDE DEF queued, taken, ids, w
    <3> QED BY <1>1, <1>2, <1>3, <2>2 DEF Places
  <2> HIDE DEF w, bs, s
  <2>4. b \in BatchingFields /\ b.queues = w /\ b.out = s /\ b.batches = bs /\ b.done = batching.done /\ b.gone = batching.gone /\ b.sent = batching.sent /\ b.own = batching.own /\ b.lost = batching.lost /\ b.task = batching.task
    BY ONLY <1>1, <1>2, <1>5 DEF BatchingFields
  <2> HIDE DEF b
  <2>5. HandOK(b)  BY <1>1, <1>2, <1>8, <2>1, <2>4 DEF HandOK
  <2> QED BY <1>1, <1>2, <1>3, <1>4, <2>1, <2>3, <2>4, <2>5 DEF BatchingOK
<1> QED BY <1>7, <1>8

\* The stream answers what it has taken, or loses it with its receiver.
LEMMA StreamKeeps ==
    ASSUME BatchingOK(batching), StreamAnswers \/ SendFails
    PROVE  BatchingOK(batching')
<1> DEFINE s == batching.out
           queued == QueuedIds(batching.queues)
           taken == Ids(s)
<1>1. /\ batching \in BatchingFields /\ QueuesOK(batching.queues) /\ DistinctIds(s) /\ BatchesOK(batching.batches)
      /\ Places(queued, taken, batching.done, batching.gone, batching.sent)
      /\ batching.done \in SUBSET Nat /\ batching.gone \in SUBSET Nat /\ s \in Seq(BatchReq)
      /\ HandOK(batching) /\ Len(s) \in Nat /\ batching.own.size \in Nat
  BY BatchingFieldsOf DEF BatchingOK, BatchConfigs
<1>2. taken \in SUBSET Nat
  <2>1. \A i \in 1 .. Len(s) : s[i] \in BatchReq  BY <1>1
  <2>2. \A r \in BatchReq : r.id \in Nat  BY DEF BatchReq
  <2> QED BY <2>1, <2>2 DEF Ids
<1>3. CASE StreamAnswers
  <2> DEFINE t == Tail(s)
             h == Head(s).id
             d == batching.done \cup {h}
             b == [batching EXCEPT !.out = t, !.done = d]
  <2>1. batching' = b /\ s # <<>> /\ batching.task = "running"  BY <1>3 DEF StreamAnswers
  <2>2. t \in Seq(BatchReq) /\ DistinctIds(t) /\ taken = Ids(t) \cup {h} /\ h \notin Ids(t) /\ Len(t) = Len(s) - 1
    BY <1>1, <2>1, TailKeeps
  <2>3. d \in SUBSET Nat
    <3> HIDE DEF h, taken, t
    <3> QED BY <1>1, <1>2, <2>2
  <2>4. Places(queued, Ids(t), d, batching.gone, batching.sent)
    <3> HIDE DEF queued, taken, t, h
    <3> QED BY <1>1, <2>2 DEF Places
  <2> HIDE DEF t, d
  <2>5. b \in BatchingFields /\ b.queues = batching.queues /\ b.out = t /\ b.batches = batching.batches /\ b.done = d /\ b.gone = batching.gone /\ b.sent = batching.sent /\ b.own = batching.own /\ b.lost = batching.lost /\ b.task = batching.task
    BY ONLY <1>1, <2>2, <2>3 DEF BatchingFields
  <2> HIDE DEF b
  <2>6. HandOK(b)  BY <1>1, <2>1, <2>2, <2>5 DEF HandOK
  <2> QED BY <1>1, <2>1, <2>2, <2>4, <2>5, <2>6 DEF BatchingOK
<1>4. CASE SendFails
  <2> DEFINE ended == "ended"
             none == <<>>
             g == batching.gone \cup taken
             b == [batching EXCEPT !.task = ended, !.lost = s, !.out = none, !.gone = g]
  <2>1. batching' = b /\ ended \in {"off", "running", "ended"} /\ ended = "ended"  BY <1>4 DEF SendFails
  <2>2. none \in Seq(BatchReq) /\ DistinctIds(none) /\ Ids(none) = {} /\ Len(none) = 0 /\ none = <<>>  BY IdsOfNone
  <2>3. g \in SUBSET Nat  BY <1>1, <1>2
  <2>4. Places(queued, Ids(none), batching.done, g, batching.sent)
    <3> HIDE DEF queued, taken, none
    <3> QED BY <1>1, <2>2 DEF Places
  <2> HIDE DEF ended, none, g, s
  <2>5. b \in BatchingFields /\ b.queues = batching.queues /\ b.out = none /\ b.batches = batching.batches /\ b.done = batching.done /\ b.gone = g /\ b.sent = batching.sent
        /\ b.own = batching.own /\ b.lost = s /\ b.task = ended
    BY ONLY <1>1, <2>1, <2>2, <2>3 DEF BatchingFields
  <2> HIDE DEF b
  <2>6. HandOK(b)  BY <1>1, <2>1, <2>2, <2>5 DEF HandOK, g, s
  <2> QED BY <1>1, <2>1, <2>2, <2>4, <2>5, <2>6 DEF BatchingOK
<1> QED BY <1>3, <1>4

LEMMA EmptyQueues == LET qs == <<<<>>, <<>>, <<>>>> IN QueuesOK(qs) /\ QueuedIds(qs) = {}
<1> DEFINE none == <<>>
           qs == <<none, none, none>>
<1>1. none \in Seq(BatchReq) /\ DistinctIds(none) /\ Ids(none) = {}  BY IdsOfNone
<1> HIDE DEF none
<1>2. qs \in [1 .. 3 -> Seq(BatchReq)] /\ \A i \in 1 .. 3 : qs[i] = none  BY <1>1
<1> HIDE DEF qs
<1>3. QueuesOK(qs) /\ QueuedIds(qs) = {}  BY <1>1, <1>2 DEF QueuesOK, QueuedIds
<1> QED BY <1>3 DEF qs, none

\* Requests that leave their queues for good.
LEMMA RemovalKeeps ==
    ASSUME BatchingOK(batching), NEW qs, NEW ids, QueuesOK(qs), ids \subseteq QueuedIds(batching.queues),
           QueuedIds(qs) = QueuedIds(batching.queues) \ ids,
           batching' = [batching EXCEPT !.queues = qs, !.gone = batching.gone \cup ids]
    PROVE  BatchingOK(batching')
<1> DEFINE queued == QueuedIds(batching.queues)
           taken == Ids(batching.out)
           g == batching.gone \cup ids
           b == [batching EXCEPT !.queues = qs, !.gone = g]
<1>1. /\ batching \in BatchingFields /\ DistinctIds(batching.out) /\ BatchesOK(batching.batches)
      /\ Places(queued, taken, batching.done, batching.gone, batching.sent) /\ batching.gone \in SUBSET Nat /\ batching.sent \in Nat
      /\ HandOK(batching)
  BY BatchingFieldsOf DEF BatchingOK
<1>2. Places(QueuedIds(qs), taken, batching.done, g, batching.sent)
  <2> HIDE DEF taken
  <2> QED BY <1>1 DEF Places
<1>3. g \in SUBSET Nat /\ qs \in [1 .. 3 -> Seq(BatchReq)]
  <2>1. queued \subseteq 1 .. batching.sent /\ 1 .. batching.sent \subseteq Nat  BY <1>1 DEF Places
  <2> QED BY <1>1, <2>1 DEF QueuesOK
<1>4. batching' = b  OBVIOUS
<1> HIDE DEF g
<1>5. b \in BatchingFields /\ b.queues = qs /\ b.out = batching.out /\ b.batches = batching.batches /\ b.done = batching.done /\ b.gone = g /\ b.sent = batching.sent /\ b.own = batching.own /\ b.lost = batching.lost /\ b.task = batching.task
  BY ONLY <1>1, <1>3 DEF BatchingFields
<1> HIDE DEF b
<1>6. HandOK(b)  BY <1>1, <1>5, HandStays DEF g
<1> QED BY <1>1, <1>2, <1>4, <1>5, <1>6 DEF BatchingOK

LEMMA CancelsKeep ==
    ASSUME BatchingOK(batching), ClearQueues \/ \E id : CancelRequest(id)
    PROVE  BatchingOK(batching')
<1> DEFINE qs == batching.queues
<1>1. QueuesOK(qs) /\ Ids(Flat(qs)) = QueuedIds(qs)  BY FlatKeeps DEF BatchingOK
<1>2. CASE ClearQueues
  <2> DEFINE e == <<<<>>, <<>>, <<>>>>
  <2>1. batching' = [batching EXCEPT !.queues = e, !.gone = batching.gone \cup QueuedIds(qs)]
    BY <1>1, <1>2 DEF ClearQueues
  <2>2. QueuesOK(e) /\ QueuedIds(e) = QueuedIds(qs) \ QueuedIds(qs)  BY EmptyQueues
  <2> HIDE DEF e
  <2> QED BY <2>1, <2>2, RemovalKeeps
<1>3. ASSUME NEW id, CancelRequest(id) PROVE BatchingOK(batching')
  <2> DEFINE e == Without(qs, {id})
  <2>1. batching' = [batching EXCEPT !.queues = e, !.gone = batching.gone \cup {id}] /\ {id} \subseteq QueuedIds(qs)
    BY <1>1, <1>3 DEF CancelRequest
  <2>2. QueuesOK(e) /\ QueuedIds(e) = QueuedIds(qs) \ {id}  BY <1>1, WithoutKeeps
  <2> HIDE DEF e
  <2> QED BY <2>1, <2>2, RemovalKeeps
<1> QED BY <1>2, <1>3

\* The status of a batch, and the strategy, decide about no request.
LEMMA QuietBatching ==
    ASSUME BatchingOK(batching), (\E i : CancelBatch(i)) \/ ProcessBatchStream \/ DropReceiver \/ \E c \in Optimized : Optimize(c)
    PROVE  BatchingOK(batching')
<1>1. batching \in BatchingFields /\ BatchesOK(batching.batches) /\ HandOK(batching)  BY DEF BatchingOK
<1>2. ASSUME NEW i, CancelBatch(i) PROVE BatchingOK(batching')
  <2> DEFINE bs == batching.batches
             x == [bs[i] EXCEPT !.status = "Failed"]
             c == [bs EXCEPT ![i] = x]
             b == [batching EXCEPT !.batches = c]
  <2>1. batching' = b /\ i \in 1 .. Len(bs)  BY <1>2 DEF CancelBatch
  <2>2. bs \in Seq(BatchRecord) /\ bs[i] \in BatchRecord /\ Len(bs) \in Nat /\ \A j \in 1 .. Len(bs) : bs[j].requests <= bs[j].limit
    BY <1>1, <2>1 DEF BatchesOK
  <2>3. x \in BatchRecord /\ x.requests = bs[i].requests /\ x.limit = bs[i].limit  BY <2>2 DEF BatchRecord
  <2> HIDE DEF x, bs
  <2>4. c \in Seq(BatchRecord) /\ Len(c) = Len(bs) /\ \A j \in 1 .. Len(bs) : c[j] = IF j = i THEN x ELSE bs[j]
    BY <2>1, <2>2, <2>3
  <2> HIDE DEF c
  <2>5. BatchesOK(c)  BY <2>2, <2>3, <2>4 DEF BatchesOK
  <2>6. b \in BatchingFields /\ b.queues = batching.queues /\ b.out = batching.out /\ b.batches = c /\ b.done = batching.done /\ b.gone = batching.gone /\ b.sent = batching.sent /\ b.own = batching.own /\ b.lost = batching.lost /\ b.task = batching.task
    BY ONLY <1>1, <2>4 DEF BatchingFields
  <2> HIDE DEF b
  <2>7. HandOK(b)  BY <1>1, <2>6, HandStays
  <2> QED BY <2>1, <2>5, <2>6, <2>7 DEF BatchingOK
<1>3. ASSUME NEW c \in Optimized, Optimize(c) PROVE BatchingOK(batching')
  <2> DEFINE b == [batching EXCEPT !.config = c]
  <2>1. batching' = b /\ c \in BatchConfigs  BY <1>3, PerfAssumption DEF Optimize, Optimized, BatchConfigs
  <2>2. /\ b \in BatchingFields /\ b.queues = batching.queues /\ b.out = batching.out /\ b.batches = batching.batches /\ b.done = batching.done /\ b.gone = batching.gone
        /\ b.sent = batching.sent /\ b.lost = batching.lost
        /\ b.own = batching.own /\ b.task = batching.task
    BY ONLY <1>1, <2>1 DEF BatchingFields
  <2> HIDE DEF b
  <2>3. HandOK(b)  BY <1>1, <2>2, HandStays
  <2> QED BY <2>1, <2>2, <2>3 DEF BatchingOK
<1>4. CASE DropReceiver
  <2> DEFINE b == [batching EXCEPT !.heard = FALSE]
  <2>1. batching' = b  BY <1>4 DEF DropReceiver
  <2>2. /\ b \in BatchingFields /\ b.queues = batching.queues /\ b.out = batching.out /\ b.batches = batching.batches /\ b.done = batching.done /\ b.gone = batching.gone
        /\ b.sent = batching.sent /\ b.lost = batching.lost
        /\ b.own = batching.own /\ b.task = batching.task
    BY ONLY <1>1 DEF BatchingFields
  <2> HIDE DEF b
  <2>3. HandOK(b)  BY <1>1, <2>2, HandStays
  <2> QED BY <2>1, <2>2, <2>3 DEF BatchingOK
<1>5. CASE ProcessBatchStream
  <2> DEFINE c == batching.config
             running == "running"
             b == [batching EXCEPT !.task = running, !.own = c]
  <2>1. batching' = b /\ batching.task = "off" /\ c \in BatchConfigs /\ c.size \in Nat /\ running \in {"off", "running", "ended"}
    BY <1>1, <1>5, BatchingFieldsOf DEF ProcessBatchStream, BatchConfigs
  <2>2. batching.out = <<>> /\ batching.lost = <<>> /\ Ids(batching.lost) \subseteq batching.gone /\ Len(<<>>) = 0 /\ running = "running"
    BY <1>1, <2>1 DEF HandOK
  <2> HIDE DEF c, running
  <2>3. /\ b \in BatchingFields /\ b.queues = batching.queues /\ b.out = batching.out /\ b.batches = batching.batches /\ b.done = batching.done /\ b.gone = batching.gone
        /\ b.sent = batching.sent /\ b.lost = batching.lost
        /\ b.own = c /\ b.task = running
    BY ONLY <1>1, <2>1 DEF BatchingFields
  <2> HIDE DEF b
  <2>4. HandOK(b)  BY <2>1, <2>2, <2>3 DEF HandOK
  <2> QED BY <2>1, <2>3, <2>4 DEF BatchingOK
<1> QED BY <1>2, <1>3, <1>4, <1>5

LEMMA BatchingInitial == BatchingInit => BatchingOK(batching)
<1> SUFFICES ASSUME BatchingInit PROVE BatchingOK(batching)  OBVIOUS
<1> DEFINE e == <<<<>>, <<>>, <<>>>>
           none == <<>>
           no == {}
           yes == TRUE
           off == "off"
           cfg == [strategy |-> Strategy, size |-> MaxBatchSize]
<1>0. cfg \in BatchConfigs /\ cfg.size \in Nat /\ off \in {"off", "running", "ended"} /\ none = <<>>
  BY PerfAssumption DEF BatchConfigs
<1>1. batching = [config |-> cfg, own |-> cfg, queues |-> e, sent |-> 0, batches |-> none, dropped |-> 0, gone |-> no, task |-> off,
                  heard |-> yes, out |-> none, done |-> no, lost |-> none]  BY DEF BatchingInit
<1>2. e \in [1 .. 3 -> Seq(BatchReq)] /\ QueuesOK(e) /\ QueuedIds(e) = {}  BY EmptyQueues DEF QueuesOK
<1>3. none \in Seq(BatchReq) /\ DistinctIds(none) /\ Ids(none) = {}  BY IdsOfNone
<1>4. none \in Seq(BatchRecord) /\ Len(none) = 0 /\ no \in SUBSET Nat /\ no = {} /\ yes \in BOOLEAN  OBVIOUS
<1> HIDE DEF e, none, no, yes, cfg, off
<1>5. batching \in BatchingFields /\ batching.queues = e /\ batching.out = none /\ batching.batches = none /\ batching.done = no /\ batching.gone = no /\ batching.sent = 0
      /\ batching.own = cfg /\ batching.lost = none
  BY ONLY <1>0, <1>1, <1>2, <1>3, <1>4 DEF BatchingFields
<1>6. BatchesOK(none)  BY <1>4 DEF BatchesOK
<1>7. Places(QueuedIds(e), Ids(none), no, no, 0)  BY <1>2, <1>3, <1>4 DEF Places
<1>8. HandOK(batching)  BY <1>0, <1>3, <1>4, <1>5 DEF HandOK
<1> QED BY <1>2, <1>3, <1>5, <1>6, <1>7, <1>8 DEF BatchingOK

BatchingInv == BatchingOK(batching)

\* Every request that was submitted is in one place, in the hands of one caller, no
\* batch exceeds the size in force for its taker, and a receiver that goes away costs at
\* most the one batch the task has in hand at its next send, for any number of requests, models and priorities, queue
\* size and batch size, whatever is cancelled or cleared meanwhile
\* (performance/batching.rs: submit_request, try_create_batch, process_batch_stream,
\* cancel_request, clear_queues).
THEOREM RequestsBatchedOnce == PerfSpec => []BatchedOnce
<1>1. PerfInit => BatchingInv  BY BatchingInitial DEF PerfInit, BatchingInv
<1>2. BatchingInv /\ [PerfNext]_perfVars => BatchingInv'
  <2> SUFFICES ASSUME BatchingOK(batching), [PerfNext]_perfVars PROVE BatchingOK(batching')  BY DEF BatchingInv
  <2>1. CASE BatchNext
    <3>1. ASSUME NEW m \in BatchModels, NEW p \in Priorities, SubmitRequest(m, p) PROVE BatchingOK(batching')
      BY <3>1, SubmitKeeps
    <3>2. CASE TryCreateBatch \/ StreamTakes  BY <3>2, BatchTaken
    <3> QED BY <2>1, <3>1, <3>2, StreamKeeps, CancelsKeep, QuietBatching DEF BatchNext
  <2>2. CASE UNCHANGED batching  BY <2>2
  <2>3. BatchNext \/ UNCHANGED batching  BY DEF PerfNext, perfVars
  <2> QED BY <2>1, <2>2, <2>3
<1>3. BatchingInv => BatchedOnce  BY FlatKeeps DEF BatchingInv, BatchingOK, BatchesOK, Places, HandOK, BatchedOnce
<1> QED BY <1>1, <1>2, <1>3, PTL DEF PerfSpec

-----------------------------------------------------------------------------
(* The pool of connections of the API (api/pool.rs)                        *)

\* The clients that counted room and are to make a connection.
Making == {c \in Clients : user[c].pc = "make"}

\* Connections there are and clients about to make one are at most the limit and one less than
\* the clients: a client passes the check only while there are fewer than the limit.
PoolInv ==
    /\ DOMAIN user = Clients
    /\ \A c \in Clients : DOMAIN user[c] = {"pc", "total", "conn", "uses"}
    /\ names \in Seq(Nat) /\ \A i \in DOMAIN names : names[i] < MaxConnections
    /\ Len(names) + Cardinality(Making) <= MaxConnections + Cardinality(Clients) - 1
    /\ \A c \in Making : user[c].total \in Nat /\ user[c].total < MaxConnections

\* The clients about to make a connection are finitely many, and there is a client.
LEMMA MakingCounts ==
    /\ IsFiniteSet(Making) /\ Cardinality(Making) \in Nat /\ Cardinality(Clients) \in Nat
    /\ Cardinality(Making) <= Cardinality(Clients) /\ Cardinality(Clients) # 0
<1>1. Making \in SUBSET Clients  BY DEF Making
<1>2. IsFiniteSet(Clients) /\ Clients # {}  BY PoolAssumption
<1> QED BY <1>1, <1>2, FS_Subset, FS_CardinalityType, FS_EmptySet

\* It holds at first.
LEMMA PoolInvInit == PoolInit => PoolInv
<1> SUFFICES ASSUME PoolInit PROVE PoolInv  OBVIOUS
<1>1. Making = {}  BY DEF PoolInit, Making
<1>2. Cardinality(Making) = 0  BY <1>1, FS_EmptySet
<1>3. names \in Seq(Nat) /\ Len(names) = MinConnections /\ \A i \in DOMAIN names : names[i] < MaxConnections
  <2> DEFINE n == [i \in 1 .. MinConnections |-> i - 1]
  <2>1. n \in [1 .. MinConnections -> Nat] /\ MinConnections \in Nat /\ \A i \in 1 .. MinConnections : n[i] < MaxConnections
    BY PoolAssumption
  <2>2. names = n  BY DEF PoolInit
  <2> QED BY <2>1, <2>2
<1>4. Len(names) + Cardinality(Making) <= MaxConnections + Cardinality(Clients) - 1
  BY <1>2, <1>3, MakingCounts, PoolAssumption
<1> QED BY <1>1, <1>3, <1>4 DEF PoolInit, PoolInv

\* Every step keeps it.
LEMMA PoolInvNext == PoolInv /\ [PoolNext]_poolVars => PoolInv'
<1> SUFFICES ASSUME PoolInv, [PoolNext]_poolVars PROVE PoolInv'  OBVIOUS
<1> DEFINE Other(c) == /\ UNCHANGED names /\ DOMAIN user' = Clients
                       /\ \A d \in Clients : DOMAIN user'[d] = {"pc", "total", "conn", "uses"}
                       /\ \A d \in Clients \ {c} : user'[d] = user[d]
<1>1. CASE UNCHANGED <<names, user>>  BY <1>1 DEF PoolInv, Making
<1>2. ASSUME NEW c \in Clients, Other(c), user'[c].pc # "make" PROVE PoolInv'
  <2>1. Making' = Making \ {c}  BY <1>2 DEF Making
  <2>2. Cardinality(Making') <= Cardinality(Making) /\ Cardinality(Making') \in Nat
    BY <2>1, MakingCounts, FS_Subset, FS_CardinalityType
  <2>3. Len(names) \in Nat  BY DEF PoolInv
  <2>4. Len(names') + Cardinality(Making') <= MaxConnections + Cardinality(Clients) - 1
    BY <1>2, <2>2, <2>3, MakingCounts, PoolAssumption DEF PoolInv
  <2>5. \A d \in Making' : user'[d].total \in Nat /\ user'[d].total < MaxConnections  BY <1>2, <2>1 DEF PoolInv, Making
  <2> QED BY <1>2, <2>4, <2>5 DEF PoolInv
<1>3. ASSUME NEW c \in Clients, AcquireCount(c), Len(names) < MaxConnections PROVE PoolInv'
  <2>1. Other(c) /\ user'[c].pc = "make" /\ user'[c].total = Len(names)  BY <1>3 DEF AcquireCount, PoolInv
  <2>2. Making' \in SUBSET Clients /\ Making' \subseteq Making \cup {c}  BY <2>1 DEF Making
  <2>3. Cardinality(Making') <= Cardinality(Clients) /\ Cardinality(Making') \in Nat
    BY <2>2, PoolAssumption, FS_Subset, FS_CardinalityType
  <2>4. Len(names) \in Nat  BY DEF PoolInv
  <2>5. Len(names') + Cardinality(Making') <= MaxConnections + Cardinality(Clients) - 1
    BY <1>3, <2>1, <2>3, <2>4, MakingCounts, PoolAssumption
  <2>6. \A d \in Making' : user'[d].total \in Nat /\ user'[d].total < MaxConnections
    BY <1>3, <2>1, <2>2, <2>4 DEF PoolInv, Making
  <2> QED BY <2>1, <2>5, <2>6 DEF PoolInv
<1>4. ASSUME NEW c \in Clients, AcquireCreate(c) PROVE PoolInv'
  <2>1. /\ names' = Append(names, user[c].total) /\ DOMAIN user' = Clients
        /\ \A d \in Clients : DOMAIN user'[d] = {"pc", "total", "conn", "uses"}
        /\ \A d \in Clients \ {c} : user'[d] = user[d]
        /\ user'[c].pc = "held"
    BY <1>4 DEF AcquireCreate, PoolInv
  <2>2. c \in Making /\ user[c].total \in Nat /\ user[c].total < MaxConnections
    BY <1>4 DEF AcquireCreate, PoolInv, Making
  <2>3. Making' = Making \ {c}  BY <2>1 DEF Making
  <2>4. Cardinality(Making') = Cardinality(Making) - 1  BY <2>2, <2>3, MakingCounts, FS_RemoveElement
  <2>5. Len(names) \in Nat /\ names \in Seq(Nat)  BY DEF PoolInv
  <2>6. names' \in Seq(Nat) /\ Len(names') = Len(names) + 1 /\ \A i \in DOMAIN names' : names'[i] < MaxConnections
    <3>1. names' \in Seq(Nat) /\ Len(names') = Len(names) + 1 /\ DOMAIN names' = 1 .. Len(names) + 1
          /\ names'[Len(names) + 1] = user[c].total /\ \A i \in 1 .. Len(names) : names'[i] = names[i]
      BY <2>1, <2>2, <2>5
    <3>2. \A i \in 1 .. Len(names) + 1 : i = Len(names) + 1 \/ i \in 1 .. Len(names)  BY <2>5
    <3>3. \A i \in 1 .. Len(names) : names[i] < MaxConnections  BY <2>5 DEF PoolInv
    <3>4. \A i \in 1 .. Len(names) + 1 : names'[i] < MaxConnections  BY <2>2, <3>1, <3>2, <3>3
    <3> QED BY <3>1, <3>4, Zenon
  <2>7. Len(names') + Cardinality(Making') <= MaxConnections + Cardinality(Clients) - 1
    BY <2>4, <2>5, <2>6, MakingCounts, PoolAssumption DEF PoolInv
  <2>8. \A d \in Making' : user'[d].total \in Nat /\ user'[d].total < MaxConnections  BY <2>1, <2>3 DEF PoolInv, Making
  <2> QED BY <2>1, <2>6, <2>7, <2>8 DEF PoolInv
<1>5. ASSUME NEW c \in Clients, AcquireCount(c), ~(Len(names) < MaxConnections) PROVE Other(c) /\ user'[c].pc # "make"
  BY <1>5 DEF AcquireCount, PoolInv
<1>6. ASSUME NEW c \in Clients, AcquireBegin(c) \/ AcquireIdle(c) \/ AcquireTimeout(c) \/ ReleaseActive(c) \/ ReleaseIdle(c)
      PROVE  Other(c) /\ user'[c].pc # "make"
  BY <1>6 DEF AcquireBegin, AcquireIdle, AcquireTimeout, ReleaseActive, ReleaseIdle, PoolInv
<1>7. CASE Maintain  BY <1>1, <1>7 DEF Maintain
<1>8. CASE UNCHANGED poolVars  BY <1>1, <1>8 DEF poolVars
<1> HIDE DEF Other
<1> QED BY <1>2, <1>3, <1>4, <1>5, <1>6, <1>7, <1>8 DEF PoolNext, UserStep

\* It says what the runs check.
LEMMA PoolInvSays == PoolInv => PoolOvershoot
<1> SUFFICES ASSUME PoolInv PROVE PoolOvershoot  OBVIOUS
<1>1. Len(names) \in Nat  BY DEF PoolInv
<1> QED BY <1>1, MakingCounts, PoolAssumption DEF PoolInv, PoolOvershoot

\* However many clients count the connections before any of them adds one, the pool has at most one
\* less than the clients above its limit (api/pool.rs, the check and the insertion take the lock apart).
THEOREM PoolStaysBounded == PoolSpec => []PoolOvershoot  BY PoolInvSays, PoolInvInit, PoolInvNext, PTL DEF PoolSpec

-----------------------------------------------------------------------------
(* The pools of the chains (api/websocket/chain_connection_pool.rs)        *)

\* The tasks that have the guard of the idle connections, and those with an id of their own.
Idling == {"popping", "activate", "cleanup"}
Holding == {"activate", "record", "using", "forget", "putback"}
Owning == Holding \cup {"counting", "insert"}

\* The elements of s that are not in G are there once.
OnceBut(s, G) == \A i, j \in 1 .. Len(s) : s[i] = s[j] /\ s[i] \notin G => i = j

\* The connection of an id that nobody asked for twice is idle, or is owned by one task: tasks that own
\* such connections own different ones, that are not idle; what a task uses is recorded as lent; who
\* works on the idle ones has their lock.
ChainInv ==
    /\ DOMAIN task = ChainTasks /\ \A t \in ChainTasks : DOMAIN task[t] = {"pc", "id", "uses"}
    /\ DOMAIN lock = Locks
    /\ \A t \in ChainTasks : task[t].pc \in Owning \cup {"out", "popping", "cleanup"}
    /\ \A t \in ChainTasks : task[t].pc \in Idling => lock["idle"] = t
    /\ spare \in Seq(ConnIds) /\ OnceBut(spare, twice)
    /\ \A t \in ChainTasks : task[t].pc \in Owning \cup {"popping"} => task[t].id \in ConnIds
    /\ \A t \in ChainTasks : task[t].pc \in Owning => task[t].id \in twice \/ task[t].id \notin Elements(spare)
    /\ \A t, u \in ChainTasks :
          t # u /\ task[t].pc \in Owning \cup {"popping"} /\ task[u].pc \in Owning \cup {"popping"}
             => task[t].id \in twice \/ task[t].id # task[u].id
    /\ \A t \in ChainTasks : task[t].pc = "using" => task[t].id \in twice \cup lent

\* It holds at first.
LEMMA ChainInvInit == ChainInit => ChainInv
<1> DEFINE e == <<>>
<1>1. e \in Seq(ConnIds) /\ (\A G : OnceBut(e, G)) /\ Elements(e) = {}  BY DEF OnceBut, Elements
<1> HIDE DEF e
<1>2. ChainInit => spare = e  BY DEF ChainInit, e
<1> SUFFICES ASSUME ChainInit PROVE ChainInv  OBVIOUS
<1>3. \A t \in ChainTasks : task[t].pc = "out" /\ DOMAIN task[t] = {"pc", "id", "uses"}  BY DEF ChainInit
<1>4. \A t \in ChainTasks : task[t].pc \notin Owning \cup {"popping"} /\ task[t].pc \notin Idling
  BY <1>3 DEF Owning, Holding, Idling
<1> HIDE DEF e
<1>5. spare \in Seq(ConnIds) /\ OnceBut(spare, twice)  BY <1>1, <1>2
<1>6. DOMAIN task = ChainTasks /\ DOMAIN lock = Locks  BY DEF ChainInit
<1> QED BY <1>3, <1>4, <1>5, <1>6 DEF ChainInv

\* A step of task t that makes its record r and the spare connections s, and leaves
\* the guard of the idle connections with the tasks that go on with it.
ChainMoves(t, r, s, L) ==
    /\ DOMAIN task' = ChainTasks /\ task'[t] = r /\ \A u \in ChainTasks \ {t} : task'[u] = task[u]
    /\ DOMAIN r = {"pc", "id", "uses"} /\ r.pc \in Owning \cup {"out", "popping", "cleanup"}
    /\ spare' = s /\ lent' = L /\ DOMAIN lock' = Locks

\* What a cleanup keeps of the spare connections.
LEMMA OnceKept ==
    ASSUME NEW T, NEW s \in Seq(T), NEW S, NEW G, OnceBut(s, G)
    PROVE  OnceBut(Filtered(s, S), G) /\ Filtered(s, S) \in Seq(T) /\ Elements(Filtered(s, S)) \subseteq Elements(s)
<1> DEFINE k == Filtered(s, S)
<1>1. PICK h : FilteredFrom(h, k, s, S, Len(s))  BY KeptPlaces
<1>2. k \in Seq(T) /\ Len(k) \in Nat /\ Len(s) \in Nat  BY KeptPlaces
<1> HIDE DEF k
<1>3. ASSUME NEW i \in 1 .. Len(k), NEW j \in 1 .. Len(k), k[i] = k[j], k[i] \notin G PROVE i = j
  <2>1. h[i] \in 1 .. Len(s) /\ h[j] \in 1 .. Len(s) /\ k[i] = s[h[i]] /\ k[j] = s[h[j]]  BY <1>1 DEF FilteredFrom
  <2>2. h[i] = h[j]  BY <1>3, <2>1 DEF OnceBut
  <2>3. ~(h[i] < h[j]) /\ ~(h[j] < h[i])  BY <1>2, <2>1, <2>2
  <2>4. ~(i < j) /\ ~(j < i)  BY <1>1, <2>3 DEF FilteredFrom
  <2> QED BY <1>2, <2>4
<1>4. ASSUME NEW j \in 1 .. Len(k) PROVE k[j] \in Elements(s)  BY <1>1 DEF FilteredFrom, Elements
<1> QED BY <1>2, <1>3, <1>4 DEF OnceBut, Elements, k

\* What a task has to see to when it moves on.
LEMMA ChainKeeps ==
    ASSUME ChainInv, NEW t \in ChainTasks, NEW r, NEW s, NEW L, ChainMoves(t, r, s, L), twice \subseteq twice',
           s \in Seq(ConnIds), OnceBut(s, twice),
           r.pc \in Idling => lock'["idle"] = t,
           \A u \in ChainTasks \ {t} : task[u].pc \in Idling => lock'["idle"] = u,
           r.pc \in Owning \cup {"popping"} => r.id \in ConnIds,
           r.pc \in Owning => r.id \in twice \/ r.id \notin Elements(s),
           \A u \in ChainTasks \ {t} : task[u].pc \in Owning => task[u].id \in twice \/ task[u].id \notin Elements(s),
           \A u \in ChainTasks \ {t} : r.pc \in Owning \cup {"popping"} /\ task[u].pc \in Owning \cup {"popping"}
              => r.id \in twice' \/ r.id # task[u].id,
           r.pc = "using" => r.id \in twice \cup L,
           \A u \in ChainTasks \ {t} : task[u].pc = "using" => task[u].id \in twice \cup L
    PROVE  ChainInv'
<1> USE DEF ChainMoves
<1>1. \A u \in ChainTasks : u = t \/ u \in ChainTasks \ {t}  OBVIOUS
<1>2. task'[t] = r /\ \A u \in ChainTasks \ {t} : task'[u] = task[u]  OBVIOUS
<1>3. (\A u \in ChainTasks : DOMAIN task'[u] = {"pc", "id", "uses"})
      /\ (\A u \in ChainTasks : task'[u].pc \in Owning \cup {"out", "popping", "cleanup"})
  BY <1>1, <1>2 DEF ChainInv
<1>4. \A u \in ChainTasks : task'[u].pc \in Idling => lock'["idle"] = u  BY <1>1, <1>2
<1>5. \A u \in ChainTasks : task'[u].pc \in Owning \cup {"popping"} => task'[u].id \in ConnIds
  BY <1>1, <1>2 DEF ChainInv
<1>6. \A u \in ChainTasks : task'[u].pc \in Owning => task'[u].id \in twice' \/ task'[u].id \notin Elements(s)
  BY <1>1, <1>2
<1>7. ASSUME NEW u \in ChainTasks, NEW v \in ChainTasks, u # v, task'[u].pc \in Owning \cup {"popping"}, task'[v].pc \in Owning \cup {"popping"}
      PROVE  task'[u].id \in twice' \/ task'[u].id # task'[v].id  BY <1>1, <1>2, <1>7 DEF ChainInv
<1>8. \A u \in ChainTasks : task'[u].pc = "using" => task'[u].id \in twice' \cup L  BY <1>1, <1>2
<1>9. \A u \in ChainTasks : task'[u].pc \in Owning => task'[u].id \in twice' \/ task'[u].id \notin Elements(spare')
  BY <1>6
<1> QED BY <1>3, <1>4, <1>5, <1>7, <1>8, <1>9 DEF ChainInv, OnceBut, Elements

\* Every step keeps it.
LEMMA ChainInvNext == ChainInv /\ [ChainPoolNext]_chainVars => ChainInv'
<1> SUFFICES ASSUME ChainInv, [ChainPoolNext]_chainVars PROVE ChainInv'  OBVIOUS
<1> USE DEF ChainInv, Owning, Holding, Idling
<1>1. ASSUME NEW t \in ChainTasks, NEW id \in ConnIds, AcquireChainConn(t, id) PROVE ChainInv'
  <2> DEFINE r == [pc |-> "popping", id |-> id, uses |-> task[t].uses + 1]
  <2>1. ChainMoves(t, r, spare, lent) /\ lock'["idle"] = t /\ lock["idle"] = Free
    BY <1>1 DEF AcquireChainConn, ChainMoves, Available, Locks
  <2>2. twice \subseteq twice' /\ \A u \in ChainTasks \ {t} : task[u].pc \in Owning \cup {"popping"} => id \in twice' \/ task[u].id # id
    BY <1>1 DEF AcquireChainConn, InUse
  <2>3. \A u \in ChainTasks : task[u].pc \notin Idling  BY <2>1, ChainPoolAssumption
  <2> QED BY <2>1, <2>2, <2>3, ChainKeeps
<1>2. ASSUME NEW t \in ChainTasks, PopIdle(t) PROVE ChainInv'
  <2> DEFINE n == Len(spare)
             k == SubSeq(spare, 1, n - 1)
             r == [task[t] EXCEPT !.pc = "activate", !.id = spare[n]]
  <2>1. ChainMoves(t, r, k, lent) /\ lock' = lock /\ twice' = twice /\ r.pc = "activate" /\ r.id = spare[n] /\ task[t].pc = "popping"
    BY <1>2 DEF PopIdle, ChainMoves
  <2>2. n \in Nat \ {0} /\ n \in 1 .. n  BY <1>2 DEF PopIdle
  <2>3. k \in Seq(ConnIds) /\ Len(k) = n - 1 /\ \A i \in 1 .. n - 1 : k[i] = spare[i] /\ i \in 1 .. n /\ i # n
    <3> DEFINE m == n - 1
    <3>1. 1 \in Int /\ m \in Int /\ \A i \in 1 .. m : spare[i] \in ConnIds  BY <2>2
    <3> HIDE DEF m
    <3>2. /\ SubSeq(spare, 1, m) \in Seq(ConnIds)
          /\ Len(SubSeq(spare, 1, m)) = IF 1 <= m THEN m - 1 + 1 ELSE 0
          /\ \A i \in 1 .. m - 1 + 1 : SubSeq(spare, 1, m)[i] = spare[1 + i - 1]
      BY ONLY <3>1, SubSeqProperties
    <3>3. \A i \in 1 .. m - 1 + 1 : 1 + i - 1 = i  BY <3>1
    <3> DEFINE w == SubSeq(spare, 1, m)
    <3>4. w \in Seq(ConnIds) /\ Len(w) = (IF 1 <= m THEN m - 1 + 1 ELSE 0) /\ \A i \in 1 .. m - 1 + 1 : w[i] = spare[1 + i - 1]
      BY <3>2
    <3>5. n \in Nat \ {0} /\ m = n - 1  BY <2>2 DEF m
    <3> HIDE DEF w, n
    <3>6. Len(w) = n - 1 /\ m - 1 + 1 = n - 1  BY ONLY <3>4, <3>5
    <3>7. \A i \in 1 .. n - 1 : w[i] = spare[i] /\ i \in 1 .. n /\ i # n  BY ONLY <3>3, <3>4, <3>5, <3>6
    <3>8. k = w  BY DEF m, w
    <3> QED BY <3>4, <3>6, <3>7, <3>8
  <2> HIDE DEF k, n, r
  <2>4. OnceBut(k, twice) /\ (spare[n] \in twice \/ spare[n] \notin Elements(k)) /\ Elements(k) \subseteq Elements(spare) /\ spare[n] \in Elements(spare)
        /\ spare[n] \in ConnIds
    <3>1. OnceBut(spare, twice) /\ spare[n] \in ConnIds /\ spare[n] \in Elements(spare)  BY <2>2 DEF n, Elements
    <3>2. OnceBut(k, twice)  BY ONLY <2>2, <2>3, <3>1 DEF OnceBut, n
    <3>3. spare[n] \in twice \/ spare[n] \notin Elements(k)  BY ONLY <2>2, <2>3, <3>1 DEF OnceBut, Elements, n
    <3>4. Elements(k) \subseteq Elements(spare)  BY ONLY <2>2, <2>3 DEF Elements, n
    <3> QED BY <3>1, <3>2, <3>3, <3>4
  <2>5. \A u \in ChainTasks \ {t} : task[u].pc \notin Idling  BY <2>1
  <2>6. \A u \in ChainTasks \ {t} : task[u].pc \in Owning => task[u].id \in twice \/ (task[u].id \notin Elements(k) /\ task[u].id # spare[n])
    BY <2>4
  <2> QED BY <2>1, <2>3, <2>4, <2>5, <2>6, ChainKeeps
<1>3. ASSUME NEW t \in ChainTasks, ActivateIdle(t) PROVE ChainInv'
  <2> DEFINE r == [task[t] EXCEPT !.pc = "using"]
  <2>1. ChainMoves(t, r, spare, lent \cup {task[t].id}) /\ r.pc = "using" /\ r.id = task[t].id /\ task[t].pc = "activate" /\ twice' = twice
    BY <1>3 DEF ActivateIdle, Goto, ChainMoves, Unlocked
  <2>2. \A u \in ChainTasks \ {t} : task[u].pc \notin Idling  BY <2>1
  <2> HIDE DEF r
  <2> QED BY <2>1, <2>2, ChainKeeps
<1>4. ASSUME NEW t \in ChainTasks, NoneIdle(t) PROVE ChainInv'
  <2> DEFINE r == [task[t] EXCEPT !.pc = "counting"]
  <2>1. ChainMoves(t, r, spare, lent) /\ r.pc = "counting" /\ r.id = task[t].id /\ task[t].pc = "popping" /\ spare = <<>> /\ twice' = twice
    BY <1>4 DEF NoneIdle, Goto, ChainMoves, Unlocked
  <2>2. \A u \in ChainTasks \ {t} : task[u].pc \notin Idling  BY <2>1
  <2>3. Elements(spare) = {}  BY <2>1 DEF Elements
  <2> HIDE DEF r
  <2> QED BY <2>1, <2>2, <2>3, ChainKeeps
<1>5. ASSUME NEW t \in ChainTasks, CheckLimit(t) PROVE ChainInv'
  <2>1. PICK p \in {"out", "insert"} : task' = [task EXCEPT ![t].pc = p] /\ UNCHANGED <<lent, spare, lock, twice>> /\ task[t].pc = "counting"
    BY <1>5 DEF CheckLimit, Goto
  <2> DEFINE r == [task[t] EXCEPT !.pc = p]
  <2>2. ChainMoves(t, r, spare, lent) /\ r.pc = p /\ r.id = task[t].id  BY <2>1 DEF ChainMoves
  <2> HIDE DEF r
  <2> QED BY <2>1, <2>2, ChainKeeps
<1>6. ASSUME NEW t \in ChainTasks, InsertConnection(t) PROVE ChainInv'
  <2> DEFINE r == [task[t] EXCEPT !.pc = "record"]
  <2>1. ChainMoves(t, r, spare, lent) /\ r.pc = "record" /\ r.id = task[t].id /\ lock'["idle"] = lock["idle"] /\ task[t].pc = "insert" /\ twice' = twice
    BY <1>6 DEF InsertConnection, Goto, ChainMoves, Locks
  <2> HIDE DEF r
  <2> QED BY <2>1, ChainKeeps
<1>7. ASSUME NEW t \in ChainTasks, RecordActive(t) PROVE ChainInv'
  <2> DEFINE r == [task[t] EXCEPT !.pc = "using"]
  <2>1. ChainMoves(t, r, spare, lent \cup {task[t].id}) /\ r.pc = "using" /\ r.id = task[t].id /\ lock'["idle"] = lock["idle"] /\ task[t].pc = "record" /\ twice' = twice
    BY <1>7 DEF RecordActive, Goto, ChainMoves, Unlocked, Locks
  <2> HIDE DEF r
  <2> QED BY <2>1, ChainKeeps
<1>8. ASSUME NEW t \in ChainTasks, ReleaseChainConn(t) PROVE ChainInv'
  <2>1. PICK p \in {"forget", "putback"} :
           task' = [task EXCEPT ![t].pc = p] /\ lent' = lent \ {task[t].id} /\ UNCHANGED <<spare, twice>> /\ task[t].pc = "using"
           /\ lock' = [lock EXCEPT !["active"] = t]
    BY <1>8 DEF ReleaseChainConn, Goto
  <2> DEFINE r == [task[t] EXCEPT !.pc = p]
  <2>2. ChainMoves(t, r, spare, lent \ {task[t].id}) /\ r.pc = p /\ r.id = task[t].id /\ lock'["idle"] = lock["idle"]
    BY <2>1 DEF ChainMoves, Locks
  <2>3. \A u \in ChainTasks \ {t} : task[u].pc = "using" => task[u].id \in twice \cup (lent \ {task[t].id})  BY <2>1
  <2> HIDE DEF r
  <2> QED BY <2>1, <2>2, <2>3, ChainKeeps
<1>9. ASSUME NEW t \in ChainTasks, Forget(t) PROVE ChainInv'
  <2> DEFINE r == [task[t] EXCEPT !.pc = "out"]
  <2>1. ChainMoves(t, r, spare, lent) /\ r.pc = "out" /\ lock'["idle"] = lock["idle"] /\ task[t].pc = "forget" /\ twice' = twice
    BY <1>9 DEF Forget, Goto, ChainMoves, Unlocked, Locks
  <2> HIDE DEF r
  <2> QED BY <2>1, ChainKeeps
<1>10. ASSUME NEW t \in ChainTasks, PutBack(t) PROVE ChainInv'
  <2> DEFINE r == [task[t] EXCEPT !.pc = "out"]
             x == task[t].id
             s == Append(spare, x)
  <2>1. ChainMoves(t, r, s, lent) /\ r.pc = "out" /\ lock'["idle"] = lock["idle"] /\ task[t].pc = "putback" /\ twice' = twice
    BY <1>10 DEF PutBack, Goto, ChainMoves, Unlocked, Locks
  <2>2. x \in ConnIds /\ (x \in twice \/ x \notin Elements(spare))  BY <2>1
  <2>3. s \in Seq(ConnIds) /\ Len(s) = Len(spare) + 1 /\ s[Len(spare) + 1] = x /\ \A i \in 1 .. Len(spare) : s[i] = spare[i]
    BY <2>2
  <2>4. \A i \in 1 .. Len(spare) + 1 : i = Len(spare) + 1 \/ i \in 1 .. Len(spare)  OBVIOUS
  <2> HIDE DEF s, x, r
  <2>5. OnceBut(s, twice)  BY <2>2, <2>3, <2>4 DEF OnceBut, Elements
  <2>6. Elements(s) \subseteq Elements(spare) \cup {x}  BY <2>3, <2>4 DEF Elements
  <2>7. \A u \in ChainTasks \ {t} : task[u].pc \in Owning => task[u].id \in twice \/ task[u].id # x  BY <2>1 DEF x
  <2> QED BY <2>1, <2>3, <2>5, <2>6, <2>7, ChainKeeps
<1>11. ASSUME NEW t \in ChainTasks, CleanupIdleChains(t) PROVE ChainInv'
  <2>0. spare \in Seq(ConnIds) /\ OnceBut(spare, twice)  OBVIOUS
  <2>1. PICK gone : spare' = FlattenSeq([i \in 1 .. Len(spare) |-> IF spare[i] \in gone THEN <<>> ELSE <<spare[i]>>])
    BY <1>11 DEF CleanupIdleChains
  <2> DEFINE k == Filtered(spare, ConnIds \ gone)
             r == [task[t] EXCEPT !.pc = "cleanup", !.uses = @ + 1]
  <2>2. k \in Seq(ConnIds) /\ OnceBut(k, twice) /\ Elements(k) \subseteq Elements(spare)  BY ONLY <2>0, OnceKept
  <2>3. spare' = k  BY ONLY <2>0, <2>1, WithoutSome
  <2> HIDE DEF k
  <2>4. ChainMoves(t, r, k, lent) /\ r.pc = "cleanup" /\ lock'["idle"] = t /\ lock["idle"] = Free /\ twice' = twice
    BY <1>11, <2>3 DEF CleanupIdleChains, ChainMoves, Available, Locks
  <2>5. \A u \in ChainTasks : task[u].pc \notin Idling  BY <2>4, ChainPoolAssumption
  <2> HIDE DEF r
  <2> QED BY <2>2, <2>4, <2>5, ChainKeeps
<1>12. ASSUME NEW t \in ChainTasks, CleanupConnections(t) PROVE ChainInv'
  <2> DEFINE r == [task[t] EXCEPT !.pc = "out"]
  <2>1. ChainMoves(t, r, spare, lent) /\ r.pc = "out" /\ task[t].pc = "cleanup" /\ twice' = twice
    BY <1>12 DEF CleanupConnections, Goto, ChainMoves, Unlocked, Locks
  <2>2. \A u \in ChainTasks \ {t} : task[u].pc \notin Idling  BY <2>1
  <2> HIDE DEF r
  <2> QED BY <2>1, <2>2, ChainKeeps
<1>13. CASE UNCHANGED chainVars  BY <1>13 DEF chainVars, OnceBut, Elements
<1>14. ASSUME NEW t \in ChainTasks, ReleaseUnknown(t) PROVE ChainInv'
  <2> DEFINE r == [task[t] EXCEPT !.pc = "out"]
  <2>1. ChainMoves(t, r, spare, lent) /\ r.pc = "out" /\ lock' = lock /\ twice' = twice
    BY <1>14 DEF ReleaseUnknown, Goto, ChainMoves
  <2> HIDE DEF r
  <2> QED BY <2>1, ChainKeeps
<1> HIDE DEF ChainInv, Owning, Holding, Idling
<1> QED BY <1>1, <1>2, <1>3, <1>4, <1>5, <1>6, <1>7, <1>8, <1>9, <1>10, <1>11, <1>12, <1>13, <1>14
        DEF ChainPoolNext, ChainTaskStep

\* It says what the runs check.
LEMMA ChainInvSays == ChainInv => LentToOne
<1> SUFFICES ASSUME ChainInv PROVE LentToOne  OBVIOUS
<1>1. ASSUME NEW id \in ConnIds \ twice PROVE Cardinality(Holders(id)) + Cardinality(IdlePlaces(id)) <= 1
  <2>0. /\ Cardinality({}) = 0 /\ \A x : Cardinality({x}) = 1  BY FS_EmptySet, FS_Singleton
  <2>1. ASSUME NEW t \in Holders(id) PROVE Holders(id) = {t} /\ IdlePlaces(id) = {}
    <3>1. t \in ChainTasks /\ task[t].pc \in Owning /\ task[t].id = id  BY DEF Holders, Owning, Holding
    <3>2. \A u \in Holders(id) : u = t  BY <3>1 DEF Holders, ChainInv, Owning, Holding
    <3>3. IdlePlaces(id) = {}  BY <3>1 DEF IdlePlaces, ChainInv, Elements
    <3> QED BY <3>2, <3>3
  <2>2. ASSUME NEW i \in IdlePlaces(id) PROVE IdlePlaces(id) = {i}  BY DEF IdlePlaces, ChainInv, OnceBut
  <2>3. CASE Holders(id) # {}
    <3>1. PICK t \in Holders(id) : TRUE  BY <2>3
    <3>2. Cardinality(Holders(id)) = 1 /\ Cardinality(IdlePlaces(id)) = 0  BY <2>0, <2>1, <3>1
    <3> QED BY <3>2
  <2>4. CASE Holders(id) = {} /\ IdlePlaces(id) = {}  BY <2>0, <2>4
  <2>5. CASE Holders(id) = {} /\ IdlePlaces(id) # {}
    <3>1. PICK i \in IdlePlaces(id) : TRUE  BY <2>5
    <3>2. Cardinality(Holders(id)) = 0 /\ Cardinality(IdlePlaces(id)) = 1  BY <2>0, <2>2, <2>5, <3>1
    <3> QED BY <3>2
  <2> QED BY <2>3, <2>4, <2>5
<1> QED BY <1>1 DEF LentToOne, ChainInv

\* A connection of a chain whose id was not asked for while in use is never lent to two tasks, nor idle
\* while one uses it, however acquisitions, releases and cleanups of it and of others follow each other
\* on the three locks (api/websocket/chain_connection_pool.rs).
THEOREM ConnectionsAreLentOnce == ChainPoolSpec => []LentToOne
  BY ChainInvSays, ChainInvInit, ChainInvNext, PTL DEF ChainPoolSpec

-----------------------------------------------------------------------------
(* The limits on the rate of requests (api/server.rs, api/websocket/)      *)

\* The times after t, and those of the window that begins there.
After(t) == {x \in Int : x > t}
Span(t) == {x \in Int : x > t /\ x <= t + Window}

\* Requests let through up to n.
GrantedBy(g, n) == g \in Seq(Int) /\ \A i \in 1 .. Len(g) : g[i] <= n

\* What was let through, with a request more or a tick later.
LEMMA PastAppend ==
    ASSUME NEW n \in Int, NEW g, GrantedBy(g, n)
    PROVE  /\ GrantedBy(Append(g, n), n) /\ GrantedBy(g, n + 1)
           /\ \A S : HowMany(Append(g, n), S) = HowMany(g, S) + (IF n \in S THEN 1 ELSE 0)
           /\ \A S : HowMany(g, S) \in Nat
           /\ \A t \in Int : t >= n => HowMany(g, After(t)) = 0
<1>0. g \in Seq(Int) /\ Len(g) \in Nat  BY DEF GrantedBy
<1>1. Append(g, n) \in Seq(Int) /\ Len(Append(g, n)) = Len(g) + 1 /\ Append(g, n)[Len(g) + 1] = n
      /\ \A i \in 1 .. Len(g) : Append(g, n)[i] = g[i]
  BY <1>0
<1>2. \A i \in 1 .. Len(g) + 1 : i = Len(g) + 1 \/ i \in 1 .. Len(g)  BY <1>0
<1>3. GrantedBy(Append(g, n), n)  BY <1>1, <1>2 DEF GrantedBy
<1>4. GrantedBy(g, n + 1)
  <2> SUFFICES ASSUME NEW i \in 1 .. Len(g) PROVE g[i] <= n + 1  BY <1>0 DEF GrantedBy
  <2>1. g[i] \in Int /\ g[i] <= n  BY <1>0 DEF GrantedBy
  <2> QED BY <2>1
<1>5. ASSUME NEW S PROVE HowMany(Append(g, n), S) = HowMany(g, S) + (IF n \in S THEN 1 ELSE 0) /\ HowMany(g, S) \in Nat
  BY <1>0, CountAppend, CountType
<1>6. ASSUME NEW t \in Int, t >= n PROVE HowMany(g, After(t)) = 0
  <2>1. \A i \in 1 .. Len(g) : g[i] \notin After(t)
    <3> TAKE i \in 1 .. Len(g)
    <3>1. g[i] \in Int /\ g[i] <= n  BY <1>0 DEF GrantedBy
    <3> QED BY <1>6, <3>1 DEF After
  <2> QED BY <1>0, <2>1, CountNone
<1> QED BY <1>3, <1>4, <1>5, <1>6

\* The sliding window: what was let through lately is still kept.
WindowOK(s, g, n) ==
    /\ s \in Seq(Int) /\ GrantedBy(g, n)
    /\ \A t \in Int : t >= n - Window => HowMany(g, After(t)) <= HowMany(s, After(t))
    /\ \A t \in Int : HowMany(g, Span(t)) <= Limit

\* Time passes.
LEMMA WindowTick ==
    ASSUME NEW n \in Int, NEW s, NEW g, WindowOK(s, g, n)
    PROVE  WindowOK(s, g, n + 1)
<1>1. \A t \in Int : t >= (n + 1) - Window => t >= n - Window  BY RateAssumption
<1>2. GrantedBy(g, n) /\ n \in Int  BY DEF WindowOK
<1>3. GrantedBy(g, n + 1)  BY <1>2, PastAppend
<1>4. \A t \in Int : t >= (n + 1) - Window => HowMany(g, After(t)) <= HowMany(s, After(t))  BY <1>1 DEF WindowOK
<1>5. s \in Seq(Int) /\ \A t \in Int : HowMany(g, Span(t)) <= Limit  BY DEF WindowOK
<1> QED BY <1>3, <1>4, <1>5 DEF WindowOK

\* What is older than the window goes, and a request is let through when there is room.
LEMMA WindowKeeps ==
    ASSUME NEW n \in Int, NEW s, NEW g, WindowOK(s, g, n)
    PROVE  LET k == Filtered(s, After(n - Window))
           IN  WindowOK(k, g, n) /\ (Len(k) < Limit => WindowOK(Append(k, n), Append(g, n), n))
<1> DEFINE k == Filtered(s, After(n - Window))
<1>0. s \in Seq(Int) /\ g \in Seq(Int) /\ GrantedBy(g, n) /\ Window \in Nat \ {0} /\ Limit \in Nat \ {0} /\ n - Window \in Int
  BY RateAssumption DEF WindowOK, GrantedBy
<1>1. k \in Seq(Int)  BY <1>0, KeptPlaces
<1>2. Len(k) = HowMany(s, After(n - Window))  BY <1>0, KeptCount
<1>3. ASSUME NEW t \in Int, t >= n - Window PROVE HowMany(k, After(t)) = HowMany(s, After(t)) /\ After(t) \subseteq After(n - Window)
  <2>1. After(t) \in SUBSET After(n - Window)  BY <1>0, <1>3 DEF After
  <2> QED BY <1>0, <2>1, KeptCount
<1> HIDE DEF k
<1>4. WindowOK(k, g, n)  BY <1>1, <1>3 DEF WindowOK
<1>5. ASSUME Len(k) < Limit PROVE WindowOK(Append(k, n), Append(g, n), n)
  <2>1. \A S : /\ HowMany(Append(k, n), S) = HowMany(k, S) + (IF n \in S THEN 1 ELSE 0) /\ HowMany(k, S) \in Nat
               /\ HowMany(Append(g, n), S) = HowMany(g, S) + (IF n \in S THEN 1 ELSE 0) /\ HowMany(g, S) \in Nat
    <3> TAKE S
    <3>1. HowMany(Append(k, n), S) = HowMany(k, S) + (IF n \in S THEN 1 ELSE 0) /\ HowMany(k, S) \in Nat
      BY <1>1, CountAppend, CountType
    <3>2. HowMany(Append(g, n), S) = HowMany(g, S) + (IF n \in S THEN 1 ELSE 0) /\ HowMany(g, S) \in Nat
      BY <1>0, CountAppend, CountType
    <3> QED BY <3>1, <3>2
  <2>2. ASSUME NEW t \in Int, t >= n - Window PROVE HowMany(Append(g, n), After(t)) <= HowMany(Append(k, n), After(t))
    <3>1. HowMany(g, After(t)) <= HowMany(k, After(t))  BY <1>4, <2>2 DEF WindowOK
    <3> QED BY <2>1, <3>1
  <2>3. ASSUME NEW t \in Int PROVE HowMany(Append(g, n), Span(t)) <= Limit
    <3>1. HowMany(g, Span(t)) <= Limit  BY DEF WindowOK
    <3>2. CASE n \notin Span(t)  BY <1>0, <2>1, <3>1, <3>2
    <3>3. CASE n \in Span(t)
      <4>1. t >= n - Window  BY <1>0, <3>3 DEF Span
      <4>2. HowMany(g, Span(t)) <= HowMany(g, After(t))
        <5>1. Span(t) \subseteq After(t)  BY DEF Span, After
        <5> QED BY <1>0, <5>1, CountWithin
      <4>3. HowMany(g, After(t)) <= HowMany(s, After(t))  BY <4>1 DEF WindowOK
      <4>4. HowMany(s, After(t)) <= HowMany(s, After(n - Window))  BY <1>0, <1>3, <4>1, CountWithin
      <4>5. HowMany(s, After(t)) \in Nat /\ HowMany(s, After(n - Window)) \in Nat /\ HowMany(g, Span(t)) \in Nat /\ HowMany(g, After(t)) \in Nat
        BY <1>0, <2>1, CountType
      <4>6. HowMany(g, Span(t)) < Limit  BY <1>0, <1>2, <1>5, <4>2, <4>3, <4>4, <4>5
      <4>7. HowMany(Append(g, n), Span(t)) = HowMany(g, Span(t)) + 1  BY <2>1, <3>3
      <4> QED BY <1>0, <4>5, <4>6, <4>7
    <3> QED BY <3>2, <3>3
  <2>4. Append(k, n) \in Seq(Int) /\ GrantedBy(Append(g, n), n)  BY <1>0, <1>1, PastAppend
  <2> QED BY <2>2, <2>3, <2>4 DEF WindowOK
<1> QED BY <1>4, <1>5 DEF k

\* A token bucket: what was let through after t and the tokens left are a full bucket
\* and what was earned since; a bucket that was dropped had earned all of it again.
Earned(d) == (d + RefillTicks - 2) \div RefillTicks

\* The tokens of a bucket and what was let through: at most a full bucket and what was earned.
BucketOK(b, g, n) ==
    /\ GrantedBy(g, n)
    /\ b = Absent => \A t \in Int : t < n => HowMany(g, After(t)) <= Earned(n - t)
    /\ b # Absent =>
          /\ DOMAIN b = {"tokens", "last"} /\ b.tokens \in 0 .. Limit /\ b.last \in Int /\ b.last <= n
          /\ \A t \in Int : t >= b.last => HowMany(g, After(t)) + b.tokens <= Limit
          /\ \A t \in Int : t < b.last => HowMany(g, After(t)) + b.tokens <= Limit + Earned(b.last - t)
          /\ \A t \in Int : t >= b.last + RefillTicks - 1 => HowMany(g, After(t)) = 0

\* What is earned grows with the time, one per refill.
LEMMA EarnedGrows ==
    /\ \A d \in Int : Earned(d) \in Int
    /\ \A d, e \in Int : d <= e => Earned(d) <= Earned(e)
    /\ \A d \in Int : d > 0 => Earned(d) >= 0
    /\ \A d, k \in Int : Earned(d) + k <= Earned(d + k * RefillTicks)
    /\ \A d, e \in Int : Earned(d) + (e \div RefillTicks) <= Earned(d + e)
    /\ \A d, e \in Int : e <= d + RefillTicks - 2 => e \div RefillTicks <= Earned(d)
<1> DEFINE r == RefillTicks
<1>0. r \in Nat \ {0}  BY RateAssumption
<1> HIDE DEF r
<1>1. \A d \in Int : Earned(d) = (d + r - 2) \div r /\ d + r - 2 \in Int  BY <1>0 DEF Earned, r
<1>2. \A d \in Int : Earned(d) \in Int  BY <1>0, <1>1, DivBelow
<1>3. ASSUME NEW d \in Int, NEW e \in Int, d <= e PROVE Earned(d) <= Earned(e)
  <2>1. d + r - 2 <= e + r - 2  BY <1>0, <1>3
  <2> QED BY <1>0, <1>1, <2>1, DivMonotone
<1>4. ASSUME NEW d \in Int, d > 0 PROVE Earned(d) >= 0
  <2>1. r * 0 <= d + r - 2  BY <1>0, <1>4
  <2>2. 0 <= (d + r - 2) \div r  BY <1>0, <1>1, <2>1, DivLargest
  <2> QED BY <1>1, <1>2, <2>2
<1>5. ASSUME NEW d \in Int, NEW k \in Int PROVE Earned(d) + k <= Earned(d + k * r)
  <2> DEFINE a == d + r - 2
  <2>1. a \in Int /\ k * r \in Int /\ d + k * r \in Int  BY <1>0
  <2>2. (a \div r) + k <= (a + k * r) \div r
    <3> HIDE DEF a
    <3> QED BY <1>0, <2>1, DivPlus
  <2>3. a + k * r = (d + k * r) + r - 2
    <3> DEFINE m == k * r
    <3>1. m \in Int  BY <2>1
    <3> HIDE DEF m
    <3>2. d + r - 2 + m = (d + m) + r - 2  BY <1>0, <3>1
    <3> QED BY <3>2 DEF m
  <2> QED BY <1>1, <2>1, <2>2, <2>3
<1>6. ASSUME NEW d \in Int, NEW e \in Int PROVE Earned(d) + (e \div r) <= Earned(d + e)
  <2> DEFINE a == d + r - 2
  <2>1. a \in Int  BY <1>0
  <2>2. (a \div r) + (e \div r) <= (a + e) \div r
    <3> HIDE DEF a
    <3> QED BY <1>0, <2>1, DivSum
  <2>3. a + e = (d + e) + r - 2  BY <1>0
  <2> QED BY <1>1, <2>1, <2>2, <2>3
<1>7. ASSUME NEW d \in Int, NEW e \in Int, e <= d + r - 2 PROVE e \div r <= Earned(d)  BY <1>0, <1>1, <1>7, DivMonotone
<1> QED BY <1>2, <1>3, <1>4, <1>5, <1>6, <1>7 DEF r

\* What the proofs use of the constants.
RateTypes == RefillTicks \in Nat \ {0} /\ Limit \in Nat \ {0} /\ Window \in Nat \ {0} /\ CleanupTicks \in Nat

\* What was let through after a time, and with a request more.
LEMMA PastCounts ==
    ASSUME NEW n \in Int, NEW g, GrantedBy(g, n)
    PROVE  /\ \A t \in Int : HowMany(g, After(t)) \in Nat
           /\ \A t \in Int : t >= n => HowMany(g, After(t)) = 0
           /\ \A t \in Int : HowMany(Append(g, n), After(t)) = HowMany(g, After(t)) + (IF n > t THEN 1 ELSE 0)
<1>1. \A t \in Int : n \in After(t) <=> n > t  BY DEF After
<1>2. \A t \in Int : HowMany(g, After(t)) \in Nat  BY PastAppend
<1>3. ASSUME NEW t \in Int, t >= n PROVE HowMany(g, After(t)) = 0
  <2>1. \A u \in Int : u >= n => HowMany(g, After(u)) = 0  BY PastAppend, Zenon
  <2> QED BY <1>3, <2>1
<1>4. ASSUME NEW t \in Int PROVE HowMany(Append(g, n), After(t)) = HowMany(g, After(t)) + (IF n > t THEN 1 ELSE 0)
  <2>1. HowMany(Append(g, n), After(t)) = HowMany(g, After(t)) + (IF n \in After(t) THEN 1 ELSE 0)  BY PastAppend
  <2> QED BY <1>1, <2>1
<1> QED BY <1>2, <1>3, <1>4

\* Nothing is lost with the time.
LEMMA EarnedSince ==
    ASSUME NEW n \in Int, NEW t \in Int, t < n
    PROVE  Earned(n - t) \in Int /\ Earned(n - t) >= 0
<1>1. n - t \in Int /\ n - t > 0  OBVIOUS
<1> QED BY <1>1, EarnedGrows

\* Time passes.
LEMMA BucketTick ==
    ASSUME NEW n \in Int, NEW b, NEW g, BucketOK(b, g, n)
    PROVE  BucketOK(b, g, n + 1)
<1>0. GrantedBy(g, n)  BY DEF BucketOK
<1>1. GrantedBy(g, n + 1)  BY <1>0, PastAppend
<1>2. ASSUME b = Absent, NEW t \in Int, t < n + 1 PROVE HowMany(g, After(t)) <= Earned(n + 1 - t)
  <2>1. CASE t < n
    <3>1. HowMany(g, After(t)) <= Earned(n - t)  BY <1>2, <2>1 DEF BucketOK
    <3>2. Earned(n - t) <= Earned(n + 1 - t) /\ Earned(n - t) \in Int /\ Earned(n + 1 - t) \in Int
      <4>1. n - t \in Int /\ n + 1 - t \in Int /\ n - t <= n + 1 - t  OBVIOUS
      <4> QED BY <4>1, EarnedGrows
    <3>3. HowMany(g, After(t)) \in Nat  BY <1>0, PastCounts
    <3> QED BY <3>1, <3>2, <3>3
  <2>2. CASE t = n
    <3>1. HowMany(g, After(t)) = 0  BY <1>0, <2>2, PastCounts
    <3>2. Earned(n + 1 - t) >= 0  BY <2>2, EarnedGrows
    <3> QED BY <3>1, <3>2
  <2> QED BY <1>2, <2>1, <2>2
<1>3. ASSUME b # Absent, b.last \in Int, b.last <= n PROVE b.last <= n + 1  BY <1>3
<1> QED BY <1>1, <1>2, <1>3 DEF BucketOK

\* A client that has no bucket gets a full one.
LEMMA BucketFresh ==
    ASSUME NEW n \in Int, NEW g, BucketOK(Absent, g, n)
    PROVE  BucketOK(Fresh(Limit, n), g, n) /\ Fresh(Limit, n) # Absent
<1> DEFINE b == Fresh(Limit, n)
<1>0. GrantedBy(g, n) /\ RateTypes  BY RateAssumption DEF BucketOK, RateTypes
<1>1. DOMAIN b = {"tokens", "last"} /\ b.tokens = Limit /\ b.last = n /\ b # Absent
  BY <1>0 DEF Fresh, Absent, RateTypes
<1> HIDE DEF b
<1>2. ASSUME NEW t \in Int, t >= n PROVE HowMany(g, After(t)) = 0  BY <1>0, <1>2, PastCounts
<1>3. ASSUME NEW t \in Int, t < n PROVE HowMany(g, After(t)) + Limit <= Limit + Earned(n - t)
  <2>1. HowMany(g, After(t)) <= Earned(n - t)  BY <1>3 DEF BucketOK
  <2>2. HowMany(g, After(t)) \in Nat /\ Earned(n - t) \in Int
    <3>1. n - t \in Int  OBVIOUS
    <3>2. Earned(n - t) \in Int  BY <3>1, EarnedGrows
    <3> QED BY <1>0, <3>2, PastCounts
  <2> QED BY <1>0, <2>1, <2>2 DEF RateTypes
<1>4. ASSUME NEW t \in Int, t >= n + RefillTicks - 1 PROVE HowMany(g, After(t)) = 0
  <2>1. t >= n  BY <1>0, <1>4 DEF RateTypes
  <2> QED BY <1>2, <2>1
<1>5. Limit \in 0 .. Limit /\ 0 + Limit <= Limit  BY <1>0 DEF RateTypes
<1>6. BucketOK(b, g, n)  BY <1>0, <1>1, <1>2, <1>3, <1>4, <1>5 DEF BucketOK
<1> QED BY <1>1, <1>6 DEF b

\* After t a client was let through no more than a full bucket and what it earned.
LEMMA BucketWithin ==
    ASSUME NEW n \in Int, NEW b, NEW g, BucketOK(b, g, n)
    PROVE  \A t \in Int : t < n => HowMany(g, After(t)) <= Limit + Earned(n - t)
<1> SUFFICES ASSUME NEW t \in Int, t < n PROVE HowMany(g, After(t)) <= Limit + Earned(n - t)  OBVIOUS
<1>0. GrantedBy(g, n) /\ RateTypes  BY RateAssumption DEF BucketOK, RateTypes
<1>1. HowMany(g, After(t)) \in Nat /\ Earned(n - t) \in Int /\ Earned(n - t) >= 0 /\ Limit \in Nat
  <2>1. HowMany(g, After(t)) \in Nat  BY <1>0, PastCounts
  <2> QED BY <1>0, <2>1, EarnedSince DEF RateTypes
<1>2. CASE b = Absent
  <2>1. HowMany(g, After(t)) <= Earned(n - t)  BY <1>2 DEF BucketOK
  <2> QED BY <1>1, <2>1
<1>3. CASE b # Absent
  <2>0. b.tokens \in 0 .. Limit /\ b.last \in Int /\ b.last <= n  BY <1>3 DEF BucketOK
  <2>1. CASE t >= b.last
    <3>1. HowMany(g, After(t)) + b.tokens <= Limit  BY <1>3, <2>1 DEF BucketOK
    <3> QED BY <1>1, <2>0, <3>1
  <2>2. CASE t < b.last
    <3>1. HowMany(g, After(t)) + b.tokens <= Limit + Earned(b.last - t)  BY <1>3, <2>2 DEF BucketOK
    <3>2. Earned(b.last - t) <= Earned(n - t) /\ Earned(b.last - t) \in Int
      <4>1. b.last - t \in Int /\ n - t \in Int /\ b.last - t <= n - t  BY <2>0
      <4> QED BY <4>1, EarnedGrows
    <3> QED BY <1>1, <2>0, <3>1, <3>2
  <2> QED BY <2>0, <2>1, <2>2
<1> QED BY <1>2, <1>3

\* A bucket is refilled for the whole refills since the last.
LEMMA BucketRefill ==
    ASSUME NEW b, NEW g, now \in Int, BucketOK(b, g, now), b # Absent
    PROVE  LET f == Refill(b, Limit, RefillTicks)
           IN  BucketOK(f, g, now) /\ f # Absent /\ f.tokens \in 0 .. Limit /\ f.last \in Int /\ now < f.last + RefillTicks
<1> DEFINE n == now
           l == b.last
           k == b.tokens
           new == (n - l) \div RefillTicks
           f == Refill(b, Limit, RefillTicks)
<1>0. GrantedBy(g, n) /\ RateTypes  BY RateAssumption DEF BucketOK, RateTypes
<1>1. k \in 0 .. Limit /\ l \in Int /\ l <= n /\ n \in Int /\ DOMAIN b = {"tokens", "last"}  BY DEF BucketOK
<1>2. new \in Int /\ n - l < RefillTicks * new + RefillTicks
  <2>1. n - l \in Int  BY <1>1
  <2> QED BY <1>0, <2>1, DivBelow DEF RateTypes
<1>3. CASE new > 0
  <2> DEFINE x == Smaller(k + new, Limit)
  <2>1. f = [tokens |-> x, last |-> n]  BY <1>3 DEF Refill
  <2>2. x \in 0 .. Limit /\ x <= k + new /\ x <= Limit /\ x \in Int
    <3> HIDE DEF new, k
    <3> QED BY <1>0, <1>1, <1>2, <1>3 DEF Smaller, RateTypes
  <2>3. DOMAIN f = {"tokens", "last"} /\ f.tokens = x /\ f.last = n /\ f # Absent
    <3> HIDE DEF x, f
    <3> QED BY <2>1, <2>2 DEF Absent
  <2>4. ASSUME NEW t \in Int, t >= n PROVE HowMany(g, After(t)) = 0  BY <1>0, <2>4, PastCounts
  <2>5. ASSUME NEW t \in Int, t < n PROVE HowMany(g, After(t)) + x <= Limit + Earned(n - t)
    <3>0. HowMany(g, After(t)) \in Nat /\ Earned(n - t) \in Int /\ Earned(n - t) >= 0
      <4>1. HowMany(g, After(t)) \in Nat  BY <1>0, PastCounts
      <4> QED BY <1>1, <2>5, <4>1, EarnedSince
    <3>1. CASE t < l
      <4>1. HowMany(g, After(t)) + k <= Limit + Earned(l - t)  BY <3>1 DEF BucketOK
      <4>2. Earned(l - t) + new <= Earned((l - t) + (n - l)) /\ Earned(l - t) \in Int
        <5>1. l - t \in Int /\ n - l \in Int  BY <1>1
        <5> QED BY <5>1, EarnedGrows
      <4>3. (l - t) + (n - l) = n - t  BY <1>1
      <4> HIDE DEF x, new, k, l, n
      <4> QED BY <1>0, <1>1, <1>2, <2>2, <3>0, <4>1, <4>2, <4>3 DEF RateTypes
    <3>2. CASE t >= l + RefillTicks - 1
      <4>1. HowMany(g, After(t)) = 0  BY <3>2 DEF BucketOK
      <4> HIDE DEF x, new, k, l, n
      <4> QED BY <1>0, <2>2, <3>0, <4>1 DEF RateTypes
    <3>3. CASE t >= l /\ t < l + RefillTicks - 1
      <4>1. HowMany(g, After(t)) + k <= Limit  BY <3>3 DEF BucketOK
      <4>2. new <= Earned(n - t)
        <5>1. n - t \in Int /\ n - l \in Int /\ n - l <= n - t + RefillTicks - 2
          <6> HIDE DEF l, n
          <6> QED BY <1>0, <1>1, <3>3 DEF RateTypes
        <5> QED BY <5>1, EarnedGrows
      <4> HIDE DEF x, new, k, l, n
      <4> QED BY <1>0, <1>1, <1>2, <2>2, <3>0, <4>1, <4>2 DEF RateTypes
    <3> QED BY <1>0, <1>1, <3>1, <3>2, <3>3 DEF RateTypes
  <2>6. ASSUME NEW t \in Int, t >= n + RefillTicks - 1 PROVE HowMany(g, After(t)) = 0
    <3>1. t >= n  BY <1>0, <1>1, <2>6 DEF RateTypes
    <3> QED BY <2>4, <3>1
  <2>7. 0 + x <= Limit /\ n <= n /\ n < n + RefillTicks  BY <1>0, <1>1, <2>2 DEF RateTypes
  <2> HIDE DEF x, f
  <2>8. BucketOK(f, g, n)
    <3> HIDE DEF n
    <3> QED BY <1>0, <1>1, <2>2, <2>3, <2>4, <2>5, <2>6, <2>7 DEF BucketOK
  <2> QED BY <1>1, <2>2, <2>3, <2>7, <2>8 DEF f
<1>4. CASE ~(new > 0)
  <2>1. f = b  BY <1>4 DEF Refill
  <2>2. n < l + RefillTicks
    <3>1. RefillTicks * new <= 0
      <4> HIDE DEF new
      <4>1. ASSUME RefillTicks * new > 0 PROVE FALSE
        <5>1. new > 0  BY <1>0, <1>2, <4>1, FactorPositive DEF RateTypes
        <5> QED BY <1>4, <5>1
      <4>2. RefillTicks * new \in Int  BY <1>0, <1>2 DEF RateTypes
      <4> QED BY <4>1, <4>2
    <3>2. RefillTicks * new \in Int  BY <1>0, <1>2 DEF RateTypes
    <3> DEFINE y == RefillTicks * new
    <3> HIDE DEF y, l, n
    <3>3. y \in Int /\ y <= 0 /\ n - l < y + RefillTicks  BY <1>2, <3>1, <3>2 DEF y, l, n
    <3> QED BY <1>0, <1>1, <3>3 DEF RateTypes
  <2> QED BY <1>1, <2>1, <2>2
<1> QED BY <1>3, <1>4

\* A request is let through for a token.
LEMMA BucketPay ==
    ASSUME NEW n \in Int, NEW b, NEW g, BucketOK(b, g, n), b # Absent, CanPay(b), n < b.last + RefillTicks
    PROVE  BucketOK(Charge(b), Append(g, n), n)
<1> DEFINE c == Charge(b)
<1>0. GrantedBy(g, n) /\ RateTypes  BY RateAssumption DEF BucketOK, RateTypes
<1>1. b.tokens \in 1 .. Limit /\ b.last \in Int /\ b.last <= n /\ DOMAIN b = {"tokens", "last"}
  BY <1>0 DEF BucketOK, CanPay, RateTypes
<1>2. DOMAIN c = {"tokens", "last"} /\ c.tokens = b.tokens - 1 /\ c.last = b.last /\ c # Absent
  BY <1>1, <1>0 DEF Charge, Absent, RateTypes
<1> HIDE DEF c
<1>3. c.tokens \in 0 .. Limit  BY <1>0, <1>1, <1>2 DEF RateTypes
<1>4. ASSUME NEW t \in Int
      PROVE  /\ HowMany(Append(g, n), After(t)) + c.tokens <= HowMany(g, After(t)) + b.tokens
             /\ HowMany(Append(g, n), After(t)) \in Nat /\ HowMany(g, After(t)) \in Nat
  <2>1. HowMany(Append(g, n), After(t)) = HowMany(g, After(t)) + (IF n > t THEN 1 ELSE 0) /\ HowMany(g, After(t)) \in Nat
    BY <1>0, PastCounts
  <2> QED BY <1>0, <1>1, <1>2, <2>1 DEF RateTypes
<1>5. ASSUME NEW t \in Int, t >= c.last PROVE HowMany(Append(g, n), After(t)) + c.tokens <= Limit
  <2>1. HowMany(g, After(t)) + b.tokens <= Limit  BY <1>2, <1>5 DEF BucketOK
  <2> QED BY <1>0, <1>1, <1>3, <1>4, <2>1 DEF RateTypes
<1>6. ASSUME NEW t \in Int, t < c.last PROVE HowMany(Append(g, n), After(t)) + c.tokens <= Limit + Earned(c.last - t)
  <2>1. HowMany(g, After(t)) + b.tokens <= Limit + Earned(b.last - t)  BY <1>2, <1>6 DEF BucketOK
  <2>2. Earned(b.last - t) \in Int  BY <1>1, EarnedGrows
  <2> QED BY <1>0, <1>1, <1>2, <1>3, <1>4, <2>1, <2>2 DEF RateTypes
<1>7. ASSUME NEW t \in Int, t >= c.last + RefillTicks - 1 PROVE HowMany(Append(g, n), After(t)) = 0
  <2>1. t >= n  BY <1>0, <1>1, <1>2, <1>7 DEF RateTypes
  <2> QED BY <1>0, <2>1, PastCounts
<1>8. GrantedBy(Append(g, n), n)  BY <1>0, PastAppend
<1>9. BucketOK(c, Append(g, n), n)  BY <1>1, <1>2, <1>3, <1>5, <1>6, <1>7, <1>8 DEF BucketOK
<1> QED BY <1>9 DEF c

\* A bucket that nobody used for so long is dropped: it would be full again.
LEMMA BucketDrop ==
    ASSUME NEW n \in Int, NEW b, NEW g, BucketOK(b, g, n), b # Absent, b.last <= n - CleanupTicks
    PROVE  BucketOK(Absent, g, n)
<1> DEFINE l == b.last
           e == (n - l) \div RefillTicks
<1>0. GrantedBy(g, n) /\ RateTypes  BY RateAssumption DEF BucketOK, RateTypes
<1>1. b.tokens \in 0 .. Limit /\ l \in Int /\ l <= n /\ n - l \in Int  BY DEF BucketOK
<1>2. Limit <= e /\ e \in Int
  <2>1. RefillTicks * Limit = Limit * RefillTicks /\ Limit * RefillTicks \in Int  BY <1>0 DEF RateTypes
  <2>2. CleanupTicks >= Limit * RefillTicks  BY RateAssumption
  <2>3. RefillTicks * Limit <= n - l
    <3> DEFINE y == Limit * RefillTicks
    <3> HIDE DEF y, l
    <3>1. y \in Int /\ CleanupTicks >= y /\ l <= n - CleanupTicks  BY <2>1, <2>2 DEF y, l
    <3>2. y <= n - l  BY <1>0, <1>1, <3>1 DEF RateTypes
    <3> QED BY <2>1, <3>2 DEF y
  <2>4. e \in Int  BY <1>0, <1>1, DivBelow DEF RateTypes
  <2>5. Limit <= e  BY <1>0, <1>1, <2>3, DivLargest DEF RateTypes
  <2> QED BY <2>4, <2>5
<1>3. ASSUME NEW t \in Int, t < n PROVE HowMany(g, After(t)) <= Earned(n - t)
  <2>0. HowMany(g, After(t)) \in Nat /\ Earned(n - t) \in Int /\ Earned(n - t) >= 0
    <3>1. HowMany(g, After(t)) \in Nat  BY <1>0, PastCounts
    <3> QED BY <1>3, <3>1, EarnedSince
  <2>1. CASE t < l
    <3>1. HowMany(g, After(t)) + b.tokens <= Limit + Earned(l - t)  BY <2>1 DEF BucketOK
    <3>2. Earned(l - t) + e <= Earned((l - t) + (n - l)) /\ Earned(l - t) \in Int
      <4>1. l - t \in Int  BY <1>1
      <4> QED BY <1>1, <4>1, EarnedGrows
    <3>3. (l - t) + (n - l) = n - t  BY <1>1
    <3> HIDE DEF e, l
    <3> QED BY <1>0, <1>1, <1>2, <2>0, <3>1, <3>2, <3>3 DEF RateTypes
  <2>2. CASE t >= l + RefillTicks - 1
    <3>1. HowMany(g, After(t)) = 0  BY <2>2 DEF BucketOK
    <3> QED BY <2>0, <3>1
  <2>3. CASE t >= l /\ t < l + RefillTicks - 1
    <3>1. HowMany(g, After(t)) + b.tokens <= Limit  BY <2>3 DEF BucketOK
    <3>2. e <= Earned(n - t)
      <4>1. n - t \in Int /\ n - l <= n - t + RefillTicks - 2
        <5> HIDE DEF l
        <5> QED BY <1>0, <1>1, <2>3 DEF RateTypes
      <4> QED BY <1>1, <4>1, EarnedGrows
    <3> HIDE DEF e, l
    <3> QED BY <1>0, <1>1, <1>2, <2>0, <3>1, <3>2 DEF RateTypes
  <2> QED BY <1>0, <1>1, <2>1, <2>2, <2>3 DEF RateTypes
<1> QED BY <1>0, <1>3 DEF BucketOK

\* The sliding window, or the token buckets, whichever this behaviour is about.
RateInv ==
    /\ now \in Int
    /\ DOMAIN seen = Peers /\ DOMAIN bucket = Peers /\ DOMAIN granted = Peers
    /\ which = "server" => \A p \in Peers : WindowOK(seen[p], granted[p], now)
    /\ which # "server" => \A p \in Peers : BucketOK(bucket[p], granted[p], now)

\* The code keeps the requests within the window.
LEMMA RecentIsKept ==
    ASSUME NEW p, now \in Int, seen[p] \in Seq(Int)
    PROVE  Recent(p) = Filtered(seen[p], After(now - Window))
<1> DEFINE s == seen[p]
           q == [i \in 1 .. Len(s) |-> IF s[i] > now - Window THEN <<s[i]>> ELSE <<>>]
           r == [i \in 1 .. Len(s) |-> IF s[i] \in After(now - Window) THEN <<s[i]>> ELSE <<>>]
<1>1. ASSUME NEW i \in 1 .. Len(s) PROVE s[i] \in After(now - Window) <=> s[i] > now - Window
  BY RateAssumption DEF After
<1>2. q = r  BY <1>1
<1>3. Recent(p) = FlattenSeq(q) /\ Filtered(s, After(now - Window)) = FlattenSeq(r)  BY DEF Recent, Filtered
<1> HIDE DEF q, r
<1> QED BY <1>2, <1>3

\* Before the first request.
LEMMA NothingGranted ==
    ASSUME NEW n \in Int
    PROVE  GrantedBy(<<>>, n) /\ \A S : HowMany(<<>>, S) = 0
<1>1. <<>> \in Seq(Int) /\ Len(<<>>) = 0 /\ 1 .. 0 = {}  OBVIOUS
<1>2. ASSUME NEW S PROVE HowMany(<<>>, S) = 0
  <2>1. \A i \in 1 .. Len(<<>>) : <<>>[i] \notin S  BY <1>1
  <2> QED BY <1>1, <2>1, CountNone
<1> QED BY <1>1, <1>2 DEF GrantedBy

\* A client that was let through nothing yet.
LEMMA BucketUnused == ASSUME NEW n \in Int PROVE BucketOK(Absent, <<>>, n)
<1>1. ASSUME NEW t \in Int, t < n PROVE HowMany(<<>>, After(t)) <= Earned(n - t)
  <2>1. HowMany(<<>>, After(t)) = 0  BY NothingGranted
  <2>2. Earned(n - t) >= 0  BY <1>1, EarnedSince
  <2> QED BY <2>1, <2>2
<1>2. GrantedBy(<<>>, n)  BY NothingGranted
<1> QED BY <1>1, <1>2 DEF BucketOK

\* It holds at first.
LEMMA RateInvInit == RateInit => RateInv
<1> SUFFICES ASSUME RateInit PROVE RateInv  OBVIOUS
<1>0. now = 0 /\ now \in Int /\ RateTypes  BY RateAssumption DEF RateInit, RateTypes
<1>1. \A p \in Peers : seen[p] = <<>> /\ bucket[p] = Absent /\ granted[p] = <<>>  BY DEF RateInit
<1>2. WindowOK(<<>>, <<>>, now)
  <2>1. \A t \in Int : HowMany(<<>>, After(t)) = 0 /\ HowMany(<<>>, Span(t)) = 0  BY <1>0, NothingGranted
  <2>2. GrantedBy(<<>>, now)  BY <1>0, NothingGranted
  <2> QED BY <1>0, <2>1, <2>2 DEF WindowOK, RateTypes
<1> QED BY <1>0, <1>1, <1>2, BucketUnused DEF RateInv, RateInit

\* Every step keeps it.
LEMMA RateInvNext == RateInv /\ [RateNext]_rateVars => RateInv'
<1> SUFFICES ASSUME RateInv, [RateNext]_rateVars PROVE RateInv'  OBVIOUS
<1>0. now \in Int /\ DOMAIN seen = Peers /\ DOMAIN bucket = Peers /\ DOMAIN granted = Peers  BY DEF RateInv
<1>1. CASE Tick
  <2>1. now' = now + 1 /\ UNCHANGED <<which, seen, bucket, granted>>  BY <1>1 DEF Tick
  <2>2. ASSUME which = "server", NEW p \in Peers PROVE WindowOK(seen[p], granted[p], now + 1)
    BY <1>0, <2>2, WindowTick DEF RateInv
  <2>3. ASSUME which # "server", NEW p \in Peers PROVE BucketOK(bucket[p], granted[p], now + 1)
    BY <1>0, <2>3, BucketTick DEF RateInv
  <2> QED BY <1>0, <2>1, <2>2, <2>3 DEF RateInv
<1>2. CASE CleanupOldBuckets
  <2>1. which # "server" /\ UNCHANGED <<which, now, seen, granted>> /\ DOMAIN bucket' = Peers
        /\ \A p \in Peers : bucket'[p] = IF bucket[p] # Absent /\ bucket[p].last <= now - CleanupTicks
                                         THEN Absent ELSE bucket[p]  BY <1>2 DEF CleanupOldBuckets
  <2>2. ASSUME NEW p \in Peers PROVE BucketOK(bucket'[p], granted[p], now)
    <3>0. BucketOK(bucket[p], granted[p], now)  BY <2>1 DEF RateInv
    <3>1. CASE bucket[p] # Absent /\ bucket[p].last <= now - CleanupTicks  BY <1>0, <2>1, <3>0, <3>1, BucketDrop
    <3>2. CASE ~(bucket[p] # Absent /\ bucket[p].last <= now - CleanupTicks)  BY <2>1, <3>0, <3>2
    <3> QED BY <3>1, <3>2
  <2> QED BY <1>0, <2>1, <2>2 DEF RateInv
<1>3. ASSUME NEW p \in Peers, CheckWindow(p) PROVE RateInv'
  <2> DEFINE k == Recent(p)
  <2>0. which = "server" /\ UNCHANGED <<which, now, bucket>> /\ WindowOK(seen[p], granted[p], now)
    BY <1>3 DEF CheckWindow, RateInv
  <2>1. WindowOK(k, granted[p], now) /\ (Len(k) < Limit => WindowOK(Append(k, now), Append(granted[p], now), now))
    <3>1. k = Filtered(seen[p], After(now - Window))  BY <1>0, <2>0, RecentIsKept DEF WindowOK
    <3> QED BY <1>0, <2>0, <3>1, WindowKeeps
  <2>2. k \in Seq(Int) /\ Limit \in Nat  BY <2>1, RateAssumption DEF WindowOK
  <2> HIDE DEF k
  <2>3. ASSUME NEW q \in Peers PROVE WindowOK(seen'[q], granted'[q], now)
    <3>1. CASE Len(k) >= Limit
      <4>1. seen' = [seen EXCEPT ![p] = k] /\ granted' = granted  BY <1>3, <3>1 DEF CheckWindow, k
      <4> QED BY <1>0, <2>0, <2>1, <4>1 DEF RateInv
    <3>2. CASE ~(Len(k) >= Limit)
      <4>1. seen' = [seen EXCEPT ![p] = Append(k, now)] /\ granted' = [granted EXCEPT ![p] = Append(granted[p], now)]
        BY <1>3, <3>2 DEF CheckWindow, Grant, k
      <4>2. Len(k) < Limit  BY <2>2, <3>2
      <4>3. CASE q = p
        <5>1. seen'[q] = Append(k, now) /\ granted'[q] = Append(granted[p], now)  BY <1>0, <4>1, <4>3
        <5> QED BY <2>1, <4>2, <5>1
      <4>4. CASE q # p
        <5>1. seen'[q] = seen[q] /\ granted'[q] = granted[q]  BY <1>0, <4>1, <4>4
        <5> QED BY <2>0, <5>1 DEF RateInv
      <4> QED BY <4>3, <4>4
    <3> QED BY <3>1, <3>2
  <2>4. DOMAIN seen' = Peers /\ DOMAIN granted' = Peers  BY <1>0, <1>3 DEF CheckWindow, Grant
  <2> QED BY <1>0, <2>0, <2>3, <2>4 DEF RateInv
<1>4. ASSUME NEW p \in Peers, CheckBuckets(p) \/ CheckSessionBucket(p) PROVE RateInv'
  <2> DEFINE g == Refill(global, GlobalCap, GlobalTicks)
             b == Refill(BucketOf(p), Limit, RefillTicks)
  <2>0. which # "server" /\ UNCHANGED <<which, now, seen>>  BY <1>4 DEF CheckBuckets, CheckSessionBucket
  <2>1. BucketOK(bucket[p], granted[p], now)  BY <2>0 DEF RateInv
  <2>2. BucketOK(BucketOf(p), granted[p], now) /\ BucketOf(p) # Absent  BY <1>0, <2>1, BucketFresh DEF BucketOf
  <2>3. BucketOK(b, granted[p], now) /\ b # Absent /\ now < b.last + RefillTicks  BY <1>0, <2>2, BucketRefill
  <2>4. \/ UNCHANGED <<bucket, granted>>
        \/ bucket' = [bucket EXCEPT ![p] = b] /\ granted' = granted
        \/ CanPay(b) /\ bucket' = [bucket EXCEPT ![p] = Charge(b)] /\ granted' = [granted EXCEPT ![p] = Append(granted[p], now)]
    <3> HIDE DEF g, b
    <3>1. \/ UNCHANGED <<bucket, granted>>
          \/ /\ bucket' = [bucket EXCEPT ![p] = TryConsume(b)]
             /\ IF CanPay(b) THEN Grant(p) ELSE UNCHANGED granted
      BY <1>4 DEF CheckBuckets, CheckSessionBucket, g, b
    <3> QED BY <3>1 DEF TryConsume, Grant
  <2> HIDE DEF b
  <2>5. CanPay(b) => BucketOK(Charge(b), Append(granted[p], now), now)  BY <1>0, <2>3, BucketPay
  <2>6. DOMAIN bucket' = Peers /\ DOMAIN granted' = Peers  BY <1>0, <2>4
  <2>7. ASSUME NEW q \in Peers PROVE BucketOK(bucket'[q], granted'[q], now)
    <3>1. CASE q # p
      <4>1. bucket'[q] = bucket[q] /\ granted'[q] = granted[q]  BY <1>0, <2>4, <3>1
      <4> QED BY <2>0, <4>1 DEF RateInv
    <3>2. CASE q = p
      <4>1. \/ bucket'[q] = bucket[p] /\ granted'[q] = granted[p]
            \/ bucket'[q] = b /\ granted'[q] = granted[p]
            \/ CanPay(b) /\ bucket'[q] = Charge(b) /\ granted'[q] = Append(granted[p], now)
        BY <1>0, <2>4, <3>2
      <4> QED BY <2>1, <2>3, <2>5, <4>1
    <3> QED BY <3>1, <3>2
  <2> QED BY <1>0, <2>0, <2>6, <2>7 DEF RateInv
<1>5. ASSUME NEW p \in Peers, AddWhitelist(p) PROVE RateInv'  BY <1>5 DEF AddWhitelist, RateInv
<1>6. CASE UNCHANGED rateVars \/ ResetLimits  BY <1>6 DEF rateVars, RateInv, ResetLimits
<1>7. CASE ClearBuckets
  <2>1. which # "server" /\ UNCHANGED <<which, now, seen>> /\ DOMAIN bucket' = Peers /\ DOMAIN granted' = Peers
        /\ \A p \in Peers : bucket'[p] = Absent /\ granted'[p] = <<>>
    BY <1>7 DEF ClearBuckets
  <2> QED BY <1>0, <2>1, BucketUnused DEF RateInv
<1> QED BY <1>1, <1>2, <1>3, <1>4, <1>5, <1>6, <1>7 DEF RateNext

\* It says what the runs check.
LEMMA RateInvSays == RateInv => GrantedWithinRate
<1> SUFFICES ASSUME RateInv, NEW p \in Peers, NEW t \in -1 .. now
             PROVE  IF which = "server"
                    THEN GrantedIn(p, t, t + Window) <= Limit
                    ELSE GrantedIn(p, t, now) <= Limit + (now - t + RefillTicks - 2) \div RefillTicks
  BY DEF GrantedWithinRate
<1>0. now \in Int /\ t \in Int /\ t <= now /\ RateTypes  BY RateAssumption DEF RateInv, RateTypes
<1> DEFINE g == granted[p]
<1>1. CASE which = "server"
  <2>1. HowMany(g, Span(t)) <= Limit /\ GrantedBy(g, now)  BY <1>0, <1>1 DEF RateInv, WindowOK
  <2>2. GrantedIn(p, t, t + Window) = HowMany(g, Span(t))
    <3>1. \A i \in 1 .. Len(g) : g[i] \in Span(t) <=> (g[i] > t /\ g[i] <= t + Window)  BY <2>1 DEF Span, GrantedBy
    <3>2. {i \in 1 .. Len(g) : g[i] \in Span(t)} = {i \in 1 .. Len(g) : g[i] > t /\ g[i] <= t + Window}  BY <3>1
    <3> QED BY <3>2 DEF GrantedIn, HowMany
  <2> QED BY <1>1, <2>1, <2>2
<1>2. CASE which # "server"
  <2>0. BucketOK(bucket[p], g, now)  BY <1>2 DEF RateInv
  <2>1. GrantedBy(g, now)  BY <2>0 DEF BucketOK
  <2>2. GrantedIn(p, t, now) = HowMany(g, After(t))
    <3>1. \A i \in 1 .. Len(g) : g[i] \in After(t) <=> (g[i] > t /\ g[i] <= now)  BY <2>1 DEF After, GrantedBy
    <3>2. {i \in 1 .. Len(g) : g[i] \in After(t)} = {i \in 1 .. Len(g) : g[i] > t /\ g[i] <= now}  BY <3>1
    <3> QED BY <3>2 DEF GrantedIn, HowMany
  <2>3. HowMany(g, After(t)) <= Limit + Earned(now - t)
    <3>1. CASE t < now  BY <1>0, <2>0, <3>1, BucketWithin
    <3>2. CASE t = now
      <4>1. HowMany(g, After(t)) = 0  BY <1>0, <2>1, <3>2, PastCounts
      <4>2. -1 <= (0 - RefillTicks) \div RefillTicks /\ (0 - RefillTicks) \div RefillTicks \in Int
        <5>1. RefillTicks * (-1) <= 0 - RefillTicks /\ 0 - RefillTicks \in Int  BY <1>0 DEF RateTypes
        <5>2. -1 <= (0 - RefillTicks) \div RefillTicks  BY <1>0, <5>1, DivLargest DEF RateTypes
        <5>3. (0 - RefillTicks) \div RefillTicks \in Int  BY <1>0, <5>1, DivBelow DEF RateTypes
        <5> QED BY <5>2, <5>3
      <4>3. (0 - RefillTicks) \div RefillTicks <= Earned(now - t) /\ Earned(now - t) \in Int
        <5>1. now - t \in Int /\ 0 - RefillTicks \in Int /\ 0 - RefillTicks <= now - t + RefillTicks - 2
          BY <1>0, <3>2 DEF RateTypes
        <5> QED BY <5>1, EarnedGrows
      <4> DEFINE y == (0 - RefillTicks) \div RefillTicks
      <4> HIDE DEF y
      <4>4. y \in Int /\ -1 <= y /\ y <= Earned(now - t)  BY <4>2, <4>3 DEF y
      <4> QED BY <1>0, <4>1, <4>3, <4>4 DEF RateTypes
    <3> QED BY <1>0, <3>1, <3>2
  <2> QED BY <1>2, <2>2, <2>3 DEF Earned
<1> QED BY <1>1, <1>2

\* In every period since its bucket was last cleared on purpose a client is let through what
\* its limiter allows (RateLimiter in api/server.rs, rate_limiter.rs, chain_rate_limiter.rs):
\* the limit per window, or a full bucket and what was earned, for every limit, window,
\* refill time and clock.
THEOREM RatesAreKept == RateSpec => []GrantedWithinRate
<1>1. RateInit => RateInv  BY RateInvInit
<1>2. RateInv /\ [RateNext]_rateVars => RateInv'  BY RateInvNext
<1>3. RateInv => GrantedWithinRate  BY RateInvSays
<1> QED BY <1>1, <1>2, <1>3, PTL DEF RateSpec

-----------------------------------------------------------------------------
(* The cache of models (models/caching.rs)                                 *)

\* A task of the cache of models, and the size it has found room for.
McTaskOK(x) ==
    DOMAIN x = {"pc", "model", "evict", "critical"} /\ (x.pc # "idle" => x.model \in McModels)

\* The size it has found room for, of each task.
RoomFor(x) == IF x.pc = "insert" THEN ModelSize[x.model] ELSE 0
RoomsFor(mt) == [t \in McTasks |-> RoomFor(mt[t])]

\* What is used at most: the limit, and a model for each other task.
McLimit == McMemory + (Cardinality(McTasks) - 1) * McBiggest

\* What is used and what there was room for are within the limit and a model per task.
McOK(e, u, mt) ==
    /\ DOMAIN e \subseteq McModels /\ u \in Nat /\ DOMAIN mt = McTasks /\ \A t \in McTasks : McTaskOK(mt[t])
    /\ u + Sum(RoomsFor(mt), McTasks) <= McLimit

\* The cache and its tasks.
McInv == McOK(mcEntries, mcUsage, mcTask)

\* The largest model is the largest.
LEMMA BiggestModel == McBiggest \in Nat /\ \A m \in McModels : ModelSize[m] \in Nat /\ ModelSize[m] <= McBiggest
<1> DEFINE D == {ModelSize[m] : m \in McModels}
<1>1. \A m \in McModels : ModelSize[m] \in Nat  BY McAssumption
<1>2. \A m \in McModels : ModelSize[m] <= Sum(ModelSize, McModels)  BY <1>1, McAssumption, SumCovers
<1>3. Sum(ModelSize, McModels) \in Nat  BY <1>1, McAssumption, SumNat
<1>4. D \in SUBSET Nat /\ D # {}  BY <1>1, McAssumption
<1>5. \E x \in D : \A y \in D : y <= x
  <2>1. \A x \in D : x <= Sum(ModelSize, McModels)  BY <1>2
  <2> HIDE DEF D
  <2> QED BY <1>3, <1>4, <2>1, NatLargest
<1>6. \E n \in D : \A m \in McModels : ModelSize[m] <= n  BY <1>5
<1> QED BY <1>1, <1>4, <1>6 DEF McBiggest

\* What the proofs use of the constants.
LEMMA McTypes == IsFiniteSet(McTasks) /\ McLimit \in Nat /\ McMemory \in Nat /\ (Cardinality(McTasks) - 1) * McBiggest \in Nat
<1>1. IsFiniteSet(McTasks) /\ McTasks # {} /\ McMemory \in Nat  BY McAssumption
<1>3. (Cardinality(McTasks) - 1) * McBiggest \in Nat  BY <1>1, BiggestModel, TheOthers
<1> DEFINE L == (Cardinality(McTasks) - 1) * McBiggest
<1>4. L \in Nat  BY <1>3
<1>5. McLimit = McMemory + L  BY DEF McLimit
<1> HIDE DEF L
<1>6. McLimit \in Nat  BY <1>1, <1>4, <1>5
<1> QED BY <1>1, <1>3, <1>6

\* The room a task found is the size of a model.
LEMMA RoomTypes ==
    ASSUME NEW mt, \A t \in McTasks : McTaskOK(mt[t])
    PROVE  /\ \A t \in McTasks : /\ RoomsFor(mt)[t] = RoomFor(mt[t])
                                 /\ RoomFor(mt[t]) \in Nat /\ RoomFor(mt[t]) <= McBiggest
           /\ Sum(RoomsFor(mt), McTasks) \in Nat
<1>1. ASSUME NEW t \in McTasks PROVE RoomsFor(mt)[t] = RoomFor(mt[t]) /\ RoomFor(mt[t]) \in Nat /\ RoomFor(mt[t]) <= McBiggest
  BY BiggestModel DEF RoomsFor, RoomFor, McTaskOK
<1> DEFINE f == RoomsFor(mt)
<1>2. \A t \in McTasks : f[t] \in Nat  BY <1>1
<1> HIDE DEF f
<1>3. Sum(f, McTasks) \in Nat  BY <1>2, McTypes, SumNat
<1> QED BY <1>1, <1>3 DEF f

\* A step of a task that checks no room: usage and what there was room for do not grow.
LEMMA McQuiet ==
    ASSUME NEW e, NEW u, NEW mt, McOK(e, u, mt), NEW e1, NEW u1, NEW mt1, NEW t \in McTasks,
           DOMAIN e1 \subseteq McModels, u1 \in Nat, DOMAIN mt1 = McTasks, \A v \in McTasks \ {t} : mt1[v] = mt[v],
           McTaskOK(mt1[t]), u1 + RoomFor(mt1[t]) <= u + RoomFor(mt[t])
    PROVE  McOK(e1, u1, mt1)
<1> DEFINE f == RoomsFor(mt)
           g == RoomsFor(mt1)
<1>1. \A v \in McTasks : McTaskOK(mt[v]) /\ McTaskOK(mt1[v])  BY DEF McOK
<1>2. \A v \in McTasks : f[v] = RoomFor(mt[v]) /\ f[v] \in Nat  BY <1>1, RoomTypes
<1>3. \A v \in McTasks : g[v] = RoomFor(mt1[v]) /\ g[v] \in Nat  BY <1>1, RoomTypes
<1>4. u \in Nat /\ u + Sum(f, McTasks) <= McLimit /\ McLimit \in Nat /\ IsFiniteSet(McTasks)  BY McTypes DEF McOK
<1> HIDE DEF f, g
<1>5. (\A v \in McTasks \ {t} : g[v] = f[v]) /\ u1 + g[t] <= u + f[t]  BY <1>2, <1>3
<1>6. u1 + Sum(g, McTasks) <= McLimit  BY <1>2, <1>3, <1>4, <1>5, NoCheckPasses
<1> QED BY <1>1, <1>6 DEF McOK, g

\* A task that found room for its model: the other tasks are one less.
LEMMA McPasses ==
    ASSUME NEW e, NEW u, NEW mt, McOK(e, u, mt), NEW mt1, NEW t \in McTasks,
           DOMAIN mt1 = McTasks, \A v \in McTasks \ {t} : mt1[v] = mt[v],
           McTaskOK(mt1[t]), u + RoomFor(mt1[t]) <= McMemory
    PROVE  McOK(e, u, mt1)
<1> DEFINE g == RoomsFor(mt1)
<1>1. \A v \in McTasks : McTaskOK(mt1[v])  BY DEF McOK
<1>2. \A v \in McTasks : g[v] = RoomFor(mt1[v]) /\ g[v] \in Nat /\ g[v] <= McBiggest  BY <1>1, RoomTypes
<1>3. IsFiniteSet(McTasks) /\ McMemory \in Nat /\ McBiggest \in Nat  BY McTypes, BiggestModel
<1> HIDE DEF g
<1>4. u + g[t] <= McMemory /\ u \in Nat  BY <1>2 DEF McOK
<1>5. u + Sum(g, McTasks) <= McMemory + (Cardinality(McTasks) - 1) * McBiggest  BY <1>2, <1>3, <1>4, CheckPasses
<1> QED BY <1>1, <1>5 DEF McOK, McLimit, g

\* It holds at first.
LEMMA McInvInit == McInit => McInv
<1> SUFFICES ASSUME McInit PROVE McOK(mcEntries, mcUsage, mcTask)  BY DEF McInv
<1>1. DOMAIN mcEntries = {} /\ mcUsage = 0 /\ DOMAIN mcTask = McTasks /\ \A t \in McTasks : mcTask[t] = McIdle
  BY DEF McInit
<1>2. McTaskOK(McIdle) /\ RoomFor(McIdle) = 0  BY DEF McTaskOK, RoomFor, McIdle
<1>3. \A t \in McTasks : RoomsFor(mcTask)[t] = 0  BY <1>1, <1>2 DEF RoomsFor
<1>4. Sum(RoomsFor(mcTask), McTasks) = 0
  <2> DEFINE f == RoomsFor(mcTask)
  <2> HIDE DEF f
  <2>1. \A t \in McTasks : f[t] = 0  BY <1>3 DEF f
  <2>2. Sum(f, McTasks) = 0  BY <2>1, McTypes, SumZero
  <2> QED BY <2>2 DEF f
<1> QED BY <1>1, <1>2, <1>4, McTypes DEF McOK

\* Every step keeps it.
LEMMA McInvNext == McInv /\ [McNext]_mcVars => McInv'
<1> DEFINE Now == McOK(mcEntries, mcUsage, mcTask)
           Then == McOK(mcEntries', mcUsage', mcTask')
<1> SUFFICES ASSUME Now, [McNext]_mcVars PROVE Then  BY DEF McInv
<1>0. /\ mcUsage \in Nat /\ DOMAIN mcEntries \subseteq McModels /\ DOMAIN mcTask = McTasks
      /\ \A t \in McTasks : McTaskOK(mcTask[t])
  BY DEF McOK
<1>1. \A m \in McModels : ModelSize[m] \in Nat  BY BiggestModel
<1>2. \A t \in McTasks : RoomFor(mcTask[t]) \in Nat  BY <1>0, RoomTypes
<1> DEFINE Others(t) == DOMAIN mcTask' = McTasks /\ \A v \in McTasks \ {t} : mcTask'[v] = mcTask[v]
           Entries == mcUsage' \in Nat /\ DOMAIN mcEntries' \subseteq McModels
<1>3. ASSUME NEW t \in McTasks, Others(t), Entries, McTaskOK(mcTask'[t]),
             mcUsage' + RoomFor(mcTask'[t]) <= mcUsage + RoomFor(mcTask[t])
      PROVE  Then
  <2> DEFINE e == mcEntries  u == mcUsage  mt == mcTask  e1 == mcEntries'  u1 == mcUsage'  mt1 == mcTask'
  <2>1. /\ McOK(e, u, mt) /\ DOMAIN e1 \subseteq McModels /\ u1 \in Nat /\ DOMAIN mt1 = McTasks
        /\ (\A v \in McTasks \ {t} : mt1[v] = mt[v]) /\ McTaskOK(mt1[t]) /\ u1 + RoomFor(mt1[t]) <= u + RoomFor(mt[t])
    BY <1>3
  <2> HIDE DEF e, u, mt, e1, u1, mt1
  <2>2. McOK(e1, u1, mt1)  BY <2>1, McQuiet
  <2> QED BY <2>2 DEF e1, u1, mt1
<1>4. McTaskOK(McIdle) /\ RoomFor(McIdle) = 0  BY DEF McTaskOK, RoomFor, McIdle
<1> HIDE DEF Now, Then
<1>15. ASSUME NEW m \in McModels, NEW c PROVE LET x == [pc |-> "room", model |-> m, evict |-> "", critical |-> c] IN McTaskOK(x) /\ RoomFor(x) = 0
  BY DEF McTaskOK, RoomFor
<1>5. ASSUME NEW m \in Cached, Evict(m) PROVE Entries /\ mcUsage' <= mcUsage
  BY <1>0, <1>1, <1>5 DEF Evict, Less, Del, Cached
<1>6. ASSUME ClearModels PROVE Then
  <2>1. PICK t \in McTasks : TRUE  BY McAssumption
  <2>2. Others(t) /\ mcTask'[t] = mcTask[t] /\ mcUsage' = 0 /\ DOMAIN mcEntries' = {}  BY <1>0, <1>6 DEF ClearModels
  <2>3. mcUsage' + RoomFor(mcTask'[t]) <= mcUsage + RoomFor(mcTask[t])  BY <1>0, <1>2, <2>2
  <2> QED BY <1>0, <1>3, <2>2, <2>3
<1>7. ASSUME NEW t \in McTasks, EnsureSpace(t) PROVE Then
  <2>0. mcTask[t].pc = "room" /\ mcUsage' = mcUsage /\ mcEntries' = mcEntries /\ RoomFor(mcTask[t]) = 0 /\ Entries
    BY <1>0, <1>7 DEF EnsureSpace, RoomFor
  <2>1. CASE Room(t)
    <3>1. mcTask' = [mcTask EXCEPT ![t].pc = "insert"]  BY <1>7, <2>1 DEF EnsureSpace, Go
    <3>2. Others(t) /\ mcTask'[t] = [mcTask[t] EXCEPT !.pc = "insert"]  BY <1>0, <3>1
    <3>3. McTaskOK(mcTask'[t]) /\ RoomFor(mcTask'[t]) = ModelSize[mcTask[t].model]
      BY <1>0, <2>0, <3>2 DEF McTaskOK, RoomFor
    <3>4. mcUsage + RoomFor(mcTask'[t]) <= McMemory  BY <2>1, <3>3 DEF Room
    <3> DEFINE e == mcEntries  u == mcUsage  mt == mcTask  mt1 == mcTask'
    <3>5. /\ McOK(e, u, mt) /\ DOMAIN mt1 = McTasks /\ (\A v \in McTasks \ {t} : mt1[v] = mt[v])
          /\ McTaskOK(mt1[t]) /\ u + RoomFor(mt1[t]) <= McMemory
      BY <3>2, <3>3, <3>4 DEF Now
    <3> HIDE DEF e, u, mt, mt1
    <3>6. McOK(e, u, mt1)  BY <3>5, McPasses
    <3> QED BY <2>0, <3>6 DEF Then, e, u, mt1
  <2>2. CASE ~Room(t)
    <3>1. CASE Cached = {} \/ Victims = {}
      <4>1. Others(t) /\ mcTask'[t] = McIdle  BY <1>0, <1>7, <2>2, <3>1 DEF EnsureSpace, Ends
      <4> QED BY <1>0, <1>3, <1>4, <2>0, <4>1
    <3>2. CASE ~(Cached = {} \/ Victims = {})
      <4>1. mcTask' = [mcTask EXCEPT ![t].pc = "evict", ![t].evict = Victim]  BY <1>7, <2>2, <3>2 DEF EnsureSpace
      <4>2. Others(t) /\ mcTask'[t] = [mcTask[t] EXCEPT !.pc = "evict", !.evict = Victim]  BY <1>0, <4>1
      <4>3. McTaskOK(mcTask'[t]) /\ RoomFor(mcTask'[t]) = 0  BY <1>0, <2>0, <4>2 DEF McTaskOK, RoomFor
      <4> QED BY <1>0, <1>3, <2>0, <4>2, <4>3
    <3> QED BY <3>1, <3>2
  <2> QED BY <2>1, <2>2
<1>8. ASSUME NEW t \in McTasks, EvictChosen(t) PROVE Then
  <2>0. mcTask[t].pc = "evict" /\ RoomFor(mcTask[t]) = 0  BY <1>8 DEF EvictChosen, RoomFor
  <2>1. CASE mcTask[t].evict \in Cached
    <3>1. Evict(mcTask[t].evict) /\ mcTask' = [mcTask EXCEPT ![t].pc = "room"]  BY <1>8, <2>1 DEF EvictChosen, Go
    <3>2. Entries /\ mcUsage' <= mcUsage  BY <1>5, <2>1, <3>1
    <3>3. Others(t) /\ mcTask'[t] = [mcTask[t] EXCEPT !.pc = "room"]  BY <1>0, <3>1
    <3>4. McTaskOK(mcTask'[t]) /\ RoomFor(mcTask'[t]) = 0  BY <1>0, <2>0, <3>3 DEF McTaskOK, RoomFor
    <3> QED BY <1>0, <1>3, <2>0, <3>2, <3>3, <3>4
  <2>2. CASE mcTask[t].evict \notin Cached
    <3>1. Others(t) /\ mcTask'[t] = McIdle /\ mcUsage' = mcUsage /\ Entries  BY <1>0, <1>8, <2>2 DEF EvictChosen, Ends
    <3> QED BY <1>0, <1>3, <1>4, <2>0, <3>1
  <2> QED BY <2>1, <2>2
<1>9. ASSUME NEW t \in McTasks, InsertModel(t) PROVE Then
  <2>1. mcTask[t].pc = "insert" /\ mcTask[t].model \in McModels  BY <1>0, <1>9 DEF InsertModel, McTaskOK
  <2>2. mcUsage' = mcUsage + RoomFor(mcTask[t])  BY <1>9, <2>1 DEF InsertModel, RoomFor
  <2>3. DOMAIN mcEntries' \subseteq McModels  BY <1>0, <1>9, <2>1 DEF InsertModel, Put
  <2>4. Others(t) /\ mcTask'[t] = McIdle  BY <1>0, <1>9 DEF InsertModel, Ends
  <2> QED BY <1>0, <1>2, <1>3, <1>4, <2>2, <2>3, <2>4
<1>10. ASSUME NEW t \in McTasks, NEW m \in McModels, GetModel(t, m) PROVE Then
  <2>1. Others(t) /\ mcTask'[t] = mcTask[t] /\ mcUsage' = mcUsage /\ Entries  BY <1>0, <1>10 DEF GetModel
  <2> QED BY <1>0, <1>2, <1>3, <2>1
<1>11. ASSUME NEW t \in McTasks, NEW m \in McModels, EvictModel(t, m) PROVE Then
  <2>1. Others(t) /\ mcTask'[t] = mcTask[t]  BY <1>0, <1>11 DEF EvictModel
  <2>2. Entries /\ mcUsage' <= mcUsage  BY <1>5, <1>11 DEF EvictModel
  <2> QED BY <1>0, <1>2, <1>3, <2>1, <2>2
<1>12. ASSUME NEW t \in McTasks, NEW m \in McModels, UpdateModel(t, m) PROVE Then
  <2>1. Entries /\ mcUsage' <= mcUsage
    <3>1. CASE m \in Cached
      <4>1. Evict(m)  BY <1>12, <3>1 DEF UpdateModel
      <4> QED BY <1>5, <3>1, <4>1
    <3>2. CASE m \notin Cached
      <4>1. mcUsage' = mcUsage /\ mcEntries' = mcEntries  BY <1>12, <3>2 DEF UpdateModel
      <4> QED BY <1>0, <4>1
    <3> QED BY <3>1, <3>2
  <2>2. mcTask[t].pc = "idle" /\ Others(t) /\ mcTask'[t] = [pc |-> "room", model |-> m, evict |-> "", critical |-> FALSE]
    BY <1>0, <1>12 DEF UpdateModel
  <2>3. McTaskOK(mcTask'[t]) /\ RoomFor(mcTask'[t]) = 0  BY <1>15, <2>2, Zenon
  <2>4. RoomFor(mcTask[t]) = 0 /\ Others(t)  BY <2>2 DEF RoomFor
  <2> QED BY <1>0, <1>3, <2>1, <2>3, <2>4
<1>13. ASSUME NEW t \in McTasks, NEW m \in McModels, NEW c \in BOOLEAN, LoadModel(t, m, c) PROVE Then
  <2>0. mcUsage' = mcUsage /\ mcTask[t].pc = "idle" /\ RoomFor(mcTask[t]) = 0  BY <1>13 DEF LoadModel, RoomFor
  <2>1. CASE m \in Cached
    <3>1. Others(t) /\ mcTask'[t] = mcTask[t] /\ Entries  BY <1>0, <1>13, <2>1 DEF LoadModel, Put, Cached
    <3> QED BY <1>0, <1>2, <1>3, <2>0, <3>1
  <2>2. CASE m \notin Cached
    <3>1. Entries /\ Others(t) /\ mcTask'[t] = [pc |-> "room", model |-> m, evict |-> "", critical |-> c]
      BY <1>0, <1>13, <2>2 DEF LoadModel
    <3>2. McTaskOK(mcTask'[t]) /\ RoomFor(mcTask'[t]) = 0  BY <1>15, <3>1, Zenon
    <3>3. Entries /\ Others(t)  BY <3>1
    <3> QED BY <1>0, <1>3, <2>0, <3>2, <3>3
  <2> QED BY <2>1, <2>2
<1>14. CASE UNCHANGED mcVars  BY <1>14 DEF mcVars, Now, Then
<1> HIDE DEF Others, Entries
<1> QED BY <1>6, <1>7, <1>8, <1>9, <1>10, <1>11, <1>12, <1>13, <1>14 DEF McNext

\* It says what the runs check.
LEMMA McInvSays == McInv => ModelMemoryBounded
<1> SUFFICES ASSUME McInv PROVE ModelMemoryBounded  OBVIOUS
<1>1. Sum(RoomsFor(mcTask), McTasks) \in Nat /\ mcUsage \in Nat /\ mcUsage + Sum(RoomsFor(mcTask), McTasks) <= McLimit
  BY RoomTypes DEF McInv, McOK
<1>2. mcUsage <= McLimit  BY <1>1, McTypes
<1> QED BY <1>2 DEF ModelMemoryBounded, McLimit

-----------------------------------------------------------------------------
(* The quota of the storage backend (storage/s5_client.rs)                 *)

\* The largest file that fits the quota, and what is stored at most.
S5Biggest == Max({n \in StoSizes : n <= StoQuota} \cup {0})
S5Limit == StoQuota + (Cardinality(StoTasks) - 1) * S5Biggest

\* What the proofs use of the constants.
LEMMA QuotaTypes ==
    /\ S5Biggest \in Nat /\ \A n \in StoSizes : n <= StoQuota => n <= S5Biggest
    /\ IsFiniteSet(StoTasks) /\ IsFiniteSet(StoKeys) /\ StoQuota \in Nat /\ S5Limit \in Nat
<1>0. IsFiniteSet(StoTasks) /\ StoTasks # {} /\ IsFiniteSet(StoKeys) /\ StoQuota \in Nat /\ StoSizes \subseteq Nat
  BY StoAssumption
<1> DEFINE D == {n \in StoSizes : n <= StoQuota} \cup {0}
<1>1. D \in SUBSET Nat /\ D # {} /\ \A x \in D : x <= StoQuota
  <2>1. \A n \in StoSizes : n \in Nat  BY <1>0
  <2>2. \A x \in D : x \in Nat /\ x <= StoQuota  BY <1>0, <2>1
  <2> QED BY <2>2
<1>2. \A n \in StoSizes : n <= StoQuota => n \in D  OBVIOUS
<1>3. S5Biggest = CHOOSE x \in D : \A y \in D : x >= y  BY DEF S5Biggest, Max
<1> HIDE DEF D
<1>4. \E x \in D : \A y \in D : y <= x  BY <1>0, <1>1, NatLargest
<1>5. \E x \in D : \A y \in D : x >= y  BY <1>1, <1>4
<1>6. S5Biggest \in D /\ \A y \in D : S5Biggest >= y  BY <1>3, <1>5
<1>7. S5Biggest \in Nat /\ \A n \in StoSizes : n <= StoQuota => n <= S5Biggest  BY <1>0, <1>1, <1>2, <1>6
<1>8. (Cardinality(StoTasks) - 1) * S5Biggest \in Nat  BY <1>0, <1>7, TheOthers
<1> DEFINE L == (Cardinality(StoTasks) - 1) * S5Biggest
<1>9. L \in Nat /\ S5Limit = StoQuota + L  BY <1>8 DEF S5Limit
<1> HIDE DEF L
<1>10. S5Limit \in Nat  BY <1>0, <1>9
<1> QED BY <1>0, <1>7, <1>10

\* A task of the backend, and the size a put has checked.
PutOK(x) ==
    /\ DOMAIN x = {"pc", "path", "size"}
    /\ x.pc = "put" => x.path \in StoKeys /\ x.size \in StoSizes /\ x.size <= StoQuota
SizeOf(x) == IF x.pc = "put" THEN x.size ELSE 0
PutsOf(tt) == [t \in StoTasks |-> SizeOf(tt[t])]

\* What is stored and what a put has found room for.
QuotaOK(fs, tt) ==
    /\ DOMAIN fs = StoKeys /\ \A k \in StoKeys : fs[k] \in Nat
    /\ DOMAIN tt = StoTasks /\ \A t \in StoTasks : PutOK(tt[t])
    /\ Sum(fs, StoKeys) + Sum(PutsOf(tt), StoTasks) <= S5Limit

\* The files and the tasks.
QuotaInv == DOMAIN s5 = {"files", "injected", "task", "ops"} /\ QuotaOK(s5.files, s5.task)

\* The code adds the sizes of what is stored.
LEMMA StoredSum == ASSUME NEW fs, DOMAIN fs = StoKeys PROVE SumOf(fs) = Sum(fs, StoKeys)  BY Zenon DEF SumOf, Sum

\* What a put has checked is a size.
LEMMA PutTypes ==
    ASSUME NEW tt, \A t \in StoTasks : PutOK(tt[t])
    PROVE  \A t \in StoTasks : PutsOf(tt)[t] = SizeOf(tt[t]) /\ SizeOf(tt[t]) \in Nat /\ SizeOf(tt[t]) <= S5Biggest
<1> SUFFICES ASSUME NEW t \in StoTasks
             PROVE  PutsOf(tt)[t] = SizeOf(tt[t]) /\ SizeOf(tt[t]) \in Nat /\ SizeOf(tt[t]) <= S5Biggest  OBVIOUS
<1>1. PutOK(tt[t]) /\ StoSizes \subseteq Nat  BY StoAssumption
<1>2. PutsOf(tt)[t] = SizeOf(tt[t])  BY DEF PutsOf
<1>3. CASE tt[t].pc = "put"  BY <1>1, <1>2, <1>3, QuotaTypes DEF SizeOf, PutOK
<1>4. CASE tt[t].pc # "put"  BY <1>2, <1>4, QuotaTypes DEF SizeOf
<1> QED BY <1>3, <1>4

\* A step that checks no quota stores no more than a put had found room for.
LEMMA QuotaQuiet ==
    ASSUME NEW fs, NEW tt, QuotaOK(fs, tt), NEW fs1, NEW tt1, NEW t \in StoTasks,
           DOMAIN fs1 = StoKeys, \A k \in StoKeys : fs1[k] \in Nat, DOMAIN tt1 = StoTasks, PutOK(tt1[t]),
           \A v \in StoTasks \ {t} : tt1[v] = tt[v],
           Sum(fs1, StoKeys) + SizeOf(tt1[t]) <= Sum(fs, StoKeys) + SizeOf(tt[t])
    PROVE  QuotaOK(fs1, tt1)
<1> DEFINE f == PutsOf(tt)
           g == PutsOf(tt1)
           u == Sum(fs, StoKeys)
           u1 == Sum(fs1, StoKeys)
<1>1. \A v \in StoTasks : PutOK(tt[v]) /\ PutOK(tt1[v])  BY DEF QuotaOK
<1>2. \A v \in StoTasks : f[v] = SizeOf(tt[v]) /\ f[v] \in Nat  BY <1>1, PutTypes
<1>3. \A v \in StoTasks : g[v] = SizeOf(tt1[v]) /\ g[v] \in Nat  BY <1>1, PutTypes
<1>4. u \in Nat /\ u1 \in Nat /\ u + Sum(f, StoTasks) <= S5Limit /\ S5Limit \in Nat /\ IsFiniteSet(StoTasks)
  BY QuotaTypes, SumNat DEF QuotaOK
<1>5. (\A v \in StoTasks \ {t} : g[v] = f[v]) /\ u1 + g[t] <= u + f[t]  BY <1>2, <1>3
<1> HIDE DEF f, g, u, u1
<1>6. u1 + Sum(g, StoTasks) <= S5Limit  BY <1>2, <1>3, <1>4, <1>5, NoCheckPasses
<1> QED BY <1>1, <1>6 DEF QuotaOK, g, u1

\* A put passes the check of the quota.
LEMMA QuotaPasses ==
    ASSUME NEW fs, NEW tt, QuotaOK(fs, tt), NEW tt1, NEW t \in StoTasks, DOMAIN tt1 = StoTasks, PutOK(tt1[t]),
           \A v \in StoTasks \ {t} : tt1[v] = tt[v], Sum(fs, StoKeys) + SizeOf(tt1[t]) <= StoQuota
    PROVE  QuotaOK(fs, tt1)
<1> DEFINE g == PutsOf(tt1)
           u == Sum(fs, StoKeys)
<1>1. \A v \in StoTasks : PutOK(tt1[v])  BY DEF QuotaOK
<1>2. \A v \in StoTasks : g[v] = SizeOf(tt1[v]) /\ g[v] \in Nat /\ g[v] <= S5Biggest  BY <1>1, PutTypes
<1>3. IsFiniteSet(StoTasks) /\ StoQuota \in Nat /\ S5Biggest \in Nat /\ u \in Nat  BY QuotaTypes, SumNat DEF QuotaOK
<1>4. u + g[t] <= StoQuota  BY <1>2
<1> HIDE DEF g, u
<1>5. u + Sum(g, StoTasks) <= StoQuota + (Cardinality(StoTasks) - 1) * S5Biggest  BY <1>2, <1>3, <1>4, CheckPasses
<1> QED BY <1>1, <1>5 DEF QuotaOK, S5Limit, g, u

\* It holds at first.
LEMMA QuotaInvInit == StoInit => QuotaInv
<1> SUFFICES ASSUME StoInit PROVE QuotaInv  OBVIOUS
<1> DEFINE fs == s5.files
           tt == s5.task
<1>1. /\ DOMAIN s5 = {"files", "injected", "task", "ops"} /\ DOMAIN fs = StoKeys /\ \A k \in StoKeys : fs[k] = 0
      /\ DOMAIN tt = StoTasks /\ \A t \in StoTasks : tt[t] = [pc |-> "idle", path |-> "none", size |-> 0]
  BY DEF StoInit
<1>2. \A t \in StoTasks : PutOK(tt[t]) /\ SizeOf(tt[t]) = 0  BY <1>1 DEF PutOK, SizeOf
<1> DEFINE f == PutsOf(tt)
<1>3. \A t \in StoTasks : f[t] = 0  BY <1>2 DEF PutsOf
<1> HIDE DEF f, fs, tt
<1>4. Sum(f, StoTasks) = 0  BY <1>3, QuotaTypes, SumZero
<1>5. Sum(fs, StoKeys) = 0  BY <1>1, QuotaTypes, SumZero
<1>6. QuotaOK(fs, tt)  BY <1>1, <1>2, <1>4, <1>5, QuotaTypes DEF QuotaOK, f
<1> QED BY <1>1, <1>6 DEF QuotaInv, fs, tt

\* Every step of another part leaves the backend alone.
LEMMA OtherStores ==
    ASSUME [StoNext]_stoVars
    PROVE  \/ UNCHANGED s5 \/ InjectError \/ S5Fails \/ (\E k \in StoKeys : S5Delete(k))
           \/ \E t \in StoTasks : S5Insert(t) \/ \E k \in StoKeys, size \in StoSizes : S5Put(t, k, size)
<1>8. \A s : MsStep(s) \/ RcStep(s) \/ PcStep(s) \/ JobStep(s) \/ BrStep(s) => UNCHANGED s5
    BY DEF MsStep, RcStep, PcStep, JobStep, BrStep
<1>9. ASSUME NEW t, PutFails(t) \/ PutAnswered(t) \/ PutCopies(t) \/ BridgeStores(t) \/ \E k : PutFile(t, k) \/ DeleteFile(k)
      PROVE  UNCHANGED s5
    BY <1>8, <1>9, Zenon DEF BridgeStores, PutFails, PutAnswered, PutCopies, PutFile, DeleteFile, BrOp, BrEnd
<1>10. CASE \/ DeleteStored
            \/ \E t \in StoTasks :
                  \/ ListVersions(t)
                  \/ \E v, n : StoreModel(t, v, n)
                  \/ \E ok \in BOOLEAN :
                        \/ StorePart(t, ok) \/ StoreIndex(t, ok) \/ StoreMeta(t, ok) \/ StoreVersion(t, ok)
                        \/ Unflag(t, ok) \/ Flag(t, ok) \/ StoreLatest(t, ok)
    <2>1. \A t : MsFailed(t) => UNCHANGED s5  BY <1>8, Zenon DEF MsFailed
    <2>2. \A t, ok : StorePart(t, ok) \/ StoreIndex(t, ok) \/ StoreMeta(t, ok) \/ StoreVersion(t, ok) => UNCHANGED s5
        BY <1>8, <2>1, Zenon DEF StorePart, StoreIndex, StoreMeta, StoreVersion
    <2>3. \A t, ok : Unflag(t, ok) \/ Flag(t, ok) \/ StoreLatest(t, ok) => UNCHANGED s5
        BY <1>8, <2>1, Zenon DEF Unflag, Flag, StoreLatest
    <2> QED BY <1>8, <1>10, <2>2, <2>3, Zenon DEF DeleteStored, ListVersions, StoreModel
<1>11. ASSUME ResultCacheNext PROVE UNCHANGED s5
    BY <1>8, <1>11, Zenon DEF ResultCacheNext, RcClear, RcDelete, RcValid, RcFetch, RcPut, RcGet
<1>12. CASE \/ PcTick \/ PcClear
            \/ \E t \in StoTasks :
                  \/ PcMemory(t) \/ PcPut(t) \/ PcRemote(t) \/ PcFromS5(t) \/ PcMiss(t)
                  \/ \E ok \in BOOLEAN : PcUpload(t, ok)
                  \/ \E k \in StoKeys : PcSimilar(t, k) \/ \E op, size : PcBegin(t, op, k, size)
    BY <1>8, <1>12 DEF PcTick, PcClear, PcMemory, PcPut, PcRemote, PcFromS5, PcMiss, PcUpload, PcSimilar, PcBegin
<1>13. CASE \/ ClearByJob
            \/ \E k \in StoKeys : RetrieveByJob(k) \/ RemoveByJob(k) \/ \E n \in StoSizes : StoreByJob(k, n)
    BY <1>8, <1>13, Zenon DEF ClearByJob, RetrieveByJob, RemoveByJob, StoreByJob
<1> QED BY <1>9, <1>10, <1>11, <1>12, <1>13 DEF StoNext, stoVars

\* Every step keeps it.
LEMMA QuotaInvNext == QuotaInv /\ [StoNext]_stoVars => QuotaInv'
<1> SUFFICES ASSUME QuotaInv, [StoNext]_stoVars PROVE QuotaInv'  OBVIOUS
<1> DEFINE fs == s5.files
           tt == s5.task
           fs1 == s5'.files
           tt1 == s5'.task
           Same == DOMAIN s5' = {"files", "injected", "task", "ops"}
<1>0. DOMAIN s5 = {"files", "injected", "task", "ops"} /\ QuotaOK(fs, tt)  BY DEF QuotaInv
<1>1. /\ DOMAIN fs = StoKeys /\ (\A k \in StoKeys : fs[k] \in Nat) /\ DOMAIN tt = StoTasks
      /\ \A t \in StoTasks : PutOK(tt[t])
  BY <1>0 DEF QuotaOK
<1>2. \A t \in StoTasks : SizeOf(tt[t]) \in Nat  BY <1>1, PutTypes
<1>3. Sum(fs, StoKeys) \in Nat
  <2> HIDE DEF fs
  <2> QED BY <1>1, QuotaTypes, SumNat
<1> SUFFICES Same /\ QuotaOK(fs1, tt1)  BY DEF QuotaInv
<1>4. CASE UNCHANGED s5  BY <1>0, <1>4
<1>5. ASSUME InjectError \/ S5Fails PROVE Same /\ QuotaOK(fs1, tt1)
  <2>1. Same /\ fs1 = fs /\ tt1 = tt  BY <1>0, <1>5 DEF InjectError, S5Fails, S5Op, S5Step
  <2> QED BY <1>0, <2>1
<1>6. ASSUME NEW k \in StoKeys, S5Delete(k) PROVE Same /\ QuotaOK(fs1, tt1)
  <2>1. Same /\ fs1 = [fs EXCEPT ![k] = 0] /\ tt1 = tt  BY <1>0, <1>6 DEF S5Delete, S5Op, S5Step
  <2>2. PICK t \in StoTasks : TRUE  BY StoAssumption
  <2> HIDE DEF fs, tt, fs1, tt1
  <2>3. DOMAIN fs1 = StoKeys /\ (\A j \in StoKeys : fs1[j] \in Nat) /\ fs1[k] = 0 /\ \A j \in StoKeys : j # k => fs1[j] = fs[j]
    BY <1>1, <2>1
  <2>4. Sum(fs1, StoKeys) = Sum(fs, StoKeys) - fs[k] + fs1[k]
    <3>1. \A j \in StoKeys : fs[j] \in Int  BY <1>1
    <3>2. fs1[k] \in Int  BY <2>3
    <3> QED BY <2>3, <3>1, <3>2, QuotaTypes, SumUpdate
  <2>5. fs[k] \in Nat  BY <1>1
  <2>6. Sum(fs1, StoKeys) + SizeOf(tt1[t]) <= Sum(fs, StoKeys) + SizeOf(tt[t])  BY <1>2, <1>3, <2>1, <2>3, <2>4, <2>5
  <2>7. QuotaOK(fs1, tt1)  BY <1>0, <1>1, <2>1, <2>3, <2>6, QuotaQuiet
  <2> QED BY <2>1, <2>7
<1>7. ASSUME NEW t \in StoTasks, S5Insert(t) PROVE Same /\ QuotaOK(fs1, tt1)
  <2> DEFINE k == tt[t].path
             n == tt[t].size
             rest == [pc |-> "idle", path |-> "none", size |-> 0]
  <2>1. Same /\ fs1 = [fs EXCEPT ![k] = n] /\ tt1 = [tt EXCEPT ![t] = rest] /\ tt[t].pc = "put"
    BY <1>0, <1>7 DEF S5Insert, S5Step
  <2>2. PutOK(rest) /\ SizeOf(rest) = 0  BY DEF PutOK, SizeOf
  <2>3. k \in StoKeys /\ n \in Nat /\ SizeOf(tt[t]) = n  BY <1>1, <2>1, StoAssumption DEF PutOK, SizeOf
  <2> HIDE DEF fs, tt, fs1, tt1, k, n, rest
  <2>4. DOMAIN fs1 = StoKeys /\ (\A j \in StoKeys : fs1[j] \in Nat) /\ fs1[k] = n /\ \A j \in StoKeys : j # k => fs1[j] = fs[j]
    BY <1>1, <2>1, <2>3
  <2>5. Sum(fs1, StoKeys) = Sum(fs, StoKeys) - fs[k] + fs1[k]
    <3>1. \A j \in StoKeys : fs[j] \in Int  BY <1>1
    <3>2. fs1[k] \in Int  BY <2>3, <2>4
    <3> QED BY <2>3, <2>4, <3>1, <3>2, QuotaTypes, SumUpdate
  <2>6. fs[k] \in Nat  BY <1>1, <2>3
  <2>7. DOMAIN tt1 = StoTasks /\ tt1[t] = rest /\ \A v \in StoTasks \ {t} : tt1[v] = tt[v]  BY <1>1, <2>1
  <2>8. Sum(fs1, StoKeys) + SizeOf(tt1[t]) <= Sum(fs, StoKeys) + SizeOf(tt[t])
    BY <1>3, <2>2, <2>3, <2>4, <2>5, <2>6, <2>7
  <2>9. QuotaOK(fs1, tt1)  BY <1>0, <2>2, <2>4, <2>7, <2>8, QuotaQuiet
  <2> QED BY <2>1, <2>9
<1>8. ASSUME NEW t \in StoTasks, NEW k \in StoKeys, NEW size \in StoSizes, S5Put(t, k, size) PROVE Same /\ QuotaOK(fs1, tt1)
  <2> DEFINE x == [pc |-> "put", path |-> k, size |-> size]
  <2>1. Same /\ fs1 = fs /\ tt1 = [tt EXCEPT ![t] = x]  BY <1>0, <1>8 DEF S5Put, S5Op, S5Step
  <2>2. SumOf(fs) + size <= StoQuota /\ size \in Nat  BY <1>8, StoAssumption DEF S5Put, CheckQuota
  <2> HIDE DEF fs, tt, fs1, tt1
  <2>3. Sum(fs, StoKeys) + size <= StoQuota  BY <1>1, <2>2, StoredSum
  <2>4. size <= StoQuota  BY <1>3, <2>2, <2>3, QuotaTypes
  <2>5. PutOK(x) /\ SizeOf(x) = size  BY <2>4 DEF PutOK, SizeOf
  <2> HIDE DEF x
  <2>6. DOMAIN tt1 = StoTasks /\ tt1[t] = x /\ \A v \in StoTasks \ {t} : tt1[v] = tt[v]  BY <1>1, <2>1
  <2>7. QuotaOK(fs, tt1)  BY <1>0, <2>3, <2>5, <2>6, QuotaPasses
  <2> QED BY <2>1, <2>7
<1> HIDE DEF fs, tt, fs1, tt1, Same
<1> QED BY <1>4, <1>5, <1>6, <1>7, <1>8, OtherStores

\* It says what the runs check.
LEMMA QuotaInvSays == QuotaInv => QuotaOvershoot
<1> SUFFICES ASSUME QuotaInv PROVE QuotaOvershoot  OBVIOUS
<1> DEFINE fs == s5.files
           f == PutsOf(s5.task)
<1>1. DOMAIN fs = StoKeys /\ (\A k \in StoKeys : fs[k] \in Nat) /\ (\A t \in StoTasks : f[t] \in Nat) /\ Sum(fs, StoKeys) + Sum(f, StoTasks) <= S5Limit
  BY PutTypes DEF QuotaInv, QuotaOK
<1> HIDE DEF fs, f
<1>2. Sum(fs, StoKeys) \in Nat /\ Sum(f, StoTasks) \in Nat  BY <1>1, QuotaTypes, SumNat
<1>3. SumOf(fs) <= S5Limit  BY <1>1, <1>2, QuotaTypes, StoredSum
<1> QED BY <1>3 DEF QuotaOvershoot, S5Limit, S5Biggest, fs

=============================================================================
