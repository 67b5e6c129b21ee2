-------------------------- MODULE NodeEconomyProofs --------------------------
(***************************************************************************)
(* Proofs about the components MCNodeEconomy puts side by side: what the   *)
(* node believes of its registrations, what it sees of the chain, the      *)
(* slots and results of jobs, its peers, and, with SettlementProofs and    *)
(* ModelProofs, its money and its models.  A theorem is about SumSpec;     *)
(* under it is one inductive invariant for each component, which holds of  *)
(* the component alone.                                                    *)
(***************************************************************************)
EXTENDS MCNodeEconomy, SettlementProofs, ModelProofs

-----------------------------------------------------------------------------
(* HostManagement.                                                         *)

RegFields ==
    [registered : BOOLEAN, handle : BOOLEAN, task : BOOLEAN, last : Nat, wake : Nat, now : Nat,
     meta : {0, 1}, chainMeta : {0, 1}, chain : BOOLEAN, reverted : BOOLEAN]

AvailFields ==
    [status : {"Available", "Unavailable", "Maintenance", "ShuttingDown"}, shutdown : BOOLEAN,
     windows : SUBSET (Nat \X Nat), max : [HostModels -> Nat], active : [HostModels -> Nat \cup {-1}],
     free : [HostModels -> Int], jobs : SUBSET (HostJobs \X HostModels)]

\* A heartbeat is started only by a receipt, and stopped before the contract forgets the node.
HostInv ==
    /\ reg \in RegFields
    /\ reg.handle => reg.chain \/ reg.reverted
    /\ avail \in AvailFields
    /\ SlotsAddUp

LEMMA HostInitial == HostInit => HostInv
  BY HostAssumption DEF HostInit, HostInv, RegInit, AvailInit, RegFields, AvailFields, SlotsAddUp

LEMMA StartHeartbeatFields ==
    ASSUME NEW r \in RegFields
    PROVE  /\ StartHeartbeat(r) \in RegFields /\ StartHeartbeat(r).chain = r.chain /\ StartHeartbeat(r).reverted = r.reverted
           /\ StopHeartbeat(r) \in RegFields /\ ~StopHeartbeat(r).handle
  BY DEF StartHeartbeat, StopHeartbeat, RegFields

LEMMA RegNextKeeps ==
    ASSUME HostInv, RegNext
    PROVE  reg' \in RegFields /\ (reg'.handle => reg'.chain \/ reg'.reverted)
<1>1. reg \in RegFields /\ (reg.handle => reg.chain \/ reg.reverted)  BY DEF HostInv
<1>2. CASE RegisterNode
  <2>1. CASE reg' = reg \/ reg' = [reg EXCEPT !.chain = TRUE]  BY <1>1, <2>1 DEF RegFields
  <2>2. ASSUME NEW r \in RegFields, reg' = StartHeartbeat(r), r.chain \/ r.reverted
        PROVE  reg' \in RegFields /\ (reg'.handle => reg'.chain \/ reg'.reverted)  BY <2>2, StartHeartbeatFields
  <2> DEFINE r1 == [reg EXCEPT !.registered = TRUE, !.chain = TRUE, !.chainMeta = reg.meta]
             r2 == [reg EXCEPT !.registered = TRUE, !.reverted = TRUE]
  <2>3. r1 \in RegFields /\ r1.chain /\ r2 \in RegFields /\ r2.reverted  BY <1>1 DEF RegFields
  <2>4. \/ reg' = reg \/ reg' = [reg EXCEPT !.chain = TRUE]
        \/ reg' = StartHeartbeat(r1) \/ reg' = StartHeartbeat(r2)
    BY <1>2 DEF RegisterNode
  <2> HIDE DEF r1, r2
  <2> QED BY <2>1, <2>2, <2>3, <2>4
<1>3. CASE UnregisterNode
  <2> DEFINE r1 == [reg EXCEPT !.chain = FALSE]
             r2 == [reg EXCEPT !.chain = FALSE, !.registered = FALSE]
  <2>1. reg \in RegFields /\ r1 \in RegFields /\ r2 \in RegFields  BY <1>1 DEF RegFields
  <2>2. \E r \in {reg, r1, r2} : reg' = StopHeartbeat(r)  BY <1>3 DEF UnregisterNode
  <2> HIDE DEF r1, r2
  <2> QED BY <2>1, <2>2, StartHeartbeatFields
<1>4. CASE Beat
  <2>1. reg.now + Heartbeat \in Nat  BY <1>1, HostAssumption DEF RegFields
  <2> QED BY <1>1, <1>4, <2>1 DEF Beat, RegFields
<1>5. CASE RegTick
  <2>1. reg.now + 1 \in Nat  BY <1>1 DEF RegFields
  <2> QED BY <1>1, <1>5, <2>1 DEF RegTick, RegFields
<1>6. ASSUME NEW m \in {0, 1}, UpdateCapabilities(m)
      PROVE  reg' \in RegFields /\ (reg'.handle => reg'.chain \/ reg'.reverted)
  BY <1>1, <1>6 DEF UpdateCapabilities, RegFields
<1> QED BY <1>2, <1>3, <1>4, <1>5, <1>6 DEF RegNext

\* A model whose count and free slots make up its capacity, the other models as they were.
LEMMA SlotsMove ==
    ASSUME avail \in AvailFields, SlotsAddUp, NEW m \in HostModels, NEW n \in Nat, NEW k \in Int, NEW x \in Nat,
           NEW js \in SUBSET (HostJobs \X HostModels), n + k = x,
           avail' = [avail EXCEPT !.max = [avail.max EXCEPT ![m] = x], !.active = [avail.active EXCEPT ![m] = n],
                                  !.free = [avail.free EXCEPT ![m] = k], !.jobs = js]
    PROVE  avail' \in AvailFields /\ SlotsAddUp'
<1>1. avail' \in AvailFields  BY DEF AvailFields
<1>2. \A y \in HostModels : /\ avail'.active[y] = (IF y = m THEN n ELSE avail.active[y])
                            /\ avail'.free[y] = (IF y = m THEN k ELSE avail.free[y])
                            /\ avail'.max[y] = (IF y = m THEN x ELSE avail.max[y])
  BY DEF AvailFields
<1> QED BY <1>1, <1>2 DEF SlotsAddUp

LEMMA AvailNextKeeps == ASSUME HostInv, AvailNext PROVE avail' \in AvailFields /\ SlotsAddUp'
<1>1. avail \in AvailFields /\ SlotsAddUp  BY DEF HostInv
<1>2. ASSUME NEW m \in HostModels, NEW n \in 0 .. MaxSlots, SetCapacityConfig(m, n)
      PROVE  avail' \in AvailFields /\ SlotsAddUp'
  <2>1. n \in Nat /\ 0 \in Nat /\ n \in Int /\ 0 + n = n  BY HostAssumption
  <2>2. avail.jobs \in SUBSET (HostJobs \X HostModels)  BY <1>1 DEF AvailFields
  <2>3. avail' = [avail EXCEPT !.max = [avail.max EXCEPT ![m] = n], !.active = [avail.active EXCEPT ![m] = 0],
                               !.free = [avail.free EXCEPT ![m] = n], !.jobs = avail.jobs]
    BY <1>1, <1>2 DEF SetCapacityConfig, AvailFields
  <2> QED BY <1>1, <2>1, <2>2, <2>3, SlotsMove
<1>3. ASSUME NEW m \in HostModels, NEW j \in HostJobs, AllocateCapacity(m, j)
      PROVE  avail' \in AvailFields /\ SlotsAddUp'
  <2> DEFINE js == {a \in avail.jobs : a[1] # j} \cup {<<j, m>>}
             n == avail.active[m] + 1
             k == avail.max[m] - n
             x == avail.max[m]
  <2>1. js \in SUBSET (HostJobs \X HostModels) /\ x \in Nat /\ avail.active[m] \in Nat
    BY <1>1, <1>3 DEF AvailFields, AllocateCapacity
  <2>2. n \in Nat /\ k \in Int /\ n + k = x  BY <2>1
  <2>3. avail' = [avail EXCEPT !.max = [avail.max EXCEPT ![m] = x], !.active = [avail.active EXCEPT ![m] = n],
                               !.free = [avail.free EXCEPT ![m] = k], !.jobs = js]
    BY <1>1, <1>3 DEF AllocateCapacity, AvailFields
  <2> HIDE DEF js, n, k, x
  <2> QED BY <1>1, <2>1, <2>2, <2>3, SlotsMove
<1>4. ASSUME NEW m \in HostModels, NEW j \in HostJobs, ReleaseCapacity(m, j)
      PROVE  avail' \in AvailFields /\ SlotsAddUp'
  <2> DEFINE js == {a \in avail.jobs : a[1] # j}
             n == IF avail.active[m] > 0 THEN avail.active[m] - 1 ELSE 0
             k == IF avail.active[m] > 0 THEN avail.max[m] - n ELSE avail.free[m]
             x == avail.max[m]
  <2>1. /\ js \in SUBSET (HostJobs \X HostModels) /\ x \in Nat /\ avail.active[m] \in Nat
        /\ avail.free[m] \in Int /\ avail.active[m] + avail.free[m] = x
    BY <1>1, <1>4 DEF AvailFields, ReleaseCapacity, SlotsAddUp
  <2>2. n \in Nat /\ k \in Int /\ n + k = x  BY <2>1
  <2>3. avail' = [avail EXCEPT !.max = [avail.max EXCEPT ![m] = x], !.active = [avail.active EXCEPT ![m] = n],
                               !.free = [avail.free EXCEPT ![m] = k], !.jobs = js]
    BY <1>1, <1>4 DEF ReleaseCapacity, AvailFields
  <2> HIDE DEF js, n, k, x
  <2> QED BY <1>1, <2>1, <2>2, <2>3, SlotsMove
<1>5. ASSUME NEW st \in {"Available", "Unavailable", "Maintenance", "ShuttingDown"}, NEW b \in BOOLEAN,
             NEW ws \in SUBSET (Nat \X Nat),
             avail' = [avail EXCEPT !.status = st, !.shutdown = b, !.windows = ws]
      PROVE  avail' \in AvailFields /\ SlotsAddUp'  BY <1>1, <1>5 DEF AvailFields, SlotsAddUp
<1>6. avail.status \in {"Available", "Unavailable", "Maintenance", "ShuttingDown"} /\ avail.shutdown \in BOOLEAN
      /\ avail.windows \in SUBSET (Nat \X Nat)
  BY <1>1 DEF AvailFields
<1>7. CASE InitiateGracefulShutdown \/ SetSchedule \/ \E st \in {"Unavailable"} : SetStatus(st)
  <2>1. CASE InitiateGracefulShutdown  BY <1>1, <2>1 DEF InitiateGracefulShutdown, AvailFields, SlotsAddUp
  <2>2. ASSUME NEW st \in {"Available", "Unavailable", "Maintenance"}, SetStatus(st)
        PROVE  avail' \in AvailFields /\ SlotsAddUp'  BY <1>1, <2>2 DEF SetStatus, AvailFields, SlotsAddUp
  <2> QED BY <1>7, <2>1, <2>2 DEF SetSchedule
<1>8. ASSUME NEW w \in {<<0, 2>>, <<1, 3>>, <<2, 3>>}, ScheduleMaintenance(w)
      PROVE  avail' \in AvailFields /\ SlotsAddUp'
  <2> DEFINE ws == avail.windows \cup {w}
  <2>1. ws \in SUBSET (Nat \X Nat)  BY <1>6
  <2>2. avail' = [avail EXCEPT !.status = avail.status, !.shutdown = avail.shutdown, !.windows = ws]
    BY <1>1, <1>8 DEF ScheduleMaintenance, AvailFields
  <2> HIDE DEF ws
  <2> QED BY <1>5, <1>6, <2>1, <2>2
<1> QED BY <1>2, <1>3, <1>4, <1>7, <1>8 DEF AvailNext

LEMMA HostStep == ASSUME HostInv, [HostNext]_hostVars PROVE HostInv'
<1>1. CASE reg' = reg /\ avail' = avail  BY <1>1 DEF HostInv, SlotsAddUp
<1>2. CASE RegNext /\ avail' = avail  BY <1>2, RegNextKeeps DEF HostInv, SlotsAddUp
<1>3. CASE AvailNext /\ reg' = reg  BY <1>3, AvailNextKeeps DEF HostInv
<1> QED BY <1>1, <1>2, <1>3 DEF HostNext, hostVars

LEMMA HostSafe == HostInv => HealthyIsRegistered /\ SlotsAddUp  BY DEF HostInv, HealthyIsRegistered, HeartbeatHealthy

-----------------------------------------------------------------------------
(* Registrars: the registrar.                                              *)

RegistrarTask == [pc : {"idle", "approve", "lock", "send", "answer", "pricing"}, todo : Seq(RgChains),
                  left : 0 .. RgPricings]

\* The status map is locked exactly while a task sends its registration; only that
\* task's transaction is on its way, and a task under way has a chain to register on.
RegistrarLocked(s) ==
    \A t \in RgTasks :
        /\ s.task[t].pc \in {"send", "answer"} <=> s.lock = t
        /\ s.task[t].pc # "idle" => s.task[t].todo # <<>>

OnlyOneWaits(s) ==
    \A i \in DOMAIN s.txs : s.txs[i].answer = "waiting" =>
        /\ \E t \in RgTasks : s.lock = t /\ s.task[t].pc = "answer" /\ s.txs[i].chain = Head(s.task[t].todo)
        /\ \A k \in DOMAIN s.txs : s.txs[k].answer = "waiting" => k = i

ConfirmedIsMined(s) ==
    \A c \in RgChains : s.status[c] = "Confirmed" =>
        \E i \in DOMAIN s.txs : s.txs[i].chain = c /\ s.txs[i].mined # "no"

RegistrarOK(s) == s \in RegistrarState /\ RegistrarLocked(s) /\ OnlyOneWaits(s) /\ ConfirmedIsMined(s)

LEMMA RegistrarFields ==
    ASSUME NEW s, RegistrarOK(s)
    PROVE  /\ s \in RegistrarState /\ s.task \in [RgTasks -> RegistrarTask] /\ s.txs \in Seq(RegistrationTx)
           /\ s.status \in [RgChains -> {"NotRegistered", "Pending", "Confirmed"}]
           /\ s.lock \in RgTasks \cup {"free"} /\ s.priced \in [RgChains -> Nat]
           /\ DOMAIN s.txs = 1 .. Len(s.txs) /\ Len(s.txs) \in Nat
           /\ \A i \in DOMAIN s.txs : s.txs[i] \in RegistrationTx
           /\ s.cli \in BOOLEAN /\ s.exited \in BOOLEAN
           /\ \A t \in RgTasks : s.task[t] \in RegistrarTask /\ s.task[t].todo \in Seq(RgChains)
           /\ \A t \in RgTasks : s.task[t].pc # "idle" =>
                /\ Head(s.task[t].todo) \in RgChains /\ Tail(s.task[t].todo) \in Seq(RgChains)
<1>1. s \in RegistrarState /\ s.task \in [RgTasks -> RegistrarTask] /\ s.txs \in Seq(RegistrationTx)
  BY DEF RegistrarOK, RegistrarState, RegistrarTask
<1>2. /\ s.status \in [RgChains -> {"NotRegistered", "Pending", "Confirmed"}]
      /\ s.lock \in RgTasks \cup {"free"} /\ s.priced \in [RgChains -> Nat]
      /\ s.cli \in BOOLEAN /\ s.exited \in BOOLEAN
  BY DEF RegistrarOK, RegistrarState
<1>3. /\ DOMAIN s.txs = 1 .. Len(s.txs) /\ Len(s.txs) \in Nat
      /\ \A i \in DOMAIN s.txs : s.txs[i] \in RegistrationTx
  BY <1>1, LenProperties, ElementOfSeq
<1>4. \A t \in RgTasks : s.task[t] \in RegistrarTask /\ s.task[t].todo \in Seq(RgChains)  BY <1>1 DEF RegistrarTask
<1>5. \A t \in RgTasks : s.task[t].pc # "idle" =>
        /\ Head(s.task[t].todo) \in RgChains /\ Tail(s.task[t].todo) \in Seq(RgChains)
  BY <1>4, HeadTailProperties DEF RegistrarOK, RegistrarLocked
<1> QED BY <1>1, <1>2, <1>3, <1>4, <1>5

\* The state with the type of its tasks by name, and records that differ in some fields.
RegistrarRecord ==
    [status : [RgChains -> {"NotRegistered", "Pending", "Confirmed"}], lock : RgTasks \cup {"free"},
     allowed : SUBSET RgChains, txs : Seq(RegistrationTx), priced : [RgChains -> Nat], cli : BOOLEAN,
     exited : BOOLEAN, task : [RgTasks -> RegistrarTask]]

LEMMA RegistrarRecordIs == RegistrarState = RegistrarRecord  BY DEF RegistrarState, RegistrarRecord, RegistrarTask

LEMMA TaskAt ==
    ASSUME NEW r \in RegistrarTask, r.todo # <<>>,
           NEW p \in {"idle", "approve", "lock", "send", "answer", "pricing"}
    PROVE  /\ [r EXCEPT !.pc = p] \in RegistrarTask /\ [r EXCEPT !.pc = p].todo # <<>>
           /\ [r EXCEPT !.pc = p].pc = p /\ [r EXCEPT !.pc = p].todo = r.todo
           /\ \A n \in 0 .. RgPricings : /\ [r EXCEPT !.pc = p, !.left = n] \in RegistrarTask
                                         /\ [r EXCEPT !.pc = p, !.left = n].todo = r.todo
                                         /\ [r EXCEPT !.pc = p, !.left = n].pc = p
  BY DEF RegistrarTask

\* A step of a task that leaves the transactions and the statuses alone.
LEMMA TaskMoves ==
    ASSUME NEW s, RegistrarOK(s), NEW u, NEW t \in RgTasks, NEW new \in RegistrarTask, u \in RegistrarState,
           u.task = [s.task EXCEPT ![t] = new], u.lock \in {s.lock, t, "free"},
           u.txs = s.txs, u.status = s.status,
           new.pc # "idle" => new.todo # <<>>,
           new.pc \in {"send", "answer"} <=> u.lock = t,
           u.lock # s.lock => s.lock \in {t, "free"},
           s.task[t].pc = "answer" => s.txs = <<>> \/ \A i \in DOMAIN s.txs : s.txs[i].answer # "waiting"
    PROVE  RegistrarOK(u)
<1>1. RegistrarLocked(u)
  <2> SUFFICES ASSUME NEW x \in RgTasks
               PROVE  /\ u.task[x].pc \in {"send", "answer"} <=> u.lock = x
                      /\ u.task[x].pc # "idle" => u.task[x].todo # <<>>
    BY DEF RegistrarLocked
  <2>1. CASE x = t  BY <2>1, RegistrarFields
  <2>2. CASE x # t  BY <2>2, RegistrarFields, RgAssumption DEF RegistrarOK, RegistrarLocked
  <2> QED BY <2>1, <2>2
<1>2. OnlyOneWaits(u)
  <2> SUFFICES ASSUME NEW i \in DOMAIN s.txs, s.txs[i].answer = "waiting"
               PROVE  \E x \in RgTasks : u.lock = x /\ u.task[x].pc = "answer" /\ s.txs[i].chain = Head(u.task[x].todo)
    BY DEF OnlyOneWaits, RegistrarOK
  <2>1. PICK x \in RgTasks : s.lock = x /\ s.task[x].pc = "answer" /\ s.txs[i].chain = Head(s.task[x].todo)
    BY DEF OnlyOneWaits, RegistrarOK
  <2>2. x # t  BY <2>1
  <2>3. u.lock = x  BY <2>1, <2>2, RgAssumption
  <2>4. u.task[x] = s.task[x]  BY <2>2, RegistrarFields
  <2> QED BY <2>1, <2>3, <2>4
<1>3. ConfirmedIsMined(u)  BY DEF ConfirmedIsMined, RegistrarOK
<1> QED BY <1>1, <1>2, <1>3 DEF RegistrarOK

LEMMA NextChainFields ==
    ASSUME NEW s \in RegistrarState, NEW t \in RgTasks, s.task[t].todo # <<>>
    PROVE  LET u == NextChain(s, t)
               rest == Tail(s.task[t].todo)
               new == [pc |-> IF rest = <<>> THEN "idle" ELSE "approve", todo |-> rest, left |-> 0]
           IN /\ u \in RegistrarState /\ u.task = [s.task EXCEPT ![t] = new] /\ new \in RegistrarTask
              /\ new.pc \in {"idle", "approve"} /\ (new.pc # "idle" => new.todo # <<>>)
              /\ u.txs = s.txs /\ u.status = s.status /\ u.lock = s.lock
<1> DEFINE rest == Tail(s.task[t].todo)
           new == [pc |-> IF rest = <<>> THEN "idle" ELSE "approve", todo |-> rest, left |-> 0]
           b == s.cli /\ rest = <<>>
<1>1. s.task \in [RgTasks -> RegistrarTask] /\ s.task[t].todo \in Seq(RgChains)  BY DEF RegistrarState, RegistrarTask
<1>2. rest \in Seq(RgChains)  BY <1>1, HeadTailProperties
<1>3. new \in RegistrarTask /\ new.pc \in {"idle", "approve"} /\ (new.pc # "idle" => new.todo # <<>>)
  <2> HIDE DEF rest
  <2> QED BY <1>2, RgAssumption DEF RegistrarTask
<1>4. b \in BOOLEAN  BY DEF RegistrarState
<1>5. NextChain(s, t) = [s EXCEPT !.task[t] = new, !.exited = b]  BY Zenon DEF NextChain
<1> DEFINE u == [s EXCEPT !.task[t] = new, !.exited = b]
<1> HIDE DEF new, b
<1>6. /\ u.task = [s.task EXCEPT ![t] = new] /\ u.txs = s.txs /\ u.status = s.status /\ u.lock = s.lock
      /\ u.allowed = s.allowed /\ u.priced = s.priced /\ u.cli = s.cli /\ u.exited = b
  BY DEF RegistrarState
<1>8. u \in RegistrarState  BY <1>1, <1>3, <1>4 DEF RegistrarState, RegistrarTask
<1>9. NextChain(s, t) \in RegistrarState /\ NextChain(s, t).task = [s.task EXCEPT ![t] = new]
      /\ NextChain(s, t).txs = s.txs /\ NextChain(s, t).status = s.status /\ NextChain(s, t).lock = s.lock
  BY <1>5, <1>6, <1>8
<1> QED BY <1>3, <1>9, Zenon DEF new

\* A task that goes on to its next chain keeps the invariant, giving up the lock if it has it.
LEMMA NextChainKeeps ==
    ASSUME NEW s0, RegistrarOK(s0), NEW t \in RgTasks, s0.task[t].pc # "idle",
           NEW l, s0.task[t].pc \in {"send", "answer"} => l = "free",
           s0.task[t].pc \notin {"send", "answer"} => l = s0.lock,
           s0.task[t].pc = "answer" => \A i \in DOMAIN s0.txs : s0.txs[i].answer # "waiting"
    PROVE  RegistrarOK(NextChain([s0 EXCEPT !.lock = l], t))
<1> DEFINE s == [s0 EXCEPT !.lock = l]
           u == NextChain(s, t)
           rest == Tail(s.task[t].todo)
           new == [pc |-> IF rest = <<>> THEN "idle" ELSE "approve", todo |-> rest, left |-> 0]
<1>0. l \in RgTasks \cup {"free"}  BY RegistrarFields
<1>1. s \in RegistrarState /\ s.task = s0.task /\ s.txs = s0.txs /\ s.status = s0.status /\ s.lock = l
  <2>1. s0 \in RegistrarRecord  BY RegistrarRecordIs DEF RegistrarOK
  <2>2. s \in RegistrarRecord /\ s.task = s0.task /\ s.txs = s0.txs /\ s.status = s0.status /\ s.lock = l
    BY ONLY <1>0, <2>1 DEF RegistrarRecord
  <2> QED BY ONLY <2>2, RegistrarRecordIs
<1>2. s.task[t].todo # <<>>  BY <1>1 DEF RegistrarOK, RegistrarLocked
<1>3. /\ u \in RegistrarState /\ u.task = [s0.task EXCEPT ![t] = new] /\ new \in RegistrarTask
      /\ new.pc \in {"idle", "approve"} /\ (new.pc # "idle" => new.todo # <<>>)
      /\ u.txs = s0.txs /\ u.status = s0.status /\ u.lock = l
  <2> HIDE DEF s
  <2>1. LET v == NextChain(s, t)
            r == Tail(s.task[t].todo)
            n == [pc |-> IF r = <<>> THEN "idle" ELSE "approve", todo |-> r, left |-> 0]
        IN /\ v \in RegistrarState /\ v.task = [s.task EXCEPT ![t] = n] /\ n \in RegistrarTask
           /\ n.pc \in {"idle", "approve"} /\ (n.pc # "idle" => n.todo # <<>>)
           /\ v.txs = s.txs /\ v.status = s.status /\ v.lock = s.lock
    BY <1>1, <1>2, NextChainFields
  <2>2. /\ u \in RegistrarState /\ u.task = [s.task EXCEPT ![t] = new] /\ new \in RegistrarTask
        /\ new.pc \in {"idle", "approve"} /\ (new.pc # "idle" => new.todo # <<>>)
        /\ u.txs = s.txs /\ u.status = s.status /\ u.lock = s.lock
    BY <2>1
  <2> HIDE DEF u, new
  <2> QED BY <1>1, <2>2
<1>4. l # t  BY RgAssumption DEF RegistrarOK, RegistrarLocked
<1>5. l # s0.lock => s0.lock = t /\ l = "free"  BY DEF RegistrarOK, RegistrarLocked
<1> HIDE DEF u, new
<1>6. RegistrarOK(u)  BY <1>3, <1>4, <1>5, TaskMoves
<1> QED BY <1>6 DEF u

LEMMA StayLocked == ASSUME RegistrarOK(registrar) PROVE [registrar EXCEPT !.lock = registrar.lock] = registrar
  BY DEF RegistrarOK, RegistrarState

LEMMA ApproveKeeps ==
    ASSUME RegistrarOK(registrar), NEW t \in RgTasks, CheckFabBalance(t) \/ ApproveFabTokens(t)
    PROVE  RegistrarOK(registrar')
<1>1. registrar.task[t].pc = "approve"  BY DEF CheckFabBalance, ApproveFabTokens, RegistrarAt
<1>2. CASE registrar' = NextChain(registrar, t)
  <2>1. RegistrarOK(NextChain([registrar EXCEPT !.lock = registrar.lock], t))  BY <1>1, NextChainKeeps
  <2> QED BY <1>2, <2>1, StayLocked
<1>3. ASSUME NEW a \in SUBSET RgChains, registrar' = [registrar EXCEPT !.task[t].pc = "lock", !.allowed = a]
      PROVE  RegistrarOK(registrar')
  <2> DEFINE new == [registrar.task[t] EXCEPT !.pc = "lock"]
  <2>1. new \in RegistrarTask /\ new.todo # <<>> /\ new.pc = "lock"
    <3>1. registrar.task[t] \in RegistrarTask /\ registrar.task[t].todo # <<>>
      BY <1>1, RegistrarFields DEF RegistrarOK, RegistrarLocked
    <3> QED BY <3>1, TaskAt
  <2>2. /\ registrar'.task = [registrar.task EXCEPT ![t] = new] /\ registrar' \in RegistrarState
        /\ registrar'.lock = registrar.lock /\ registrar'.txs = registrar.txs /\ registrar'.status = registrar.status
    <3> DEFINE k == [registrar.task EXCEPT ![t] = new]
    <3>1. registrar' = [registrar EXCEPT !.status = registrar.status, !.lock = registrar.lock, !.allowed = a,
                                         !.txs = registrar.txs, !.priced = registrar.priced, !.task = k]
      BY <1>3, RegistrarFields, RegistrarRecordIs DEF RegistrarRecord
    <3>2. k \in [RgTasks -> RegistrarTask]  BY <2>1, RegistrarFields
    <3> HIDE DEF k
    <3>3. /\ registrar' \in RegistrarState /\ registrar'.task = k /\ registrar'.lock = registrar.lock
          /\ registrar'.txs = registrar.txs /\ registrar'.status = registrar.status
      <4>1. registrar \in RegistrarRecord  BY RegistrarRecordIs DEF RegistrarOK
      <4>2. registrar' = [registrar EXCEPT !.allowed = a, !.task = k]  BY ONLY <3>1, <4>1 DEF RegistrarRecord
      <4>3. /\ registrar' \in RegistrarRecord /\ registrar'.task = k /\ registrar'.lock = registrar.lock
            /\ registrar'.txs = registrar.txs /\ registrar'.status = registrar.status
        BY ONLY <3>2, <4>1, <4>2, a \in SUBSET RgChains DEF RegistrarRecord
      <4> QED BY ONLY <4>3, RegistrarRecordIs
    <3> QED BY <3>3 DEF k
  <2>3. registrar.lock # t  BY <1>1 DEF RegistrarOK, RegistrarLocked
  <2> HIDE DEF new
  <2> QED BY <1>1, <2>1, <2>2, <2>3, TaskMoves
<1>4. registrar.allowed \in SUBSET RgChains /\ RegChain(t) \in RgChains
  BY <1>1, RegistrarFields DEF RegistrarState, RegChain
<1>5. \/ registrar' = NextChain(registrar, t)
      \/ registrar' = [registrar EXCEPT !.task[t].pc = "lock", !.allowed = registrar.allowed \cup {RegChain(t)}]
      \/ registrar' = [registrar EXCEPT !.task[t].pc = "lock", !.allowed = registrar.allowed]
  BY RegistrarFields DEF CheckFabBalance, ApproveFabTokens, RegistrarStep, RegistrarState
<1>6. registrar.allowed \cup {RegChain(t)} \in SUBSET RgChains  BY <1>4
<1> QED BY <1>2, <1>3, <1>4, <1>5, <1>6

LEMMA RegisterKeeps ==
    ASSUME RegistrarOK(registrar), NEW t \in RgTasks, NEW c \in RgChains, NEW d \in RgChains,
           RegisterOnChain(t, IF c = d THEN <<c>> ELSE <<c, d>>)
    PROVE  RegistrarOK(registrar')
<1> DEFINE cs == IF c = d THEN <<c>> ELSE <<c, d>>
           new == [pc |-> "approve", todo |-> cs, left |-> 0]
<1>1. cs \in Seq(RgChains) /\ cs # <<>>  OBVIOUS
<1>2. registrar.task[t].pc = "idle" /\ registrar' = [registrar EXCEPT !.task[t] = new]
  BY DEF RegisterOnChain, RegistrarAt, RegistrarStep
<1> HIDE DEF cs
<1>3. new \in RegistrarTask /\ new.pc = "approve" /\ new.todo # <<>>  BY <1>1, RgAssumption DEF RegistrarTask
<1> HIDE DEF new
<1>4. /\ registrar'.task = [registrar.task EXCEPT ![t] = new] /\ registrar' \in RegistrarState
      /\ registrar'.lock = registrar.lock /\ registrar'.txs = registrar.txs /\ registrar'.status = registrar.status
  <2>1. registrar \in RegistrarRecord  BY RegistrarRecordIs DEF RegistrarOK
  <2>2. /\ registrar'.task = [registrar.task EXCEPT ![t] = new] /\ registrar' \in RegistrarRecord
        /\ registrar'.lock = registrar.lock /\ registrar'.txs = registrar.txs /\ registrar'.status = registrar.status
    BY ONLY <1>2, <1>3, <2>1, t \in RgTasks DEF RegistrarRecord
  <2> QED BY ONLY <2>2, RegistrarRecordIs
<1>5. registrar.lock # t  BY <1>2 DEF RegistrarOK, RegistrarLocked
<1> QED BY <1>2, <1>3, <1>4, <1>5, TaskMoves

LEMMA LockKeeps == ASSUME RegistrarOK(registrar), NEW t \in RgTasks, LockStatus(t) PROVE RegistrarOK(registrar')
<1> DEFINE new == [registrar.task[t] EXCEPT !.pc = "send"]
<1>1. registrar.task[t].pc = "lock" /\ registrar.lock = "free" /\ registrar' = [registrar EXCEPT !.lock = t, !.task[t].pc = "send"]
  BY DEF LockStatus, RegistrarAt, RegistrarStep
<1>2. new \in RegistrarTask /\ new.todo # <<>> /\ new.pc = "send"
  <2>1. registrar.task[t] \in RegistrarTask /\ registrar.task[t].todo # <<>>
    BY <1>1, RegistrarFields DEF RegistrarOK, RegistrarLocked
  <2> QED BY <2>1, TaskAt
<1>3. /\ registrar'.task = [registrar.task EXCEPT ![t] = new] /\ registrar' \in RegistrarState
      /\ registrar'.lock = t /\ registrar'.txs = registrar.txs /\ registrar'.status = registrar.status
  <2> DEFINE k == [registrar.task EXCEPT ![t] = new]
  <2>1. registrar' = [registrar EXCEPT !.lock = t, !.task = k]
    BY <1>1, RegistrarFields, RegistrarRecordIs DEF RegistrarRecord
  <2>2. k \in [RgTasks -> RegistrarTask]  BY <1>2, RegistrarFields
  <2> HIDE DEF k
  <2>3. /\ registrar' \in RegistrarState /\ registrar'.task = k /\ registrar'.lock = t
        /\ registrar'.txs = registrar.txs /\ registrar'.status = registrar.status
    <3>1. registrar \in RegistrarRecord  BY RegistrarRecordIs DEF RegistrarOK
    <3>2. /\ registrar' \in RegistrarRecord /\ registrar'.task = k /\ registrar'.lock = t
          /\ registrar'.txs = registrar.txs /\ registrar'.status = registrar.status
      BY ONLY <2>1, <2>2, <3>1, t \in RgTasks DEF RegistrarRecord
    <3> QED BY ONLY <3>2, RegistrarRecordIs
  <2> QED BY <2>3 DEF k
<1> HIDE DEF new
<1> QED BY <1>1, <1>2, <1>3, TaskMoves

LEMMA PricingKeeps == ASSUME RegistrarOK(registrar), NEW t \in RgTasks, SetModelTokenPricing(t) PROVE RegistrarOK(registrar')
<1> DEFINE new == [registrar.task[t] EXCEPT !.left = registrar.task[t].left - 1]
           c == RegChain(t)
<1>1. PICK n \in {0, 1} : registrar' = [registrar EXCEPT !.task[t].left = @ - 1, !.priced[c] = @ + n]
  BY DEF SetModelTokenPricing, RegistrarStep
<1>2. registrar.task[t].pc = "pricing" /\ registrar.task[t].left > 0 /\ c \in RgChains
  BY RegistrarFields DEF SetModelTokenPricing, RegistrarAt, RegChain
<1>3. registrar.task[t].left - 1 \in 0 .. RgPricings /\ registrar.priced[c] + n \in Nat
  BY <1>2, RegistrarFields, RgAssumption DEF RegistrarTask
<1>4. new \in RegistrarTask /\ new.todo # <<>> /\ new.pc = "pricing"
  <2>1. registrar.task[t] \in RegistrarTask /\ registrar.task[t].todo # <<>>
    BY <1>2, RegistrarFields DEF RegistrarOK, RegistrarLocked
  <2> QED BY ONLY <1>2, <1>3, <2>1 DEF RegistrarTask
<1> HIDE DEF c
<1>5. /\ registrar'.task = [registrar.task EXCEPT ![t] = new] /\ registrar'.priced = [registrar.priced EXCEPT ![c] = registrar.priced[c] + n]
      /\ registrar'.lock = registrar.lock /\ registrar'.txs = registrar.txs /\ registrar'.status = registrar.status
      /\ registrar'.allowed = registrar.allowed /\ registrar'.cli = registrar.cli /\ registrar'.exited = registrar.exited
  BY <1>1, RegistrarFields DEF RegistrarState, RegistrarTask
<1> HIDE DEF new
<1>6. registrar' \in RegistrarState
  <2>1. registrar'.task \in [RgTasks -> RegistrarTask] /\ registrar'.priced \in [RgChains -> Nat]
    BY <1>2, <1>3, <1>4, <1>5, RegistrarFields
  <2>2. registrar' = [registrar EXCEPT !.task = registrar'.task, !.priced = registrar'.priced]
    BY <1>1, RegistrarFields DEF RegistrarState
  <2>3. registrar \in RegistrarRecord  BY RegistrarRecordIs DEF RegistrarOK
  <2>4. registrar' \in RegistrarRecord  BY ONLY <2>1, <2>2, <2>3 DEF RegistrarRecord
  <2> QED BY ONLY <2>4, RegistrarRecordIs
<1>7. registrar.lock # t  BY <1>2 DEF RegistrarOK, RegistrarLocked
<1> QED BY <1>2, <1>4, <1>5, <1>6, <1>7, TaskMoves

\* A transaction that is mined, answered or looked up.
LEMMA TxMoves ==
    ASSUME NEW s, RegistrarOK(s), NEW i \in DOMAIN s.txs, NEW x \in RegistrationTx,
           x.chain = s.txs[i].chain, s.txs[i].mined # "no" => x.mined # "no",
           x.answer = "waiting" => s.txs[i].answer = "waiting"
    PROVE  LET u == [s EXCEPT !.txs = [s.txs EXCEPT ![i] = x]]
           IN /\ RegistrarOK(u) /\ DOMAIN u.txs = DOMAIN s.txs /\ u.txs = [s.txs EXCEPT ![i] = x]
              /\ u.task = s.task /\ u.lock = s.lock /\ u.status = s.status
<1> DEFINE xs == [s.txs EXCEPT ![i] = x]
           u == [s EXCEPT !.txs = xs]
<1>1. /\ xs \in Seq(RegistrationTx) /\ DOMAIN xs = DOMAIN s.txs
      /\ \A k \in DOMAIN s.txs : xs[k] = IF k = i THEN x ELSE s.txs[k]
  <2>1. s.txs \in Seq(RegistrationTx) /\ i \in 1 .. Len(s.txs)  BY RegistrarFields
  <2>2. xs \in Seq(RegistrationTx)  BY <2>1, ExceptSeq
  <2> QED BY <2>2
<1> HIDE DEF xs
<1>2. u \in RegistrarState /\ u.txs = xs /\ u.task = s.task /\ u.lock = s.lock /\ u.status = s.status
  <2>1. s \in RegistrarRecord  BY RegistrarRecordIs DEF RegistrarOK
  <2>2. u \in RegistrarRecord /\ u.txs = xs /\ u.task = s.task /\ u.lock = s.lock /\ u.status = s.status
    BY ONLY <1>1, <2>1 DEF RegistrarRecord
  <2> QED BY ONLY <2>2, RegistrarRecordIs
<1> HIDE DEF u
<1>3. RegistrarLocked(u)  BY <1>2 DEF RegistrarLocked, RegistrarOK
<1>4. OnlyOneWaits(u)  BY <1>1, <1>2 DEF OnlyOneWaits, RegistrarOK
<1>5. ConfirmedIsMined(u)  BY <1>1, <1>2 DEF ConfirmedIsMined, RegistrarOK
<1>6. RegistrarOK(u) /\ DOMAIN u.txs = DOMAIN s.txs /\ u.txs = xs /\ u.task = s.task /\ u.lock = s.lock /\ u.status = s.status
  BY <1>1, <1>2, <1>3, <1>4, <1>5 DEF RegistrarOK
<1> QED BY <1>6, Zenon DEF u, xs

\* A status that becomes Pending, or Confirmed with a mined transaction.
LEMMA StatusMoves ==
    ASSUME NEW s, RegistrarOK(s), NEW c \in RgChains, NEW v \in {"Pending", "Confirmed"},
           v = "Confirmed" => \E i \in DOMAIN s.txs : s.txs[i].chain = c /\ s.txs[i].mined # "no"
    PROVE  LET u == [s EXCEPT !.status[c] = v]
           IN RegistrarOK(u) /\ u.txs = s.txs /\ u.task = s.task /\ u.lock = s.lock
<1> DEFINE u == [s EXCEPT !.status[c] = v]
<1>1. u \in RegistrarState /\ u.txs = s.txs /\ u.task = s.task /\ u.lock = s.lock /\ u.status = [s.status EXCEPT ![c] = v]
  <2>1. s \in RegistrarRecord  BY RegistrarRecordIs DEF RegistrarOK
  <2>2. /\ u \in RegistrarRecord /\ u.txs = s.txs /\ u.task = s.task /\ u.lock = s.lock
        /\ u.status = [s.status EXCEPT ![c] = v]
    BY ONLY <2>1, c \in RgChains, v \in {"Pending", "Confirmed"} DEF RegistrarRecord
  <2> QED BY ONLY <2>2, RegistrarRecordIs
<1> HIDE DEF u
<1>2. RegistrarLocked(u) /\ OnlyOneWaits(u)  BY <1>1 DEF RegistrarLocked, OnlyOneWaits, RegistrarOK
<1>3. ConfirmedIsMined(u)  BY <1>1, RegistrarFields DEF ConfirmedIsMined, RegistrarOK
<1>4. RegistrarOK(u) /\ u.txs = s.txs /\ u.task = s.task /\ u.lock = s.lock  BY <1>1, <1>2, <1>3 DEF RegistrarOK
<1> QED BY <1>4, Zenon DEF u

LEMMA MinedKeeps ==
    ASSUME RegistrarOK(registrar), NEW i, TxMined(i) \/ ConfirmRegistration(i)
    PROVE  RegistrarOK(registrar')
<1>1. i \in DOMAIN registrar.txs /\ registrar.txs[i] \in RegistrationTx
  BY RegistrarFields DEF TxMined, ConfirmRegistration
<1> DEFINE tx == registrar.txs[i]
           xm(v) == [tx EXCEPT !.mined = v]
           xd == [tx EXCEPT !.watched = "done"]
           done == [registrar EXCEPT !.txs = [registrar.txs EXCEPT ![i] = xd]]
           c == tx.chain
<1>2. /\ \A v \in {"ok", "reverted"} : xm(v) \in RegistrationTx /\ xm(v).chain = tx.chain /\ xm(v).mined # "no" /\ xm(v).answer = tx.answer
      /\ xd \in RegistrationTx /\ xd.chain = tx.chain /\ xd.mined = tx.mined /\ xd.answer = tx.answer /\ tx.chain \in RgChains
  BY <1>1 DEF RegistrationTx
<1>3. CASE TxMined(i)
  <2> DEFINE v == IF tx.chain \in registrar.allowed THEN "ok" ELSE "reverted"
             x == xm(v)
  <2>1. x \in RegistrationTx /\ x.chain = tx.chain /\ x.mined # "no" /\ x.answer = tx.answer  BY <1>2
  <2>2. registrar' = [registrar EXCEPT !.txs = [registrar.txs EXCEPT ![i] = x]]
    <3>1. registrar \in RegistrarRecord  BY RegistrarRecordIs DEF RegistrarOK
    <3> QED BY <1>3, <3>1 DEF TxMined, RegistrarStep, RegistrarRecord
  <2> HIDE DEF x
  <2> QED BY <1>1, <2>1, <2>2, TxMoves
<1>4. RegistrarOK(done) /\ done.txs = [registrar.txs EXCEPT ![i] = xd] /\ DOMAIN done.txs = DOMAIN registrar.txs
  <2> HIDE DEF xd
  <2> QED BY <1>1, <1>2, TxMoves
<1>5. registrar \in RegistrarRecord  BY RegistrarRecordIs DEF RegistrarOK
<1>6. CASE registrar' = [registrar EXCEPT !.txs[i].watched = "done"]
  <2>1. registrar' = done  BY <1>1, <1>5, <1>6 DEF RegistrarRecord
  <2> QED BY <1>4, <2>1
<1>7. CASE /\ registrar' = [registrar EXCEPT !.txs[i].watched = "done", !.status[registrar.txs[i].chain] = "Confirmed"]
           /\ tx.mined # "no"
  <2>1. registrar' = [done EXCEPT !.status[c] = "Confirmed"]  BY <1>1, <1>5, <1>7 DEF RegistrarRecord
  <2>2. done.txs[i].chain = c /\ done.txs[i].mined # "no" /\ i \in DOMAIN done.txs /\ c \in RgChains
    BY <1>1, <1>2, <1>4, <1>7
  <2> HIDE DEF done, c, xd, tx
  <2> QED BY <1>4, <2>1, <2>2, StatusMoves
<1> QED BY <1>3, <1>6, <1>7 DEF ConfirmRegistration, RegistrarStep

LEMMA SpawnKeeps == ASSUME RegistrarOK(registrar), NEW t \in RgTasks, SpawnConfirmation(t) PROVE RegistrarOK(registrar')
<1>1. PICK i \in DOMAIN registrar.txs : registrar' = NextChain([registrar EXCEPT !.txs[i].watched = "yes"], t)
  BY DEF SpawnConfirmation, RegistrarStep
<1> DEFINE x == [registrar.txs[i] EXCEPT !.watched = "yes"]
           s == [registrar EXCEPT !.txs = [registrar.txs EXCEPT ![i] = x]]
<1>2. registrar.txs[i] \in RegistrationTx /\ registrar \in RegistrarRecord  BY RegistrarFields, RegistrarRecordIs
<1>3. x \in RegistrationTx /\ x.chain = registrar.txs[i].chain /\ x.mined = registrar.txs[i].mined /\ x.answer = registrar.txs[i].answer
  BY <1>2 DEF RegistrationTx
<1>4. [registrar EXCEPT !.txs[i].watched = "yes"] = s  BY <1>2 DEF RegistrarRecord
<1>5. registrar.task[t].pc = "pricing"  BY DEF SpawnConfirmation, RegistrarAt
<1>6. RegistrarOK(s) /\ s.task = registrar.task /\ s.lock = registrar.lock
  <2> HIDE DEF x
  <2> QED BY <1>2, <1>3, TxMoves
<1> HIDE DEF s
<1>7. RegistrarOK(NextChain([s EXCEPT !.lock = s.lock], t))  BY <1>5, <1>6, NextChainKeeps
<1>8. [s EXCEPT !.lock = s.lock] = s  BY <1>6, RegistrarRecordIs DEF RegistrarOK, RegistrarRecord
<1> QED BY <1>1, <1>4, <1>7, <1>8

LEMMA SendKeeps == ASSUME RegistrarOK(registrar), NEW t \in RgTasks, SendRegistration(t) PROVE RegistrarOK(registrar')
<1>1. registrar.task[t].pc = "send" /\ registrar.lock = t
  BY DEF SendRegistration, RegistrarAt, RegistrarOK, RegistrarLocked
<1>2. CASE registrar' = NextChain([registrar EXCEPT !.lock = "free"], t)  BY <1>1, <1>2, NextChainKeeps
<1> DEFINE tx == [chain |-> RegChain(t), answer |-> "waiting", mined |-> "no", watched |-> "no"]
           xs == Append(registrar.txs, tx)
           new == [registrar.task[t] EXCEPT !.pc = "answer"]
           k == [registrar.task EXCEPT ![t] = new]
<1>3. CASE registrar' = [registrar EXCEPT !.task[t].pc = "answer", !.txs = Append(@, tx)]
  <2>1. RegChain(t) \in RgChains  BY <1>1, RegistrarFields DEF RegChain
  <2>2. tx \in RegistrationTx /\ tx.chain = RegChain(t) /\ tx.mined = "no"  BY <2>1 DEF RegistrationTx
  <2> HIDE DEF tx
  <2> DEFINE n == Len(registrar.txs)
  <2>3. /\ xs \in Seq(RegistrationTx) /\ n \in Nat /\ DOMAIN registrar.txs = 1 .. n /\ DOMAIN xs = 1 .. n + 1
        /\ \A i \in 1 .. n : xs[i] = registrar.txs[i]
        /\ xs[n + 1] = tx
    BY <2>2, RegistrarFields, AppendProperties, LenProperties
  <2>4. new \in RegistrarTask /\ new.todo # <<>> /\ new.pc = "answer" /\ new.todo = registrar.task[t].todo
    <3>1. registrar.task[t] \in RegistrarTask /\ registrar.task[t].todo # <<>>
      BY <1>1, RegistrarFields DEF RegistrarOK, RegistrarLocked
    <3> QED BY <3>1, TaskAt
  <2>5. k \in [RgTasks -> RegistrarTask] /\ \A y \in RgTasks : k[y] = IF y = t THEN new ELSE registrar.task[y]
    BY <2>4, RegistrarFields
  <2>6. registrar' = [registrar EXCEPT !.task = k, !.txs = xs]
    <3>1. registrar \in RegistrarRecord  BY RegistrarRecordIs DEF RegistrarOK
    <3> QED BY <1>3, <3>1 DEF RegistrarRecord
  <2> HIDE DEF k, xs, new, n
  <2>7. /\ registrar' \in RegistrarState /\ registrar'.task = k /\ registrar'.txs = xs
        /\ registrar'.lock = registrar.lock /\ registrar'.status = registrar.status
    <3>1. registrar \in RegistrarRecord  BY RegistrarRecordIs DEF RegistrarOK
    <3>2. /\ registrar' \in RegistrarRecord /\ registrar'.task = k /\ registrar'.txs = xs
          /\ registrar'.lock = registrar.lock /\ registrar'.status = registrar.status
      BY ONLY <2>3, <2>5, <2>6, <3>1 DEF RegistrarRecord
    <3> QED BY ONLY <3>2, RegistrarRecordIs
  <2>8. RegistrarLocked(registrar')  BY <1>1, <2>4, <2>5, <2>7 DEF RegistrarLocked, RegistrarOK
  <2>9. \A i \in 1 .. n : registrar.txs[i].answer # "waiting"  BY <1>1, <2>3 DEF RegistrarOK, OnlyOneWaits
  <2>10. OnlyOneWaits(registrar')
    <3> SUFFICES ASSUME NEW i \in 1 .. n + 1, xs[i].answer = "waiting"
                 PROVE  /\ \E y \in RgTasks : registrar.lock = y /\ k[y].pc = "answer" /\ xs[i].chain = Head(k[y].todo)
                        /\ \A q \in 1 .. n + 1 : xs[q].answer = "waiting" => q = i
      BY <2>3, <2>7 DEF OnlyOneWaits
    <3>1. \A q \in 1 .. n + 1 : q \in 1 .. n \/ q = n + 1  BY <2>3
    <3>2. \A q \in 1 .. n + 1 : xs[q].answer = "waiting" => q = n + 1  BY <2>3, <2>9, <3>1
    <3>3. i = n + 1 /\ xs[i].chain = RegChain(t)  BY <2>2, <2>3, <3>2
    <3>4. k[t].pc = "answer" /\ Head(k[t].todo) = RegChain(t)  BY <2>4, <2>5 DEF RegChain
    <3> QED BY <1>1, <3>2, <3>3, <3>4
  <2>11. ConfirmedIsMined(registrar')
    <3> SUFFICES ASSUME NEW c \in RgChains, registrar.status[c] = "Confirmed"
                 PROVE  \E i \in 1 .. n + 1 : xs[i].chain = c /\ xs[i].mined # "no"  BY <2>3, <2>7 DEF ConfirmedIsMined
    <3>1. PICK i \in 1 .. n : registrar.txs[i].chain = c /\ registrar.txs[i].mined # "no"
      BY <2>3 DEF RegistrarOK, ConfirmedIsMined
    <3> QED BY <2>3, <3>1
  <2> QED BY <2>7, <2>8, <2>10, <2>11 DEF RegistrarOK
<1> QED BY <1>2, <1>3 DEF SendRegistration, RegistrarStep

\* send_transaction returns: the transaction is answered while the lock is still held.
LEMMA AnsweredKeeps == ASSUME RegistrarOK(registrar), NEW t \in RgTasks, SendAnswered(t) PROVE RegistrarOK(registrar')
<1> DEFINE i == SentBy(t)
           c == RegChain(t)
           x(v) == [registrar.txs[i] EXCEPT !.answer = v]
           xs(v) == [registrar.txs EXCEPT ![i].answer = v]
           s(v) == [registrar EXCEPT !.txs = xs(v)]
<1>1. registrar.task[t].pc = "answer" /\ registrar.lock = t /\ c \in RgChains
  BY RegistrarFields DEF SendAnswered, RegistrarAt, RegistrarOK, RegistrarLocked, RegChain
<1>2. registrar \in RegistrarRecord  BY RegistrarRecordIs DEF RegistrarOK
<1>3. ASSUME NEW q \in DOMAIN registrar.txs, registrar.txs[q].answer = "waiting"
      PROVE  i \in DOMAIN registrar.txs /\ i = q
  <2>1. registrar.txs[q].chain = RegChain(t)  BY <1>1, <1>3 DEF RegistrarOK, OnlyOneWaits, RegChain
  <2>2. i \in DOMAIN registrar.txs /\ registrar.txs[i].answer = "waiting"  BY <1>3, <2>1, Zenon DEF SentBy
  <2> QED BY <1>3, <2>2 DEF RegistrarOK, OnlyOneWaits
<1>4. ASSUME NEW v \in {"ok", "lost"}
      PROVE  /\ RegistrarOK(s(v)) /\ s(v).task = registrar.task /\ s(v).lock = registrar.lock
             /\ \A q \in DOMAIN s(v).txs : s(v).txs[q].answer # "waiting"
  <2>1. CASE i \in DOMAIN registrar.txs
    <3>1. registrar.txs[i] \in RegistrationTx  BY <2>1, RegistrarFields
    <3>2. /\ x(v) \in RegistrationTx /\ x(v).chain = registrar.txs[i].chain /\ x(v).mined = registrar.txs[i].mined
          /\ x(v).answer # "waiting"
      BY <3>1 DEF RegistrationTx
    <3>3. s(v) = [registrar EXCEPT !.txs = [registrar.txs EXCEPT ![i] = x(v)]]  OBVIOUS
    <3> HIDE DEF x, s, i
    <3>4. /\ RegistrarOK(s(v)) /\ s(v).task = registrar.task /\ s(v).lock = registrar.lock
          /\ DOMAIN s(v).txs = DOMAIN registrar.txs /\ s(v).txs = [registrar.txs EXCEPT ![i] = x(v)]
      BY <2>1, <3>2, <3>3, TxMoves
    <3> QED BY <1>3, <2>1, <3>2, <3>4
  <2>2. CASE i \notin DOMAIN registrar.txs
    <3>1. \A q \in DOMAIN registrar.txs : registrar.txs[q].answer # "waiting"  BY <1>3, <2>2
    <3>2. xs(v) = registrar.txs
      <4>1. registrar.txs \in [DOMAIN registrar.txs -> RegistrationTx]  BY RegistrarFields
      <4> HIDE DEF i
      <4> QED BY <2>2, <4>1
    <3>3. s(v) = registrar
      <4> HIDE DEF xs
      <4> QED BY <1>2, <3>2 DEF RegistrarRecord
    <3> QED BY <3>1, <3>3
  <2> QED BY <2>1, <2>2
<1>5. CASE registrar' = NextChain([registrar EXCEPT !.txs[SentBy(t)].answer = "lost", !.lock = "free"], t)
  <2>1. [registrar EXCEPT !.txs[SentBy(t)].answer = "lost", !.lock = "free"] = [s("lost") EXCEPT !.lock = "free"]
    BY <1>2 DEF RegistrarRecord
  <2> DEFINE z == s("lost")
  <2>2. RegistrarOK(z) /\ z.task = registrar.task /\ z.lock = registrar.lock
        /\ \A q \in DOMAIN z.txs : z.txs[q].answer # "waiting"
    <3> HIDE DEF s
    <3> QED BY <1>4
  <2>3. registrar' = NextChain([z EXCEPT !.lock = "free"], t)  BY <1>5, <2>1
  <2> HIDE DEF z
  <2> QED BY <1>1, <2>2, <2>3, NextChainKeeps
<1>6. CASE registrar' = [registrar EXCEPT !.txs[SentBy(t)].answer = "ok", !.status[RegChain(t)] = "Pending",
                                        !.lock = "free", !.task[t].pc = "pricing", !.task[t].left = RgPricings]
  <2> DEFINE z == s("ok")
             w == [z EXCEPT !.status[c] = "Pending"]
             new == [registrar.task[t] EXCEPT !.pc = "pricing", !.left = RgPricings]
             k == [registrar.task EXCEPT ![t] = new]
  <2>1. registrar' = [w EXCEPT !.lock = "free", !.task = k]  BY <1>2, <1>6 DEF RegistrarRecord
  <2>2. RegistrarOK(z) /\ z.task = registrar.task /\ z.lock = registrar.lock
        /\ \A q \in DOMAIN z.txs : z.txs[q].answer # "waiting"
    <3> HIDE DEF s
    <3> QED BY <1>4
  <2> HIDE DEF z
  <2>3. RegistrarOK(w) /\ w.txs = z.txs /\ w.task = registrar.task /\ w.lock = t  BY <1>1, <2>2, StatusMoves
  <2> HIDE DEF w
  <2>4. new \in RegistrarTask /\ new.todo # <<>> /\ new.pc = "pricing"
    <3>1. registrar.task[t] \in RegistrarTask /\ registrar.task[t].todo # <<>> /\ RgPricings \in 0 .. RgPricings
      BY <1>1, RegistrarFields, RgAssumption DEF RegistrarOK, RegistrarLocked
    <3> QED BY <3>1 DEF RegistrarTask
  <2> HIDE DEF new
  <2>5. k \in [RgTasks -> RegistrarTask]  BY <2>4, RegistrarFields
  <2>6. /\ registrar' \in RegistrarState /\ registrar'.task = k /\ registrar'.lock = "free"
        /\ registrar'.txs = w.txs /\ registrar'.status = w.status
    <3>1. w \in RegistrarRecord  BY <2>3, RegistrarRecordIs DEF RegistrarOK
    <3> HIDE DEF k
    <3>2. /\ registrar' \in RegistrarRecord /\ registrar'.task = k /\ registrar'.lock = "free"
          /\ registrar'.txs = w.txs /\ registrar'.status = w.status
      BY ONLY <2>1, <2>5, <3>1 DEF RegistrarRecord
    <3> QED BY ONLY <3>2, RegistrarRecordIs
  <2>7. "free" # t  BY RgAssumption
  <2> QED BY <1>1, <2>2, <2>3, <2>4, <2>6, <2>7, TaskMoves
<1> QED BY <1>5, <1>6 DEF SendAnswered, RegistrarStep

LEMMA RegistrarInitial == ASSUME RgInit PROVE RegistrarOK(registrar)
<1>1. registrar.task = [t \in RgTasks |-> RgIdle] /\ registrar.txs = <<>> /\ registrar.lock = "free"
      /\ registrar.status = [c \in RgChains |-> "NotRegistered"]
  BY DEF RgInit
<1>2. RgIdle \in RegistrarTask /\ RgIdle.pc = "idle"  BY RgAssumption DEF RgIdle, RegistrarTask
<1>3. registrar \in RegistrarRecord
  <2>1. <<>> \in Seq(RegistrationTx) /\ [t \in RgTasks |-> RgIdle] \in [RgTasks -> RegistrarTask]  BY <1>2
  <2>2. PICK cli \in BOOLEAN :
           registrar = [status |-> [c \in RgChains |-> "NotRegistered"], lock |-> "free",
                        allowed |-> {}, txs |-> <<>>, priced |-> [c \in RgChains |-> 0], cli |-> cli,
                        exited |-> FALSE, task |-> [t \in RgTasks |-> RgIdle]]  BY Zenon DEF RgInit
  <2> QED BY ONLY <2>1, <2>2 DEF RegistrarRecord
<1>4. RegistrarLocked(registrar) /\ OnlyOneWaits(registrar) /\ ConfirmedIsMined(registrar)
  BY <1>1, <1>2, RgAssumption DEF RegistrarLocked, OnlyOneWaits, ConfirmedIsMined
<1> QED BY <1>3, <1>4, RegistrarRecordIs DEF RegistrarOK

LEMMA RegistrarSteps == ASSUME RegistrarOK(registrar), RegistrarNext PROVE RegistrarOK(registrar')
  BY RegisterKeeps, ApproveKeeps, LockKeeps, SendKeeps, AnsweredKeeps, PricingKeeps, SpawnKeeps, MinedKeeps
     DEF RegistrarNext

LEMMA RegistrarSafe == ASSUME RegistrarOK(registrar) PROVE RegistrarStatusIsReal /\ registrar \in RegistrarState
  BY RgAssumption DEF RegistrarOK, OnlyOneWaits, ConfirmedIsMined, RegistrarStatusIsReal

-----------------------------------------------------------------------------
(* Registrars: the monitor of the registrations.                           *)

\* A check that found an expiring registration has warned of it before it stores it.
Warned(s) ==
    \A c \in RgChains :
        s.expiring[c] + (IF s.pc[c] \in {"renew", "store"} /\ s.found[c].expiry \in 0 .. WarnBelow - 1 THEN 1 ELSE 0)
            <= s.warnings[c]

MonitorOK(s) == s \in MonitorState /\ Warned(s)

\* The state with its fields that the property does not read left as they are.
LEMMA MonitorFields ==
    ASSUME NEW s, s \in MonitorState
    PROVE  /\ s.handle \in SUBSET RgChains /\ s.health \in [RgChains -> RegistrationHealth]
           /\ s.found \in [RgChains -> RegistrationHealth]
           /\ s.pc \in [RgChains -> {"tick", "compare", "warn", "renew", "store"}]
           /\ s.readers \in SUBSET RgChains /\ s.auto \in BOOLEAN /\ s.failing \in SUBSET RgChains
           /\ s.expiries \in [RgChains -> -1 .. WarnBelow] /\ s.registered \in SUBSET RgChains
           /\ s.warnings \in [RgChains -> Nat] /\ s.renewals \in [RgChains -> Nat]
           /\ s.recoveries \in [RgChains -> Nat] /\ s.checks \in [RgChains -> Nat]
           /\ s.expiring \in [RgChains -> Nat]
           /\ \A c \in RgChains : s.found[c].expiry \in -1 .. WarnBelow
  BY DEF MonitorState, RegistrationHealth

\* One chain's loop moves on; the other chains are as they were.
LEMMA ChainMoves ==
    ASSUME NEW s, MonitorOK(s), NEW u, u \in MonitorState, NEW c \in RgChains,
           \A d \in RgChains : d # c => /\ u.expiring[d] = s.expiring[d] /\ u.warnings[d] = s.warnings[d]
                                        /\ u.pc[d] = s.pc[d] /\ u.found[d] = s.found[d],
           u.expiring[c] + (IF u.pc[c] \in {"renew", "store"} /\ u.found[c].expiry \in 0 .. WarnBelow - 1 THEN 1 ELSE 0)
               <= u.warnings[c]
    PROVE  MonitorOK(u)  BY DEF MonitorOK, Warned

LEMMA MonitorInitial == ASSUME RgInit PROVE MonitorOK(regmon)
<1>1. NoHealth \in RegistrationHealth  BY RgAssumption DEF NoHealth, RegistrationHealth
<1>2. [c \in RgChains |-> NoHealth] \in [RgChains -> RegistrationHealth]  BY <1>1
<1>3. -1 \in -1 .. WarnBelow  BY RgAssumption
<1>4. regmon \in MonitorState  BY <1>2, <1>3 DEF RgInit, MonitorState
<1>5. Warned(regmon)  BY DEF RgInit, Warned
<1> QED BY <1>4, <1>5 DEF MonitorOK

LEMMA CheckHealthKeeps == ASSUME MonitorOK(regmon), NEW c \in RgChains, CheckHealth(c) PROVE MonitorOK(regmon')
<1> DEFINE h == [known |-> TRUE, healthy |-> c \in regmon.registered \ regmon.failing,
                 rpcFailure |-> c \in regmon.failing, expiry |-> regmon.expiries[c]]
           n == regmon.checks[c] + 1
<1>1. regmon \in MonitorState  BY DEF MonitorOK
<1>2. h \in RegistrationHealth  BY <1>1, MonitorFields DEF RegistrationHealth
<1>3. n \in Nat  BY <1>1, MonitorFields
<1>4. regmon' = [regmon EXCEPT !.found[c] = h, !.checks[c] = @ + 1, !.pc[c] = "compare"] /\ regmon.pc[c] = "tick"
  BY Zenon DEF CheckHealth, MonitorAt, MonitorStep
<1> HIDE DEF h
<1>5. regmon' = [regmon EXCEPT !.found = [regmon.found EXCEPT ![c] = h], !.checks = [regmon.checks EXCEPT ![c] = n],
                               !.pc = [regmon.pc EXCEPT ![c] = "compare"]]  BY <1>1, <1>4 DEF MonitorState
<1> HIDE DEF n
<1>6. regmon' \in MonitorState  BY <1>1, <1>2, <1>3, <1>5 DEF MonitorState
<1>7. /\ regmon'.expiring = regmon.expiring /\ regmon'.warnings = regmon.warnings
      /\ regmon'.pc = [regmon.pc EXCEPT ![c] = "compare"] /\ regmon'.found = [regmon.found EXCEPT ![c] = h]
  BY <1>1, <1>5 DEF MonitorState
<1>8. regmon.expiring[c] \in Nat /\ regmon.warnings[c] \in Nat  BY <1>1, MonitorFields
<1>9. regmon.expiring[c] + 0 <= regmon.warnings[c]  BY <1>4, <1>8 DEF MonitorOK, Warned
<1>10. regmon'.pc[c] = "compare" /\ \A d \in RgChains : d # c => regmon'.pc[d] = regmon.pc[d] /\ regmon'.found[d] = regmon.found[d]
  BY <1>1, <1>7, MonitorFields
<1> HIDE DEF CheckHealth
<1>11. regmon'.expiring[c] + (IF regmon'.pc[c] \in {"renew", "store"} /\ regmon'.found[c].expiry \in 0 .. WarnBelow - 1 THEN 1 ELSE 0)
          <= regmon'.warnings[c]  BY <1>7, <1>9, <1>10
<1> QED BY ONLY MonitorOK(regmon), c \in RgChains, <1>6, <1>7, <1>10, <1>11, ChainMoves

\* A step that leaves the counters, the loops and what they found alone.
LEMMA MonitorQuiet ==
    ASSUME NEW s, MonitorOK(s), NEW u, u \in MonitorState, u.expiring = s.expiring, u.warnings = s.warnings,
           u.pc = s.pc, u.found = s.found
    PROVE  MonitorOK(u)  BY DEF MonitorOK, Warned

LEMMA StartMonitorKeeps ==
    ASSUME MonitorOK(regmon), NEW c \in RgChains, StartChainMonitor(c) PROVE MonitorOK(regmon')
<1> DEFINE h == regmon.handle \cup {c}
           k == [regmon.pc EXCEPT ![c] = "tick"]
<1>1. regmon \in MonitorState  BY DEF MonitorOK
<1>2. regmon' = [regmon EXCEPT !.handle = @ \cup {c}, !.pc[c] = "tick"]  BY Zenon DEF StartChainMonitor, MonitorStep
<1>3. regmon' = [regmon EXCEPT !.handle = h, !.pc = k]  BY <1>1, <1>2 DEF MonitorState
<1>4. h \in SUBSET RgChains /\ k \in [RgChains -> {"tick", "compare", "warn", "renew", "store"}]
      /\ k[c] = "tick" /\ \A d \in RgChains : d # c => k[d] = regmon.pc[d]
  BY <1>1, MonitorFields
<1> HIDE DEF h, k
<1>5. regmon' \in MonitorState  BY <1>1, <1>3, <1>4 DEF MonitorState
<1>6. /\ regmon'.expiring = regmon.expiring /\ regmon'.warnings = regmon.warnings
      /\ regmon'.pc = k /\ regmon'.found = regmon.found
  BY <1>1, <1>3 DEF MonitorState
<1>7. regmon.expiring[c] \in Nat /\ regmon.warnings[c] \in Nat  BY <1>1, MonitorFields
<1>8. regmon.expiring[c] <= regmon.warnings[c]  BY <1>7 DEF MonitorOK, Warned
<1>9. regmon'.expiring[c] + (IF regmon'.pc[c] \in {"renew", "store"} /\ regmon'.found[c].expiry \in 0 .. WarnBelow - 1 THEN 1 ELSE 0)
          <= regmon'.warnings[c]  BY <1>4, <1>6, <1>7, <1>8
<1> QED BY ONLY MonitorOK(regmon), c \in RgChains, <1>4, <1>5, <1>6, <1>9, ChainMoves

LEMMA CompareKeeps ==
    ASSUME MonitorOK(regmon), NEW c \in RgChains, CompareHealth(c) PROVE MonitorOK(regmon')
<1> DEFINE e == regmon.found[c].expiry
<1>1. regmon \in MonitorState  BY DEF MonitorOK
<1>2. PICK n \in {0, 1}, m \in {0, 1} :
        regmon' = [regmon EXCEPT !.recoveries[c] = @ + n + m,
                                 !.readers = IF e # -1 THEN @ \cup {c} ELSE @,
                                 !.pc[c] = IF e # -1 THEN "warn" ELSE "store"]  BY Zenon DEF CompareHealth, MonitorStep
<1>3. regmon.pc[c] = "compare" /\ e \in -1 .. WarnBelow /\ regmon.recoveries[c] \in Nat
  BY <1>1, MonitorFields, Zenon DEF CompareHealth, MonitorAt
<1> DEFINE q == regmon.recoveries[c] + n + m
           v == [regmon.recoveries EXCEPT ![c] = q]
           r == IF e # -1 THEN regmon.readers \cup {c} ELSE regmon.readers
           w == IF e # -1 THEN "warn" ELSE "store"
           k == [regmon.pc EXCEPT ![c] = w]
<1>4. q \in Nat /\ r \in SUBSET RgChains  BY <1>1, <1>3, MonitorFields
<1>5. v \in [RgChains -> Nat] /\ k \in [RgChains -> {"tick", "compare", "warn", "renew", "store"}]
      /\ k[c] = w /\ \A d \in RgChains : d # c => k[d] = regmon.pc[d]
  BY <1>1, <1>4, MonitorFields
<1>6. regmon' = [regmon EXCEPT !.recoveries = v, !.readers = r, !.pc = k]  BY <1>1, <1>2 DEF MonitorState
<1>7. e = -1 => w = "store"  OBVIOUS
<1>8. e # -1 => w = "warn"  OBVIOUS
<1> HIDE DEF e, q, v, r, w, k
<1>9. regmon' \in MonitorState  BY <1>1, <1>4, <1>5, <1>6 DEF MonitorState
<1>10. /\ regmon'.expiring = regmon.expiring /\ regmon'.warnings = regmon.warnings
       /\ regmon'.pc = k /\ regmon'.found = regmon.found
  BY <1>1, <1>6 DEF MonitorState
<1>11. regmon.expiring[c] \in Nat /\ regmon.warnings[c] \in Nat  BY <1>1, MonitorFields
<1>12. regmon.expiring[c] <= regmon.warnings[c]  BY <1>11 DEF MonitorOK, Warned
<1>13. ~(regmon'.pc[c] \in {"renew", "store"} /\ regmon'.found[c].expiry \in 0 .. WarnBelow - 1)
  BY <1>3, <1>5, <1>7, <1>8, <1>10 DEF e
<1>14. regmon'.expiring[c] + (IF regmon'.pc[c] \in {"renew", "store"} /\ regmon'.found[c].expiry \in 0 .. WarnBelow - 1 THEN 1 ELSE 0)
          <= regmon'.warnings[c]  BY ONLY <1>10, <1>11, <1>12, <1>13
<1> QED BY ONLY MonitorOK(regmon), c \in RgChains, <1>5, <1>9, <1>10, <1>14, ChainMoves

\* The warning is counted before the health can be stored.
LEMMA WarnKeeps ==
    ASSUME MonitorOK(regmon), NEW c \in RgChains, WarnExpiry(c) PROVE MonitorOK(regmon')
<1> DEFINE e == regmon.found[c].expiry
           n == IF e < WarnBelow THEN regmon.warnings[c] + 1 ELSE regmon.warnings[c]
           v == [regmon.warnings EXCEPT ![c] = n]
           k == [regmon.pc EXCEPT ![c] = "renew"]
<1>1. regmon \in MonitorState  BY DEF MonitorOK
<1>2. regmon' = [regmon EXCEPT !.warnings[c] = IF regmon.found[c].expiry < WarnBelow THEN @ + 1 ELSE @,
                               !.pc[c] = "renew"]  BY Zenon DEF WarnExpiry, MonitorStep
<1>3. e \in -1 .. WarnBelow /\ regmon.warnings[c] \in Nat /\ regmon.expiring[c] \in Nat /\ WarnBelow \in Nat
  BY <1>1, MonitorFields, RgAssumption
<1>4. n \in Nat /\ n >= regmon.warnings[c] /\ (e \in 0 .. WarnBelow - 1 => n = regmon.warnings[c] + 1)  BY <1>3
<1>5. v \in [RgChains -> Nat] /\ k \in [RgChains -> {"tick", "compare", "warn", "renew", "store"}]
      /\ v[c] = n /\ \A d \in RgChains : d # c => k[d] = regmon.pc[d] /\ v[d] = regmon.warnings[d]
  BY <1>1, <1>4, MonitorFields
<1>6. regmon' = [regmon EXCEPT !.warnings = v, !.pc = k]  BY <1>1, <1>2 DEF MonitorState
<1> HIDE DEF n, v, k
<1>7. regmon' \in MonitorState  BY <1>1, <1>5, <1>6 DEF MonitorState
<1>8. /\ regmon'.expiring = regmon.expiring /\ regmon'.warnings = v
      /\ regmon'.pc = k /\ regmon'.found = regmon.found
  BY <1>1, <1>6 DEF MonitorState
<1>9. regmon.expiring[c] <= regmon.warnings[c]  BY <1>3 DEF MonitorOK, Warned
<1>10. regmon'.expiring[c] + (IF regmon'.pc[c] \in {"renew", "store"} /\ regmon'.found[c].expiry \in 0 .. WarnBelow - 1 THEN 1 ELSE 0)
          <= regmon'.warnings[c]  BY <1>3, <1>4, <1>5, <1>8, <1>9
<1> QED BY ONLY MonitorOK(regmon), c \in RgChains, <1>5, <1>7, <1>8, <1>10, ChainMoves

LEMMA RenewKeeps ==
    ASSUME MonitorOK(regmon), NEW c \in RgChains, RenewRegistration(c) PROVE MonitorOK(regmon')
<1>1. regmon \in MonitorState  BY DEF MonitorOK
<1>2. PICK done \in {0, 1} :
        regmon' = [regmon EXCEPT !.renewals[c] = @ + done, !.readers = @ \ {c}, !.pc[c] = "store"]
  BY Zenon DEF RenewRegistration, MonitorStep
<1>3. regmon.pc[c] = "renew"  BY Zenon DEF RenewRegistration, MonitorAt
<1> DEFINE n == regmon.renewals[c] + done
           v == [regmon.renewals EXCEPT ![c] = n]
           r == regmon.readers \ {c}
           k == [regmon.pc EXCEPT ![c] = "store"]
<1>4. n \in Nat /\ r \in SUBSET RgChains  BY <1>1, MonitorFields
<1>5. v \in [RgChains -> Nat] /\ k \in [RgChains -> {"tick", "compare", "warn", "renew", "store"}]
      /\ k[c] = "store" /\ \A d \in RgChains : d # c => k[d] = regmon.pc[d]
  BY <1>1, <1>4, MonitorFields
<1>6. regmon' = [regmon EXCEPT !.renewals = v, !.readers = r, !.pc = k]  BY <1>1, <1>2 DEF MonitorState
<1> HIDE DEF n, v, r, k
<1>7. regmon' \in MonitorState  BY <1>1, <1>4, <1>5, <1>6 DEF MonitorState
<1>8. /\ regmon'.expiring = regmon.expiring /\ regmon'.warnings = regmon.warnings
      /\ regmon'.pc = k /\ regmon'.found = regmon.found
  BY <1>1, <1>6 DEF MonitorState
<1>9. regmon'.expiring[c] + (IF regmon'.pc[c] \in {"renew", "store"} /\ regmon'.found[c].expiry \in 0 .. WarnBelow - 1 THEN 1 ELSE 0)
          <= regmon'.warnings[c]  BY <1>3, <1>5, <1>8 DEF MonitorOK, Warned
<1> QED BY ONLY MonitorOK(regmon), c \in RgChains, <1>5, <1>7, <1>8, <1>9, ChainMoves

LEMMA StoreKeeps ==
    ASSUME MonitorOK(regmon), NEW c \in RgChains, StoreHealth(c) PROVE MonitorOK(regmon')
<1> DEFINE e == regmon.found[c].expiry
           n == IF e \in 0 .. WarnBelow - 1 THEN regmon.expiring[c] + 1 ELSE regmon.expiring[c]
           v == [regmon.expiring EXCEPT ![c] = n]
           h == [regmon.health EXCEPT ![c] = regmon.found[c]]
           k == [regmon.pc EXCEPT ![c] = "tick"]
<1>1. regmon \in MonitorState  BY DEF MonitorOK
<1>2. regmon' = [regmon EXCEPT !.health[c] = regmon.found[c], !.pc[c] = "tick",
                     !.expiring[c] = IF regmon.found[c].expiry \in 0 .. WarnBelow - 1 THEN @ + 1 ELSE @]
  BY Zenon DEF StoreHealth, MonitorStep
<1>3. regmon.pc[c] = "store" /\ regmon.warnings[c] \in Nat /\ regmon.expiring[c] \in Nat
  BY <1>1, MonitorFields, Zenon DEF StoreHealth, MonitorAt
<1>4. n \in Nat /\ n = regmon.expiring[c] + (IF e \in 0 .. WarnBelow - 1 THEN 1 ELSE 0)  BY <1>3
<1>5. n <= regmon.warnings[c]  BY <1>3, <1>4 DEF MonitorOK, Warned
<1>6. v \in [RgChains -> Nat] /\ k \in [RgChains -> {"tick", "compare", "warn", "renew", "store"}]
      /\ h \in [RgChains -> RegistrationHealth] /\ k[c] = "tick" /\ v[c] = n
      /\ \A d \in RgChains : d # c => k[d] = regmon.pc[d] /\ v[d] = regmon.expiring[d]
  BY <1>1, <1>4, MonitorFields
<1>7. regmon' = [regmon EXCEPT !.health = h, !.pc = k, !.expiring = v]  BY <1>1, <1>2 DEF MonitorState
<1> HIDE DEF e, n, v, h, k
<1>8. regmon' \in MonitorState  BY <1>1, <1>6, <1>7 DEF MonitorState
<1>9. /\ regmon'.expiring = v /\ regmon'.warnings = regmon.warnings
      /\ regmon'.pc = k /\ regmon'.found = regmon.found
  BY <1>1, <1>7 DEF MonitorState
<1>10. regmon'.expiring[c] + (IF regmon'.pc[c] \in {"renew", "store"} /\ regmon'.found[c].expiry \in 0 .. WarnBelow - 1 THEN 1 ELSE 0)
          <= regmon'.warnings[c]  BY <1>4, <1>5, <1>6, <1>9
<1> QED BY ONLY MonitorOK(regmon), c \in RgChains, <1>6, <1>8, <1>9, <1>10, ChainMoves

\* Stopping, the configuration, the mocked expiries and what happens on the chain.
LEMMA QuietMonitorSteps ==
    ASSUME MonitorOK(regmon),
           \/ StopRegMonitoring \/ EnableAutoRenewal
           \/ \E c \in RgChains : \/ ExpiryNears(c) \/ SimulateRpcFailure(c) \/ BecomesRegistered(c)
                                  \/ \E e \in 0 .. WarnBelow : MockExpiring(c, e)
    PROVE  MonitorOK(regmon')
<1>1. regmon \in MonitorState  BY DEF MonitorOK
<1>2. CASE StopRegMonitoring
  <2>1. regmon' = [regmon EXCEPT !.handle = {}, !.readers = {}]  BY <1>2 DEF StopRegMonitoring, MonitorStep
  <2>2. regmon' \in MonitorState /\ regmon'.expiring = regmon.expiring /\ regmon'.warnings = regmon.warnings
        /\ regmon'.pc = regmon.pc /\ regmon'.found = regmon.found
    BY <1>1, <2>1 DEF MonitorState
  <2> QED BY ONLY MonitorOK(regmon), <2>2, MonitorQuiet
<1>3. CASE EnableAutoRenewal
  <2>1. regmon' = [regmon EXCEPT !.auto = TRUE]  BY <1>3 DEF EnableAutoRenewal, MonitorStep
  <2>2. regmon' \in MonitorState /\ regmon'.expiring = regmon.expiring /\ regmon'.warnings = regmon.warnings
        /\ regmon'.pc = regmon.pc /\ regmon'.found = regmon.found
    BY <1>1, <2>1 DEF MonitorState
  <2> QED BY ONLY MonitorOK(regmon), <2>2, MonitorQuiet
<1>4. ASSUME NEW c \in RgChains, NEW n \in -1 .. WarnBelow, regmon' = [regmon EXCEPT !.expiries[c] = n]
      PROVE  MonitorOK(regmon')
  <2> DEFINE v == [regmon.expiries EXCEPT ![c] = n]
  <2>1. v \in [RgChains -> -1 .. WarnBelow]  BY <1>1, MonitorFields
  <2>2. regmon' = [regmon EXCEPT !.expiries = v]  BY <1>1, <1>4 DEF MonitorState
  <2> HIDE DEF v
  <2>3. regmon' \in MonitorState /\ regmon'.expiring = regmon.expiring /\ regmon'.warnings = regmon.warnings
        /\ regmon'.pc = regmon.pc /\ regmon'.found = regmon.found
    BY <1>1, <2>1, <2>2 DEF MonitorState
  <2> QED BY ONLY MonitorOK(regmon), <2>3, MonitorQuiet
<1>5. ASSUME NEW c \in RgChains, ExpiryNears(c) PROVE MonitorOK(regmon')
  <2>1. regmon' = [regmon EXCEPT !.expiries[c] = @ - 1] /\ regmon.expiries[c] > 0  BY <1>5 DEF ExpiryNears, MonitorStep
  <2>2. regmon.expiries[c] \in -1 .. WarnBelow /\ WarnBelow \in Nat  BY <1>1, MonitorFields, RgAssumption
  <2>3. regmon.expiries[c] - 1 \in -1 .. WarnBelow  BY <2>1, <2>2
  <2>4. regmon' = [regmon EXCEPT !.expiries[c] = regmon.expiries[c] - 1]  BY <1>1, <2>1 DEF MonitorState
  <2> QED BY <1>4, <2>3, <2>4
<1>6. ASSUME NEW c \in RgChains, NEW e \in 0 .. WarnBelow, MockExpiring(c, e) PROVE MonitorOK(regmon')
  BY <1>4, <1>6, RgAssumption DEF MockExpiring, MonitorStep
<1>7. ASSUME NEW c \in RgChains, SimulateRpcFailure(c) PROVE MonitorOK(regmon')
  <2> DEFINE f == IF c \in regmon.failing THEN regmon.failing \ {c} ELSE regmon.failing \cup {c}
  <2>1. regmon' = [regmon EXCEPT !.failing = f]  BY <1>1, <1>7 DEF SimulateRpcFailure, MonitorStep, MonitorState
  <2>2. f \in SUBSET RgChains  BY <1>1, MonitorFields
  <2> HIDE DEF f
  <2>3. regmon' \in MonitorState /\ regmon'.expiring = regmon.expiring /\ regmon'.warnings = regmon.warnings
        /\ regmon'.pc = regmon.pc /\ regmon'.found = regmon.found
    BY <1>1, <2>1, <2>2 DEF MonitorState
  <2> QED BY ONLY MonitorOK(regmon), <2>3, MonitorQuiet
<1>8. ASSUME NEW c \in RgChains, BecomesRegistered(c) PROVE MonitorOK(regmon')
  <2> DEFINE f == regmon.registered \cup {c}
  <2>1. regmon' = [regmon EXCEPT !.registered = f]  BY <1>1, <1>8 DEF BecomesRegistered, MonitorStep, MonitorState
  <2>2. f \in SUBSET RgChains  BY <1>1, MonitorFields
  <2> HIDE DEF f
  <2>3. regmon' \in MonitorState /\ regmon'.expiring = regmon.expiring /\ regmon'.warnings = regmon.warnings
        /\ regmon'.pc = regmon.pc /\ regmon'.found = regmon.found
    BY <1>1, <2>1, <2>2 DEF MonitorState
  <2> QED BY ONLY MonitorOK(regmon), <2>3, MonitorQuiet
<1> QED BY <1>2, <1>3, <1>5, <1>6, <1>7, <1>8

LEMMA MonitorSteps == ASSUME MonitorOK(regmon), MonitorNext PROVE MonitorOK(regmon')
  BY StartMonitorKeeps, CheckHealthKeeps, CompareKeeps, WarnKeeps, RenewKeeps, StoreKeeps, QuietMonitorSteps,
     Zenon DEF MonitorNext

LEMMA MonitorSafe == ASSUME MonitorOK(regmon) PROVE ExpiryIsWarned
<1> SUFFICES ASSUME NEW c \in RgChains PROVE regmon.expiring[c] <= regmon.warnings[c]  BY DEF ExpiryIsWarned
<1>1. regmon.expiring[c] \in Nat /\ regmon.warnings[c] \in Nat  BY MonitorFields DEF MonitorOK
<1> QED BY <1>1 DEF MonitorOK, Warned

-----------------------------------------------------------------------------
(* The registry's cache: whatever the order in which a range's events are  *)
(* handled, a listed node was registered at the cursor or later.           *)

RegistryEvent == [kind : {"registered", "updated", "unregistered"}, node : RgNodes]

\* x is registered after the first n events of the log.
InRegistry(log, n, x) ==
    \E i \in 1 .. n : /\ log[i] = [kind |-> "registered", node |-> x]
                      /\ \A j \in i + 1 .. n : log[j] # [kind |-> "unregistered", node |-> x]

RegistryRange(s) ==
    /\ s.cursor <= Len(s.log) /\ s.to <= Len(s.log)
    /\ s.pc \in {"registered", "updated", "unregistered"} => s.cursor <= s.to
    /\ s.replay # "off" => s.first >= 1 /\ s.last <= Len(s.log)

\* The nodes that the loop listed.
Own(s) == s.cache \ s.replayed

ListedSince(s) == ~s.missed => \A x \in Own(s) : \E n \in s.cursor .. Len(s.log) : InRegistry(s.log, n, x)

RegistryOK(s) == s \in RegistryState /\ RegistryRange(s) /\ ListedSince(s)

LEMMA RegistryFields ==
    ASSUME NEW s, s \in RegistryState
    PROVE  /\ s.log \in Seq(RegistryEvent) /\ Len(s.log) \in Nat /\ s.cursor \in Nat /\ s.to \in Nat
           /\ s.cache \in SUBSET RgNodes /\ s.pc \in {"off", "sleep", "registered", "updated", "unregistered"}
           /\ s.missed \in BOOLEAN /\ s.first \in Nat /\ s.last \in Nat /\ s.replayed \in SUBSET RgNodes
           /\ \A i \in 1 .. Len(s.log) : s.log[i] \in RegistryEvent
<1>1. s.log \in Seq(RegistryEvent)  BY DEF RegistryState, RegistryEvent
<1> QED BY <1>1 DEF RegistryState

\* The nodes of some events of the log.
LEMMA NodesAre ==
    ASSUME RegistryOK(regcache), NEW kind, NEW i \in Nat \ {0}, NEW k \in Nat, k <= Len(regcache.log)
    PROVE  /\ NodesIn(kind, i, k) \in SUBSET RgNodes
           /\ \A x : x \in NodesIn(kind, i, k) <=> \E j \in i .. k : regcache.log[j] = [kind |-> kind, node |-> x]
<1>1. \A j \in i .. k : regcache.log[j] \in RegistryEvent
  <2>1. \A j \in i .. k : j \in 1 .. Len(regcache.log)  BY RegistryFields DEF RegistryOK
  <2> QED BY <2>1, RegistryFields DEF RegistryOK
<1>2. ASSUME NEW x
      PROVE  x \in NodesIn(kind, i, k) <=> \E j \in i .. k : regcache.log[j].kind = kind /\ regcache.log[j].node = x
  BY DEF NodesIn
<1>3. \A e \in RegistryEvent : e.node \in RgNodes /\ \A x : e = [kind |-> kind, node |-> x] <=> e.kind = kind /\ e.node = x
  BY DEF RegistryEvent
<1>4. ASSUME NEW x
      PROVE  x \in NodesIn(kind, i, k) <=> \E j \in i .. k : regcache.log[j] = [kind |-> kind, node |-> x]
  BY <1>1, <1>2, <1>3
<1>5. NodesIn(kind, i, k) \in SUBSET RgNodes  BY <1>1, <1>2, <1>3
<1> QED BY <1>4, <1>5

\* The range stays, and the loop lists no other node.
LEMMA OwnShrinks ==
    ASSUME RegistryOK(regcache), regcache' \in RegistryState, RegistryRange(regcache'), regcache'.log = regcache.log,
           regcache'.cursor = regcache.cursor, regcache'.missed = regcache.missed, Own(regcache') \subseteq Own(regcache)
    PROVE  RegistryOK(regcache')  BY DEF RegistryOK, ListedSince

LEMMA RegisteredAtIs == ASSUME NEW n PROVE RegisteredAt(n) = {x \in RgNodes : InRegistry(regcache.log, n, x)}
  BY DEF RegisteredAt, InRegistry

\* A node that did not leave before m is still in the registry then.
LEMMA StaysRegistered ==
    ASSUME NEW log, NEW n \in Nat, NEW m \in Nat, NEW c \in Nat, c <= n, n <= m, NEW x, InRegistry(log, n, x),
           \A j \in c + 1 .. m : log[j] # [kind |-> "unregistered", node |-> x]
    PROVE  InRegistry(log, m, x)
<1>1. PICK i \in 1 .. n : /\ log[i] = [kind |-> "registered", node |-> x]
                          /\ \A j \in i + 1 .. n : log[j] # [kind |-> "unregistered", node |-> x]
  BY DEF InRegistry
<1>2. i \in 1 .. m  OBVIOUS
<1>3. ASSUME NEW j \in i + 1 .. m PROVE log[j] # [kind |-> "unregistered", node |-> x]
  <2>1. j \in i + 1 .. n \/ j \in c + 1 .. m  OBVIOUS
  <2> QED BY <1>1, <2>1
<1> QED BY <1>1, <1>2, <1>3 DEF InRegistry

\* A node's registration puts it in the registry of that block.
LEMMA RegisteredThen ==
    ASSUME NEW log, NEW i \in Nat \ {0}, NEW x, log[i] = [kind |-> "registered", node |-> x]
    PROVE  InRegistry(log, i, x)
<1>1. i \in 1 .. i /\ \A j \in i + 1 .. i : FALSE  OBVIOUS
<1> QED BY <1>1 DEF InRegistry

\* The log grows; what was in the registry of a block stays in it.
LEMMA LogGrows ==
    ASSUME NEW log \in Seq(RegistryEvent), NEW e \in RegistryEvent, NEW n \in 0 .. Len(log), NEW x,
           InRegistry(log, n, x)
    PROVE  InRegistry(Append(log, e), n, x)
<1>1. \A i \in 1 .. Len(log) : Append(log, e)[i] = log[i]  OBVIOUS
<1>2. PICK i \in 1 .. n : /\ log[i] = [kind |-> "registered", node |-> x]
                          /\ \A j \in i + 1 .. n : log[j] # [kind |-> "unregistered", node |-> x]
  BY DEF InRegistry
<1>3. i \in 1 .. Len(log) /\ \A j \in i + 1 .. n : j \in 1 .. Len(log)  BY <1>2
<1>4. Append(log, e)[i] = [kind |-> "registered", node |-> x]  BY <1>1, <1>2, <1>3
<1>5. \A j \in i + 1 .. n : Append(log, e)[j] # [kind |-> "unregistered", node |-> x]  BY <1>1, <1>2, <1>3
<1> QED BY <1>4, <1>5, <1>2 DEF InRegistry

LEMMA RegistryInitial == ASSUME RgInit PROVE RegistryOK(regcache)
<1>1. <<>> \in Seq([kind : {"registered", "updated", "unregistered"}, node : RgNodes]) /\ Len(<<>>) = 0  OBVIOUS
<1> QED BY <1>1 DEF RgInit, RegistryOK, RegistryState, RegistryRange, ListedSince, Own

\* The log of the contract and the cursor of the loop.
LEMMA LogsKeep ==
    ASSUME RegistryOK(regcache), NEW kind \in {"registered", "updated", "unregistered"}, NEW x \in RgNodes,
           RegistryLogs(kind, x)
    PROVE  RegistryOK(regcache')
<1> DEFINE e == [kind |-> kind, node |-> x]
           log == Append(regcache.log, e)
<1>1. regcache \in RegistryState /\ RegistryRange(regcache) /\ ListedSince(regcache)  BY DEF RegistryOK
<1>2. regcache' = [regcache EXCEPT !.log = log]  BY <1>1 DEF RegistryLogs, RegistryStep, RegistryState
<1>3. e \in RegistryEvent /\ regcache.log \in Seq(RegistryEvent)  BY <1>1, RegistryFields DEF RegistryEvent
<1>4. log \in Seq(RegistryEvent) /\ Len(log) = Len(regcache.log) + 1 /\ Len(regcache.log) \in Nat  BY <1>3
<1>5. \A y : \A n \in 0 .. Len(regcache.log) : InRegistry(regcache.log, n, y) => InRegistry(log, n, y)
  BY <1>3, LogGrows
<1> HIDE DEF e, log
<1>6. log \in Seq([kind : {"registered", "updated", "unregistered"}, node : RgNodes])  BY <1>4 DEF RegistryEvent
<1>7. regcache' \in RegistryState  BY <1>1, <1>2, <1>6 DEF RegistryState
<1>8. /\ regcache'.log = log /\ regcache'.cursor = regcache.cursor /\ regcache'.to = regcache.to
      /\ regcache'.pc = regcache.pc /\ regcache'.missed = regcache.missed /\ regcache'.replay = regcache.replay
      /\ regcache'.first = regcache.first /\ regcache'.last = regcache.last /\ Own(regcache') = Own(regcache)
  BY <1>1, <1>2 DEF RegistryState, Own
<1>9. regcache.cursor \in Nat /\ regcache.to \in Nat /\ regcache.last \in Nat  BY <1>1, RegistryFields
<1>10. RegistryRange(regcache')  BY <1>1, <1>4, <1>8, <1>9 DEF RegistryRange
<1>11. ASSUME ~regcache'.missed, NEW y \in Own(regcache')
       PROVE  \E n \in regcache'.cursor .. Len(regcache'.log) : InRegistry(regcache'.log, n, y)
  <2>1. PICK n \in regcache.cursor .. Len(regcache.log) : InRegistry(regcache.log, n, y)
    BY <1>1, <1>8, <1>11 DEF ListedSince
  <2>2. n \in 0 .. Len(regcache.log) /\ n \in regcache'.cursor .. Len(regcache'.log)  BY <1>4, <1>8, <1>9
  <2> QED BY <1>5, <1>8, <2>1, <2>2
<1> QED BY <1>7, <1>10, <1>11 DEF RegistryOK, ListedSince

\* Starting, stopping and polling only move the cursor back or take a range.
LEMMA StartKeeps == ASSUME RegistryOK(regcache), NEW m \in Nat, StartRegistryMonitor(m) PROVE RegistryOK(regcache')
<1>1. regcache \in RegistryState /\ RegistryRange(regcache) /\ ListedSince(regcache)  BY DEF RegistryOK
<1>2. regcache.cursor \in Nat /\ regcache.to \in Nat /\ Len(regcache.log) \in Nat /\ regcache.missed \in BOOLEAN
  BY <1>1, RegistryFields
<1> DEFINE b == regcache.missed \/ m > regcache.cursor
<1>3. /\ regcache' = [regcache EXCEPT !.pc = "sleep", !.cursor = m, !.missed = @ \/ m > regcache.cursor]
      /\ m <= Len(regcache.log) /\ regcache.replay = "off"
  BY DEF StartRegistryMonitor, RegistryStep
<1>4. regcache' = [regcache EXCEPT !.pc = "sleep", !.cursor = m, !.missed = b] /\ b \in BOOLEAN
  BY <1>1, <1>2, <1>3 DEF RegistryState
<1>5. ~b => ~regcache.missed /\ m <= regcache.cursor  BY <1>2
<1> HIDE DEF b
<1>6. /\ regcache' \in RegistryState /\ regcache'.log = regcache.log /\ regcache'.cursor = m
      /\ regcache'.to = regcache.to /\ regcache'.pc = "sleep" /\ regcache'.missed = b
      /\ regcache'.replay = "off" /\ Own(regcache') = Own(regcache)
  BY <1>1, <1>3, <1>4 DEF RegistryState, Own
<1>7. m <= regcache.cursor => \A n \in regcache.cursor .. Len(regcache.log) : n \in m .. Len(regcache.log)  BY <1>2
<1>8. ListedSince(regcache')  BY <1>1, <1>5, <1>6, <1>7 DEF ListedSince
<1>9. RegistryRange(regcache')  BY <1>1, <1>3, <1>6 DEF RegistryRange
<1> QED BY <1>6, <1>8, <1>9 DEF RegistryOK

LEMMA LoopKeeps ==
    ASSUME RegistryOK(regcache), StopRegistryMonitor \/ PollRegistry \/ HandleUpdated \/ ReplayUpdated \/ ReplayFails
    PROVE  RegistryOK(regcache')
<1>1. regcache \in RegistryState /\ RegistryRange(regcache)  BY DEF RegistryOK
<1>2. regcache.cursor \in Nat /\ regcache.to \in Nat /\ Len(regcache.log) \in Nat  BY <1>1, RegistryFields
<1>3. \/ regcache' = [regcache EXCEPT !.pc = "off"]
      \/ regcache' = [regcache EXCEPT !.to = Len(regcache.log), !.pc = "registered"]
      \/ regcache' = [regcache EXCEPT !.pc = "unregistered"] /\ regcache.pc = "updated"
      \/ regcache' = [regcache EXCEPT !.replay = "unregistered"] /\ regcache.replay = "updated"
      \/ regcache' = [regcache EXCEPT !.replay = "off", !.first = 0, !.last = 0]
  BY Zenon DEF StopRegistryMonitor, PollRegistry, HandleUpdated, ReplayUpdated, ReplayFails, RegistryStep
<1> DEFINE Good == /\ regcache' \in RegistryState /\ regcache'.log = regcache.log /\ regcache'.cursor = regcache.cursor
                   /\ regcache'.missed = regcache.missed /\ regcache'.cache = regcache.cache
                   /\ regcache'.replayed = regcache.replayed /\ RegistryRange(regcache')
<1>4. ASSUME regcache' = [regcache EXCEPT !.pc = "off"] PROVE Good  BY <1>1, <1>2, <1>4 DEF RegistryState, RegistryRange
<1>5. ASSUME regcache' = [regcache EXCEPT !.to = Len(regcache.log), !.pc = "registered"] PROVE Good
  <2> DEFINE h == Len(regcache.log)
  <2>1. h \in Nat /\ regcache' = [regcache EXCEPT !.to = h, !.pc = "registered"] /\ regcache.cursor <= h
    BY <1>1, <1>2, <1>5 DEF RegistryRange
  <2>2. h = Len(regcache.log)  OBVIOUS
  <2> HIDE DEF h
  <2>3. /\ regcache' \in RegistryState /\ regcache'.log = regcache.log /\ regcache'.cursor = regcache.cursor
        /\ regcache'.missed = regcache.missed /\ regcache'.cache = regcache.cache
        /\ regcache'.replayed = regcache.replayed /\ regcache'.to = h /\ regcache'.replay = regcache.replay
        /\ regcache'.first = regcache.first /\ regcache'.last = regcache.last
    BY <1>1, <2>1 DEF RegistryState
  <2>4. RegistryRange(regcache')  BY <1>1, <2>1, <2>2, <2>3 DEF RegistryRange
  <2> QED BY <2>3, <2>4
<1>6. ASSUME regcache' = [regcache EXCEPT !.pc = "unregistered"] /\ regcache.pc = "updated" PROVE Good
  BY <1>1, <1>2, <1>6 DEF RegistryState, RegistryRange
<1>7. ASSUME regcache' = [regcache EXCEPT !.replay = "unregistered"] /\ regcache.replay = "updated" PROVE Good
  BY <1>1, <1>2, <1>7 DEF RegistryState, RegistryRange
<1>8. ASSUME regcache' = [regcache EXCEPT !.replay = "off", !.first = 0, !.last = 0] PROVE Good
  BY <1>1, <1>2, <1>8 DEF RegistryState, RegistryRange
<1>9. Good  BY <1>3, <1>4, <1>5, <1>6, <1>7, <1>8
<1> QED BY <1>9, OwnShrinks DEF Own

\* A node of a registered event of the range is in the registry of that block.
LEMMA HandleRegisteredKeeps == ASSUME RegistryOK(regcache), HandleRegistered PROVE RegistryOK(regcache')
<1>1. regcache \in RegistryState /\ RegistryRange(regcache) /\ ListedSince(regcache)  BY DEF RegistryOK
<1>2. regcache.cursor \in Nat /\ regcache.to \in Nat /\ Len(regcache.log) \in Nat /\ regcache.pc = "registered"
  BY <1>1, RegistryFields DEF HandleRegistered
<1>3. regcache.cursor <= regcache.to /\ regcache.to <= Len(regcache.log)  BY <1>1, <1>2 DEF RegistryRange
<1> DEFINE c == regcache.cache \cup LogNodes("registered")
<1>4. c \in SUBSET RgNodes /\ \A x \in c : \/ x \in regcache.cache
                                           \/ \E i \in regcache.cursor + 1 .. regcache.to :
                                                 regcache.log[i] = [kind |-> "registered", node |-> x]
  <2>1. regcache.cursor + 1 \in Nat \ {0} /\ regcache.cache \in SUBSET RgNodes  BY <1>1, <1>2, RegistryFields
  <2>2. /\ NodesIn("registered", regcache.cursor + 1, regcache.to) \in SUBSET RgNodes
        /\ \A x : x \in NodesIn("registered", regcache.cursor + 1, regcache.to) <=>
              \E i \in regcache.cursor + 1 .. regcache.to : regcache.log[i] = [kind |-> "registered", node |-> x]
    <3> DEFINE a == regcache.cursor + 1
    <3>1. a \in Nat \ {0} /\ regcache.to \in Nat /\ regcache.to <= Len(regcache.log)  BY <1>2, <1>3, <2>1
    <3> HIDE DEF a
    <3>2. /\ NodesIn("registered", a, regcache.to) \in SUBSET RgNodes
          /\ \A x : x \in NodesIn("registered", a, regcache.to) <=>
                \E i \in a .. regcache.to : regcache.log[i] = [kind |-> "registered", node |-> x]  BY <3>1, NodesAre
    <3> QED BY Zenon, <3>2 DEF a
  <2>3. /\ LogNodes("registered") \in SUBSET RgNodes
        /\ \A x \in LogNodes("registered") : \E i \in regcache.cursor + 1 .. regcache.to :
              regcache.log[i] = [kind |-> "registered", node |-> x]  BY <2>2 DEF LogNodes
  <2> QED BY <2>1, <2>3
<1>5. CASE regcache' = [regcache EXCEPT !.cache = c, !.pc = "updated"]
  <2> HIDE DEF c
  <2>1. regcache' \in RegistryState  BY <1>1, <1>4, <1>5 DEF RegistryState
  <2>2. /\ regcache'.log = regcache.log /\ regcache'.cursor = regcache.cursor /\ regcache'.to = regcache.to
        /\ Own(regcache') = c \ regcache.replayed /\ regcache'.missed = regcache.missed
        /\ regcache'.replay = regcache.replay /\ regcache'.first = regcache.first /\ regcache'.last = regcache.last
    BY <1>1, <1>5 DEF RegistryState, Own
  <2>3. ASSUME ~regcache.missed, NEW x \in c \ regcache.replayed
        PROVE  \E n \in regcache.cursor .. Len(regcache.log) : InRegistry(regcache.log, n, x)
    <3>1. CASE x \in regcache.cache  BY <1>1, <2>3, <3>1 DEF ListedSince, Own
    <3>2. CASE x \notin regcache.cache
      <4>1. PICK i \in regcache.cursor + 1 .. regcache.to : regcache.log[i] = [kind |-> "registered", node |-> x]
        BY <1>4, <2>3, <3>2
      <4>2. i \in Nat \ {0} /\ i \in regcache.cursor .. Len(regcache.log)  BY <1>2, <1>3
      <4> QED BY <4>1, <4>2, RegisteredThen
    <3> QED BY <3>1, <3>2
  <2> QED BY <1>1, <1>3, <2>1, <2>2, <2>3 DEF RegistryOK, RegistryRange, ListedSince
<1>6. CASE regcache' = [regcache EXCEPT !.missed = TRUE, !.pc = "updated"]
  <2>1. regcache' \in RegistryState  BY <1>1, <1>6 DEF RegistryState
  <2>2. /\ regcache'.log = regcache.log /\ regcache'.cursor = regcache.cursor /\ regcache'.to = regcache.to
        /\ regcache'.missed
        /\ regcache'.replay = regcache.replay /\ regcache'.first = regcache.first /\ regcache'.last = regcache.last
    BY <1>1, <1>6 DEF RegistryState
  <2> QED BY <1>1, <1>3, <2>1, <2>2 DEF RegistryOK, RegistryRange, ListedSince
<1>7. \/ regcache' = [regcache EXCEPT !.cache = @ \cup LogNodes("registered"), !.pc = "updated"]
      \/ regcache' = [regcache EXCEPT !.missed = TRUE, !.pc = "updated"]
  BY Zenon DEF HandleRegistered, RegistryStep
<1>8. \/ regcache' = [regcache EXCEPT !.cache = c, !.pc = "updated"]
      \/ regcache' = [regcache EXCEPT !.missed = TRUE, !.pc = "updated"]
  BY <1>1, <1>7 DEF RegistryState
<1> QED BY <1>5, <1>6, <1>8

\* A listed node that is not removed did not leave in the range: it is in the
\* registry of the range's end.
LEMMA HandleUnregisteredKeeps == ASSUME RegistryOK(regcache), HandleUnregistered PROVE RegistryOK(regcache')
<1>1. regcache \in RegistryState /\ RegistryRange(regcache) /\ ListedSince(regcache)  BY DEF RegistryOK
<1>2. regcache.cursor \in Nat /\ regcache.to \in Nat /\ Len(regcache.log) \in Nat /\ regcache.pc = "unregistered"
      /\ regcache.cache \in SUBSET RgNodes
  BY <1>1, RegistryFields DEF HandleUnregistered
<1>3. regcache.cursor <= regcache.to /\ regcache.to <= Len(regcache.log)  BY <1>1, <1>2 DEF RegistryRange
<1> DEFINE c == regcache.cache \ LogNodes("unregistered")
           d == regcache.replayed \ LogNodes("unregistered")
<1>4. c \in SUBSET RgNodes /\ d \in SUBSET RgNodes /\ c \ d \subseteq Own(regcache)
  BY <1>1, <1>2, RegistryFields DEF Own
<1>5. \A x \in c : \A j \in regcache.cursor + 1 .. regcache.to :
          regcache.log[j] # [kind |-> "unregistered", node |-> x]
  <2>1. regcache.cursor + 1 \in Nat \ {0}  BY <1>2
  <2> QED BY <1>2, <1>3, <2>1, NodesAre DEF LogNodes
<1>6. CASE regcache' = [regcache EXCEPT !.cache = c, !.cursor = regcache.to, !.replayed = d, !.pc = "sleep"]
  <2> HIDE DEF c, d
  <2>1. regcache' \in RegistryState  BY <1>1, <1>2, <1>4, <1>6 DEF RegistryState
  <2>2. /\ regcache'.log = regcache.log /\ regcache'.cursor = regcache.to /\ regcache'.to = regcache.to
        /\ Own(regcache') = c \ d /\ regcache'.missed = regcache.missed
        /\ regcache'.replay = regcache.replay /\ regcache'.first = regcache.first /\ regcache'.last = regcache.last
    BY <1>1, <1>6 DEF RegistryState, Own
  <2>3. ASSUME ~regcache.missed, NEW x \in c \ d
        PROVE  \E n \in regcache.to .. Len(regcache.log) : InRegistry(regcache.log, n, x)
    <3>1. PICK n \in regcache.cursor .. Len(regcache.log) : InRegistry(regcache.log, n, x)
      BY <1>1, <1>4, <2>3 DEF ListedSince
    <3>2. CASE n >= regcache.to  BY <1>2, <3>1, <3>2
    <3>3. CASE n < regcache.to
      <4>1. n \in Nat /\ regcache.cursor <= n /\ n <= regcache.to /\ regcache.to \in regcache.to .. Len(regcache.log)
        BY <1>2, <1>3, <3>3
      <4>2. InRegistry(regcache.log, regcache.to, x)  BY <1>2, <1>5, <2>3, <3>1, <4>1, StaysRegistered
      <4> QED BY <4>1, <4>2
    <3> QED BY <1>2, <3>2, <3>3
  <2>4. RegistryRange(regcache')  BY <1>1, <1>2, <1>3, <2>2 DEF RegistryRange
  <2>5. ListedSince(regcache')  BY <2>2, <2>3 DEF ListedSince
  <2> QED BY <2>1, <2>4, <2>5 DEF RegistryOK
<1>7. CASE regcache' = [regcache EXCEPT !.missed = TRUE, !.cursor = regcache.to, !.pc = "sleep"]
  <2>1. regcache' \in RegistryState  BY <1>1, <1>2, <1>7 DEF RegistryState
  <2>2. /\ regcache'.log = regcache.log /\ regcache'.cursor = regcache.to /\ regcache'.to = regcache.to
        /\ regcache'.missed
        /\ regcache'.replay = regcache.replay /\ regcache'.first = regcache.first /\ regcache'.last = regcache.last
    BY <1>1, <1>7 DEF RegistryState
  <2> QED BY <1>1, <1>2, <1>3, <2>1, <2>2 DEF RegistryOK, RegistryRange, ListedSince
<1>8. \/ regcache' = [regcache EXCEPT !.cache = @ \ LogNodes("unregistered"), !.cursor = regcache.to,
                                      !.replayed = @ \ LogNodes("unregistered"), !.pc = "sleep"]
      \/ regcache' = [regcache EXCEPT !.missed = TRUE, !.cursor = regcache.to, !.pc = "sleep"]
  BY Zenon DEF HandleUnregistered, RegistryStep
<1>9. \/ regcache' = [regcache EXCEPT !.cache = c, !.cursor = regcache.to, !.replayed = d, !.pc = "sleep"]
      \/ regcache' = [regcache EXCEPT !.missed = TRUE, !.cursor = regcache.to, !.pc = "sleep"]
  BY <1>1, <1>8 DEF RegistryState
<1> QED BY <1>6, <1>7, <1>9

\* What a replay lists is its own.
LEMMA ReplayBegins ==
    ASSUME RegistryOK(regcache), NEW i \in Nat, NEW k \in Nat, ReplayEvents(i, k) PROVE RegistryOK(regcache')
<1>1. regcache \in RegistryState /\ RegistryRange(regcache)  BY DEF RegistryOK
<1>2. regcache' = [regcache EXCEPT !.replay = "registered", !.first = i, !.last = k] /\ i >= 1 /\ k <= Len(regcache.log)
  BY DEF ReplayEvents, RegistryStep
<1>3. /\ regcache' \in RegistryState /\ regcache'.log = regcache.log /\ regcache'.cursor = regcache.cursor
      /\ regcache'.missed = regcache.missed /\ Own(regcache') = Own(regcache) /\ RegistryRange(regcache')
  BY <1>1, <1>2 DEF RegistryState, Own, RegistryRange
<1> QED BY <1>3, OwnShrinks

LEMMA ReplayKeeps == ASSUME RegistryOK(regcache), ReplayRegistered \/ ReplayUnregistered PROVE RegistryOK(regcache')
<1> DEFINE ns(kind) == NodesIn(kind, regcache.first, regcache.last)
<1>1. regcache \in RegistryState /\ RegistryRange(regcache) /\ regcache.replay # "off"
  BY DEF RegistryOK, ReplayRegistered, ReplayUnregistered
<1>2. /\ regcache.first \in Nat \ {0} /\ regcache.last \in Nat /\ regcache.last <= Len(regcache.log)
      /\ regcache.cache \in SUBSET RgNodes /\ regcache.replayed \in SUBSET RgNodes
  BY <1>1, RegistryFields DEF RegistryRange
<1>3. ns("registered") \in SUBSET RgNodes  BY <1>2, NodesAre
<1>4. \/ regcache' = [regcache EXCEPT !.cache = @ \cup ns("registered"), !.replayed = @ \cup ns("registered"),
                                      !.replay = "updated"]
      \/ regcache' = [regcache EXCEPT !.cache = @ \ ns("unregistered"), !.replayed = @ \ ns("unregistered"),
                                      !.replay = "off", !.first = 0, !.last = 0]
  BY Zenon DEF ReplayRegistered, ReplayUnregistered, RegistryStep
<1> HIDE DEF ns
<1>5. CASE regcache' = [regcache EXCEPT !.cache = @ \cup ns("registered"), !.replayed = @ \cup ns("registered"),
                                        !.replay = "updated"]
  <2> DEFINE c == regcache.cache \cup ns("registered")
             d == regcache.replayed \cup ns("registered")
  <2>1. c \in SUBSET RgNodes /\ d \in SUBSET RgNodes /\ c \ d \subseteq regcache.cache \ regcache.replayed
    BY <1>2, <1>3
  <2>2. regcache' = [regcache EXCEPT !.cache = c, !.replayed = d, !.replay = "updated"]  BY <1>1, <1>5 DEF RegistryState
  <2> HIDE DEF c, d
  <2>3. /\ regcache' \in RegistryState /\ regcache'.log = regcache.log /\ regcache'.cursor = regcache.cursor
        /\ regcache'.missed = regcache.missed /\ regcache'.cache = c /\ regcache'.replayed = d /\ RegistryRange(regcache')
    BY <1>1, <2>1, <2>2 DEF RegistryState, RegistryRange
  <2> QED BY <2>1, <2>3, OwnShrinks DEF Own
<1>6. CASE regcache' = [regcache EXCEPT !.cache = @ \ ns("unregistered"), !.replayed = @ \ ns("unregistered"),
                                        !.replay = "off", !.first = 0, !.last = 0]
  <2> DEFINE c == regcache.cache \ ns("unregistered")
             d == regcache.replayed \ ns("unregistered")
  <2>1. c \in SUBSET RgNodes /\ d \in SUBSET RgNodes /\ c \ d \subseteq regcache.cache \ regcache.replayed  BY <1>2
  <2>2. regcache' = [regcache EXCEPT !.cache = c, !.replayed = d, !.replay = "off", !.first = 0, !.last = 0]
    BY <1>1, <1>6 DEF RegistryState
  <2> HIDE DEF c, d
  <2>3. /\ regcache' \in RegistryState /\ regcache'.log = regcache.log /\ regcache'.cursor = regcache.cursor
        /\ regcache'.missed = regcache.missed /\ regcache'.cache = c /\ regcache'.replayed = d /\ RegistryRange(regcache')
    BY <1>1, <2>1, <2>2 DEF RegistryState, RegistryRange
  <2> QED BY <2>1, <2>3, OwnShrinks DEF Own
<1> QED BY <1>4, <1>5, <1>6

LEMMA RegistrySteps == ASSUME RegistryOK(regcache), RegistryNext PROVE RegistryOK(regcache')
<1>1. \A n \in 0 .. MaxBlocks : n \in Nat  BY RgAssumption
<1> QED BY <1>1, LogsKeep, StartKeeps, LoopKeeps, HandleRegisteredKeeps, HandleUnregisteredKeeps, ReplayBegins, ReplayKeeps
        DEF RegistryNext

LEMMA RegistrySafe == ASSUME RegistryOK(regcache) PROVE ListedIsRegistered
<1> SUFFICES ASSUME ~regcache.missed, NEW x \in Own(regcache)
             PROVE  \E n \in regcache.cursor .. Len(regcache.log) : x \in RegisteredAt(n)
  BY DEF ListedIsRegistered, Own
<1>1. x \in RgNodes  BY RegistryFields DEF RegistryOK, Own
<1> QED BY <1>1, RegisteredAtIs DEF RegistryOK, ListedSince

-----------------------------------------------------------------------------
(* The registrars together.                                                *)

RgInv == RegistrarOK(registrar) /\ MonitorOK(regmon) /\ RegistryOK(regcache)

LEMMA RgInitial == ASSUME RgInit PROVE RgInv  BY RegistrarInitial, MonitorInitial, RegistryInitial DEF RgInv

LEMMA RegistrarLeaves == ASSUME RegistrarNext PROVE UNCHANGED <<rgPart, regmon, regcache, regstats>>
  BY Zenon DEF RegistrarNext, RegisterOnChain, CheckFabBalance, ApproveFabTokens, LockStatus, SendRegistration,
     SendAnswered, SetModelTokenPricing, SpawnConfirmation, TxMined, ConfirmRegistration, RegistrarStep

LEMMA MonitorLeaves == ASSUME MonitorNext PROVE UNCHANGED <<rgPart, registrar, regcache, regstats>>
  BY Zenon DEF MonitorNext, StartChainMonitor, StopRegMonitoring, CheckHealth, CompareHealth, WarnExpiry,
     RenewRegistration, StoreHealth, EnableAutoRenewal, MockExpiring, ExpiryNears, SimulateRpcFailure,
     BecomesRegistered, MonitorStep

LEMMA RegistryLeaves == ASSUME RegistryNext PROVE UNCHANGED <<rgPart, registrar, regmon, regstats>>
  BY Zenon DEF RegistryNext, RegistryLogs, StartRegistryMonitor, StopRegistryMonitor, PollRegistry,
     HandleRegistered, HandleUpdated, HandleUnregistered, ReplayEvents, ReplayRegistered, ReplayUpdated,
     ReplayUnregistered, ReplayFails, RegistryStep

LEMMA RgStep == ASSUME RgInv, [RgNext]_rgVars PROVE RgInv'
<1>1. CASE RegistrarNext  BY <1>1, RegistrarSteps, RegistrarLeaves DEF RgInv
<1>2. CASE MonitorNext  BY <1>2, MonitorSteps, MonitorLeaves DEF RgInv
<1>3. CASE RegistryNext  BY <1>3, RegistrySteps, RegistryLeaves DEF RgInv
<1>4. CASE \E c \in RgChains : UpdateChainMetrics(c)  BY <1>4 DEF UpdateChainMetrics, RgInv
<1>5. CASE UNCHANGED rgVars  BY <1>5 DEF rgVars, RgInv
<1> QED BY <1>1, <1>2, <1>3, <1>4, <1>5 DEF RgNext

LEMMA RgSafe == ASSUME RgInv PROVE RgTypeOK /\ RegistrarStatusIsReal /\ ExpiryIsWarned /\ ListedIsRegistered
  BY RegistrarSafe, MonitorSafe, RegistrySafe DEF RgInv, RgTypeOK, MonitorOK, RegistryOK

-----------------------------------------------------------------------------
(* JobPipeline: the slots move with the set, the claims under way and the  *)
(* claims without an entry.                                                *)

PipePlaces == {"out", "slot", "check", "claim", "record", "claimed", "remove", "unslot", "run", "submit", "store", "send", "pay", "stats"}
PipeWorker == [pc : PipePlaces, job : Jobs \cup {CHOOSE j \in Jobs : TRUE}, n : Nat]

\* The places of a claim under way that has a slot.
Claiming == {"check", "claim", "record", "unslot"}
Claimers == {w \in Workers : worker[w].pc \in Claiming}

PipeTypes ==
    /\ worker \in [Workers -> PipeWorker] /\ \A w \in Workers : worker[w].pc # "out" => worker[w].job \in Jobs
    /\ market \in [Jobs -> {"open", "ours", "rival", "done", "paid"}] /\ queue \in Seq(Jobs)
    /\ mine \subseteq Jobs /\ slots \in Int /\ unlisted \in Int

SlotsCount ==
    /\ IsFiniteSet(mine) /\ IsFiniteSet(Claimers)
    /\ slots = Cardinality(mine) + unlisted + Cardinality(Claimers)

SentIsStored ==
    /\ \A w \in Workers : worker[w].pc = "send" => worker[w].job \in storedOutputs
    /\ \A j \in Jobs : market[j] \in {"done", "paid"} => j \in storedOutputs

PipeInv == PipeTypes /\ SlotsCount /\ SentIsStored

\* w goes to p with its job; the other workers stay.
MovesTo(w, p) ==
    /\ worker' \in [Workers -> PipeWorker]
    /\ worker'[w].pc = p /\ worker'[w].job = worker[w].job
    /\ \A v \in Workers : v # w => worker'[v] = worker[v]

LEMMA PipeInitial == PipeInit => PipeInv
<1> SUFFICES ASSUME PipeInit PROVE PipeInv  OBVIOUS
<1>1. worker \in [Workers -> PipeWorker] /\ \A w \in Workers : worker[w].pc = "out"
  BY DEF PipeInit, PipeWorker, PipePlaces
<1>2. PipeTypes  BY <1>1 DEF PipeInit, PipeTypes
<1>3. Claimers = {}  BY <1>1 DEF Claimers, Claiming
<1>4. SlotsCount  BY <1>3, FS_EmptySet DEF PipeInit, SlotsCount
<1>5. SentIsStored  BY <1>1 DEF PipeInit, SentIsStored
<1> QED BY <1>2, <1>4, <1>5 DEF PipeInv

LEMMA JumpMoves ==
    ASSUME PipeTypes, NEW w \in Workers, NEW p \in PipePlaces, Jump(w, p)
    PROVE  MovesTo(w, p)
<1> DEFINE r == [worker[w] EXCEPT !.pc = p]
<1>1. worker \in [Workers -> PipeWorker]  BY DEF PipeTypes
<1>2. worker' = [worker EXCEPT ![w] = r]  BY <1>1 DEF Jump
<1>3. r \in PipeWorker /\ r.pc = p /\ r.job = worker[w].job  BY <1>1 DEF PipeWorker
<1> HIDE DEF r
<1> QED BY <1>1, <1>2, <1>3 DEF MovesTo

LEMMA RetryMoves ==
    ASSUME PipeTypes, NEW w \in Workers, Retry(w)
    PROVE  MovesTo(w, "submit") \/ MovesTo(w, "out")
<1> DEFINE p == IF worker[w].n + 1 < SubmitRetries THEN "submit" ELSE "out"
           n == worker[w].n + 1
           r == [worker[w] EXCEPT !.n = n, !.pc = p]
<1>1. worker \in [Workers -> PipeWorker] /\ worker[w] \in PipeWorker  BY DEF PipeTypes
<1>2. worker' = [worker EXCEPT ![w] = r]  BY <1>1 DEF Retry, PipeWorker
<1>3. n \in Nat /\ p \in {"submit", "out"}  BY <1>1 DEF PipeWorker
<1> HIDE DEF n, p
<1>4. r \in PipeWorker /\ r.pc = p /\ r.job = worker[w].job  BY <1>1, <1>3 DEF PipeWorker, PipePlaces
<1> HIDE DEF r
<1> QED BY <1>1, <1>2, <1>3, <1>4 DEF MovesTo

\* What a worker's move does to the claims under way.
LEMMA ClaimersMove ==
    ASSUME PipeInv, NEW w \in Workers, NEW p, worker'[w].pc = p, \A v \in Workers : v # w => worker'[v] = worker[v]
    PROVE  /\ IsFiniteSet(Claimers') /\ Cardinality(Claimers') \in Int /\ Cardinality(Claimers) \in Int
           /\ Cardinality(Claimers') = Cardinality(Claimers) + (IF p \in Claiming THEN 1 ELSE 0)
                                       - (IF worker[w].pc \in Claiming THEN 1 ELSE 0)
<1>1. IsFiniteSet(Claimers) /\ Cardinality(Claimers) \in Nat  BY FS_CardinalityType DEF PipeInv, SlotsCount
<1>2. CASE p \in Claiming
  <2>1. Claimers' = Claimers \cup {w}  BY <1>2 DEF Claimers
  <2>2. w \in Claimers <=> worker[w].pc \in Claiming  BY DEF Claimers
  <2> QED BY <1>1, <1>2, <2>1, <2>2, FS_AddElement
<1>3. CASE p \notin Claiming
  <2>1. Claimers' = Claimers \ {w}  BY <1>3 DEF Claimers
  <2>2. w \in Claimers <=> worker[w].pc \in Claiming  BY DEF Claimers
  <2> QED BY <1>1, <1>3, <2>1, <2>2, FS_RemoveElement
<1> QED BY <1>2, <1>3

LEMMA PipeMove ==
    ASSUME PipeInv, NEW w \in Workers, NEW p, MovesTo(w, p), worker[w].pc # "out", queue' = queue,
           market' \in [Jobs -> {"open", "ours", "rival", "done", "paid"}], storedOutputs \subseteq storedOutputs',
           \A j \in Jobs : market'[j] \in {"done", "paid"} => j \in storedOutputs',
           p = "send" => worker[w].job \in storedOutputs',
           mine' \subseteq Jobs, IsFiniteSet(mine'), unlisted' \in Int, slots' \in Int,
           slots' - Cardinality(mine') - unlisted' = slots - Cardinality(mine) - unlisted
               + (IF p \in Claiming THEN 1 ELSE 0) - (IF worker[w].pc \in Claiming THEN 1 ELSE 0)
    PROVE  PipeInv'
<1>1. PipeTypes /\ SlotsCount /\ SentIsStored  BY DEF PipeInv
<1>2. /\ worker'[w].pc = p /\ worker'[w].job = worker[w].job /\ \A v \in Workers : v # w => worker'[v] = worker[v]
      /\ worker' \in [Workers -> PipeWorker]
  BY DEF MovesTo
<1>3. PipeTypes'  BY <1>1, <1>2 DEF PipeTypes
<1>4. SlotsCount'
  <2>1. slots = Cardinality(mine) + unlisted + Cardinality(Claimers) /\ slots \in Int /\ unlisted \in Int
        /\ Cardinality(mine) \in Nat /\ Cardinality(mine') \in Nat
    BY <1>1, FS_CardinalityType DEF SlotsCount, PipeTypes
  <2> QED BY <1>2, <2>1, ClaimersMove DEF SlotsCount
<1>5. SentIsStored'  BY <1>1, <1>2 DEF SentIsStored
<1> QED BY <1>3, <1>4, <1>5 DEF PipeInv

\* A move that changes neither the marketplace nor the sets.
LEMMA QuietMove ==
    ASSUME PipeInv, NEW w \in Workers, NEW p, MovesTo(w, p), worker[w].pc # "out",
           UNCHANGED <<market, queue, mine, unlisted, storedOutputs>>, p # "send",
           slots' = slots + (IF p \in Claiming THEN 1 ELSE 0) - (IF worker[w].pc \in Claiming THEN 1 ELSE 0)
    PROVE  PipeInv'
<1>1. /\ mine \subseteq Jobs /\ IsFiniteSet(mine) /\ Cardinality(mine) \in Int /\ unlisted \in Int /\ slots \in Int
      /\ market \in [Jobs -> {"open", "ours", "rival", "done", "paid"}]
      /\ \A j \in Jobs : market[j] \in {"done", "paid"} => j \in storedOutputs
  BY FS_CardinalityType DEF PipeInv, PipeTypes, SlotsCount, SentIsStored
<1> QED BY <1>1, PipeMove

LEMMA GetNextJobKeeps == ASSUME PipeInv, NEW w \in Workers, GetNextJob(w) PROVE PipeInv'
<1> DEFINE r == [pc |-> "slot", job |-> queue[Len(queue)], n |-> 0]
<1>1. PipeTypes /\ SlotsCount /\ SentIsStored  BY DEF PipeInv
<1>2. /\ worker[w].pc = "out" /\ queue # <<>> /\ queue' = SubSeq(queue, 1, Len(queue) - 1)
      /\ worker' = [worker EXCEPT ![w] = r] /\ UNCHANGED <<market, mine, unlisted, slots, storedOutputs>>
  BY DEF GetNextJob, At
<1>3. queue \in Seq(Jobs) /\ Len(queue) \in Nat \ {0} /\ queue[Len(queue)] \in Jobs
  BY <1>1, <1>2, EmptySeq DEF PipeTypes
<1>4. queue' \in Seq(Jobs)  BY <1>2, <1>3
<1>5. r \in PipeWorker /\ r.pc = "slot" /\ r.job \in Jobs  BY <1>3 DEF PipeWorker, PipePlaces
<1> HIDE DEF r
<1>6. worker \in [Workers -> PipeWorker]  BY <1>1 DEF PipeTypes
<1>7. worker' \in [Workers -> PipeWorker] /\ worker'[w] = r /\ \A v \in Workers : v # w => worker'[v] = worker[v]
  BY <1>2, <1>5, <1>6
<1>8. PipeTypes'  BY <1>1, <1>2, <1>4, <1>5, <1>7 DEF PipeTypes
<1>9. Claimers' = Claimers  BY <1>2, <1>5, <1>7 DEF Claimers, Claiming
<1>10. SentIsStored'  BY <1>1, <1>2, <1>5, <1>7 DEF SentIsStored
<1> QED BY <1>1, <1>2, <1>8, <1>9, <1>10 DEF PipeInv, SlotsCount

\* The steps of QuietMove.
LEMMA QuietSteps ==
    ASSUME PipeInv, NEW w \in Workers,
           TakeSlot(w) \/ CheckJob(w) \/ ReturnSlot(w) \/ StartProcessing(w) \/ EndProcessing(w) \/ SubmitCheck(w)
           \/ UpdateStatistics(w)
    PROVE  PipeInv'
<1>0. PipeTypes /\ slots \in Int  BY DEF PipeInv, PipeTypes
<1>1. CASE TakeSlot(w)
  <2>1. worker[w].pc = "slot" /\ UNCHANGED <<market, queue, mine, unlisted, storedOutputs>>  BY <1>1 DEF TakeSlot, At
  <2>2. CASE slots' = slots /\ Jump(w, "out")  BY <1>0, <2>1, <2>2, JumpMoves, QuietMove DEF PipePlaces, Claiming
  <2>3. CASE slots' = slots + 1 /\ Jump(w, "check")  BY <1>0, <2>1, <2>3, JumpMoves, QuietMove DEF PipePlaces, Claiming
  <2> QED BY <1>1, <2>2, <2>3 DEF TakeSlot
<1>2. CASE CheckJob(w)
  <2>1. worker[w].pc = "check" /\ UNCHANGED <<market, queue, mine, unlisted, storedOutputs, slots>>
        /\ (Jump(w, "claim") \/ Jump(w, "unslot"))
    BY <1>2 DEF CheckJob, At
  <2> QED BY <1>0, <2>1, JumpMoves, QuietMove DEF PipePlaces, Claiming
<1>3. CASE ReturnSlot(w)
  <2>1. worker[w].pc = "unslot" /\ UNCHANGED <<market, queue, mine, unlisted, storedOutputs>> /\ slots' = slots - 1 /\ Jump(w, "out")
    BY <1>3 DEF ReturnSlot, At
  <2> QED BY <1>0, <2>1, JumpMoves, QuietMove DEF PipePlaces, Claiming
<1>4. CASE StartProcessing(w)
  <2>1. worker[w].pc = "claimed" /\ UNCHANGED <<market, queue, mine, unlisted, storedOutputs, slots>> /\ Jump(w, "run")
    BY <1>4 DEF StartProcessing, At
  <2> QED BY <1>0, <2>1, JumpMoves, QuietMove DEF PipePlaces, Claiming
<1>5. CASE EndProcessing(w)
  <2>1. worker[w].pc = "run" /\ UNCHANGED <<market, queue, mine, unlisted, storedOutputs, slots>>
        /\ (Jump(w, "submit") \/ Jump(w, "out"))
    BY <1>5 DEF EndProcessing, At
  <2> QED BY <1>0, <2>1, JumpMoves, QuietMove DEF PipePlaces, Claiming
<1>6. CASE SubmitCheck(w)
  <2>1. worker[w].pc = "submit" /\ UNCHANGED <<market, queue, mine, unlisted, storedOutputs, slots>>
        /\ (Jump(w, "store") \/ Jump(w, "pay"))
    BY <1>6 DEF SubmitCheck, At
  <2> QED BY <1>0, <2>1, JumpMoves, QuietMove DEF PipePlaces, Claiming
<1>7. CASE UpdateStatistics(w)
  <2>1. worker[w].pc = "stats" /\ UNCHANGED <<market, queue, mine, unlisted, storedOutputs, slots>> /\ Jump(w, "out")
    BY <1>7 DEF UpdateStatistics, At
  <2> QED BY <1>0, <2>1, JumpMoves, QuietMove DEF PipePlaces, Claiming
<1> QED BY <1>1, <1>2, <1>3, <1>4, <1>5, <1>6, <1>7

\* The marketplace's record of w's job changes with w's move.
LEMMA MarketMove ==
    ASSUME PipeInv, NEW w \in Workers, NEW p, MovesTo(w, p), worker[w].pc # "out", p # "send",
           UNCHANGED <<queue, mine, unlisted, slots, storedOutputs>>, p \in Claiming <=> worker[w].pc \in Claiming,
           NEW q \in {"open", "ours", "done", "paid"}, market' = [market EXCEPT ![worker[w].job] = q],
           q \in {"done", "paid"} => worker[w].job \in storedOutputs
    PROVE  PipeInv'
<1>1. /\ mine \subseteq Jobs /\ IsFiniteSet(mine) /\ Cardinality(mine) \in Int /\ unlisted \in Int /\ slots \in Int
      /\ market \in [Jobs -> {"open", "ours", "rival", "done", "paid"}]
      /\ \A j \in Jobs : market[j] \in {"done", "paid"} => j \in storedOutputs
  BY FS_CardinalityType DEF PipeInv, PipeTypes, SlotsCount, SentIsStored
<1>2. market' \in [Jobs -> {"open", "ours", "rival", "done", "paid"}]
      /\ \A j \in Jobs : market'[j] \in {"done", "paid"} => j \in storedOutputs
  BY <1>1
<1>3. slots' - Cardinality(mine') - unlisted' = slots - Cardinality(mine) - unlisted
          + (IF p \in Claiming THEN 1 ELSE 0) - (IF worker[w].pc \in Claiming THEN 1 ELSE 0)  BY <1>1
<1> QED BY <1>1, <1>2, <1>3, PipeMove

LEMMA ClaimKeeps == ASSUME PipeInv, NEW w \in Workers, ClaimOnMarket(w) \/ UnclaimJob(w) PROVE PipeInv'
<1>1. PipeTypes /\ slots \in Int  BY DEF PipeInv, PipeTypes
<1>2. CASE UnclaimJob(w)
  <2>1. /\ worker[w].pc = "claimed" /\ Jump(w, "remove") /\ market' = [market EXCEPT ![worker[w].job] = "open"]
        /\ UNCHANGED <<queue, mine, unlisted, slots, storedOutputs>>
    BY <1>2 DEF UnclaimJob, At, Job
  <2> QED BY <1>1, <2>1, JumpMoves, MarketMove DEF PipePlaces, Claiming
<1>3. CASE ClaimOnMarket(w)
  <2>1. worker[w].pc = "claim" /\ UNCHANGED <<queue, mine, unlisted, slots, storedOutputs>>
    BY <1>3 DEF ClaimOnMarket, At
  <2>2. CASE market' = [market EXCEPT ![worker[w].job] = "ours"] /\ Jump(w, "record")
    BY <1>1, <2>1, <2>2, JumpMoves, MarketMove DEF PipePlaces, Claiming
  <2>3. CASE market' = market /\ Jump(w, "unslot")  BY <1>1, <2>1, <2>3, JumpMoves, QuietMove DEF PipePlaces, Claiming
  <2> QED BY <1>3, <2>2, <2>3 DEF ClaimOnMarket, Job
<1> QED BY <1>2, <1>3

\* The set and the claims without an entry change together.
LEMMA RecordKeeps == ASSUME PipeInv, NEW w \in Workers, RecordClaim(w) \/ RemoveClaim(w) PROVE PipeInv'
<1> DEFINE j == worker[w].job
<1>1. /\ PipeTypes /\ mine \subseteq Jobs /\ IsFiniteSet(mine) /\ Cardinality(mine) \in Int /\ unlisted \in Int /\ slots \in Int
      /\ market \in [Jobs -> {"open", "ours", "rival", "done", "paid"}]
      /\ \A i \in Jobs : market[i] \in {"done", "paid"} => i \in storedOutputs
  BY FS_CardinalityType DEF PipeInv, PipeTypes, SlotsCount, SentIsStored
<1>2. UNCHANGED <<market, queue, slots, storedOutputs>>  BY DEF RecordClaim, RemoveClaim
<1>3. CASE RecordClaim(w)
  <2>1. worker[w].pc = "record" /\ mine' = mine \cup {j} /\ Jump(w, "claimed") /\ unlisted' = unlisted + (IF j \in mine THEN 1 ELSE 0)
    BY <1>3 DEF RecordClaim, At, Job
  <2>2. MovesTo(w, "claimed") /\ j \in Jobs  BY <1>1, <2>1, JumpMoves DEF PipePlaces, PipeTypes
  <2> HIDE DEF j
  <2>3. IsFiniteSet(mine') /\ Cardinality(mine') = Cardinality(mine) + (IF j \in mine THEN 0 ELSE 1)
    BY <1>1, <2>1, FS_AddElement
  <2>4. slots' - Cardinality(mine') - unlisted' = slots - Cardinality(mine) - unlisted
            + (IF "claimed" \in Claiming THEN 1 ELSE 0) - (IF worker[w].pc \in Claiming THEN 1 ELSE 0)
    BY <1>1, <1>2, <2>1, <2>3 DEF Claiming
  <2>5. mine' \subseteq Jobs /\ unlisted' \in Int  BY <1>1, <2>1, <2>2
  <2> QED BY <1>1, <1>2, <2>1, <2>2, <2>3, <2>4, <2>5, PipeMove
<1>4. CASE RemoveClaim(w)
  <2>1. worker[w].pc = "remove" /\ mine' = mine \ {j} /\ Jump(w, "unslot") /\ unlisted' = unlisted - (IF j \in mine THEN 0 ELSE 1)
    BY <1>4 DEF RemoveClaim, At, Job
  <2>2. MovesTo(w, "unslot")  BY <1>1, <2>1, JumpMoves DEF PipePlaces
  <2> HIDE DEF j
  <2>3. IsFiniteSet(mine') /\ Cardinality(mine') = Cardinality(mine) - (IF j \in mine THEN 1 ELSE 0)
    BY <1>1, <2>1, FS_RemoveElement
  <2>4. slots' - Cardinality(mine') - unlisted' = slots - Cardinality(mine) - unlisted
            + (IF "unslot" \in Claiming THEN 1 ELSE 0) - (IF worker[w].pc \in Claiming THEN 1 ELSE 0)
    BY <1>1, <1>2, <2>1, <2>3 DEF Claiming
  <2>5. mine' \subseteq Jobs /\ unlisted' \in Int  BY <1>1, <2>1, <2>2
  <2> QED BY <1>1, <1>2, <2>1, <2>2, <2>3, <2>4, <2>5, PipeMove
<1> QED BY <1>3, <1>4

LEMMA StoreOutputKeeps == ASSUME PipeInv, NEW w \in Workers, StoreOutput(w) PROVE PipeInv'
<1>1. /\ PipeTypes /\ mine \subseteq Jobs /\ IsFiniteSet(mine) /\ Cardinality(mine) \in Int /\ unlisted \in Int /\ slots \in Int
      /\ market \in [Jobs -> {"open", "ours", "rival", "done", "paid"}]
      /\ \A i \in Jobs : market[i] \in {"done", "paid"} => i \in storedOutputs
  BY FS_CardinalityType DEF PipeInv, PipeTypes, SlotsCount, SentIsStored
<1>2. worker[w].pc = "store" /\ UNCHANGED <<market, queue, mine, unlisted, slots>>  BY DEF StoreOutput, At
<1>3. CASE storedOutputs' = storedOutputs \cup {worker[w].job} /\ Jump(w, "send")
  <2>1. MovesTo(w, "send")  BY <1>1, <1>3, JumpMoves DEF PipePlaces
  <2>2. \A i \in Jobs : market'[i] \in {"done", "paid"} => i \in storedOutputs'  BY <1>1, <1>2, <1>3
  <2>3. slots' - Cardinality(mine') - unlisted' = slots - Cardinality(mine) - unlisted
            + (IF "send" \in Claiming THEN 1 ELSE 0) - (IF worker[w].pc \in Claiming THEN 1 ELSE 0)
    BY <1>1, <1>2 DEF Claiming
  <2> QED BY <1>1, <1>2, <1>3, <2>1, <2>2, <2>3, PipeMove
<1>4. CASE storedOutputs' = storedOutputs /\ Retry(w)  BY <1>1, <1>2, <1>4, RetryMoves, QuietMove DEF Claiming
<1> QED BY <1>3, <1>4 DEF StoreOutput, Job

\* A stored job becomes done, a done one paid.
LEMMA SubmitResultKeeps == ASSUME PipeInv, NEW w \in Workers, SubmitResult(w) PROVE PipeInv'
<1>1. PipeTypes /\ SentIsStored /\ slots \in Int  BY DEF PipeInv, PipeTypes
<1>2. worker[w].pc = "send" /\ UNCHANGED <<queue, mine, unlisted, slots, storedOutputs>> /\ worker[w].job \in storedOutputs
  BY <1>1 DEF SubmitResult, At, SentIsStored
<1>3. CASE market' = [market EXCEPT ![worker[w].job] = "done"] /\ (Jump(w, "pay") \/ Retry(w))
  <2>1. MovesTo(w, "pay") \/ MovesTo(w, "submit") \/ MovesTo(w, "out")
    BY <1>1, <1>3, JumpMoves, RetryMoves DEF PipePlaces
  <2> QED BY <1>2, <1>3, <2>1, MarketMove DEF Claiming
<1>4. CASE market' = market /\ Retry(w)  BY <1>1, <1>2, <1>4, RetryMoves, QuietMove DEF Claiming
<1> QED BY <1>3, <1>4 DEF SubmitResult, Job

LEMMA EscrowKeeps == ASSUME PipeInv, NEW w \in Workers, ClaimEscrow(w) PROVE PipeInv'
<1>1. PipeTypes /\ SentIsStored /\ slots \in Int  BY DEF PipeInv, PipeTypes
<1>2. worker[w].pc = "pay" /\ UNCHANGED <<queue, mine, unlisted, slots, storedOutputs>> /\ worker[w].job \in Jobs
  BY <1>1 DEF ClaimEscrow, At, PipeTypes
<1>3. CASE market[worker[w].job] = "done" /\ market' = [market EXCEPT ![worker[w].job] = "paid"] /\ Jump(w, "stats")
  <2>1. MovesTo(w, "stats") /\ worker[w].job \in storedOutputs
    BY <1>1, <1>2, <1>3, JumpMoves DEF SentIsStored, PipePlaces
  <2> QED BY <1>2, <1>3, <2>1, MarketMove DEF Claiming
<1>4. CASE market' = market /\ Jump(w, "out")  BY <1>1, <1>2, <1>4, JumpMoves, QuietMove DEF PipePlaces, Claiming
<1> QED BY <1>3, <1>4 DEF ClaimEscrow, Job

LEMMA EventKeeps == ASSUME PipeInv, NEW j \in Jobs, ProcessJobEvent(j) \/ RivalClaims(j) PROVE PipeInv'
<1>1. PipeTypes /\ SlotsCount /\ SentIsStored  BY DEF PipeInv
<1>2. UNCHANGED <<worker, mine, unlisted, slots, storedOutputs>>  BY DEF ProcessJobEvent, RivalClaims
<1>3. SlotsCount'  BY <1>1, <1>2 DEF SlotsCount, Claimers
<1>4. queue' \in Seq(Jobs) /\ (market' = market \/ market' = [market EXCEPT ![j] = "rival"])
  <2>1. queue \in Seq(Jobs)  BY <1>1 DEF PipeTypes
  <2>2. CASE ProcessJobEvent(j)  BY <2>1, <2>2 DEF ProcessJobEvent
  <2>3. CASE RivalClaims(j)  BY <2>1, <2>3 DEF RivalClaims
  <2> QED BY <2>2, <2>3
<1>5. PipeTypes' /\ SentIsStored'  BY <1>1, <1>2, <1>4 DEF PipeTypes, SentIsStored
<1> QED BY <1>3, <1>5 DEF PipeInv

LEMMA PipeStep == ASSUME PipeInv, [PipeNext]_pipeVars PROVE PipeInv'
<1>1. CASE UNCHANGED pipeVars  BY <1>1 DEF pipeVars, PipeInv, PipeTypes, SlotsCount, Claimers, SentIsStored
<1>2. CASE PipeNext  BY <1>2, GetNextJobKeeps, QuietSteps, ClaimKeeps, RecordKeeps, StoreOutputKeeps, SubmitResultKeeps,
     EscrowKeeps, EventKeeps, Zenon DEF PipeNext, WorkerStep
<1> QED BY <1>1, <1>2

LEMMA PipeSafe == PipeInv => SlotsMatchClaims /\ ResultIsStored
  BY DEF PipeInv, SlotsCount, Claimers, Claiming, SentIsStored, SlotsMatchClaims, ResultIsStored

-----------------------------------------------------------------------------
(* Web3Client: what the stream delivered is below what it sends next.      *)

WalletRec == [chain : CcChains \cup {"none"}, endpoint : Nat]
WaitRec == [pc : {"idle", "poll", "depth", "ok", "failed"}, block : Nat, attempts : Nat]
StreamRec == [pc : {"off", "poll", "send"}, last : Nat, next : Nat, current : Nat]
Web3Fields == [chain : CcChains, endpoint : Nat, wallet : WalletRec, head : Nat, wait : WaitRec, stream : StreamRec,
               blocks : Seq(Nat), ops : Nat]

LEMMA Web3FieldsAre == Web3Fields = Web3State  BY DEF Web3Fields, Web3State, WalletRec, WaitRec, StreamRec

DeepEnough(w, head) == w.pc = "ok" /\ Confirmations > 1 => head >= w.block + Confirmations
StreamOK(s, blocks) ==
    /\ \A i, j \in DOMAIN blocks : i < j => blocks[i] < blocks[j]
    /\ s.pc = "off" => blocks = <<>>
    /\ s.pc = "poll" => \A i \in DOMAIN blocks : blocks[i] <= s.last
    /\ s.pc = "send" => \A i \in DOMAIN blocks : blocks[i] < s.next

Web3OK(s) ==
    /\ s \in Web3Fields /\ s.wallet.chain \in {"none", s.chain}
    /\ DeepEnough(s.wait, s.head) /\ StreamOK(s.stream, s.blocks)

LEMMA Web3FieldsOf ==
    ASSUME NEW s, s \in Web3Fields
    PROVE  /\ s.chain \in CcChains /\ s.endpoint \in Nat /\ s.wallet \in WalletRec /\ s.head \in Nat /\ s.wait \in WaitRec
           /\ s.stream \in StreamRec /\ s.blocks \in Seq(Nat) /\ s.ops \in Nat
  BY DEF Web3Fields

LEMMA Web3Initial == ASSUME CcInit PROVE Web3OK(web3)
<1> DEFINE c == CHOOSE x \in CcChains : TRUE
           w == [chain |-> "none", endpoint |-> 0]
           q == [pc |-> "idle", block |-> 0, attempts |-> 0]
           r == [pc |-> "off", last |-> 0, next |-> 0, current |-> 0]
<1>1. c \in CcChains  BY CcAssumption
<1> HIDE DEF c
<1>2. web3 = [chain |-> c, endpoint |-> 0, wallet |-> w, head |-> 0, wait |-> q, stream |-> r, blocks |-> <<>>, ops |-> 0]
  BY DEF CcInit, c
<1>3. w \in WalletRec /\ q \in WaitRec /\ r \in StreamRec /\ <<>> \in Seq(Nat) /\ w.chain = "none" /\ q.pc = "idle"
      /\ r.pc = "off" /\ DOMAIN <<>> = {}
  BY DEF WalletRec, WaitRec, StreamRec
<1> HIDE DEF w, q, r
<1>4. web3 \in Web3Fields  BY <1>1, <1>2, <1>3 DEF Web3Fields
<1>5. DeepEnough(web3.wait, web3.head) /\ StreamOK(web3.stream, web3.blocks)  BY <1>2, <1>3 DEF DeepEnough, StreamOK
<1> QED BY <1>2, <1>3, <1>4, <1>5 DEF Web3OK

LEMMA WalletSteps ==
    ASSUME Web3OK(web3), SetWallet \/ UpdateRpcUrl \/ \E c \in CcChains : SwitchNetwork(c)
    PROVE  Web3OK(web3')
<1> DEFINE e == web3.endpoint + 1
           m == web3.ops + 1
<1>1. web3 \in Web3Fields /\ e \in Nat /\ m \in Nat /\ web3.wallet \in WalletRec /\ web3.chain \in CcChains /\ web3.endpoint \in Nat
  BY Web3FieldsOf DEF Web3OK
<1>2. CASE SetWallet
  <2> DEFINE w == [chain |-> web3.chain, endpoint |-> web3.endpoint]
  <2>1. web3' = [[web3 EXCEPT !.wallet = w] EXCEPT !.ops = @ + 1]  BY <1>2 DEF SetWallet, Web3Op, Web3Step
  <2>2. w \in WalletRec /\ w.chain = web3.chain  BY <1>1 DEF WalletRec
  <2> HIDE DEF w
  <2>3. web3' = [web3 EXCEPT !.wallet = w, !.ops = m]  BY <1>1, <2>1 DEF Web3Fields
  <2> HIDE DEF m
  <2>4. web3' \in Web3Fields /\ web3'.wallet = w /\ web3'.chain = web3.chain /\ web3'.wait = web3.wait
        /\ web3'.head = web3.head /\ web3'.stream = web3.stream /\ web3'.blocks = web3.blocks
    BY <1>1, <2>2, <2>3 DEF Web3Fields
  <2> QED BY <2>2, <2>4 DEF Web3OK
<1>3. CASE UpdateRpcUrl
  <2>1. web3' = [[web3 EXCEPT !.endpoint = @ + 1] EXCEPT !.ops = @ + 1]  BY <1>3 DEF UpdateRpcUrl, Web3Op, Web3Step
  <2>3. web3' = [web3 EXCEPT !.endpoint = e, !.ops = m]  BY <1>1, <2>1 DEF Web3Fields
  <2> HIDE DEF m, e
  <2>4. web3' \in Web3Fields /\ web3'.wallet = web3.wallet /\ web3'.chain = web3.chain /\ web3'.wait = web3.wait
        /\ web3'.head = web3.head /\ web3'.stream = web3.stream /\ web3'.blocks = web3.blocks
    BY <1>1, <2>3 DEF Web3Fields
  <2> QED BY <2>4 DEF Web3OK
<1>4. ASSUME NEW c \in CcChains, SwitchNetwork(c) PROVE Web3OK(web3')
  <2> DEFINE w == [web3.wallet EXCEPT !.chain = "none"]
  <2>1. web3' = [[web3 EXCEPT !.chain = c, !.endpoint = @ + 1, !.wallet.chain = "none"] EXCEPT !.ops = @ + 1]
    BY <1>4 DEF SwitchNetwork, Web3Op, Web3Step
  <2>2. w \in WalletRec /\ w.chain = "none"  BY <1>1 DEF WalletRec
  <2>3. web3' = [web3 EXCEPT !.chain = c, !.endpoint = e, !.wallet = w, !.ops = m]  BY <1>1, <2>1 DEF Web3Fields
  <2> HIDE DEF m, e, w
  <2>4. web3' \in Web3Fields /\ web3'.wallet = w /\ web3'.chain = c /\ web3'.wait = web3.wait
        /\ web3'.head = web3.head /\ web3'.stream = web3.stream /\ web3'.blocks = web3.blocks
    BY <1>1, <2>2, <2>3 DEF Web3Fields
  <2> QED BY <2>2, <2>4 DEF Web3OK
<1> QED BY <1>2, <1>3, <1>4

LEMMA Web3BlockKeeps == ASSUME Web3OK(web3), Web3Block PROVE Web3OK(web3')
<1> DEFINE h == web3.head + 1
<1>1. web3 \in Web3Fields /\ h \in Nat /\ web3.head \in Nat /\ web3.wait \in WaitRec  BY Web3FieldsOf DEF Web3OK
<1>2. web3' = [web3 EXCEPT !.head = h]  BY <1>1 DEF Web3Block, Web3Step, Web3Fields
<1>3. web3.wait.block \in Nat /\ h >= web3.head /\ Confirmations \in Nat  BY <1>1, CcAssumption DEF WaitRec
<1>4. DeepEnough(web3.wait, h)  BY <1>1, <1>3 DEF DeepEnough, Web3OK
<1> HIDE DEF h
<1>5. web3' \in Web3Fields /\ web3'.wallet = web3.wallet /\ web3'.chain = web3.chain /\ web3'.wait = web3.wait
        /\ web3'.head = h /\ web3'.stream = web3.stream /\ web3'.blocks = web3.blocks
  BY <1>1, <1>2 DEF Web3Fields
<1> QED BY <1>4, <1>5 DEF Web3OK

\* The wait moves on.
LEMMA WaitMoves ==
    ASSUME Web3OK(web3), NEW w \in WaitRec, NEW m \in Nat, web3' = [web3 EXCEPT !.wait = w, !.ops = m], DeepEnough(w, web3.head)
    PROVE  Web3OK(web3')
<1>1. web3 \in Web3Fields  BY DEF Web3OK
<1>2. web3' \in Web3Fields /\ web3'.wallet = web3.wallet /\ web3'.chain = web3.chain /\ web3'.wait = w
      /\ web3'.head = web3.head /\ web3'.stream = web3.stream /\ web3'.blocks = web3.blocks
  BY <1>1 DEF Web3Fields
<1> QED BY <1>2 DEF Web3OK

LEMMA WaitSteps == ASSUME Web3OK(web3), SendTransaction \/ PollReceipt \/ PollDepth PROVE Web3OK(web3')
<1>1. web3 \in Web3Fields /\ web3.wait \in WaitRec /\ web3.head \in Nat /\ web3.ops \in Nat /\ web3.wait.block \in Nat
      /\ web3.wait.attempts \in Nat /\ Confirmations \in Nat
  BY Web3FieldsOf, CcAssumption DEF Web3OK, WaitRec
<1>2. CASE SendTransaction
  <2>1. PICK mined \in BOOLEAN :
           web3' = [[web3 EXCEPT !.wait = [pc |-> "poll", block |-> IF mined THEN web3.head + 1 ELSE 0, attempts |-> 0]]
                      EXCEPT !.ops = @ + 1]  BY <1>2 DEF SendTransaction, Web3Op, Web3Step
  <2> DEFINE w == [pc |-> "poll", block |-> IF mined THEN web3.head + 1 ELSE 0, attempts |-> 0]
             m == web3.ops + 1
  <2>2. w \in WaitRec /\ w.pc = "poll" /\ m \in Nat  BY <1>1 DEF WaitRec
  <2>3. web3' = [[web3 EXCEPT !.wait = w] EXCEPT !.ops = @ + 1]  BY <2>1
  <2> HIDE DEF w
  <2>4. web3' = [web3 EXCEPT !.wait = w, !.ops = m]  BY <1>1, <2>3 DEF Web3Fields
  <2> HIDE DEF m
  <2> QED BY <2>2, <2>4, WaitMoves DEF DeepEnough
<1> DEFINE m == web3.ops
<1>3. CASE PollReceipt
  <2> DEFINE n == web3.wait.attempts + 1
             wOf(pc) == [web3.wait EXCEPT !.pc = pc]
             wAt(pc) == [web3.wait EXCEPT !.attempts = n, !.pc = pc]
  <2>1. PICK pc \in {"depth", "ok", "failed", "poll"} :
           \/ web3' = [web3 EXCEPT !.wait.pc = pc] /\ (pc = "ok" => ~(Confirmations > 1))
           \/ web3' = [web3 EXCEPT !.wait.attempts = n, !.wait.pc = pc] /\ pc # "ok"
    BY <1>3 DEF PollReceipt, Web3Step
  <2>2. n \in Nat /\ wOf(pc) \in WaitRec /\ wOf(pc).pc = pc /\ wAt(pc) \in WaitRec /\ wAt(pc).pc = pc
    <3> DEFINE v == web3.wait
    <3>1. n \in Nat /\ v \in WaitRec  BY <1>1
    <3> HIDE DEF n, v
    <3>2. [v EXCEPT !.pc = pc] \in WaitRec /\ [v EXCEPT !.pc = pc].pc = pc  BY <2>1, <3>1 DEF WaitRec
    <3>3. [v EXCEPT !.attempts = n, !.pc = pc] \in WaitRec /\ [v EXCEPT !.attempts = n, !.pc = pc].pc = pc
      BY <2>1, <3>1 DEF WaitRec
    <3> QED BY <3>1, <3>2, <3>3, Zenon DEF v
  <2>3. CASE web3' = [web3 EXCEPT !.wait.pc = pc] /\ (pc = "ok" => ~(Confirmations > 1))
    <3>1. web3' = [web3 EXCEPT !.wait = wOf(pc), !.ops = m]  BY <1>1, <2>3 DEF Web3Fields
    <3>2. DeepEnough(wOf(pc), web3.head)  BY <2>2, <2>3 DEF DeepEnough
    <3> HIDE DEF wOf, m
    <3> QED BY <1>1, <2>2, <3>1, <3>2, WaitMoves DEF m
  <2>4. CASE web3' = [web3 EXCEPT !.wait.attempts = n, !.wait.pc = pc] /\ pc # "ok"
    <3>1. web3' = [web3 EXCEPT !.wait = wAt(pc), !.ops = m]  BY <1>1, <2>4 DEF Web3Fields
    <3>2. DeepEnough(wAt(pc), web3.head)  BY <2>2, <2>4 DEF DeepEnough
    <3> HIDE DEF wAt, m
    <3> QED BY <1>1, <2>2, <3>1, <3>2, WaitMoves DEF m
  <2> QED BY <2>1, <2>3, <2>4
<1>4. CASE PollDepth
  <2>1. PICK pc \in {"ok", "failed"} : web3' = [web3 EXCEPT !.wait.pc = pc] /\ (pc = "ok" => Deep)
    BY <1>4 DEF PollDepth, Web3Step
  <2> DEFINE w == [web3.wait EXCEPT !.pc = pc]
  <2>2. w \in WaitRec /\ w.pc = pc /\ w.block = web3.wait.block  BY <1>1 DEF WaitRec
  <2>3. web3' = [web3 EXCEPT !.wait = w, !.ops = m]  BY <1>1, <2>1 DEF Web3Fields
  <2> HIDE DEF w
  <2>4. DeepEnough(w, web3.head)  BY <1>1, <2>1, <2>2 DEF DeepEnough, Deep
  <2> HIDE DEF m
  <2> QED BY <1>1, <2>2, <2>3, <2>4, WaitMoves DEF m
<1> QED BY <1>2, <1>3, <1>4

\* The stream moves on.
LEMMA StreamMoves ==
    ASSUME Web3OK(web3), NEW r \in StreamRec, NEW b \in Seq(Nat), NEW m \in Nat,
           web3' = [web3 EXCEPT !.stream = r, !.blocks = b, !.ops = m], StreamOK(r, b)
    PROVE  Web3OK(web3')
<1>1. web3 \in Web3Fields  BY DEF Web3OK
<1>2. web3' \in Web3Fields /\ web3'.wallet = web3.wallet /\ web3'.chain = web3.chain /\ web3'.wait = web3.wait
      /\ web3'.head = web3.head /\ web3'.stream = r /\ web3'.blocks = b
  BY <1>1 DEF Web3Fields
<1> QED BY <1>2 DEF Web3OK

LEMMA SubscribeKeeps == ASSUME Web3OK(web3), SubscribeBlocks PROVE Web3OK(web3')
<1> DEFINE r == [pc |-> "poll", last |-> 0, next |-> 0, current |-> 0]
           b == web3.blocks
           m == web3.ops + 1
<1>1. web3 \in Web3Fields /\ web3.blocks \in Seq(Nat) /\ m \in Nat /\ b \in Seq(Nat) /\ r \in StreamRec /\ r.pc = "poll"
  BY Web3FieldsOf DEF Web3OK, StreamRec
<1>2. web3.stream.pc = "off" /\ web3' = [[web3 EXCEPT !.stream = r] EXCEPT !.ops = @ + 1]
  BY DEF SubscribeBlocks, Web3Op, Web3Step
<1>3. web3.blocks = <<>> /\ DOMAIN web3.blocks = {}  BY <1>2 DEF Web3OK, StreamOK
<1> HIDE DEF r
<1>4. web3' = [web3 EXCEPT !.stream = r, !.blocks = b, !.ops = m]  BY <1>1, <1>2 DEF Web3Fields
<1>5. StreamOK(r, b)  BY <1>1, <1>3 DEF StreamOK
<1> HIDE DEF b, m
<1> QED BY <1>1, <1>4, <1>5, StreamMoves

LEMMA StreamPollsKeeps == ASSUME Web3OK(web3), StreamPolls PROVE Web3OK(web3')
<1> DEFINE r == [web3.stream EXCEPT !.pc = "send", !.current = web3.head, !.next = web3.stream.last + 1]
           b == web3.blocks
           m == web3.ops
<1>1. web3 \in Web3Fields /\ web3.blocks \in Seq(Nat) /\ m \in Nat /\ b \in Seq(Nat) /\ web3.stream \in StreamRec /\ web3.head \in Nat
  BY Web3FieldsOf DEF Web3OK
<1>x. web3.stream.last \in Nat /\ web3.stream.last + 1 \in Nat  BY <1>1 DEF StreamRec
<1>2. r \in StreamRec /\ r.pc = "send" /\ r.next = web3.stream.last + 1 /\ web3.stream.last \in Nat
  <2> DEFINE v == web3.stream
             h == web3.head
             k == web3.stream.last + 1
  <2>1. v \in StreamRec /\ h \in Nat /\ k \in Nat  BY <1>1, <1>x
  <2> HIDE DEF v, h, k
  <2>2. [v EXCEPT !.pc = "send", !.current = h, !.next = k] \in StreamRec
        /\ [v EXCEPT !.pc = "send", !.current = h, !.next = k].pc = "send"
        /\ [v EXCEPT !.pc = "send", !.current = h, !.next = k].next = k
    BY <2>1 DEF StreamRec
  <2> QED BY <1>x, <2>2, Zenon DEF v, h, k
<1>3. web3.stream.pc = "poll" /\ web3' = [web3 EXCEPT !.stream = r]  BY DEF StreamPolls, Web3Step
<1> HIDE DEF r
<1>4. web3' = [web3 EXCEPT !.stream = r, !.blocks = b, !.ops = m]  BY <1>1, <1>3 DEF Web3Fields
<1>5. StreamOK(r, b)
  <2>1. \A i \in DOMAIN b : b[i] \in Nat /\ b[i] <= web3.stream.last  BY <1>1, <1>3 DEF Web3OK, StreamOK
  <2>2. \A i \in DOMAIN b : b[i] < r.next  BY <1>2, <2>1
  <2> QED BY <1>2, <2>2 DEF StreamOK, Web3OK
<1> HIDE DEF b, m
<1> QED BY <1>1, <1>2, <1>4, <1>5, StreamMoves

LEMMA StreamSendsKeeps == ASSUME Web3OK(web3), StreamSends PROVE Web3OK(web3')
<1> DEFINE s == web3.stream
           r == IF s.next = s.current THEN [s EXCEPT !.pc = "poll", !.last = s.current] ELSE [s EXCEPT !.next = s.next + 1]
           c == web3.blocks
           d == Append(c, s.next)
           m == web3.ops
<1>1. web3 \in Web3Fields /\ m \in Nat /\ c \in Seq(Nat) /\ s \in StreamRec /\ StreamOK(s, c)
  BY Web3FieldsOf DEF Web3OK
<1>2. s.pc = "send" /\ (web3' = [web3 EXCEPT !.blocks = Append(@, s.next), !.stream = r] \/ web3' = [web3 EXCEPT !.stream = r])
  BY <1>1 DEF StreamSends, Web3Step, StreamRec
<1>3. s.next \in Nat /\ s.current \in Nat /\ s.last \in Nat  BY <1>1 DEF StreamRec
<1>4. r \in StreamRec /\ ((r.pc = "poll" /\ r.last = s.next) \/ (r.pc = "send" /\ r.next = s.next + 1))
  <2> DEFINE k == s.next + 1
             c1 == s.current
  <2>1. k \in Nat /\ c1 \in Nat  BY <1>3
  <2> HIDE DEF s
  <2>2. CASE s.next = s.current
    <3>1. r = [s EXCEPT !.pc = "poll", !.last = c1]  BY <2>2
    <3> HIDE DEF r, c1
    <3>2. r \in StreamRec /\ r.pc = "poll" /\ r.last = c1  BY <1>1, <2>1, <3>1 DEF StreamRec
    <3> QED BY <2>2, <3>2 DEF c1
  <2>3. CASE s.next # s.current
    <3>1. r = [s EXCEPT !.next = k]  BY <2>3
    <3> HIDE DEF r, k
    <3>2. r \in StreamRec /\ r.pc = "send" /\ r.next = k  BY <1>1, <1>2, <2>1, <3>1 DEF StreamRec
    <3> QED BY <3>2 DEF k
  <2> QED BY <2>2, <2>3
<1>5. CASE web3' = [web3 EXCEPT !.blocks = Append(@, s.next), !.stream = r]
  <2>1. web3' = [web3 EXCEPT !.stream = r, !.blocks = d, !.ops = m]
    <3> HIDE DEF r
    <3> QED BY <1>1, <1>5 DEF Web3Fields
  <2>2. (\A i \in DOMAIN c : c[i] \in Nat /\ c[i] < s.next) /\ \A i, j \in DOMAIN c : i < j => c[i] < c[j]
    BY <1>1, <1>2 DEF StreamOK
  <2> HIDE DEF s, r, c
  <2>3. d \in Seq(Nat) /\ DOMAIN d = 1 .. (Len(c) + 1) /\ d[Len(c) + 1] = s.next /\ (\A i \in 1 .. Len(c) : d[i] = c[i])
        /\ DOMAIN c = 1 .. Len(c) /\ Len(c) \in Nat
    BY <1>1, <1>3
  <2> HIDE DEF d
  <2>4. \A i, j \in DOMAIN d : i < j => d[i] < d[j]  BY <1>3, <2>2, <2>3
  <2>5. \A i \in DOMAIN d : d[i] \in Nat /\ d[i] <= s.next  BY <1>3, <2>2, <2>3
  <2>6. StreamOK(r, d)  BY <1>3, <1>4, <2>4, <2>5 DEF StreamOK
  <2> HIDE DEF m
  <2> QED BY <1>1, <1>4, <2>1, <2>3, <2>6, StreamMoves
<1>6. CASE web3' = [web3 EXCEPT !.stream = r]
  <2>1. web3' = [web3 EXCEPT !.stream = r, !.blocks = c, !.ops = m]
    <3> HIDE DEF r
    <3> QED BY <1>1, <1>6 DEF Web3Fields
  <2>2. (\A i \in DOMAIN c : c[i] \in Nat /\ c[i] < s.next) /\ \A i, j \in DOMAIN c : i < j => c[i] < c[j]
    BY <1>1, <1>2 DEF StreamOK
  <2> HIDE DEF s, r, c
  <2>6. StreamOK(r, c)  BY <1>3, <1>4, <2>2 DEF StreamOK
  <2> HIDE DEF m
  <2> QED BY <1>1, <1>4, <2>1, <2>6, StreamMoves
<1> QED BY <1>2, <1>5, <1>6

LEMMA Web3Steps == ASSUME Web3OK(web3), Web3Next PROVE Web3OK(web3')
  BY WalletSteps, Web3BlockKeeps, WaitSteps, SubscribeKeeps, StreamPollsKeeps, StreamSendsKeeps DEF Web3Next

LEMMA Web3Safe == ASSUME Web3OK(web3) PROVE Web3Consistent /\ web3 \in Web3State
  BY Web3FieldsAre DEF Web3OK, DeepEnough, StreamOK, Web3Consistent

-----------------------------------------------------------------------------
(* JobMonitor: a loop has sent every event below the block it is at.       *)

JmLoops == {"l1", "l2"}
JmLoop == [pc : {"none", "idle", "send"}, from : Nat, to : Nat]
JmSents == {"no", "taken", "refused"}
JmFields == [running : BOOLEAN, last : Nat, head : Nat, events : SUBSET Nat, sent : [1 .. MaxJobBlocks -> JmSents], gone : BOOLEAN,
             buffered : Nat, errors : Nat, loop : [JmLoops -> JmLoop], ops : Nat]

LEMMA JmFieldsAre == JmFields = JobMonitorState  BY DEF JmFields, JobMonitorState, JmLoops, JmLoop, JmSents

JmSent(s, b) == \A e \in s.events : e <= b => s.sent[e] # "no"
JmLoopOK(s, m) == m.pc = "send" => m.to <= s.head /\ m.from >= 1 /\ m.from <= m.to + 1 /\ JmSent(s, m.from - 1)

JobMonOK(s) ==
    /\ s \in JmFields /\ s.last <= s.head /\ s.head <= MaxJobBlocks /\ s.events \subseteq 1 .. s.head
    /\ JmSent(s, s.last) /\ \A l \in JmLoops : JmLoopOK(s, s.loop[l])

LEMMA JmFieldsOf ==
    ASSUME NEW s, s \in JmFields
    PROVE  /\ s.running \in BOOLEAN /\ s.last \in Nat /\ s.head \in Nat /\ s.events \subseteq Nat
           /\ s.sent \in [1 .. MaxJobBlocks -> JmSents] /\ s.gone \in BOOLEAN /\ s.buffered \in Nat /\ s.errors \in Nat
           /\ s.loop \in [JmLoops -> JmLoop] /\ s.ops \in Nat
           /\ \A l \in JmLoops : s.loop[l] \in JmLoop /\ s.loop[l].from \in Nat /\ s.loop[l].to \in Nat
<1>1. /\ s.running \in BOOLEAN /\ s.last \in Nat /\ s.head \in Nat /\ s.events \subseteq Nat
      /\ s.sent \in [1 .. MaxJobBlocks -> JmSents] /\ s.gone \in BOOLEAN /\ s.buffered \in Nat /\ s.errors \in Nat
      /\ s.loop \in [JmLoops -> JmLoop] /\ s.ops \in Nat
  BY DEF JmFields
<1>2. \A l \in JmLoops : s.loop[l] \in JmLoop  BY <1>1
<1> QED BY <1>1, <1>2 DEF JmLoop

LEMMA JobMonInitial == ASSUME CcInit PROVE JobMonOK(jobmon)
<1> DEFINE r == [pc |-> "none", from |-> 0, to |-> 0]
<1>1. jobmon = [running |-> FALSE, last |-> 0, head |-> 0, events |-> {}, sent |-> [b \in 1 .. MaxJobBlocks |-> "no"],
               gone |-> FALSE, buffered |-> 0, errors |-> 0, loop |-> [l \in JmLoops |-> r], ops |-> 0]
  BY DEF CcInit, JmLoops
<1>2. r \in JmLoop /\ r.pc = "none" /\ MaxJobBlocks \in Nat  BY CcAssumption DEF JmLoop
<1> HIDE DEF r
<1>3. jobmon \in JmFields  BY <1>1, <1>2 DEF JmFields, JmSents
<1>4. jobmon.last = 0 /\ jobmon.head = 0 /\ jobmon.events = {} /\ \A l \in JmLoops : jobmon.loop[l] = r  BY <1>1
<1> QED BY <1>2, <1>3, <1>4 DEF JobMonOK, JmSent, JmLoopOK

\* The head, the events and what was sent stay, and at most one loop moves.
LEMMA JmMoves ==
    ASSUME JobMonOK(jobmon), jobmon' \in JmFields, NEW l \in JmLoops, jobmon'.head = jobmon.head, jobmon'.events = jobmon.events,
           \A e \in jobmon.events : jobmon.sent[e] # "no" => jobmon'.sent[e] # "no",
           jobmon'.last <= jobmon.head, JmSent(jobmon', jobmon'.last), JmLoopOK(jobmon', jobmon'.loop[l]),
           \A k \in JmLoops : k # l => jobmon'.loop[k] = jobmon.loop[k]
    PROVE  JobMonOK(jobmon')
<1>1. \A k \in JmLoops : k # l => JmLoopOK(jobmon', jobmon'.loop[k])  BY DEF JobMonOK, JmLoopOK, JmSent
<1> QED BY <1>1 DEF JobMonOK

LEMMA JmPlain ==
    ASSUME JobMonOK(jobmon), jobmon' \in JmFields, jobmon'.head = jobmon.head, jobmon'.events = jobmon.events,
           jobmon'.sent = jobmon.sent, jobmon'.last = jobmon.last, jobmon'.loop = jobmon.loop
    PROVE  JobMonOK(jobmon')  BY DEF JobMonOK, JmLoopOK, JmSent

\* Only the place of a loop moves, and it does not begin to send.
LEMMA JmRests ==
    ASSUME JobMonOK(jobmon), jobmon' \in JmFields, NEW l \in JmLoops, jobmon'.head = jobmon.head, jobmon'.events = jobmon.events,
           jobmon'.sent = jobmon.sent, jobmon'.last = jobmon.last, jobmon'.loop[l].pc # "send",
           \A k \in JmLoops : k # l => jobmon'.loop[k] = jobmon.loop[k]
    PROVE  JobMonOK(jobmon')
<1>1. jobmon.last <= jobmon.head /\ JmSent(jobmon, jobmon.last)  BY DEF JobMonOK
<1>2. JmLoopOK(jobmon', jobmon'.loop[l])  BY DEF JmLoopOK
<1>3. JmSent(jobmon', jobmon'.last)  BY <1>1 DEF JmSent
<1> QED BY <1>1, <1>2, <1>3, JmMoves

LEMMA JmOutside ==
    ASSUME JobMonOK(jobmon), JobMonStop \/ JobReceived \/ DropJobReceiver PROVE JobMonOK(jobmon')
<1>1. jobmon \in JmFields /\ jobmon.buffered \in Nat  BY JmFieldsOf DEF JobMonOK
<1>2. CASE JobMonStop
  <2>1. jobmon' = [jobmon EXCEPT !.running = FALSE]  BY <1>2 DEF JobMonStop, JobMonStep
  <2>2. jobmon' \in JmFields /\ jobmon'.head = jobmon.head /\ jobmon'.events = jobmon.events
        /\ jobmon'.sent = jobmon.sent /\ jobmon'.last = jobmon.last /\ jobmon'.loop = jobmon.loop
    BY <1>1, <2>1 DEF JmFields
  <2> QED BY <2>2, JmPlain
<1>3. CASE JobReceived
  <2> DEFINE n == jobmon.buffered - 1
  <2>0. jobmon.buffered > 0 /\ jobmon' = [jobmon EXCEPT !.buffered = @ - 1]  BY <1>3 DEF JobReceived, JobMonStep
  <2>1. n \in Nat /\ jobmon' = [jobmon EXCEPT !.buffered = n]  BY <1>1, <2>0 DEF JmFields
  <2> HIDE DEF n
  <2>2. jobmon' \in JmFields /\ jobmon'.head = jobmon.head /\ jobmon'.events = jobmon.events
        /\ jobmon'.sent = jobmon.sent /\ jobmon'.last = jobmon.last /\ jobmon'.loop = jobmon.loop
    BY <1>1, <2>1 DEF JmFields
  <2> QED BY <2>2, JmPlain
<1>4. CASE DropJobReceiver
  <2>1. jobmon' = [jobmon EXCEPT !.gone = TRUE, !.buffered = 0]  BY <1>4 DEF DropJobReceiver, JobMonStep
  <2>2. jobmon' \in JmFields /\ jobmon'.head = jobmon.head /\ jobmon'.events = jobmon.events
        /\ jobmon'.sent = jobmon.sent /\ jobmon'.last = jobmon.last /\ jobmon'.loop = jobmon.loop
    BY <1>1, <2>1 DEF JmFields
  <2> QED BY <2>2, JmPlain
<1> QED BY <1>2, <1>3, <1>4

LEMMA JobBlockKeeps == ASSUME JobMonOK(jobmon), JobBlock PROVE JobMonOK(jobmon')
<1> DEFINE h == jobmon.head + 1
<1>1. /\ jobmon \in JmFields /\ jobmon.head \in Nat /\ h \in Nat /\ jobmon.events \subseteq Nat /\ jobmon.last \in Nat
      /\ MaxJobBlocks \in Nat /\ \A l \in JmLoops : jobmon.loop[l].from \in Nat /\ jobmon.loop[l].to \in Nat
  BY JmFieldsOf, CcAssumption DEF JobMonOK
<1>2. jobmon.head < MaxJobBlocks /\ jobmon.events \subseteq 1 .. jobmon.head /\ jobmon.last <= jobmon.head
      /\ JmSent(jobmon, jobmon.last) /\ \A l \in JmLoops : JmLoopOK(jobmon, jobmon.loop[l])
  BY DEF JobBlock, JobMonOK
<1>3. PICK event \in BOOLEAN :
         jobmon' = [jobmon EXCEPT !.head = @ + 1, !.events = IF event THEN @ \cup {jobmon.head + 1} ELSE @]
  BY DEF JobBlock, JobMonStep
<1> DEFINE e == IF event THEN jobmon.events \cup {h} ELSE jobmon.events
<1>4. jobmon' = [jobmon EXCEPT !.head = h, !.events = e]  BY <1>1, <1>3 DEF JmFields
<1>5. e \in SUBSET Nat /\ e \subseteq jobmon.events \cup {h}  BY <1>1
<1> HIDE DEF e, h
<1>6. jobmon' \in JmFields /\ jobmon'.head = h /\ jobmon'.events = e /\ jobmon'.sent = jobmon.sent /\ jobmon'.last = jobmon.last
      /\ jobmon'.loop = jobmon.loop
  BY <1>1, <1>4, <1>5 DEF JmFields
<1>7. ASSUME NEW b \in Int, b <= jobmon.head, JmSent(jobmon, b) PROVE JmSent(jobmon', b)
  <2>1. \A x \in e : x <= b => x \in jobmon.events  BY <1>1, <1>5, <1>7 DEF h
  <2> QED BY <1>6, <1>7, <2>1 DEF JmSent
<1>8. h <= MaxJobBlocks /\ jobmon.last <= h /\ e \subseteq 1 .. h /\ jobmon.head <= h  BY <1>1, <1>2, <1>5 DEF h
<1>9. \A l \in JmLoops : JmLoopOK(jobmon', jobmon'.loop[l])
  <2> SUFFICES ASSUME NEW l \in JmLoops, jobmon.loop[l].pc = "send" PROVE JmLoopOK(jobmon', jobmon.loop[l])
    BY <1>6 DEF JmLoopOK
  <2> DEFINE fr == jobmon.loop[l].from
             to == jobmon.loop[l].to
  <2>1. fr \in Nat /\ to \in Nat /\ to <= jobmon.head /\ fr >= 1 /\ fr <= to + 1 /\ JmSent(jobmon, fr - 1)
    BY <1>1, <1>2 DEF JmLoopOK
  <2> HIDE DEF fr, to
  <2>2. to <= h /\ fr - 1 \in Int /\ fr - 1 <= jobmon.head  BY <1>1, <1>8, <2>1
  <2>3. JmSent(jobmon', fr - 1)  BY <1>7, <2>1, <2>2
  <2> QED BY <1>6, <2>1, <2>2, <2>3 DEF JmLoopOK, fr, to
<1>10. JmSent(jobmon', jobmon.last)  BY <1>1, <1>2, <1>7
<1> QED BY <1>6, <1>8, <1>9, <1>10 DEF JobMonOK

LEMMA JmStarts ==
    ASSUME JobMonOK(jobmon), NEW l \in JmLoops, JobMonStart(l) \/ LoopEnds(l) \/ ProcessFails(l) PROVE JobMonOK(jobmon')
<1>1. /\ jobmon \in JmFields /\ jobmon.loop \in [JmLoops -> JmLoop] /\ jobmon.loop[l] \in JmLoop
      /\ jobmon.ops \in Nat /\ jobmon.errors \in Nat
  BY JmFieldsOf DEF JobMonOK
<1> DEFINE v == jobmon.loop[l]
           ri == [v EXCEPT !.pc = "idle"]
           rn == [v EXCEPT !.pc = "none"]
           fi == [jobmon.loop EXCEPT ![l] = ri]
           fn == [jobmon.loop EXCEPT ![l] = rn]
           m == jobmon.ops + 1
           x == jobmon.errors + 1
<1>2. ri \in JmLoop /\ rn \in JmLoop /\ ri.pc = "idle" /\ rn.pc = "none"
  <2> HIDE DEF v
  <2>1. v \in JmLoop  BY <1>1 DEF v
  <2> QED BY <2>1 DEF JmLoop
<1>3. m \in Nat /\ x \in Nat  BY <1>1
<1>4. CASE JobMonStart(l)
  <2>1. jobmon' = [jobmon EXCEPT !.running = TRUE, !.gone = FALSE, !.buffered = 0, !.loop[l].pc = "idle", !.ops = @ + 1]
    BY <1>4 DEF JobMonStart, JobMonStep
  <2>2. jobmon' = [jobmon EXCEPT !.running = TRUE, !.gone = FALSE, !.buffered = 0, !.loop = fi, !.ops = m]
    BY <1>1, <2>1 DEF JmFields
  <2> HIDE DEF ri, m
  <2>3. fi \in [JmLoops -> JmLoop] /\ fi[l] = ri /\ \A k \in JmLoops : k # l => fi[k] = jobmon.loop[k]  BY <1>1, <1>2
  <2> HIDE DEF fi
  <2>4. jobmon' \in JmFields /\ jobmon'.head = jobmon.head /\ jobmon'.events = jobmon.events
        /\ jobmon'.sent = jobmon.sent /\ jobmon'.last = jobmon.last /\ jobmon'.loop = fi
    BY <1>1, <1>3, <2>2, <2>3 DEF JmFields
  <2> QED BY <1>2, <2>3, <2>4, JmRests
<1>5. CASE LoopEnds(l)
  <2>1. jobmon' = [jobmon EXCEPT !.loop[l].pc = "none"]  BY <1>5 DEF LoopEnds, JobMonStep
  <2>2. jobmon' = [jobmon EXCEPT !.loop = fn]  BY <1>1, <2>1 DEF JmFields
  <2> HIDE DEF rn
  <2>3. fn \in [JmLoops -> JmLoop] /\ fn[l] = rn /\ \A k \in JmLoops : k # l => fn[k] = jobmon.loop[k]  BY <1>1, <1>2
  <2> HIDE DEF fn
  <2>4. jobmon' \in JmFields /\ jobmon'.head = jobmon.head /\ jobmon'.events = jobmon.events
        /\ jobmon'.sent = jobmon.sent /\ jobmon'.last = jobmon.last /\ jobmon'.loop = fn
    BY <1>1, <1>3, <2>2, <2>3 DEF JmFields
  <2> QED BY <1>2, <2>3, <2>4, JmRests
<1>6. CASE ProcessFails(l)
  <2>1. jobmon' = [jobmon EXCEPT !.loop[l].pc = "idle", !.errors = @ + 1]  BY <1>6 DEF ProcessFails, JobMonStep
  <2>2. jobmon' = [jobmon EXCEPT !.loop = fi, !.errors = x]  BY <1>1, <2>1 DEF JmFields
  <2> HIDE DEF ri, x
  <2>3. fi \in [JmLoops -> JmLoop] /\ fi[l] = ri /\ \A k \in JmLoops : k # l => fi[k] = jobmon.loop[k]  BY <1>1, <1>2
  <2> HIDE DEF fi
  <2>4. jobmon' \in JmFields /\ jobmon'.head = jobmon.head /\ jobmon'.events = jobmon.events
        /\ jobmon'.sent = jobmon.sent /\ jobmon'.last = jobmon.last /\ jobmon'.loop = fi
    BY <1>1, <1>3, <2>2, <2>3 DEF JmFields
  <2> QED BY <1>2, <2>3, <2>4, JmRests
<1> QED BY <1>4, <1>5, <1>6

LEMMA ProcessEventsKeeps == ASSUME JobMonOK(jobmon), NEW l \in JmLoops, ProcessEvents(l) PROVE JobMonOK(jobmon')
<1> DEFINE r == [pc |-> "send", from |-> jobmon.last + 1, to |-> jobmon.head]
           f == [jobmon.loop EXCEPT ![l] = r]
<1>1. /\ jobmon \in JmFields /\ jobmon.loop \in [JmLoops -> JmLoop] /\ jobmon.last \in Nat /\ jobmon.head \in Nat
      /\ jobmon.last <= jobmon.head /\ JmSent(jobmon, jobmon.last)
  BY JmFieldsOf DEF JobMonOK
<1>2. jobmon' = [jobmon EXCEPT !.loop[l] = r]  BY DEF ProcessEvents, JobMonStep
<1>3. r \in JmLoop /\ r.pc = "send" /\ r.from = jobmon.last + 1 /\ r.to = jobmon.head  BY <1>1 DEF JmLoop
<1> HIDE DEF r
<1>4. jobmon' = [jobmon EXCEPT !.loop = f]  BY <1>1, <1>2 DEF JmFields
<1>5. f \in [JmLoops -> JmLoop] /\ f[l] = r /\ \A k \in JmLoops : k # l => f[k] = jobmon.loop[k]  BY <1>1, <1>3
<1> HIDE DEF f
<1>6. jobmon' \in JmFields /\ jobmon'.head = jobmon.head /\ jobmon'.events = jobmon.events
      /\ jobmon'.sent = jobmon.sent /\ jobmon'.last = jobmon.last /\ jobmon'.loop = f
  BY <1>1, <1>4, <1>5 DEF JmFields
<1>7. r.from - 1 = jobmon.last /\ r.from >= 1 /\ r.from <= r.to + 1 /\ r.to <= jobmon.head  BY <1>1, <1>3
<1>8. JmSent(jobmon', jobmon.last)  BY <1>1, <1>6 DEF JmSent
<1>9. JmLoopOK(jobmon', jobmon'.loop[l])  BY <1>5, <1>6, <1>7, <1>8 DEF JmLoopOK
<1> QED BY <1>1, <1>5, <1>6, <1>8, <1>9, JmMoves

LEMMA SendEventKeeps == ASSUME JobMonOK(jobmon), NEW l \in JmLoops, SendEvent(l) PROVE JobMonOK(jobmon')
<1> DEFINE v == jobmon.loop[l]
           k == v.from
           n == k + 1
           r == [v EXCEPT !.from = n]
           f == [jobmon.loop EXCEPT ![l] = r]
<1>1. /\ jobmon \in JmFields /\ jobmon.loop \in [JmLoops -> JmLoop] /\ jobmon.last \in Nat /\ jobmon.head \in Nat
      /\ jobmon.last <= jobmon.head /\ JmSent(jobmon, jobmon.last) /\ v \in JmLoop /\ k \in Nat /\ v.to \in Nat /\ jobmon.buffered \in Nat
      /\ jobmon.sent \in [1 .. MaxJobBlocks -> JmSents] /\ jobmon.events \subseteq 1 .. jobmon.head /\ jobmon.head <= MaxJobBlocks
      /\ MaxJobBlocks \in Nat
  BY JmFieldsOf, CcAssumption DEF JobMonOK
<1>2. v.pc = "send" /\ k <= v.to /\ v.to <= jobmon.head /\ k >= 1 /\ JmSent(jobmon, k - 1)
  BY DEF SendEvent, JobMonOK, JmLoopOK
<1>3. n \in Nat /\ r \in JmLoop /\ r.pc = "send" /\ r.from = n /\ r.to = v.to
  <2>1. n \in Nat  BY <1>1
  <2> HIDE DEF v, n
  <2> QED BY <1>1, <1>2, <2>1 DEF JmLoop
<1>4. n - 1 = k /\ n >= 1 /\ n <= v.to + 1  BY <1>1, <1>2
<1>5. f \in [JmLoops -> JmLoop] /\ f[l] = r /\ \A i \in JmLoops : i # l => f[i] = jobmon.loop[i]
  <2> HIDE DEF r
  <2> QED BY <1>1, <1>3
<1>6. CASE k \in jobmon.events
  <2> DEFINE b == IF jobmon.gone THEN jobmon.buffered ELSE jobmon.buffered + 1
             u == IF jobmon.gone /\ jobmon.sent[k] = "no" THEN "refused" ELSE
                  IF jobmon.gone THEN jobmon.sent[k] ELSE "taken"
             g == [jobmon.sent EXCEPT ![k] = u]
  <2>1. \/ ~jobmon.gone /\ jobmon' = [jobmon EXCEPT !.sent[k] = "taken", !.buffered = @ + 1, !.loop[l].from = @ + 1]
        \/ jobmon.gone /\ jobmon' = [jobmon EXCEPT !.sent[k] = IF @ = "no" THEN "refused" ELSE @, !.loop[l].from = @ + 1]
    BY <1>6 DEF SendEvent, JobMonStep
  <2>2. jobmon' = [jobmon EXCEPT !.sent = g, !.buffered = b, !.loop = f]  BY <1>1, <2>1 DEF JmFields
  <2>3. k \in 1 .. MaxJobBlocks /\ b \in Nat  BY <1>1, <1>2
  <2> HIDE DEF k
  <2>4. u \in JmSents /\ u # "no"  BY <1>1, <2>3 DEF JmSents
  <2> HIDE DEF u
  <2>5. g \in [1 .. MaxJobBlocks -> JmSents] /\ g[k] = u /\ \A i \in 1 .. MaxJobBlocks : i # k => g[i] = jobmon.sent[i]
    BY <1>1, <2>3, <2>4
  <2> HIDE DEF f, g, b
  <2>6. jobmon' \in JmFields /\ jobmon'.head = jobmon.head /\ jobmon'.events = jobmon.events
        /\ jobmon'.sent = g /\ jobmon'.last = jobmon.last /\ jobmon'.loop = f
    BY <1>1, <1>5, <2>2, <2>3, <2>5 DEF JmFields
  <2>7. \A i \in jobmon.events : i \in 1 .. MaxJobBlocks  BY <1>1
  <2>8. (\A i \in jobmon.events : jobmon.sent[i] # "no" => g[i] # "no") /\ g[k] # "no"  BY <2>4, <2>5, <2>7
  <2>9. JmSent(jobmon', jobmon'.last)  BY <1>1, <2>6, <2>8 DEF JmSent
  <2>10. \A i \in jobmon.events : i <= k => i = k \/ i <= k - 1  BY <1>1, <2>3, <2>7
  <2>11. JmSent(jobmon', k)  BY <1>2, <2>6, <2>8, <2>10 DEF JmSent
  <2> HIDE DEF n, r, v
  <2>12. JmLoopOK(jobmon', jobmon'.loop[l])  BY <1>2, <1>3, <1>4, <1>5, <2>6, <2>11 DEF JmLoopOK
  <2> QED BY <1>1, <1>5, <2>6, <2>8, <2>9, <2>12, JmMoves
<1>7. CASE k \notin jobmon.events
  <2>1. jobmon' = [jobmon EXCEPT !.loop[l].from = @ + 1]  BY <1>7 DEF SendEvent, JobMonStep
  <2>2. jobmon' = [jobmon EXCEPT !.loop = f]  BY <1>1, <2>1 DEF JmFields
  <2> HIDE DEF f, k, n, r, v
  <2>6. jobmon' \in JmFields /\ jobmon'.head = jobmon.head /\ jobmon'.events = jobmon.events
        /\ jobmon'.sent = jobmon.sent /\ jobmon'.last = jobmon.last /\ jobmon'.loop = f
    BY <1>1, <1>5, <2>2 DEF JmFields
  <2>9. JmSent(jobmon', jobmon'.last)  BY <1>1, <2>6 DEF JmSent
  <2>10. \A i \in jobmon.events : i <= k => i <= k - 1  BY <1>1, <1>7
  <2>11. JmSent(jobmon', k)  BY <1>2, <2>6, <2>10 DEF JmSent
  <2>12. JmLoopOK(jobmon', jobmon'.loop[l])  BY <1>2, <1>3, <1>4, <1>5, <2>6, <2>11 DEF JmLoopOK
  <2> QED BY <1>1, <1>5, <2>6, <2>9, <2>12, JmMoves
<1> QED BY <1>6, <1>7

LEMMA RangeDoneKeeps == ASSUME JobMonOK(jobmon), NEW l \in JmLoops, RangeDone(l) PROVE JobMonOK(jobmon')
<1> DEFINE v == jobmon.loop[l]
           d == v.to
           r == [v EXCEPT !.pc = "idle"]
           f == [jobmon.loop EXCEPT ![l] = r]
<1>1. /\ jobmon \in JmFields /\ jobmon.loop \in [JmLoops -> JmLoop] /\ jobmon.head \in Nat /\ v \in JmLoop
      /\ d \in Nat /\ v.from \in Nat /\ jobmon.events \subseteq Nat
  BY JmFieldsOf DEF JobMonOK
<1>2. v.pc = "send" /\ v.from > d /\ d <= jobmon.head /\ JmSent(jobmon, v.from - 1)
      /\ jobmon' = [jobmon EXCEPT !.last = d, !.loop[l].pc = "idle"]
  BY DEF RangeDone, JobMonStep, JobMonOK, JmLoopOK
<1>3. r \in JmLoop /\ r.pc = "idle"
  <2> HIDE DEF v
  <2> QED BY <1>1 DEF JmLoop
<1>4. jobmon' = [jobmon EXCEPT !.last = d, !.loop = f]  BY <1>1, <1>2 DEF JmFields
<1>5. f \in [JmLoops -> JmLoop] /\ f[l] = r /\ \A i \in JmLoops : i # l => f[i] = jobmon.loop[i]
  <2> HIDE DEF r
  <2> QED BY <1>1, <1>3
<1> HIDE DEF f, d, r, v
<1>6. jobmon' \in JmFields /\ jobmon'.head = jobmon.head /\ jobmon'.events = jobmon.events
      /\ jobmon'.sent = jobmon.sent /\ jobmon'.last = d /\ jobmon'.loop = f
  BY <1>1, <1>4, <1>5 DEF JmFields
<1>7. \A i \in jobmon.events : i <= d => i <= v.from - 1  BY <1>1, <1>2
<1>8. JmSent(jobmon', d)  BY <1>2, <1>6, <1>7 DEF JmSent
<1>9. JmLoopOK(jobmon', jobmon'.loop[l])  BY <1>3, <1>5, <1>6 DEF JmLoopOK
<1> QED BY <1>2, <1>5, <1>6, <1>8, <1>9, JmMoves

LEMMA JobMonSteps == ASSUME JobMonOK(jobmon), JobMonNext PROVE JobMonOK(jobmon')
<1>1. CASE JobMonStop \/ JobBlock \/ JobReceived \/ DropJobReceiver  BY <1>1, JmOutside, JobBlockKeeps
<1>2. CASE \E l \in JmLoops :
             JobMonStart(l) \/ LoopEnds(l) \/ ProcessEvents(l) \/ ProcessFails(l) \/ SendEvent(l) \/ RangeDone(l)
  BY <1>2, JmStarts, ProcessEventsKeeps, SendEventKeeps, RangeDoneKeeps
<1> QED BY <1>1, <1>2 DEF JobMonNext, JmLoops

LEMMA JobMonSafe == ASSUME JobMonOK(jobmon) PROVE NoJobEventSkipped /\ jobmon \in JobMonitorState
  BY JmFieldsAre DEF JobMonOK, JmSent, NoJobEventSkipped

-----------------------------------------------------------------------------
(* ProofSubmitter: every call has its share of failures.                   *)

SubmitsOK(s) ==
    /\ s \in SubmitState
    /\ s.pc = "submit" => s.attempts < MaxSubmits /\ s.ops >= 1 /\ s.retries <= MaxSubmits * (s.ops - 1) + s.attempts
    /\ s.pc # "submit" => s.retries <= MaxSubmits * s.ops

LEMMA SubmitsInitial == ASSUME CcInit PROVE SubmitsOK(submits)
<1>1. submits = [attempts |-> 0, retries |-> 0, done |-> 0, pc |-> "idle", ops |-> 0]  BY DEF CcInit
<1> QED BY <1>1, CcAssumption DEF SubmitsOK, SubmitState

LEMMA SubmitsSteps == ASSUME SubmitsOK(submits), SubmitBegins \/ SubmitOk \/ SubmitError PROVE SubmitsOK(submits')
<1> DEFINE a == submits.attempts + 1
           n == submits.retries + 1
           d == submits.done + 1
           m == submits.ops + 1
<1>1. /\ submits \in SubmitState /\ submits.attempts \in Nat /\ submits.retries \in Nat /\ submits.done \in Nat
      /\ submits.ops \in Nat /\ a \in Nat /\ n \in Nat /\ d \in Nat /\ m \in Nat /\ MaxSubmits \in Nat /\ MaxSubmits > 0
  BY CcAssumption DEF SubmitsOK, SubmitState
<1>2. CASE SubmitBegins
  <2>1. submits.pc # "submit" /\ submits' = [submits EXCEPT !.pc = "submit", !.attempts = 0, !.ops = m]
    BY <1>1, <1>2 DEF SubmitBegins, SubmitStep, SubmitState
  <2>2. submits.retries <= MaxSubmits * submits.ops /\ m - 1 = submits.ops /\ m >= 1  BY <1>1, <2>1 DEF SubmitsOK
  <2> HIDE DEF m
  <2>3. submits' \in SubmitState /\ submits'.pc = "submit" /\ submits'.attempts = 0 /\ submits'.ops = m
        /\ submits'.retries = submits.retries
    BY <1>1, <2>1 DEF SubmitState
  <2>4. MaxSubmits * submits.ops \in Nat  BY <1>1
  <2>5. submits.retries <= MaxSubmits * (m - 1) + 0  BY <1>1, <2>2, <2>4
  <2> QED BY <1>1, <2>2, <2>3, <2>5 DEF SubmitsOK
<1>3. CASE SubmitOk
  <2>1. submits.pc = "submit" /\ submits' = [submits EXCEPT !.pc = "idle", !.done = d]
    BY <1>1, <1>3 DEF SubmitOk, SubmitStep, SubmitState
  <2>2. submits.attempts < MaxSubmits /\ submits.retries <= MaxSubmits * (submits.ops - 1) + submits.attempts
    BY <2>1 DEF SubmitsOK
  <2> HIDE DEF d
  <2>3. submits' \in SubmitState /\ submits'.pc = "idle" /\ submits'.ops = submits.ops /\ submits'.retries = submits.retries
    BY <1>1, <2>1 DEF SubmitState
  <2>4. MaxSubmits * (submits.ops - 1) = MaxSubmits * submits.ops - MaxSubmits /\ MaxSubmits * submits.ops \in Nat
    BY <1>1
  <2>5. submits.retries <= MaxSubmits * submits.ops  BY <1>1, <2>2, <2>4
  <2> QED BY <2>3, <2>5 DEF SubmitsOK
<1>4. CASE SubmitError
  <2> DEFINE p == IF a >= MaxSubmits THEN "failed" ELSE "submit"
  <2>1. submits.pc = "submit" /\ submits' = [submits EXCEPT !.attempts = a, !.retries = n, !.pc = p]
    BY <1>1, <1>4 DEF SubmitError, SubmitStep, SubmitState
  <2>2. submits.attempts < MaxSubmits /\ submits.retries <= MaxSubmits * (submits.ops - 1) + submits.attempts /\ submits.ops >= 1
    BY <2>1 DEF SubmitsOK
  <2>x. p \in {"failed", "submit"} /\ (p = "submit" => a < MaxSubmits)  BY <1>1
  <2>4. MaxSubmits * (submits.ops - 1) = MaxSubmits * submits.ops - MaxSubmits /\ MaxSubmits * submits.ops \in Nat
    BY <1>1
  <2>5. n <= MaxSubmits * (submits.ops - 1) + a /\ n <= MaxSubmits * submits.ops  BY <1>1, <2>2, <2>4
  <2> HIDE DEF a, n, p
  <2>3. submits' \in SubmitState /\ submits'.pc = p /\ submits'.ops = submits.ops /\ submits'.retries = n /\ submits'.attempts = a
    BY <1>1, <2>1, <2>x DEF SubmitState
  <2> QED BY <2>2, <2>3, <2>5, <2>x DEF SubmitsOK
<1> QED BY <1>2, <1>3, <1>4

LEMMA SubmitsSafe == ASSUME SubmitsOK(submits) PROVE SubmitsBounded /\ submits \in SubmitState
<1>1. submits.ops \in Nat /\ submits.retries \in Nat /\ submits.attempts \in Nat /\ MaxSubmits \in Nat /\ submits \in SubmitState
  BY CcAssumption DEF SubmitsOK, SubmitState
<1>2. MaxSubmits * (submits.ops - 1) = MaxSubmits * submits.ops - MaxSubmits /\ MaxSubmits * submits.ops \in Nat
  BY <1>1
<1>3. submits.retries <= MaxSubmits * submits.ops  BY <1>1, <1>2 DEF SubmitsOK
<1> QED BY <1>1, <1>3 DEF SubmitsBounded

-----------------------------------------------------------------------------
(* ModelRegistryClient and MultiChainProvider.                             *)

ApprovalsOK == approvals \in ApprovalState /\ DOMAIN approvals.models \subseteq {1, 2} /\ ValidatedIsApproved

LEMMA ApprovalsInitial == ASSUME CcInit PROVE ApprovalsOK
<1>1. CASE ccPart = "models"
  <2>1. PICK n \in 1 .. 2 : \E ms \in [1 .. n -> ApprovedModel], d \in [CcFiles -> CcHashes \cup {"absent"}] :
             approvals = [models |-> ms, disk |-> d, verdict |-> "none", ids |-> {}, checked |-> {}]  BY <1>1 DEF CcInit
  <2>2. PICK ms \in [1 .. n -> ApprovedModel], d \in [CcFiles -> CcHashes \cup {"absent"}] :
             approvals = [models |-> ms, disk |-> d, verdict |-> "none", ids |-> {}, checked |-> {}]  BY <2>1
  <2>3. ms \in Seq(ApprovedModel) /\ DOMAIN ms \subseteq {1, 2}  BY <2>2
  <2> QED BY <2>2, <2>3 DEF ApprovalsOK, ApprovalState, ValidatedIsApproved
<1>2. CASE ccPart # "models"
  <2>1. approvals = [models |-> <<>>, disk |-> [f \in CcFiles |-> "absent"], verdict |-> "none", ids |-> {}, checked |-> {}]
    BY <1>2 DEF CcInit
  <2> QED BY <2>1 DEF ApprovalsOK, ApprovalState, ValidatedIsApproved
<1> QED BY <1>1, <1>2

\* The entry of the map is a model of that name.
LEMMA FilenameMapIs ==
    ASSUME NEW f \in CcFiles, DOMAIN approvals.models \subseteq {1, 2}
    PROVE  /\ FilenameMap(f) \in Nat
           /\ FilenameMap(f) # 0 => approvals.models[FilenameMap(f)].file = f
<1> DEFINE is == {i \in DOMAIN approvals.models : approvals.models[i].file = f}
           k == IF 2 \in is THEN 2 ELSE 1
<1>1. CASE is = {}  BY <1>1 DEF FilenameMap
<1>2. CASE is # {}
  <2>1. is \subseteq {1, 2}  OBVIOUS
  <2>2. k \in is /\ \A j \in is : j <= k  BY <1>2, <2>1
  <2>3. FilenameMap(f) = CHOOSE i \in is : \A j \in is : j <= i  BY <1>2 DEF FilenameMap
  <2> HIDE DEF is
  <2>4. FilenameMap(f) \in is  BY <2>2, <2>3
  <2> QED BY <2>1, <2>4 DEF is
<1> QED BY <1>1, <1>2

LEMMA ApprovalsSteps == ASSUME ApprovalsOK, NEW fs \in SUBSET CcFiles, ValidateModels(fs) PROVE ApprovalsOK'
<1> DEFINE ok == \A f \in fs : PathValid(f)
           v == IF ok THEN "ok" ELSE "error"
           is == IF ok THEN {FilenameMap(f) : f \in fs} ELSE {}
<1>1. approvals \in ApprovalState /\ DOMAIN approvals.models \subseteq {1, 2}  BY DEF ApprovalsOK
<1>2. approvals' = [approvals EXCEPT !.checked = fs, !.verdict = v, !.ids = is]  BY DEF ValidateModels
<1>3. v \in {"ok", "error"} /\ is \in SUBSET Nat  BY <1>1, FilenameMapIs
<1>4. ASSUME v = "ok", NEW f \in fs
      PROVE  \E i \in is : approvals.models[i].file = f /\ approvals.disk[f] \in {"absent", approvals.models[i].hash}
  <2>1. ok /\ PathValid(f)  BY <1>4
  <2>2. FilenameMap(f) \in is  BY <2>1
  <2> QED BY <1>1, <2>1, <2>2, FilenameMapIs DEF PathValid
<1> HIDE DEF v, is, ok
<1>5. approvals' \in ApprovalState /\ approvals'.models = approvals.models /\ approvals'.disk = approvals.disk
      /\ approvals'.verdict = v /\ approvals'.ids = is /\ approvals'.checked = fs
  BY <1>1, <1>2, <1>3 DEF ApprovalState
<1> QED BY <1>1, <1>4, <1>5 DEF ApprovalsOK, ValidatedIsApproved

RpcOK(s) == s \in ProviderState /\ s.index \in {0, 1}

LEMMA RpcInitial == ASSUME CcInit PROVE RpcOK(rpcs)
<1>1. PICK b \in SUBSET CcChains, on \in BOOLEAN :
         rpcs = [entry |-> [c \in CcChains |-> [health |-> "healthy", primary |-> TRUE]], backup |-> b,
                 failover |-> on, requests |-> 0, retries |-> 0, index |-> 0, ops |-> 0]  BY DEF CcInit
<1>2. [c \in CcChains |-> [health |-> "healthy", primary |-> TRUE]] \in [CcChains -> ProviderEntry]
  BY DEF ProviderEntry
<1>3. 0 \in 0 .. RetryLimit  BY CcAssumption
<1> DEFINE e == [c \in CcChains |-> [health |-> "healthy", primary |-> TRUE]]
<1> HIDE DEF e
<1>4. rpcs = [entry |-> e, backup |-> b, failover |-> on, requests |-> 0, retries |-> 0, index |-> 0, ops |-> 0]
  BY <1>1 DEF e
<1> QED BY <1>2, <1>3, <1>4 DEF RpcOK, ProviderState, e

LEMMA EntrySteps ==
    ASSUME RpcOK(rpcs), NEW c \in CcChains, CheckProviderHealth(c) \/ TriggerFailover(c) PROVE RpcOK(rpcs')
<1> DEFINE m == rpcs.ops + 1
           v == rpcs.entry[c]
           o == [health |-> "healthy", primary |-> FALSE]
<1>1. rpcs \in ProviderState /\ m \in Nat /\ rpcs.entry \in [CcChains -> ProviderEntry] /\ v \in ProviderEntry
  BY DEF RpcOK, ProviderState
<1>2. PICK h \in {"healthy", "degraded", "unhealthy"} :
         \/ rpcs' = [[rpcs EXCEPT !.entry[c].health = h] EXCEPT !.ops = @ + 1]
         \/ rpcs' = [[rpcs EXCEPT !.entry[c] = IF c \in rpcs.backup THEN [health |-> "healthy", primary |-> FALSE]
                                               ELSE [@ EXCEPT !.health = "unhealthy"]] EXCEPT !.ops = @ + 1]
  BY DEF CheckProviderHealth, TriggerFailover, RpcOp, RpcStep
<1> DEFINE x == [v EXCEPT !.health = h]
           y == IF c \in rpcs.backup THEN o ELSE [v EXCEPT !.health = "unhealthy"]
           e1 == [rpcs.entry EXCEPT ![c] = x]
           e2 == [rpcs.entry EXCEPT ![c] = y]
<1>3. rpcs' = [rpcs EXCEPT !.entry = e1, !.ops = m] \/ rpcs' = [rpcs EXCEPT !.entry = e2, !.ops = m]
  <2>1. CASE rpcs' = [[rpcs EXCEPT !.entry[c].health = h] EXCEPT !.ops = @ + 1]  BY <1>1, <2>1 DEF ProviderState
  <2>2. CASE rpcs' = [[rpcs EXCEPT !.entry[c] = IF c \in rpcs.backup THEN [health |-> "healthy", primary |-> FALSE]
                                               ELSE [@ EXCEPT !.health = "unhealthy"]] EXCEPT !.ops = @ + 1]
    <3>1. rpcs' = [[rpcs EXCEPT !.entry[c] = y] EXCEPT !.ops = @ + 1]  BY <2>2, Zenon
    <3> HIDE DEF y
    <3> QED BY <1>1, <3>1 DEF ProviderState
  <2> QED BY <1>2, <2>1, <2>2
<1>4. x \in ProviderEntry /\ y \in ProviderEntry
  <2> HIDE DEF v
  <2> QED BY <1>1 DEF ProviderEntry
<1> HIDE DEF x, y, m, v
<1>5. e1 \in [CcChains -> ProviderEntry] /\ e2 \in [CcChains -> ProviderEntry]  BY <1>1, <1>4
<1> HIDE DEF e1, e2
<1>6. ASSUME NEW e \in [CcChains -> ProviderEntry], rpcs' = [rpcs EXCEPT !.entry = e, !.ops = m] PROVE RpcOK(rpcs')
  BY <1>1, <1>6 DEF RpcOK, ProviderState
<1> QED BY <1>3, <1>5, <1>6

LEMMA RequestSteps ==
    ASSUME RpcOK(rpcs), GetProviderWithRotation \/ ExecuteWithRetry \/ RetryFails \/ RetryOk PROVE RpcOK(rpcs')
<1> DEFINE m == rpcs.ops + 1
           q == rpcs.requests + 1
           k == rpcs.retries - 1
           i == 1 - rpcs.index
<1>1. rpcs \in ProviderState /\ rpcs.ops \in Nat /\ rpcs.requests \in Nat /\ rpcs.retries \in 0 .. RetryLimit /\ RetryLimit \in Nat
      /\ rpcs.index \in {0, 1}
  BY CcAssumption DEF RpcOK, ProviderState
<1>2. m \in Nat /\ q \in Nat /\ i \in {0, 1} /\ i \in Nat /\ (rpcs.retries > 0 => k \in 0 .. RetryLimit)
      /\ 0 \in 0 .. RetryLimit /\ RetryLimit \in 0 .. RetryLimit
  BY <1>1
<1>3. CASE GetProviderWithRotation
  <2>1. rpcs' = [rpcs EXCEPT !.requests = q, !.index = i, !.ops = m]
    BY <1>1, <1>3 DEF GetProviderWithRotation, RpcOp, RpcStep, ProviderState
  <2> HIDE DEF q, i, m
  <2> QED BY <1>1, <1>2, <2>1 DEF RpcOK, ProviderState
<1>4. CASE ExecuteWithRetry
  <2>1. rpcs' = [rpcs EXCEPT !.requests = q, !.retries = RetryLimit, !.ops = m]
    BY <1>1, <1>4 DEF ExecuteWithRetry, RpcOp, RpcStep, ProviderState
  <2> HIDE DEF q, m
  <2> QED BY <1>1, <1>2, <2>1 DEF RpcOK, ProviderState
<1>5. CASE RetryFails
  <2>1. rpcs.retries > 0 /\ rpcs' = [rpcs EXCEPT !.retries = k]  BY <1>1, <1>5 DEF RetryFails, RpcStep, ProviderState
  <2> HIDE DEF k
  <2> QED BY <1>1, <1>2, <2>1 DEF RpcOK, ProviderState
<1>6. CASE RetryOk
  <2>1. rpcs' = [rpcs EXCEPT !.retries = 0]  BY <1>6 DEF RetryOk, RpcStep
  <2> QED BY <1>1, <1>2, <2>1 DEF RpcOK, ProviderState
<1> QED BY <1>3, <1>4, <1>5, <1>6

-----------------------------------------------------------------------------
(* The clients of the chain together.                                      *)

CcInv == Web3OK(web3) /\ JobMonOK(jobmon) /\ SubmitsOK(submits) /\ ApprovalsOK /\ RpcOK(rpcs)

LEMMA CcInitial == CcInit => CcInv
  BY Web3Initial, JobMonInitial, SubmitsInitial, ApprovalsInitial, RpcInitial DEF CcInv

LEMMA Web3Leaves == ASSUME Web3Next PROVE UNCHANGED <<jobmon, submits, approvals, rpcs>>
  BY DEF Web3Next, SetWallet, UpdateRpcUrl, Web3Block, SendTransaction, PollReceipt, PollDepth, SubscribeBlocks, StreamPolls,
         StreamSends, SwitchNetwork, Web3Op, Web3Step
LEMMA JobMonLeaves == ASSUME JobMonNext PROVE UNCHANGED <<web3, submits, approvals, rpcs>>
  BY DEF JobMonNext, JobMonStop, JobBlock, JobReceived, DropJobReceiver, JobMonStart, LoopEnds, ProcessEvents, ProcessFails, SendEvent, RangeDone,
         JobMonStep
LEMMA SubmitLeaves == ASSUME SubmitBegins \/ SubmitOk \/ SubmitError PROVE UNCHANGED <<web3, jobmon, approvals, rpcs>>
  BY DEF SubmitBegins, SubmitOk, SubmitError, SubmitStep
LEMMA RpcLeaves == ASSUME ProviderNext PROVE UNCHANGED <<web3, jobmon, submits, approvals>>
  BY DEF ProviderNext, CheckProviderHealth, TriggerFailover, GetProviderWithRotation, ExecuteWithRetry, RetryFails, RetryOk, RpcOp,
         RpcStep

LEMMA CcStep == ASSUME CcInv, [CcNext]_ccVars PROVE CcInv'
<1>1. CASE Web3Next  BY <1>1, Web3Steps, Web3Leaves DEF CcInv, ApprovalsOK, ValidatedIsApproved
<1>2. CASE JobMonNext  BY <1>2, JobMonSteps, JobMonLeaves DEF CcInv, ApprovalsOK, ValidatedIsApproved
<1>3. CASE SubmitBegins \/ SubmitOk \/ SubmitError
  BY <1>3, SubmitsSteps, SubmitLeaves DEF CcInv, ApprovalsOK, ValidatedIsApproved
<1>4. CASE ProviderNext
  <2>1. RpcOK(rpcs')  BY <1>4, EntrySteps, RequestSteps DEF CcInv, ProviderNext
  <2> QED BY <1>4, <2>1, RpcLeaves DEF CcInv, ApprovalsOK, ValidatedIsApproved
<1>5. ASSUME NEW fs \in SUBSET CcFiles, ValidateModels(fs) PROVE CcInv'
  <2>1. UNCHANGED <<web3, jobmon, submits, rpcs>>  BY <1>5 DEF ValidateModels
  <2>2. ApprovalsOK'  BY <1>5, ApprovalsSteps DEF CcInv
  <2> QED BY <2>1, <2>2 DEF CcInv
<1>6. CASE UNCHANGED ccVars  BY <1>6 DEF CcInv, ccVars, ApprovalsOK, ValidatedIsApproved
<1> QED BY <1>1, <1>2, <1>3, <1>4, <1>5, <1>6 DEF CcNext

LEMMA CcSafe == ASSUME CcInv PROVE NoJobEventSkipped /\ Web3Consistent /\ SubmitsBounded /\ ValidatedIsApproved /\ CcTypeOK
  BY Web3Safe, JobMonSafe, SubmitsSafe DEF CcInv, ApprovalsOK, RpcOK, CcTypeOK

-----------------------------------------------------------------------------
(* Submissions: past the upload a task has the CID of its proof, and a     *)
(* success that waited has seen its transaction mined.                     *)

SubTaskOK(r, stored) ==
    /\ r.pc # "idle" => r.job \in SubJobs
    /\ r.pc \in {"query", "cache", "send", "receipt"} => r.proof \in stored /\ r.cid = r.proof
    /\ r.pc # "done" => r.result = "none"
MinedFor(t, r, all) == r.waits /\ r.result = "ok" => \E tx \in all : tx.by = t /\ tx.call.hash = r.proof /\ tx.status = "mined"

SubInv ==
    /\ SubTypeOK
    /\ \A t \in SubTasks : SubTaskOK(subTask[t], uploaded) /\ MinedFor(t, subTask[t], txs)
    /\ \A tx \in txs : tx.call.hash \in uploaded /\ tx.call.cid = tx.call.hash
    /\ \A j \in SubJobs : \A e \in subCache[j] : e.hash \in uploaded /\ e.cid = e.hash

LEMMA SubSafe == ASSUME SubInv PROVE NamedProofIsStored /\ SubTypeOK
<1>1. \A t \in SubTasks : subTask[t].waits /\ subTask[t].result = "ok" => \E tx \in TxOf(t) : tx.status = "mined"
  BY DEF SubInv, MinedFor, TxOf
<1> QED BY <1>1 DEF SubInv, NamedProofIsStored

LEMMA SubIdleIs == SubTaskIdle \in SubTaskType /\ SubTaskIdle.pc = "idle" /\ SubTaskIdle.result = "none" /\ 0 \in Proofs
  BY SubAssumption DEF SubTaskIdle, SubTaskType, Proofs

LEMMA SubInitial == SubInit => SubInv
<1> SUFFICES ASSUME SubInit PROVE SubInv  OBVIOUS
<1>1. /\ subTask = [t \in SubTasks |-> SubTaskIdle] /\ proofCount = 0 /\ uploaded = {}
      /\ proofPath = [j \in SubJobs |-> 0] /\ subCache = [j \in SubJobs |-> {}] /\ txs = {} /\ subNow = 0
  BY DEF SubInit
<1>2. SubTypeOK  BY <1>1, SubIdleIs, SubAssumption DEF SubTypeOK
<1>3. \A t \in SubTasks : SubTaskOK(subTask[t], uploaded) /\ MinedFor(t, subTask[t], txs)
  BY <1>1, SubIdleIs DEF SubTaskOK, MinedFor
<1> QED BY <1>1, <1>2, <1>3 DEF SubInv

\* One task moves on, and more may be uploaded.
LEMMA SubMoves ==
    ASSUME SubInv, NEW t \in SubTasks, NEW r \in SubTaskType, subTask' = [subTask EXCEPT ![t] = r], SubTaskOK(r, uploaded'),
           MinedFor(t, r, txs), proofCount' \in Proofs, uploaded' \subseteq Proofs, uploaded \subseteq uploaded',
           proofPath' \in [SubJobs -> Proofs], UNCHANGED <<subCache, txs, subNow>>
    PROVE  SubInv'
<1>1. subTask \in [SubTasks -> SubTaskType]  BY DEF SubInv, SubTypeOK
<1>2. subTask' \in [SubTasks -> SubTaskType] /\ subTask'[t] = r /\ \A u \in SubTasks : u # t => subTask'[u] = subTask[u]
  BY <1>1
<1>3. SubTypeOK'  BY <1>2 DEF SubInv, SubTypeOK
<1>4. \A u \in SubTasks : SubTaskOK(subTask'[u], uploaded') /\ MinedFor(u, subTask'[u], txs')
  <2>1. \A u \in SubTasks : SubTaskOK(subTask[u], uploaded) => SubTaskOK(subTask[u], uploaded')  BY DEF SubTaskOK
  <2> QED BY <1>2, <2>1 DEF SubInv
<1> QED BY <1>3, <1>4 DEF SubInv

LEMMA SubTaskOf ==
    ASSUME SubInv, NEW t \in SubTasks
    PROVE  subTask[t] \in SubTaskType /\ SubTaskOK(subTask[t], uploaded) /\ MinedFor(t, subTask[t], txs)
  BY DEF SubInv, SubTypeOK

\* The task goes to another place, or returns.
LEMMA SubGoes ==
    ASSUME SubInv, NEW t \in SubTasks, NEW pc \in {"query", "cache", "send", "receipt"},
           subTask[t].pc \in {"query", "cache", "send", "receipt"}, SubGo(t, pc)
    PROVE  /\ subTask' = [subTask EXCEPT ![t] = [subTask[t] EXCEPT !.pc = pc]]
           /\ [subTask[t] EXCEPT !.pc = pc] \in SubTaskType
           /\ SubTaskOK([subTask[t] EXCEPT !.pc = pc], uploaded)
           /\ [subTask[t] EXCEPT !.pc = pc].result = "none"
<1> DEFINE v == subTask[t]
<1>1. v \in SubTaskType /\ SubTaskOK(v, uploaded) /\ v.pc \in {"query", "cache", "send", "receipt"}  BY SubTaskOf
<1>2. subTask' = [subTask EXCEPT ![t] = [v EXCEPT !.pc = pc]]  BY DEF SubGo, SubInv, SubTypeOK
<1> HIDE DEF v
<1> DEFINE r == [v EXCEPT !.pc = pc]
<1>3. r \in SubTaskType /\ r.pc = pc /\ r.job = v.job /\ r.proof = v.proof /\ r.cid = v.cid /\ r.result = v.result
  BY <1>1 DEF SubTaskType
<1> HIDE DEF r
<1>4. SubTaskOK(r, uploaded) /\ r.result = "none"  BY <1>1, <1>3 DEF SubTaskOK
<1> QED BY <1>2, <1>3, <1>4, Zenon DEF r, v

LEMMA SubDone ==
    ASSUME SubInv, NEW t \in SubTasks, NEW x \in {"ok", "late", "error"}, subTask[t].pc # "idle", SubReturns(t, x)
    PROVE  \E r \in SubTaskType : /\ subTask' = [subTask EXCEPT ![t] = r] /\ SubTaskOK(r, uploaded)
                                  /\ r.result = x /\ r.waits = subTask[t].waits /\ r.proof = subTask[t].proof
<1> DEFINE v == subTask[t]
           r == [v EXCEPT !.pc = "done", !.result = x]
<1>1. v \in SubTaskType /\ SubTaskOK(v, uploaded) /\ v.pc # "idle"  BY SubTaskOf
<1>2. subTask' = [subTask EXCEPT ![t] = r]  BY DEF SubReturns
<1> HIDE DEF v
<1>3. r \in SubTaskType /\ r.pc = "done" /\ r.job = v.job /\ r.proof = v.proof /\ r.result = x /\ r.waits = v.waits
  BY <1>1 DEF SubTaskType
<1> HIDE DEF r
<1>4. SubTaskOK(r, uploaded)  BY <1>1, <1>3 DEF SubTaskOK
<1> QED BY <1>2, <1>3, <1>4 DEF v

LEMMA GenerateProofKeeps ==
    ASSUME SubInv, NEW t \in SubTasks, NEW j \in SubJobs, NEW waits \in BOOLEAN, GenerateProof(t, j, waits) PROVE SubInv'
<1> DEFINE k == proofCount + 1
           r == [SubTaskIdle EXCEPT !.pc = "upload", !.job = j, !.waits = waits, !.proof = k]
<1>1. proofCount \in Proofs /\ proofCount < MaxProofs /\ proofCount' = k /\ subTask' = [subTask EXCEPT ![t] = r]
      /\ UNCHANGED <<uploaded, proofPath, subCache, txs, subNow>>
  BY DEF GenerateProof, SubInv, SubTypeOK
<1>2. k \in Proofs  BY <1>1, SubAssumption DEF Proofs
<1> HIDE DEF k
<1>3. r \in SubTaskType /\ r.pc = "upload" /\ r.job = j /\ r.result = "none"  BY <1>2, SubIdleIs DEF SubTaskType
<1> HIDE DEF r
<1>4. SubTaskOK(r, uploaded') /\ MinedFor(t, r, txs)  BY <1>3 DEF SubTaskOK, MinedFor
<1>5. uploaded' \subseteq Proofs /\ uploaded \subseteq uploaded' /\ proofPath' \in [SubJobs -> Proofs]
  BY <1>1 DEF SubInv, SubTypeOK
<1> QED BY <1>1, <1>2, <1>3, <1>4, <1>5, SubMoves

\* A step that ends a submission with an error, or late.
LEMMA SubFails ==
    ASSUME SubInv, NEW t \in SubTasks, NEW x \in {"late", "error"}, subTask[t].pc # "idle", SubReturns(t, x),
           UNCHANGED <<proofCount, uploaded, proofPath, subCache, txs, subNow>>
    PROVE  SubInv'
<1>1. PICK r \in SubTaskType : subTask' = [subTask EXCEPT ![t] = r] /\ SubTaskOK(r, uploaded) /\ r.result = x
  BY SubDone
<1>2. MinedFor(t, r, txs)  BY <1>1 DEF MinedFor
<1>3. proofCount' \in Proofs /\ uploaded' \subseteq Proofs /\ uploaded \subseteq uploaded' /\ proofPath' \in [SubJobs -> Proofs]
      /\ SubTaskOK(r, uploaded')
  BY <1>1 DEF SubInv, SubTypeOK
<1> QED BY <1>1, <1>2, <1>3, SubMoves

LEMMA UploadProofKeeps == ASSUME SubInv, NEW t \in SubTasks, NEW ok \in BOOLEAN, UploadProof(t, ok) PROVE SubInv'
<1>1. subTask[t].pc = "upload" /\ UNCHANGED <<proofCount, subCache, txs, subNow>>  BY DEF UploadProof, SubAt
<1>2. CASE ok
  <2> DEFINE v == subTask[t]
             p == v.proof
             r == [v EXCEPT !.pc = "query", !.cid = p]
  <2>1. /\ uploaded' = uploaded \cup {p} /\ proofPath' = [proofPath EXCEPT ![v.job] = p]
        /\ subTask' = [subTask EXCEPT ![t] = r]
    BY <1>2 DEF UploadProof
  <2>2. v \in SubTaskType /\ SubTaskOK(v, uploaded) /\ v.pc = "upload" /\ p \in Proofs
    <3>1. v \in SubTaskType /\ SubTaskOK(v, uploaded) /\ v.pc = "upload"  BY <1>1, SubTaskOf
    <3> HIDE DEF v
    <3> QED BY <3>1 DEF SubTaskType
  <2> HIDE DEF v, p
  <2>3. r \in SubTaskType /\ r.pc = "query" /\ r.job = v.job /\ r.proof = v.proof /\ r.cid = p /\ r.result = v.result
    BY <2>2 DEF SubTaskType
  <2> HIDE DEF r
  <2>4. SubTaskOK(r, uploaded') /\ MinedFor(t, r, txs)  BY <2>1, <2>2, <2>3 DEF SubTaskOK, MinedFor, p
  <2>5. uploaded' \subseteq Proofs /\ uploaded \subseteq uploaded' /\ proofPath' \in [SubJobs -> Proofs] /\ proofCount' \in Proofs
    BY <1>1, <2>1, <2>2 DEF SubInv, SubTypeOK
  <2> QED BY <1>1, <2>1, <2>3, <2>4, <2>5, SubMoves
<1>3. CASE ~ok
  <2>1. SubReturns(t, "error") /\ UNCHANGED <<uploaded, proofPath>>  BY <1>3 DEF UploadProof
  <2> QED BY <1>1, <2>1, SubFails
<1> QED BY <1>2, <1>3

LEMMA QueryKeeps ==
    ASSUME SubInv, NEW t \in SubTasks, NEW answer \in {"model", "short", "error"}, QuerySessionModel(t, answer) PROVE SubInv'
<1>1. subTask[t].pc = "query" /\ UNCHANGED <<proofCount, uploaded, proofPath, subCache, txs, subNow>>
  BY DEF QuerySessionModel, SubAt
<1>2. SubReturns(t, "error") \/ SubGo(t, "send") \/ SubGo(t, "cache")  BY DEF QuerySessionModel
<1>3. CASE SubReturns(t, "error")  BY <1>1, <1>3, SubFails
<1>4. ASSUME NEW pc \in {"send", "cache"}, SubGo(t, pc) PROVE SubInv'
  <2> DEFINE r == [subTask[t] EXCEPT !.pc = pc]
  <2>1. subTask' = [subTask EXCEPT ![t] = r] /\ r \in SubTaskType /\ SubTaskOK(r, uploaded) /\ r.result = "none"
    BY <1>1, <1>4, SubGoes
  <2> HIDE DEF r
  <2>2. proofCount' \in Proofs /\ uploaded' \subseteq Proofs /\ uploaded \subseteq uploaded' /\ proofPath' \in [SubJobs -> Proofs]
        /\ SubTaskOK(r, uploaded') /\ MinedFor(t, r, txs)
    BY <1>1, <2>1 DEF SubInv, SubTypeOK, MinedFor
  <2> QED BY <1>1, <2>1, <2>2, SubMoves
<1> QED BY <1>2, <1>3, <1>4

LEMMA CacheProofKeeps == ASSUME SubInv, NEW t \in SubTasks, CacheProof(t) PROVE SubInv'
<1> DEFINE v == subTask[t]
           r == [subTask[t] EXCEPT !.pc = "send"]
           e == [hash |-> v.proof, cid |-> v.cid, at |-> subNow]
<1>1. v.pc = "cache" /\ SubGo(t, "send") /\ subCache' = [subCache EXCEPT ![v.job] = @ \cup {e}]
      /\ UNCHANGED <<proofCount, uploaded, proofPath, txs, subNow>>
  BY DEF CacheProof, SubAt
<1>2. subTask' = [subTask EXCEPT ![t] = r] /\ r \in SubTaskType /\ SubTaskOK(r, uploaded) /\ r.result = "none"
  BY <1>1, SubGoes
<1> HIDE DEF r
<1>3. v \in SubTaskType /\ v.job \in SubJobs /\ v.proof \in uploaded /\ v.cid = v.proof
  BY <1>1, SubTaskOf DEF SubTaskOK
<1> HIDE DEF v
<1>4. e \in [hash : Proofs, cid : Proofs, at : 0 .. MaxSubNow] /\ e.hash \in uploaded /\ e.cid = e.hash
  BY <1>3 DEF SubTaskType, SubInv, SubTypeOK
<1> HIDE DEF e
<1>5. subCache \in [SubJobs -> SUBSET [hash : Proofs, cid : Proofs, at : 0 .. MaxSubNow]]
      /\ subTask \in [SubTasks -> SubTaskType]
  BY DEF SubInv, SubTypeOK
<1>6. subCache' \in [SubJobs -> SUBSET [hash : Proofs, cid : Proofs, at : 0 .. MaxSubNow]]
      /\ \A j \in SubJobs : subCache'[j] \subseteq subCache[j] \cup {e}
  BY <1>1, <1>3, <1>4, <1>5
<1>7. subTask' \in [SubTasks -> SubTaskType] /\ subTask'[t] = r /\ \A u \in SubTasks : u # t => subTask'[u] = subTask[u]
  BY <1>2, <1>5
<1>8. SubTypeOK'  BY <1>1, <1>6, <1>7 DEF SubInv, SubTypeOK
<1>9. \A u \in SubTasks : SubTaskOK(subTask'[u], uploaded') /\ MinedFor(u, subTask'[u], txs')
  <2>1. MinedFor(t, r, txs)  BY <1>2 DEF MinedFor
  <2> QED BY <1>1, <1>2, <1>7, <2>1 DEF SubInv
<1>10. \A j \in SubJobs : \A x \in subCache'[j] : x.hash \in uploaded' /\ x.cid = x.hash  BY <1>1, <1>4, <1>6 DEF SubInv
<1> QED BY <1>1, <1>8, <1>9, <1>10 DEF SubInv

LEMMA SendCallKeeps ==
    ASSUME SubInv, NEW t \in SubTasks, NEW taken \in BOOLEAN, NEW ok \in BOOLEAN, SendCall(t, taken, ok) PROVE SubInv'
<1> DEFINE v == subTask[t]
           c == CheckpointCall(v.job, v.proof, v.cid)
           x == [call |-> c, status |-> "pending", by |-> t]
<1>1. v.pc = "send" /\ (txs' = txs \cup {x} \/ txs' = txs) /\ UNCHANGED <<proofCount, uploaded, proofPath, subCache, subNow>>
      /\ (SubReturns(t, "error") \/ (v.waits /\ SubGo(t, "receipt")) \/ (~v.waits /\ SubReturns(t, "ok")))
  BY DEF SendCall, SubAt
<1>2. v \in SubTaskType /\ v.job \in SubJobs /\ v.proof \in uploaded /\ v.cid = v.proof
  BY <1>1, SubTaskOf DEF SubTaskOK
<1>3. PICK r \in SubTaskType : subTask' = [subTask EXCEPT ![t] = r] /\ SubTaskOK(r, uploaded) /\ ~(r.waits /\ r.result = "ok")
  <2>1. CASE SubReturns(t, "error")  BY <1>1, <2>1, SubDone
  <2>2. CASE SubGo(t, "receipt")
    <3> DEFINE r == [subTask[t] EXCEPT !.pc = "receipt"]
    <3>1. subTask' = [subTask EXCEPT ![t] = r] /\ r \in SubTaskType /\ SubTaskOK(r, uploaded) /\ r.result = "none"
      BY <1>1, <2>2, SubGoes
    <3> HIDE DEF r
    <3> QED BY <3>1
  <2>3. CASE ~v.waits /\ SubReturns(t, "ok")  BY <1>1, <2>3, SubDone
  <2> QED BY <1>1, <2>1, <2>2, <2>3
<1> HIDE DEF v
<1>4. c \in [job : SubJobs, hash : Proofs, cid : Proofs] /\ c.hash = v.proof /\ c.cid = v.cid
  BY <1>2 DEF CheckpointCall, SubTaskType
<1> HIDE DEF c
<1>5. x \in Txs /\ x.call = c  BY <1>4 DEF Txs
<1> HIDE DEF x
<1>6. subTask \in [SubTasks -> SubTaskType]  BY DEF SubInv, SubTypeOK
<1>7. subTask' \in [SubTasks -> SubTaskType] /\ subTask'[t] = r /\ \A u \in SubTasks : u # t => subTask'[u] = subTask[u]
  BY <1>3, <1>6
<1>8. SubTypeOK'  BY <1>1, <1>5, <1>7 DEF SubInv, SubTypeOK
<1>9. \A u \in SubTasks : SubTaskOK(subTask'[u], uploaded') /\ MinedFor(u, subTask'[u], txs')
  <2>1. MinedFor(t, r, txs')  BY <1>3 DEF MinedFor
  <2>2. \A u \in SubTasks : u # t => MinedFor(u, subTask[u], txs')  BY <1>1 DEF MinedFor, SubInv
  <2> QED BY <1>1, <1>3, <1>7, <2>1, <2>2 DEF SubInv
<1>10. \A tx \in txs' : tx.call.hash \in uploaded' /\ tx.call.cid = tx.call.hash  BY <1>1, <1>2, <1>4, <1>5 DEF SubInv
<1> QED BY <1>1, <1>8, <1>9, <1>10 DEF SubInv

LEMMA TxIsMinedKeeps ==
    ASSUME SubInv, NEW tx \in txs, NEW st \in {"mined", "reverted"}, TxIsMined(tx, st) PROVE SubInv'
<1> DEFINE x == [tx EXCEPT !.status = st]
<1>1. tx.status = "pending" /\ txs' = (txs \ {tx}) \cup {x} /\ UNCHANGED <<subTask, proofCount, uploaded, proofPath, subCache, subNow>>
  BY DEF TxIsMined
<1>2. tx \in Txs  BY DEF SubInv, SubTypeOK
<1>3. x \in Txs /\ x.call = tx.call  BY <1>2 DEF Txs
<1> HIDE DEF x
<1>4. SubTypeOK'  BY <1>1, <1>3 DEF SubInv, SubTypeOK
<1>5. \A u \in SubTasks : MinedFor(u, subTask[u], txs')  BY <1>1 DEF SubInv, MinedFor
<1>6. \A y \in txs' : y.call.hash \in uploaded' /\ y.call.cid = y.call.hash  BY <1>1, <1>3 DEF SubInv
<1> QED BY <1>1, <1>4, <1>5, <1>6 DEF SubInv

LEMMA ReceiptKeeps == ASSUME SubInv, NEW t \in SubTasks, WaitForReceipt(t) PROVE SubInv'
<1>1. subTask[t].pc = "receipt" /\ UNCHANGED <<proofCount, uploaded, proofPath, subCache, txs, subNow>>
  BY DEF WaitForReceipt, SubAt
<1>2. PICK tx \in TxOf(t) : tx.status # "pending" /\ SubReturns(t, ReceiptResult(tx.status))  BY DEF WaitForReceipt
<1>3. CASE ReceiptResult(tx.status) = "error"  BY <1>1, <1>2, <1>3, SubFails
<1>4. CASE ReceiptResult(tx.status) # "error"
  <2>1. tx.status = "mined" /\ SubReturns(t, "ok") /\ tx \in txs /\ tx.by = t /\ tx.call.hash = subTask[t].proof
    BY <1>2, <1>4 DEF ReceiptResult, TxOf
  <2>2. PICK r \in SubTaskType : /\ subTask' = [subTask EXCEPT ![t] = r] /\ SubTaskOK(r, uploaded)
                                 /\ r.result = "ok" /\ r.waits = subTask[t].waits /\ r.proof = subTask[t].proof
    BY <1>1, <2>1, SubDone
  <2>3. MinedFor(t, r, txs)  BY <2>1, <2>2 DEF MinedFor
  <2>4. proofCount' \in Proofs /\ uploaded' \subseteq Proofs /\ uploaded \subseteq uploaded' /\ proofPath' \in [SubJobs -> Proofs]
        /\ SubTaskOK(r, uploaded')
    BY <1>1, <2>2 DEF SubInv, SubTypeOK
  <2> QED BY <1>1, <2>2, <2>3, <2>4, SubMoves
<1> QED BY <1>3, <1>4

LEMMA SubEndKeeps == ASSUME SubInv, NEW t \in SubTasks, ReceiptTimeout(t) \/ SubmissionEnds(t) PROVE SubInv'
<1>1. CASE ReceiptTimeout(t)  BY <1>1, SubFails DEF ReceiptTimeout, SubAt
<1>2. CASE SubmissionEnds(t)
  <2>1. subTask' = [subTask EXCEPT ![t] = SubTaskIdle] /\ UNCHANGED <<proofCount, uploaded, proofPath, subCache, txs, subNow>>
    BY <1>2 DEF SubmissionEnds
  <2>2. SubTaskOK(SubTaskIdle, uploaded') /\ MinedFor(t, SubTaskIdle, txs) /\ SubTaskIdle \in SubTaskType
    BY SubIdleIs DEF SubTaskOK, MinedFor
  <2>3. proofCount' \in Proofs /\ uploaded' \subseteq Proofs /\ uploaded \subseteq uploaded' /\ proofPath' \in [SubJobs -> Proofs]
    BY <2>1 DEF SubInv, SubTypeOK
  <2> QED BY <2>1, <2>2, <2>3, SubMoves
<1> QED BY <1>1, <1>2

\* The cache loses entries, or time passes.
LEMMA SubCacheKeeps ==
    ASSUME SubInv, SubTick \/ CleanupExpiredProofs \/ \E j \in SubJobs : CleanupProofs(j) PROVE SubInv'
<1> DEFINE C == SUBSET [hash : Proofs, cid : Proofs, at : 0 .. MaxSubNow]
<1>1. subCache \in [SubJobs -> C] /\ {} \in C /\ subNow \in 0 .. MaxSubNow  BY DEF SubInv, SubTypeOK
<1>2. CASE SubTick
  <2>1. subNow' \in 0 .. MaxSubNow /\ UNCHANGED <<subTask, proofCount, uploaded, proofPath, subCache, txs>>
    BY <1>1, <1>2, SubAssumption DEF SubTick
  <2> QED BY <2>1 DEF SubInv, SubTypeOK
<1>3. CASE CleanupExpiredProofs
  <2>1. subCache' = [j \in SubJobs |-> {e \in subCache[j] : ~ProofExpired(e)}]
        /\ UNCHANGED <<subTask, proofCount, uploaded, proofPath, txs, subNow>>
    BY <1>3 DEF CleanupExpiredProofs
  <2>2. \A j \in SubJobs : subCache[j] \in C /\ {e \in subCache[j] : ~ProofExpired(e)} \in C  BY <1>1
  <2> HIDE DEF C
  <2>3. subCache' \in [SubJobs -> C] /\ \A j \in SubJobs : subCache'[j] \subseteq subCache[j]  BY <2>1, <2>2
  <2> QED BY <2>1, <2>3 DEF SubInv, SubTypeOK, C
<1>4. ASSUME NEW j \in SubJobs, CleanupProofs(j) PROVE SubInv'
  <2>1. subCache' = [subCache EXCEPT ![j] = {}] /\ UNCHANGED <<subTask, proofCount, uploaded, proofPath, txs, subNow>>
    BY <1>4 DEF CleanupProofs
  <2> HIDE DEF C
  <2>3. subCache' \in [SubJobs -> C] /\ \A i \in SubJobs : subCache'[i] \subseteq subCache[i]  BY <1>1, <2>1
  <2> QED BY <2>1, <2>3 DEF SubInv, SubTypeOK, C
<1> QED BY <1>2, <1>3, <1>4

LEMMA SubStep == ASSUME SubInv, [SubNext]_subVars PROVE SubInv'
<1>1. CASE SubNext
  BY <1>1, SubCacheKeeps, TxIsMinedKeeps, CacheProofKeeps, ReceiptKeeps, SubEndKeeps, GenerateProofKeeps, UploadProofKeeps,
     SendCallKeeps, QueryKeeps, Zenon DEF SubNext
<1>2. CASE UNCHANGED subVars  BY <1>2 DEF SubInv, SubTypeOK, subVars
<1> QED BY <1>1, <1>2

-----------------------------------------------------------------------------
(* P2PNode: the times of the peers.                                        *)

PeerFields == [connected : SUBSET P2pPeers, discovered : SUBSET P2pPeers, seen : [P2pPeers -> Int]]

P2pInv ==
    /\ peers \in PeerFields /\ net \in [now : Nat, count : Nat]
    /\ PeersNotLeaked

LEMMA P2pInitial == P2pInit => P2pInv  BY DEF P2pInit, P2pInv, PeerFields, PeersNotLeaked

\* The loop's check of the peers forgets the times of those it expires.
LEMMA PeerCheckKeeps == ASSUME P2pInv, PeerCheck PROVE peers' \in PeerFields /\ PeersNotLeaked'
<1> DEFINE old == {p \in peers.discovered : IF peers.seen[p] >= 0 THEN net.now - peers.seen[p] > PeerExpiry
                                            ELSE p \notin peers.connected}
           d == peers.discovered \ old
           k == [p \in P2pPeers |-> IF p \in old THEN -1 ELSE peers.seen[p]]
<1>1. peers' = [peers EXCEPT !.discovered = d, !.seen = k]  BY Zenon DEF PeerCheck
<1>2. peers \in PeerFields /\ PeersNotLeaked  BY DEF P2pInv
<1> HIDE DEF old
<1>3. d \in SUBSET P2pPeers /\ k \in [P2pPeers -> Int]  BY <1>2 DEF PeerFields
<1>4. \A p \in P2pPeers : k[p] >= 0 => p \in peers.connected \cup d  BY <1>2 DEF PeersNotLeaked, PeerFields
<1> HIDE DEF d, k
<1> QED BY ONLY <1>1, <1>2, <1>3, <1>4 DEF PeerFields, PeersNotLeaked

LEMMA P2pStep == ASSUME P2pInv, [P2pNext]_p2pVars PROVE P2pInv'
<1>1. peers \in PeerFields /\ PeersNotLeaked /\ net \in [now : Nat, count : Nat]  BY DEF P2pInv
<1>2. CASE peers' = peers /\ net' = net  BY <1>1, <1>2 DEF P2pInv, PeersNotLeaked
<1>3. CASE peers' = peers /\ NetStep  BY <1>1, <1>3 DEF P2pInv, PeersNotLeaked, NetStep
<1>4. CASE P2pTick  BY <1>1, <1>4 DEF P2pInv, PeersNotLeaked, P2pTick
<1>5. CASE PeerCheck  BY <1>1, <1>5, PeerCheckKeeps DEF P2pInv, PeerCheck
<1>6. ASSUME NEW p \in P2pPeers, ConnectionEstablished(p) \/ ConnectionClosed(p) \/ MdnsDiscovered(p) \/ MdnsExpired(p)
      PROVE  P2pInv'
  <2>1. net' \in [now : Nat, count : Nat] /\ net.now \in Nat
    BY <1>1, <1>6 DEF ConnectionEstablished, ConnectionClosed, MdnsDiscovered, MdnsExpired, NetStep
  <2>2. ASSUME NEW c \in SUBSET P2pPeers, NEW d \in SUBSET P2pPeers, NEW k \in Int, k >= 0 => p \in c \cup d,
               peers.connected \ {p} \subseteq c, peers.discovered \ {p} \subseteq d,
               peers' = [peers EXCEPT !.connected = c, !.discovered = d, !.seen = [peers.seen EXCEPT ![p] = k]]
        PROVE  peers' \in PeerFields /\ PeersNotLeaked'
    <3>1. peers' \in PeerFields /\ peers'.connected = c /\ peers'.discovered = d /\ peers'.seen = [peers.seen EXCEPT ![p] = k]
      BY <1>1, <2>2 DEF PeerFields
    <3>2. peers.seen \in [P2pPeers -> Int]  BY <1>1 DEF PeerFields
    <3> QED BY <1>1, <2>2, <3>1, <3>2 DEF PeersNotLeaked
  <2>3. peers' \in PeerFields /\ PeersNotLeaked'
    <3> DEFINE more == peers.connected \cup {p}
               fewer == peers.connected \ {p}
               found == peers.discovered \cup {p}
               lost == peers.discovered \ {p}
    <3>1. /\ peers.connected \in SUBSET P2pPeers /\ peers.discovered \in SUBSET P2pPeers /\ -1 \in Int /\ net.now \in Int
          /\ more \in SUBSET P2pPeers /\ fewer \in SUBSET P2pPeers /\ found \in SUBSET P2pPeers /\ lost \in SUBSET P2pPeers
      BY <1>1, <2>1 DEF PeerFields
    <3>2. \/ peers' = [peers EXCEPT !.connected = more, !.discovered = peers.discovered, !.seen = [peers.seen EXCEPT ![p] = net.now]]
          \/ peers' = [peers EXCEPT !.connected = fewer, !.discovered = peers.discovered, !.seen = [peers.seen EXCEPT ![p] = -1]]
          \/ peers' = [peers EXCEPT !.connected = peers.connected, !.discovered = found, !.seen = [peers.seen EXCEPT ![p] = net.now]]
          \/ peers' = [peers EXCEPT !.connected = peers.connected, !.discovered = lost, !.seen = [peers.seen EXCEPT ![p] = -1]]
      BY <1>1, <1>6 DEF ConnectionEstablished, ConnectionClosed, MdnsDiscovered, MdnsExpired, PeerFields
    <3>3. /\ p \in more /\ p \in found /\ ~(-1 >= 0) /\ peers.connected \ {p} \subseteq fewer /\ peers.discovered \ {p} \subseteq lost
          /\ peers.connected \ {p} \subseteq more /\ peers.discovered \ {p} \subseteq found
      OBVIOUS
    <3> HIDE DEF more, fewer, found, lost
    <3> QED BY <2>2, <3>1, <3>2, <3>3
  <2> QED BY <2>1, <2>2, <2>3 DEF P2pInv
<1>7. ASSUME NEW c \in P2pCallers, ServeCall(c)
      PROVE  peers' = peers /\ net' = net
  BY <1>7 DEF ServeCall, ServeAtOnce, ServeEvent, ServeResponse, QueryEnds, ServeQuery, ServeRequest
<1>8. ASSUME NEW c \in P2pCallers, PeerResponse(c) \/ \E what \in Commands : Call(c, what)
      PROVE  peers' = peers /\ (net' = net \/ NetStep)  BY <1>8 DEF PeerResponse, Call
<1>9. ASSUME NEW p \in P2pPeers, NEW limited \in BOOLEAN, NEW kind \in {"inference", "claim"}, PeerRequest(p, limited, kind)
      PROVE  peers' = peers /\ NetStep  BY <1>9 DEF PeerRequest
<1>10. CASE \/ CheckTimeouts \/ StartBootstrap \/ BootstrapEnds \/ Republish \/ CleanupRecords \/ Shutdown \/ TakeEvent
            \/ \E k \in P2pKeys : RecordExpires(k)
  <2>1. peers' = peers /\ (net' = net \/ NetStep)
    BY <1>10 DEF CheckTimeouts, StartBootstrap, BootstrapEnds, Republish, CleanupRecords, Shutdown, TakeEvent, RecordExpires
  <2> QED BY <1>2, <1>3, <2>1
<1> QED BY <1>2, <1>3, <1>4, <1>5, <1>6, <1>7, <1>8, <1>9, <1>10 DEF P2pNext, p2pVars

-----------------------------------------------------------------------------
(* The components side by side.                                            *)

\* A step is one of the component in focus, and the focus stays.
LEMMA FocusStep ==
    ASSUME [SumNext]_sumVars
    PROVE  /\ focus' = focus
           /\ focus = "registrars" => [RgNext]_rgVars
           /\ focus = "host" => [HostNext]_hostVars
           /\ focus = "jobs" => [PipeNext]_pipeVars
           /\ focus = "records" => [RecNext]_recVars
           /\ focus = "chain" => [CcNext]_ccVars
           /\ focus = "submission" => [SubNext]_subVars
           /\ focus = "fees" => [FeeNext]_feeVars
           /\ focus = "withdrawals" => [WNext]_wVars
           /\ focus = "claims" => [ClNext]_clVars
           /\ focus = "p2p" => [P2pNext]_p2pVars
           /\ focus = "files" => [MsNext]_msVars
           /\ focus = "updates" => [UpdNext]_updater
           /\ focus = "private" => [PmNext]_pmVars
           /\ focus = "proofs" => [EzNext]_ezVars
  BY Zenon DEF SumNext, sumVars

EconomyInv ==
    /\ focus = "registrars" => RgInv
    /\ focus = "host" => HostInv
    /\ focus = "jobs" => PipeInv
    /\ focus = "records" => RecInv
    /\ focus = "chain" => CcInv
    /\ focus = "submission" => SubInv
    /\ focus = "fees" => FeeInv
    /\ focus = "withdrawals" => WInv
    /\ focus = "claims" => ClInv
    /\ focus = "p2p" => P2pInv
    /\ focus = "files" => MsInv
    /\ focus = "updates" => UpdInv
    /\ focus = "private" => PmInv
    /\ focus = "proofs" => EzInv

LEMMA EconomyInitial == SumInit => EconomyInv
  BY RgInitial, HostInitial, PipeInitial, RecInitial, CcInitial, SubInitial, FeeInitial, WInitial, ClInitial,
     P2pInitial, MsInitial, UpdInitial, PmInitial, EzInitial, Zenon DEF SumInit, EconomyInv

LEMMA EconomyStep == EconomyInv /\ [SumNext]_sumVars => EconomyInv'
<1> SUFFICES ASSUME EconomyInv, [SumNext]_sumVars PROVE EconomyInv'  OBVIOUS
<1>1. focus = "registrars" => RgInv'  BY FocusStep, RgStep DEF EconomyInv
<1>2. focus = "host" => HostInv'  BY FocusStep, HostStep DEF EconomyInv
<1>3. focus = "jobs" => PipeInv'  BY FocusStep, PipeStep DEF EconomyInv
<1>4. focus = "records" => RecInv'  BY FocusStep, RecStep DEF EconomyInv
<1>5. focus = "chain" => CcInv'  BY FocusStep, CcStep DEF EconomyInv
<1>6. focus = "submission" => SubInv'  BY FocusStep, SubStep DEF EconomyInv
<1>7. focus = "fees" => FeeInv'  BY FocusStep, FeeStep DEF EconomyInv
<1>8. focus = "withdrawals" => WInv'  BY FocusStep, WStep DEF EconomyInv
<1>9. focus = "claims" => ClInv'  BY FocusStep, ClStep DEF EconomyInv
<1>10. focus = "p2p" => P2pInv'  BY FocusStep, P2pStep DEF EconomyInv
<1>11. focus = "files" => MsInv'  BY FocusStep, MsStep DEF EconomyInv
<1>12. focus = "updates" => UpdInv'  BY FocusStep, UpdStep DEF EconomyInv
<1>13. focus = "private" => PmInv'  BY FocusStep, PmStep DEF EconomyInv
<1>14. focus = "proofs" => EzInv'  BY FocusStep, EzStep DEF EconomyInv
<1> QED BY <1>1, <1>2, <1>3, <1>4, <1>5, <1>6, <1>7, <1>8, <1>9, <1>10, <1>11, <1>12, <1>13, <1>14, FocusStep DEF EconomyInv

\* The status, the warnings, the list and the health agree with the chain in
\* every reachable state (registration_monitor.rs, registry_monitor.rs,
\* multi_chain_registrar.rs, host/registration.rs).
THEOREM RegistrationsFollowTheChain == SumSpec => []RegistrationsAgree
<1>1. EconomyInv => RegistrationsAgree  BY RgSafe, HostSafe DEF EconomyInv, RegistrationsAgree
<1> QED BY <1>1, EconomyInitial, EconomyStep, PTL DEF SumSpec

\* No unit is made or lost, whatever the amounts and however the tasks overlap: fees and
\* their shares, splits, accounts and withdrawals add up, what was cancelled is never paid,
\* and no claim is made below its cost (fees.rs, payment_distribution.rs, payment_claim.rs,
\* withdrawals.rs, job_claim.rs, revenue.rs, tracker.rs).
THEOREM MoneyIsConserved == SumSpec => []MoneyConserved
<1>1. EconomyInv => MoneyConserved
  BY FeeSafe, WSafe, ClSafe, RevSafe, PayLogSafe DEF EconomyInv, RecInv, MoneyConserved
<1> QED BY <1>1, EconomyInitial, EconomyStep, PTL DEF SumSpec

\* Whatever fails in whichever worker, the slots in use are those of the jobs
\* that hold one, and a result that was submitted or is named by the metadata
\* is stored (job_processor.rs, job_claim.rs, availability.rs, storage.rs).
THEOREM JobsAreKept == SumSpec => []JobsKept
<1>1. EconomyInv => JobsKept  BY PipeSafe, HostSafe, PackSafe DEF EconomyInv, RecInv, JobsKept
<1> QED BY <1>1, EconomyInitial, EconomyStep, PTL DEF SumSpec

\* No event of a job is passed over, a confirmed transaction is deep enough,
\* the stream of blocks is in order, retries are bounded, and the proofs the
\* chain and the cache name are stored, for chains of any length
\* (contracts/client.rs, monitor.rs, proofs.rs, checkpoint_manager.rs).
THEOREM ChainViewIsKept == SumSpec => []ChainViewKept
<1>1. EconomyInv => ChainViewKept  BY CcSafe, SubSafe DEF EconomyInv, ChainViewKept
<1> QED BY <1>1, EconomyInitial, EconomyStep, PTL DEF SumSpec

\* What is used was checked before: files and models before they serve, keys and proofs
\* before they are cached or accepted, updates before they replace a version, requests to
\* private models within their limits and consents; and no place of a peer is leaked
\* (models/*.rs, ezkl/*.rs, crypto/ezkl/*.rs, p2p/*.rs, contracts/model_registry.rs,
\* payments/validation.rs).
THEOREM NothingIsUsedUnchecked == SumSpec => []CheckedBeforeUse
<1>1. EconomyInv => CheckedBeforeUse
  BY CcSafe, MsSafe, UpdSafe, PmSafe, EzSafe, ValSafe DEF EconomyInv, P2pInv, RecInv, CheckedBeforeUse
<1> QED BY <1>1, EconomyInitial, EconomyStep, PTL DEF SumSpec

\* The claims, the updater, the private models, the proofs, the proof submission, the
\* registrars, the clients of the chain and the model files keep their types.
THEOREM EconomyIsWellTyped == SumSpec => []EconomyTypes
<1>1. EconomyInv => EconomyTypes
  BY ClSafe, UpdSafe, PmSafe, EzSafe, SubSafe, RgSafe, CcSafe, MsSafe DEF EconomyInv, EconomyTypes
<1> QED BY <1>1, EconomyInitial, EconomyStep, PTL DEF SumSpec

=============================================================================
